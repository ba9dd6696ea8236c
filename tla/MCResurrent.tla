---------------------------- MODULE MCResurrent ----------------------------
(***************************************************************************)
(* Small instances of Resurrent.  "small" goes inline, "large" does only   *)
(* when deflated, "huge" goes to an engine; every object shares a bucket.  *)
(***************************************************************************)
EXTENDS Resurrent, TLC

CONSTANTS empty, small, large, huge, torn1, bucket1

MCSize == [x \in Bytes |-> CASE x = empty -> 0 [] x = small -> 1 [] x = large -> 4
                             [] x = huge -> 5 [] x = torn1 -> 0]
MCFlate == [x \in Bytes |-> CASE x = empty -> 1 [] x = small -> 2 [] x = large -> 2
                              [] x = huge -> 4 [] x = torn1 -> 1]
MCOneBucket == [id \in ObjIds |-> bucket1]
MCOpenFlags == {{}, {"create", "trunc"}}
Symmetric == Permutations(Clients)
=============================================================================
