----------------------------- MODULE MCCommands -----------------------------
(***************************************************************************)
(* Small instances of Commands.  "small" goes inline, "huge" to an engine; *)
(* every object shares a bucket.                                           *)
(***************************************************************************)
EXTENDS Commands, TLC

CONSTANTS empty, small, large, huge, torn1, bucket1

MCSize == [x \in Bytes |-> CASE x = empty -> 0 [] x = small -> 1 [] x = large -> 4
                             [] x = huge -> 5 [] x = torn1 -> 0]
MCFlate == [x \in Bytes |-> CASE x = empty -> 1 [] x = small -> 2 [] x = large -> 2
                              [] x = huge -> 4 [] x = torn1 -> 1]
MCOneBucket == [id \in ObjIds |-> bucket1]
MCTouchFlags == {{}, {"create"}, {"create", "trunc"}}
MCMountFlags == {{}, {"create"}, {"create", "excl"}}
MCKinds == {"upload", "download", "evict", "touch", "mv", "rm", "mount"}
Symmetric == Permutations(Clients)
=============================================================================
