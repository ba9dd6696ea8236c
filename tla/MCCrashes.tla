------------------------------ MODULE MCCrashes ------------------------------
(***************************************************************************)
(* A small instance of Crashes.  "small" goes inline, "huge" to an engine. *)
(* The objects of one content share a bucket, so that the loss of one      *)
(* bucket leaves the other one in use.                                     *)
(***************************************************************************)
EXTENDS Crashes, TLC

CONSTANTS empty, small, large, huge, torn1, bucket1, bucket2

MCSize == [x \in Bytes |-> CASE x = empty -> 0 [] x = small -> 1 [] x = large -> 4
                             [] x = huge -> 5 [] x = torn1 -> 0]
MCFlate == [x \in Bytes |-> CASE x = empty -> 1 [] x = small -> 2 [] x = large -> 2
                              [] x = huge -> 4 [] x = torn1 -> 1]
MCTwoBuckets == [id \in ObjIds |-> IF id[2] = huge THEN bucket1 ELSE bucket2]
MCOpenFlags == {{}, {"create", "trunc"}}
Symmetric == Permutations(Clients)
=============================================================================
