---------------------------- MODULE MCLifecycle ----------------------------
(***************************************************************************)
(* Small instances of Lifecycle: two objects that share a bucket file, and *)
(* one in a bucket file of its own.                                        *)
(***************************************************************************)
EXTENDS Lifecycle, TLC

CONSTANTS o1, o2, o3, b1, b2

MCBucketOf == [o \in Objects |-> IF o = o3 THEN b2 ELSE b1]
Symmetric == Permutations(Processes) \union Permutations({o1, o2})
=============================================================================
