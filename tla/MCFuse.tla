------------------------------- MODULE MCFuse -------------------------------
(***************************************************************************)
(* A small instance of Fuse: a directory with two names.                   *)
(***************************************************************************)
EXTENDS Fuse, TLC

Symmetric == Permutations(Users) \union Permutations(Names)
=============================================================================
