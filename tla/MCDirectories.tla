--------------------------- MODULE MCDirectories ---------------------------
(***************************************************************************)
(* A small instance of Directories: two paths at the top, and one below     *)
(* each of them.                                                           *)
(***************************************************************************)
EXTENDS Directories, TLC

CONSTANTS a, b, c

MCPaths == {<<a>>, <<b>>, <<a, c>>, <<b, c>>}
MCOpenFlags == {{}, {"create"}, {"create", "excl"}, {"create", "trunc"}}
Symmetric == Permutations(Users) \union Permutations({a, b})
=============================================================================
