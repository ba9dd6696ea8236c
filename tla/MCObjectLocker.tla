--------------------------- MODULE MCObjectLocker ---------------------------
(***************************************************************************)
(* Three goroutines over two keys: one can hold while a second waits and a *)
(* third barges in.  Five channels: one per key and per goroutine, the     *)
(* most that can be referred to at a time.                                 *)
(***************************************************************************)
EXTENDS ObjectLocker

=============================================================================
