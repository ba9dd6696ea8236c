---------------------------- MODULE MCFilterChain ----------------------------
(***************************************************************************)
(* The chains that Upload makes, with and without flate and sio.           *)
(***************************************************************************)
EXTENDS FilterChain

MCChains == {<<>>, <<"flate">>, <<"sio">>, <<"flate", "sio">>}
=============================================================================
