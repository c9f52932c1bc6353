------------------------------- MODULE MCUci -------------------------------
(* Uci with replies of up to three units, in blocks of two, and a pool of   *)
(* two sockets.                                                             *)
EXTENDS Uci
=============================================================================
