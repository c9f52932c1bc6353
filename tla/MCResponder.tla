---------------------------- MODULE MCResponder -----------------------------
(***************************************************************************)
(* Responder with two addresses and two lines per key: enough for a line   *)
(* before, in and after the commit of a second handshake.                  *)
(***************************************************************************)
EXTENDS Responder

=============================================================================
