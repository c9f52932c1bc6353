------------------------------ MODULE MCTimer ------------------------------
(***************************************************************************)
(* Timer with the thresholds scaled down in the order the code has them:   *)
(* Keepalive < HsTimeout < Day % Word < Rekey < Expire < Word < Day, with  *)
(* room for a pass and two torn $A2's between HsTimeout and Day % Word.    *)
(***************************************************************************)
EXTENDS Timer

=============================================================================
