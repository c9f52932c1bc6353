------------------------------ MODULE MCTai64n ------------------------------
(***************************************************************************)
(* Tai64n with a day of a few seconds, a second of two jiffies, a carry    *)
(* out of the low byte every second jiffy and one out of the low two every *)
(* fourth.                                                                 *)
(***************************************************************************)
EXTENDS Tai64n

=============================================================================
