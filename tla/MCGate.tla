------------------------------- MODULE MCGate -------------------------------
(***************************************************************************)
(* Gate with more pool suites than slots and two suites that rebuild, so   *)
(* that a suite waits for a slot and a killed make meets the next suite.   *)
(***************************************************************************)
EXTENDS Gate

=============================================================================
