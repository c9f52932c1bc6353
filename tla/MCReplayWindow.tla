--------------------------- MODULE MCReplayWindow ---------------------------
(***************************************************************************)
(* ReplayWindow on a small ring.  The constants keep the order the code's  *)
(* have: ClearLimit < Window < Block, and counters run past two block      *)
(* boundaries and past RejectLimit.                                        *)
(***************************************************************************)
EXTENDS ReplayWindow

=============================================================================
