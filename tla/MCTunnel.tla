------------------------------ MODULE MCTunnel ------------------------------
(***************************************************************************)
(* A small instance of Tunnel: two peers on UCI, with two loads of WG.CFG  *)
(* and two initiations, one peer on ip65, with one and three.  Of the two  *)
(* peers it is p1 that moves: they differ in nothing but their names.      *)
(***************************************************************************)
EXTENDS Tunnel, TLC

CONSTANTS p1, p2, e1, e2

TwoHomes == (p1 :> e1) @@ (p2 :> e2)
Inits == (TRUE :> 2) @@ (FALSE :> 3)
Loads == (TRUE :> 2) @@ (FALSE :> 1)

Bounds == at[p2] = e2 /\ (connected \/ cfg.pub # p2)

=============================================================================
