---------------------------- MODULE MCTurnServer ----------------------------
(***************************************************************************)
(* A small instance of TurnServer for TLC.                                 *)
(***************************************************************************)
EXTENDS TurnServer, TLC

CONSTANTS r1, r2, r3

Symmetry == Permutations(Requests)
=============================================================================
