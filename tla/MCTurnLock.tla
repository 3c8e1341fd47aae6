----------------------------- MODULE MCTurnLock -----------------------------
(* TLC instance of TurnLock: a turn and a deletion, or two turns.          *)
EXTENDS TurnLock
=============================================================================
