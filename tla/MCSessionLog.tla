---------------------------- MODULE MCSessionLog ----------------------------
(* A few appends under one client that reads page by page.                 *)
EXTENDS SessionLog, TLC

AnyWriter == Permutations(Writer)
=============================================================================
