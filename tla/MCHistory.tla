----------------------------- MODULE MCHistory ------------------------------
(* Two models of Ark, one of OpenRouter, two tool calls at a time, a       *)
(* history of three messages out of six.                                   *)
EXTENDS History, TLC

CONSTANTS ark1, ark2, router, a, b

MCModel == {ark1, ark2, router}
MCStateless == {router}
MCCallId == {a, b}

Alike == Permutations({ark1, ark2}) \cup Permutations(MCCallId)
=============================================================================
