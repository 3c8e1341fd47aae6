----------------------------- MODULE MCChatTurn -----------------------------
(* Two turns, one deletion, two tool calls at a time, two model replies.   *)
(* The turn that uses tools may lose its lock once it has its answer.      *)
EXTENDS ChatTurn

CONSTANTS t1, t2, d

MCLostAt == {<<t1, "answered">>}
=============================================================================
