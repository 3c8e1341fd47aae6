---------------------------- MODULE Conversation ----------------------------
(***************************************************************************)
(* The messages of ONE session, as the next turn is to replay them: what   *)
(* the requests that write the log (ChatTurn) promise the models that read *)
(* it (History).  A user may speak at any time, also when the turn before  *)
(* was interrupted half way; a model replies to a user or to the results   *)
(* it asked for, when it has all of them; a result answers a call of the   *)
(* last reply, and no call has two.                                        *)
(***************************************************************************)
EXTENDS Integers, Sequences

CONSTANTS
  CallId,   \* identifiers of tool calls
  Message   \* records with a role and the calls that are asked or answered

VARIABLES
  said,  \* the messages
  open   \* the session exists

vars == <<said, open>>

Init == said = <<>> /\ open = TRUE

\* The last reply waits for the result of call c.
Waits(c) ==
  \E i \in DOMAIN said :
    /\ said[i].role = "assistant" /\ c \in said[i].calls
    /\ \A k \in i + 1 .. Len(said) : said[k].role = "tool" /\ c \notin said[k].calls

Say(m) == open /\ said' = Append(said, m) /\ UNCHANGED open

Ask(m) == m.role = "user" /\ m.calls = {} /\ Say(m)

Reply(m) ==
  /\ m.role = "assistant"
  /\ said # <<>> /\ said[Len(said)].role # "assistant"
  /\ \A c \in CallId : ~ Waits(c)
  /\ Say(m)

Result(m) ==
  /\ m.role = "tool"
  /\ \E c \in CallId : m.calls = {c} /\ Waits(c)
  /\ Say(m)

\* The messages go with the session.
End == open /\ open' = FALSE /\ said' = <<>>

Next == (\E m \in Message : Ask(m) \/ Reply(m) \/ Result(m)) \/ End

Spec == Init /\ [][Next]_vars
=============================================================================
