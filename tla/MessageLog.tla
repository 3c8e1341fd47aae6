----------------------------- MODULE MessageLog -----------------------------
(***************************************************************************)
(* What session.Store promises of the messages of ONE session              *)
(* (internal/agentic/session/session.go), whichever store is behind it: an *)
(* Append takes effect at one moment, while the session exists; its        *)
(* message gets the next sequence and keeps it; a bounded log forgets its  *)
(* oldest messages and no others; and a caller is only given a sequence    *)
(* under which its message was stored.                                     *)
(***************************************************************************)
EXTENDS Integers

CONSTANTS
  Writer,   \* calls of Append, each with a message of its own
  MaxItems  \* messages that a bounded log keeps

VARIABLES
  bounded,  \* the log is bounded
  open,     \* the session exists
  count,    \* how many messages have been appended
  kept,     \* those it keeps, by sequence
  ended,    \* the calls that have ended
  given     \* the sequence each has been given, or 0

vars == <<bounded, open, count, kept, ended, given>>

Init ==
  /\ bounded \in BOOLEAN
  /\ open = TRUE
  /\ count = 0
  /\ kept = <<>>
  /\ ended = {}
  /\ given = [w \in Writer |-> 0]

\* The first message kept of n.
Oldest(n) == IF bounded /\ n > MaxItems THEN n - MaxItems + 1 ELSE 1

\* The caller may not hear of it.
Append(w) ==
  /\ open /\ w \notin ended
  /\ count' = count + 1
  /\ kept' = [n \in Oldest(count') .. count' |->
                IF n = count' THEN w ELSE kept[n]]
  /\ ended' = ended \cup {w}
  /\ given' \in {given, [given EXCEPT ![w] = count']}
  /\ UNCHANGED <<bounded, open>>

\* A call that stores nothing is given nothing.
Fail(w) ==
  /\ w \notin ended
  /\ ended' = ended \cup {w}
  /\ UNCHANGED <<bounded, open, count, kept, given>>

\* The messages go with the session.
End ==
  /\ open
  /\ open' = FALSE
  /\ count' = 0
  /\ kept' = <<>>
  /\ UNCHANGED <<bounded, ended, given>>

Next == (\E w \in Writer : Append(w) \/ Fail(w)) \/ End

Spec == Init /\ [][Next]_vars
=============================================================================
