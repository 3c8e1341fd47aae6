----------------------------- MODULE TurnLocker -----------------------------
(***************************************************************************)
(* What a TurnLocker promises the chat service about ONE session           *)
(* (internal/agentic/session/session.go): the turns of the session execute *)
(* one at a time.  With MayLose a turn can lose its exclusivity while it   *)
(* executes, which is what a lock kept alive by renewals can offer.        *)
(***************************************************************************)
CONSTANTS Turn,     \* every attempt to execute a turn of the session
          MayLose   \* can an executing turn lose its exclusivity?

VARIABLES executing,  \* the turns that hold a release function
          lost        \* those of them that are no longer protected

vars == <<executing, lost>>

Init == executing = {} /\ lost = {}

\* A turn starts when no protected turn executes.
Begin(t) ==
  /\ t \notin executing
  /\ executing = lost
  /\ executing' = executing \cup {t}
  /\ UNCHANGED lost

Lose(t) ==
  /\ MayLose
  /\ t \in executing \ lost
  /\ lost' = lost \cup {t}
  /\ UNCHANGED executing

End(t) ==
  /\ t \in executing
  /\ executing' = executing \ {t}
  /\ lost' = lost \ {t}

Next == \E t \in Turn : Begin(t) \/ Lose(t) \/ End(t)

Spec == Init /\ [][Next]_vars

=============================================================================
