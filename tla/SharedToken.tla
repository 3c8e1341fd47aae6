---------------------------- MODULE SharedToken ----------------------------
(***************************************************************************)
(* What ServiceTokenCache promises the calls that share its token: a call  *)
(* is given the token that is held, while it lasts, and after it has seen  *)
(* that very token accepted; one call at a time replaces the token, and    *)
(* only for a reason of its own; and no call fails for another's sake.     *)
(*                                                                         *)
(* There are no snapshots and no generations here: what a call has learned *)
(* about a token is gone with the token, even if the next one is the same. *)
(***************************************************************************)
CONSTANTS Request, Token, NoToken

VARIABLES
  held,       \* the token, or NoToken
  fresh,      \* the tokens whose lifetime is not over
  trusted,    \* the calls that have seen the held token accepted
  doubted,    \* those that have seen it refused
  replacing,  \* the call that replaces it, if any
  cancelled,  \* the calls that are cancelled
  over,       \* the calls that have returned
  answer      \* what each has returned

vars ==
  <<held, fresh, trusted, doubted, replacing, cancelled, over, answer>>

Init ==
  /\ held \in Token \cup {NoToken}
  /\ fresh \subseteq {held} \ {NoToken}
  /\ trusted = {}
  /\ doubted = {}
  /\ replacing = {}
  /\ cancelled = {}
  /\ over = {}
  /\ answer = [r \in Request |-> NoToken]

-----------------------------------------------------------------------------
\* The platform may change its mind at any time.
Check(r) ==
  /\ r \notin over
  /\ held # NoToken
  /\ \/ trusted' = trusted \cup {r} /\ UNCHANGED doubted
     \/ doubted' = doubted \cup {r} /\ UNCHANGED trusted
  /\ UNCHANGED <<held, fresh, replacing, cancelled, over, answer>>

Return(r, k) ==
  /\ r \notin over
  /\ over' = over \cup {r}
  /\ answer' = [answer EXCEPT ![r] = k]

Use(r) ==
  /\ r \in trusted \ cancelled
  /\ held \in fresh
  /\ Return(r, held)
  /\ trusted' = trusted \ {r}
  /\ UNCHANGED <<held, fresh, doubted, replacing, cancelled>>

\* There is no token, its lifetime is over, or the call has seen it refused.
Withdraw(r) ==
  /\ r \notin over \cup cancelled
  /\ replacing = {}
  /\ held \notin fresh \/ r \in doubted
  /\ replacing' = {r}
  /\ held' = NoToken
  /\ trusted' = {}
  /\ doubted' = {}
  /\ UNCHANGED <<fresh, cancelled, over, answer>>

Replace(r) ==
  /\ r \in replacing
  /\ held' \in Token
  /\ fresh' = fresh \cup {held'}
  /\ replacing' = {}
  /\ Return(r, held')
  /\ UNCHANGED <<trusted, doubted, cancelled>>

\* The call that was to replace the token fails, and it alone.
Fail(r) ==
  /\ r \in replacing
  /\ replacing' = {}
  /\ Return(r, NoToken)
  /\ UNCHANGED <<held, fresh, trusted, doubted, cancelled>>

GiveUp(r) ==
  /\ r \in cancelled \ replacing
  /\ Return(r, NoToken)
  /\ trusted' = trusted \ {r}
  /\ doubted' = doubted \ {r}
  /\ UNCHANGED <<held, fresh, replacing, cancelled>>

Cancel(r) ==
  /\ r \notin over
  /\ cancelled' = cancelled \cup {r}
  /\ UNCHANGED <<held, fresh, trusted, doubted, replacing, over, answer>>

Expire(k) ==
  /\ fresh' = fresh \ {k}
  /\ UNCHANGED <<held, trusted, doubted, replacing, cancelled, over, answer>>

Next ==
  \/ \E r \in Request :
       \/ Check(r) \/ Use(r) \/ Withdraw(r) \/ Replace(r) \/ Fail(r)
       \/ GiveUp(r) \/ Cancel(r)
  \/ \E k \in Token : Expire(k)

Spec == Init /\ [][Next]_vars
=============================================================================
