----------------------------- MODULE TokenCache -----------------------------
(***************************************************************************)
(* ServiceTokenCache of internal/integration/tongjiapi/service_token.go:   *)
(* the process-wide cache of the service's own access token.  Every call   *)
(* checks the cached token with the platform before it uses it, checks run *)
(* outside the mutex, and one call at a time refreshes the token while the *)
(* others wait on a channel.                                               *)
(*                                                                         *)
(* One action per stretch of code between two points where other           *)
(* goroutines can run: a critical section, a network answer, a wake-up.    *)
(* A channel is named by the generation at which it was made.              *)
(***************************************************************************)
EXTENDS Integers

CONSTANTS
  Request,   \* calls of AccessToken
  Token,     \* what the platform can issue
  NoToken,   \* ""
  NoChannel  \* nil

ASSUME DistinctNull ==
  /\ NoToken \notin Token
  /\ NoChannel \notin Nat

VARIABLES
  token,       \* cache.token
  generation,  \* cache.generation
  refreshing,  \* cache.refreshing
  closed,      \* the channels that have been closed
  pc,          \* where each call is
  local,       \* its local variables: the token and the generation it read
               \* under the mutex, the outcome of its identity check, and
               \* the channel it waits on
  answer,      \* what it returned
  cancelled,   \* the calls whose context has ended
  fresh,       \* the tokens whose local lifetime is not over
  verified     \* history: tokens each call itself saw accepted

cache == <<token, generation, refreshing, closed>>
world == <<cancelled, fresh>>
vars == <<cache, pc, local, answer, world, verified>>

Locals ==
  [token : Token \cup {NoToken}, generation : Nat, channel : Nat,
   verdict : {"none", "absent", "ok", "rejected", "aborted"}]

NoLocals ==
  [token |-> NoToken, generation |-> 0, channel |-> 0, verdict |-> "none"]

TypeOK ==
  /\ token \in Token \cup {NoToken}
  /\ generation \in Nat
  /\ refreshing \in {NoChannel, generation}
  /\ closed = 0 .. generation - 1
  /\ pc \in [Request -> {"idle", "top", "waiting", "checking", "checked",
                         "fetching", "confirming", "done"}]
  /\ local \in [Request -> Locals]
  /\ answer \in [Request -> Token \cup {NoToken}]
  /\ cancelled \subseteq Request
  /\ fresh \subseteq Token
  /\ verified \in [Request -> SUBSET Token]

\* The cache is empty or holds a token of an earlier refresh, which may be
\* out of date by now.
Init ==
  /\ token \in Token \cup {NoToken}
  /\ generation = 0
  /\ refreshing = NoChannel
  /\ closed = {}
  /\ pc = [r \in Request |-> "idle"]
  /\ local = [r \in Request |-> NoLocals]
  /\ answer = [r \in Request |-> NoToken]
  /\ cancelled = {}
  /\ fresh \in SUBSET ({token} \ {NoToken})
  /\ verified = [r \in Request |-> {}]

-----------------------------------------------------------------------------
Goto(r, place) == pc' = [pc EXCEPT ![r] = place]

\* A new round of the loop, or the return, forgets the local variables.
Restart(r) ==
  /\ Goto(r, "top")
  /\ local' = [local EXCEPT ![r] = NoLocals]

Return(r, value) ==
  /\ Goto(r, "done")
  /\ local' = [local EXCEPT ![r] = NoLocals]
  /\ answer' = [answer EXCEPT ![r] = value]

Call(r) ==
  /\ pc[r] = "idle"
  /\ Goto(r, "top")
  /\ UNCHANGED <<cache, local, answer, world, verified>>

\* A refresh is under way: wait for its channel without the mutex.
Join(r) ==
  /\ pc[r] = "top"
  /\ r \notin cancelled
  /\ refreshing # NoChannel
  /\ local' = [local EXCEPT ![r].channel = refreshing]
  /\ Goto(r, "waiting")
  /\ UNCHANGED <<cache, answer, world, verified>>

Wake(r) ==
  /\ pc[r] = "waiting"
  /\ local[r].channel \in closed
  /\ Restart(r)
  /\ UNCHANGED <<cache, answer, world, verified>>

\* Read the cache under the mutex.  Without a usable token nothing is sent
\* to the platform.
Snapshot(r) ==
  /\ pc[r] = "top"
  /\ r \notin cancelled
  /\ refreshing = NoChannel
  /\ LET usable == token \in fresh IN
       /\ Goto(r, IF usable THEN "checking" ELSE "checked")
       /\ local' = [local EXCEPT ![r] =
            [token |-> token, generation |-> generation, channel |-> 0,
             verdict |-> IF usable THEN "none" ELSE "absent"]]
  /\ UNCHANGED <<cache, answer, world, verified>>

\* The answer of checkServiceIdentity: the platform knows the token; it does
\* not, or cannot be reached; the context of the call has ended.  A platform
\* may change its mind at any time, so every answer is possible.
Check(r) ==
  /\ pc[r] = "checking"
  /\ Goto(r, "checked")
  /\ \E verdict \in {"ok", "rejected", "aborted"} :
       /\ verdict = "aborted" => r \in cancelled
       /\ local' = [local EXCEPT ![r].verdict = verdict]
       /\ verified' = [verified EXCEPT ![r] =
                         IF verdict = "ok" THEN @ \cup {local[r].token} ELSE @]
  /\ UNCHANGED <<cache, answer, world>>

\* ctx.Err() at the head of the loop, in the wait, or after the check.
GiveUp(r) ==
  /\ pc[r] \in {"top", "waiting", "checked"}
  /\ r \in cancelled
  /\ Return(r, NoToken)
  /\ UNCHANGED <<cache, world, verified>>

\* MUTANT of Current: only a refresh that is still under way is noticed.
CurrentIfNoRefresh(r) == refreshing = NoChannel

\* The cache is still the one the call took its snapshot of.
Current(r) == generation = local[r].generation /\ refreshing = NoChannel

Discard(r) ==
  /\ pc[r] = "checked"
  /\ r \notin cancelled
  /\ ~Current(r)
  /\ Restart(r)
  /\ UNCHANGED <<cache, answer, world, verified>>

\* MUTANT of Usable: a check that failed does not matter while the token is fresh.
UsableUnchecked(r) == local[r].token \in fresh

\* The check succeeded and the token did not expire meanwhile.
Usable(r) == local[r].verdict = "ok" /\ local[r].token \in fresh

ReturnCached(r) ==
  /\ pc[r] = "checked"
  /\ r \notin cancelled
  /\ Current(r)
  /\ Usable(r)
  /\ Return(r, local[r].token)
  /\ UNCHANGED <<cache, world, verified>>

\* MUTANT of BeginRefresh: the context is not consulted after the check.
BeginRefreshCancelled(r) ==
  /\ pc[r] = "checked"
  /\ Current(r)
  /\ ~Usable(r)
  /\ refreshing' = generation
  /\ token' = NoToken
  /\ Goto(r, "fetching")
  /\ UNCHANGED <<generation, closed, local, answer, world, verified>>

\* MUTANT of BeginRefresh: refreshes without looking at the cache again.
BeginRefreshBlind(r) ==
  /\ pc[r] = "checked"
  /\ r \notin cancelled
  /\ ~Usable(r)
  /\ refreshing' = generation
  /\ token' = NoToken
  /\ Goto(r, "fetching")
  /\ UNCHANGED <<generation, closed, local, answer, world, verified>>

\* Become the one call that refreshes, and empty the cache.
BeginRefresh(r) ==
  /\ pc[r] = "checked"
  /\ r \notin cancelled
  /\ Current(r)
  /\ ~Usable(r)
  /\ refreshing' = generation
  /\ token' = NoToken
  /\ Goto(r, "fetching")
  /\ UNCHANGED <<generation, closed, local, answer, world, verified>>

\* fetchServiceToken: the platform issues a token, which is checked as well.
Issue(r) ==
  /\ pc[r] = "fetching"
  /\ \E k \in Token : local' = [local EXCEPT ![r].token = k]
  /\ Goto(r, "confirming")
  /\ UNCHANGED <<cache, answer, world, verified>>

\* MUTANT of EndRefresh: the waiters are woken, the generation stays.
EndRefreshSameGeneration(k) ==
  /\ token' = k
  /\ refreshing' = NoChannel
  /\ closed' = closed \cup {refreshing}
  /\ UNCHANGED generation

\* MUTANT of EndRefresh: a failed refresh does not close the channel.
EndRefreshSilentFailure(k) ==
  /\ token' = k
  /\ generation' = generation + 1
  /\ refreshing' = NoChannel
  /\ closed' = IF k = NoToken THEN closed ELSE closed \cup {refreshing}

\* Store the outcome, advance the generation and wake the waiters.
EndRefresh(k) ==
  /\ token' = k
  /\ generation' = generation + 1
  /\ refreshing' = NoChannel
  /\ closed' = closed \cup {refreshing}

Publish(r) ==
  /\ pc[r] = "confirming"
  /\ EndRefresh(local[r].token)
  /\ fresh' = fresh \cup {local[r].token}
  /\ verified' = [verified EXCEPT ![r] = @ \cup {local[r].token}]
  /\ Return(r, local[r].token)
  /\ UNCHANGED cancelled

\* The platform refuses or cannot be reached, or the context has ended.
FetchFails(r) ==
  /\ pc[r] \in {"fetching", "confirming"}
  /\ EndRefresh(NoToken)
  /\ Return(r, NoToken)
  /\ UNCHANGED <<world, verified>>

-----------------------------------------------------------------------------
(* The surroundings.                                                       *)

Cancel(r) ==
  /\ pc[r] \notin {"idle", "done"}
  /\ cancelled' = cancelled \cup {r}
  /\ UNCHANGED <<cache, pc, local, answer, fresh, verified>>

\* The lifetime noted with a token (at most two hours) runs out.
Expire(k) ==
  /\ fresh' = fresh \ {k}
  /\ UNCHANGED <<cache, pc, local, answer, cancelled, verified>>

Step(r) ==
  \/ Call(r) \/ Join(r) \/ Wake(r) \/ Snapshot(r) \/ Check(r) \/ GiveUp(r)
  \/ Discard(r) \/ ReturnCached(r) \/ BeginRefresh(r)
  \/ Issue(r) \/ Publish(r) \/ FetchFails(r)

Next ==
  \/ \E r \in Request : Step(r) \/ Cancel(r)
  \/ \E k \in Token : Expire(k)

Spec == Init /\ [][Next]_vars

\* Goroutines that can run do run, and every network call has an answer
\* (the HTTP client has a timeout).  Calls need not begin.
FairSpec ==
  Spec /\ \A r \in Request : WF_vars(Step(r) /\ pc[r] # "idle")

-----------------------------------------------------------------------------
Fetchers == {r \in Request : pc[r] \in {"fetching", "confirming"}}

(***************************************************************************)
(* "At any time only one call refreshes" (service_token.go:44), and while  *)
(* it does the cache offers no token and shows that a refresh is running.  *)
(***************************************************************************)
SingleFlight ==
  /\ \A r, s \in Fetchers : r = s
  /\ Fetchers # {} <=> refreshing # NoChannel
  /\ refreshing # NoChannel => token = NoToken

(***************************************************************************)
(* "The service identity is checked before every use" (:43): the token a   *)
(* call returns is one that this very call saw the platform accept.        *)
(***************************************************************************)
ReturnedWasVerified ==
  \A r \in Request : answer[r] # NoToken => answer[r] \in verified[r]

\* A call that returns after a check outside the mutex returns what the
\* cache holds at that moment.
ReturnsCurrent(r) ==
  pc[r] = "checked" /\ answer'[r] # answer[r] =>
    answer'[r] = token /\ token \in fresh

(***************************************************************************)
(* A check that took long never brings back a token that has meanwhile     *)
(* been replaced, withdrawn or outlived (:76-:86).                         *)
(***************************************************************************)
NoStaleReturn == [][\A r \in Request : ReturnsCurrent(r)]_vars

\* The cached token is withdrawn by a call that checked that very token, and
\* whose check was not merely cut short.
Evicts(r) ==
  /\ pc[r] = "checked" /\ pc'[r] = "fetching"
  /\ local[r].token = token
  /\ local[r].verdict # "aborted"

(***************************************************************************)
(* A cancelled request, or one that holds an outdated result, never        *)
(* empties the cache the other requests are using (:71).                   *)
(***************************************************************************)
NoWrongfulEviction ==
  [][token # NoToken /\ token' # token => \E r \in Request : Evicts(r)]_vars

(***************************************************************************)
(* A call that waits holds the channel of the refresh that is running, or  *)
(* one that has been closed: no refresh ends without waking it (:96).      *)
(***************************************************************************)
NoLostWaiter ==
  \A r \in Request : pc[r] = "waiting" =>
    local[r].channel \in closed \cup {refreshing}

(***************************************************************************)
(* The cache implements SharedToken.  What a call knows of the token is    *)
(* what its check said, as long as its snapshot is the cache's.            *)
(***************************************************************************)
Knows(r, verdict) ==
  pc[r] = "checked" /\ local[r].verdict = verdict /\ Current(r)

Trusted == {r \in Request : Knows(r, "ok")}
Doubted == {r \in Request : Knows(r, "rejected")}
Over == {r \in Request : pc[r] = "done"}

Shared == INSTANCE SharedToken WITH
  held <- token, trusted <- Trusted, doubted <- Doubted,
  replacing <- Fetchers, over <- Over

\* However checks, refreshes, expiries and cancellations interleave, the calls
\* see one token: a call is given it only while it is held, fresh and checked
\* by that call since it was stored, only the call whose check refused it or
\* that found none replaces it, and a call fails only when it is cancelled or
\* cannot replace the token itself (:58, :71-:86, :93).
SharesToken == Shared!Spec

(***************************************************************************)
(* Every call returns: a refresh that fails or is cancelled wakes the      *)
(* waiters, and one of them takes over (:58, :95).                         *)
(***************************************************************************)
EveryCallReturns == \A r \in Request : pc[r] = "top" ~> pc[r] = "done"
=============================================================================
