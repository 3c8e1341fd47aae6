-------------------------- MODULE TokenCacheProofs --------------------------
(***************************************************************************)
(* Proofs about the service token cache, for any number of requests.       *)
(***************************************************************************)
EXTENDS TokenCache, TLAPS

(***************************************************************************)
(* What a call's locals say about the cache: a snapshot is never newer     *)
(* than the cache, and equals it while the generation stands still.        *)
(***************************************************************************)
LocalsOK ==
  \A r \in Request :
    /\ local[r].generation \in 0 .. generation
    /\ pc[r] \in {"checking", "confirming"} => local[r].token \in Token
    /\ pc[r] \in {"checking", "checked"} /\ Current(r) => local[r].token = token
    /\ pc[r] = "checked" /\ local[r].verdict = "ok" =>
         local[r].token \in verified[r]
    /\ pc[r] = "checked" /\ local[r].verdict = "aborted" => r \in cancelled
    /\ pc[r] # "done" => answer[r] = NoToken

IInv ==
  TypeOK /\ SingleFlight /\ LocalsOK /\ ReturnedWasVerified /\ NoLostWaiter

USE DistinctNull

-----------------------------------------------------------------------------
LEMMA TypeStep == TypeOK /\ LocalsOK /\ SingleFlight /\ [Next]_vars => TypeOK'
<1> SUFFICES ASSUME TypeOK, LocalsOK, SingleFlight, [Next]_vars
             PROVE  TypeOK'
  OBVIOUS
<1> USE DEF TypeOK, Locals, NoLocals, Goto, Restart, Return, EndRefresh, cache,
            world
<1>1. ASSUME NEW r \in Request, Step(r) PROVE TypeOK'
  <2>1. CASE Call(r)
    BY <2>1 DEF Call
  <2>2. CASE Join(r)
    BY <2>2 DEF Join
  <2>3. CASE Wake(r)
    BY <2>3 DEF Wake
  <2>4. CASE Snapshot(r)
    BY <2>4 DEF Snapshot
  <2>5. CASE Check(r)
    <3>1. PICK v \in {"ok", "rejected", "aborted"} :
            /\ local' = [local EXCEPT ![r].verdict = v]
            /\ verified' = [verified EXCEPT ![r] =
                             IF v = "ok" THEN @ \cup {local[r].token} ELSE @]
      BY <2>5 DEF Check
    <3>2. local[r].token \in Token
      BY <2>5 DEF Check, LocalsOK
    <3>3. verified' \in [Request -> SUBSET Token]
      BY <3>1, <3>2
    <3>4. local' \in [Request -> Locals]
      BY <3>1
    <3>5. QED
      BY <2>5, <3>3, <3>4 DEF Check
  <2>6. CASE GiveUp(r)
    BY <2>6 DEF GiveUp
  <2>7. CASE Discard(r)
    BY <2>7 DEF Discard
  <2>8. CASE ReturnCached(r)
    BY <2>8 DEF ReturnCached
  <2>9. CASE BeginRefresh(r)
    BY <2>9 DEF BeginRefresh
  <2>10. CASE Issue(r)
    <3>1. PICK k \in Token : local' = [local EXCEPT ![r].token = k]
      BY <2>10 DEF Issue
    <3>2. local' \in [Request -> Locals]
      BY <3>1
    <3>3. QED
      BY <2>10, <3>2 DEF Issue
  <2>11. CASE Publish(r)
    <3>1. refreshing = generation /\ local[r].token \in Token
      BY <2>11 DEF Publish, LocalsOK, SingleFlight, Fetchers
    <3>2. closed' = 0 .. generation' - 1
      BY <2>11, <3>1 DEF Publish
    <3>3. QED
      BY <2>11, <3>1, <3>2 DEF Publish
  <2>12. CASE FetchFails(r)
    <3>1. refreshing = generation
      BY <2>12 DEF FetchFails, SingleFlight, Fetchers
    <3>2. closed' = 0 .. generation' - 1
      BY <2>12, <3>1 DEF FetchFails
    <3>3. QED
      BY <2>12, <3>1, <3>2 DEF FetchFails
  <2>13. QED
    BY <1>1, <2>1, <2>2, <2>3, <2>4, <2>5, <2>6, <2>7, <2>8, <2>9, <2>10,
       <2>11, <2>12 DEF Step
<1>2. ASSUME NEW r \in Request, Cancel(r) PROVE TypeOK'
  BY <1>2 DEF Cancel
<1>3. ASSUME NEW k \in Token, Expire(k) PROVE TypeOK'
  BY <1>3 DEF Expire
<1>4. CASE UNCHANGED vars
  BY <1>4 DEF vars
<1>5. QED
  BY <1>1, <1>2, <1>3, <1>4 DEF Next

LEMMA SingleFlightStep ==
  TypeOK /\ LocalsOK /\ SingleFlight /\ [Next]_vars => SingleFlight'
<1> SUFFICES ASSUME TypeOK, LocalsOK, SingleFlight, [Next]_vars
             PROVE  SingleFlight'
  OBVIOUS
<1> USE DEF TypeOK, Locals, NoLocals, Goto, Restart, Return, EndRefresh,
            cache, world, SingleFlight, Fetchers
<1>1. ASSUME NEW r \in Request, Step(r) PROVE SingleFlight'
  <2>1. CASE Call(r)
    BY <2>1 DEF Call
  <2>2. CASE Join(r)
    BY <2>2 DEF Join
  <2>3. CASE Wake(r)
    BY <2>3 DEF Wake
  <2>4. CASE Snapshot(r)
    BY <2>4 DEF Snapshot
  <2>5. CASE Check(r)
    BY <2>5 DEF Check
  <2>6. CASE GiveUp(r)
    BY <2>6 DEF GiveUp
  <2>7. CASE Discard(r)
    BY <2>7 DEF Discard
  <2>8. CASE ReturnCached(r)
    BY <2>8 DEF ReturnCached
  <2>9. CASE BeginRefresh(r)
    BY <2>9 DEF BeginRefresh, Current
  <2>10. CASE Issue(r)
    BY <2>10 DEF Issue
  <2>11. CASE Publish(r)
    BY <2>11 DEF Publish
  <2>12. CASE FetchFails(r)
    BY <2>12 DEF FetchFails
  <2>13. QED
    BY <1>1, <2>1, <2>2, <2>3, <2>4, <2>5, <2>6, <2>7,
       <2>8, <2>9, <2>10, <2>11, <2>12 DEF Step
<1>2. ASSUME NEW r \in Request, Cancel(r) PROVE SingleFlight'
  BY <1>2 DEF Cancel
<1>3. ASSUME NEW k \in Token, Expire(k) PROVE SingleFlight'
  BY <1>3 DEF Expire
<1>4. CASE UNCHANGED vars
  BY <1>4 DEF vars
<1>5. QED
  BY <1>1, <1>2, <1>3, <1>4 DEF Next

LEMMA LocalsStep ==
  TypeOK /\ LocalsOK /\ SingleFlight /\ [Next]_vars => LocalsOK'
<1> SUFFICES ASSUME TypeOK, LocalsOK, SingleFlight, [Next]_vars
             PROVE  LocalsOK'
  OBVIOUS
<1> USE DEF TypeOK, Locals, NoLocals, Goto, Restart, Return, EndRefresh,
            cache, world, LocalsOK, SingleFlight, Fetchers, Current
<1>1. ASSUME NEW r \in Request, Step(r) PROVE LocalsOK'
  <2>1. CASE Call(r)
    BY <2>1 DEF Call
  <2>2. CASE Join(r)
    BY <2>2 DEF Join
  <2>3. CASE Wake(r)
    BY <2>3 DEF Wake
  <2>4. CASE Snapshot(r)
    BY <2>4 DEF Snapshot
  <2>5. CASE Check(r)
    BY <2>5 DEF Check
  <2>6. CASE GiveUp(r)
    BY <2>6 DEF GiveUp
  <2>7. CASE Discard(r)
    BY <2>7 DEF Discard
  <2>8. CASE ReturnCached(r)
    BY <2>8 DEF ReturnCached
  <2>9. CASE BeginRefresh(r)
    BY <2>9 DEF BeginRefresh
  <2>10. CASE Issue(r)
    BY <2>10 DEF Issue
  <2>11. CASE Publish(r)
    BY <2>11 DEF Publish
  <2>12. CASE FetchFails(r)
    BY <2>12 DEF FetchFails
  <2>13. QED
    BY <1>1, <2>1, <2>2, <2>3, <2>4, <2>5, <2>6, <2>7,
       <2>8, <2>9, <2>10, <2>11, <2>12 DEF Step
<1>2. ASSUME NEW r \in Request, Cancel(r) PROVE LocalsOK'
  BY <1>2 DEF Cancel
<1>3. ASSUME NEW k \in Token, Expire(k) PROVE LocalsOK'
  BY <1>3 DEF Expire
<1>4. CASE UNCHANGED vars
  BY <1>4 DEF vars
<1>5. QED
  BY <1>1, <1>2, <1>3, <1>4 DEF Next

LEMMA ReturnedStep ==
  TypeOK /\ LocalsOK /\ ReturnedWasVerified /\ [Next]_vars => ReturnedWasVerified'
<1> SUFFICES ASSUME TypeOK, LocalsOK, ReturnedWasVerified, [Next]_vars
             PROVE  ReturnedWasVerified'
  OBVIOUS
<1> USE DEF TypeOK, Locals, NoLocals, Goto, Restart, Return, EndRefresh,
            cache, world, ReturnedWasVerified, LocalsOK, Usable
<1>1. ASSUME NEW r \in Request, Step(r) PROVE ReturnedWasVerified'
  <2>1. CASE Call(r)
    BY <2>1 DEF Call
  <2>2. CASE Join(r)
    BY <2>2 DEF Join
  <2>3. CASE Wake(r)
    BY <2>3 DEF Wake
  <2>4. CASE Snapshot(r)
    BY <2>4 DEF Snapshot
  <2>5. CASE Check(r)
    BY <2>5 DEF Check
  <2>6. CASE GiveUp(r)
    BY <2>6 DEF GiveUp
  <2>7. CASE Discard(r)
    BY <2>7 DEF Discard
  <2>8. CASE ReturnCached(r)
    BY <2>8 DEF ReturnCached
  <2>9. CASE BeginRefresh(r)
    BY <2>9 DEF BeginRefresh
  <2>10. CASE Issue(r)
    BY <2>10 DEF Issue
  <2>11. CASE Publish(r)
    BY <2>11 DEF Publish
  <2>12. CASE FetchFails(r)
    BY <2>12 DEF FetchFails
  <2>13. QED
    BY <1>1, <2>1, <2>2, <2>3, <2>4, <2>5, <2>6, <2>7,
       <2>8, <2>9, <2>10, <2>11, <2>12 DEF Step
<1>2. ASSUME NEW r \in Request, Cancel(r) PROVE ReturnedWasVerified'
  BY <1>2 DEF Cancel
<1>3. ASSUME NEW k \in Token, Expire(k) PROVE ReturnedWasVerified'
  BY <1>3 DEF Expire
<1>4. CASE UNCHANGED vars
  BY <1>4 DEF vars
<1>5. QED
  BY <1>1, <1>2, <1>3, <1>4 DEF Next

LEMMA WaiterStep ==
  TypeOK /\ SingleFlight /\ NoLostWaiter /\ [Next]_vars => NoLostWaiter'
<1> SUFFICES ASSUME TypeOK, SingleFlight, NoLostWaiter, [Next]_vars
             PROVE  NoLostWaiter'
  OBVIOUS
<1> USE DEF TypeOK, Locals, NoLocals, Goto, Restart, Return, EndRefresh,
            cache, world, NoLostWaiter, SingleFlight, Fetchers, Current
<1>1. ASSUME NEW r \in Request, Step(r) PROVE NoLostWaiter'
  <2>1. CASE Call(r)
    BY <2>1 DEF Call
  <2>2. CASE Join(r)
    BY <2>2 DEF Join
  <2>3. CASE Wake(r)
    BY <2>3 DEF Wake
  <2>4. CASE Snapshot(r)
    BY <2>4 DEF Snapshot
  <2>5. CASE Check(r)
    BY <2>5 DEF Check
  <2>6. CASE GiveUp(r)
    BY <2>6 DEF GiveUp
  <2>7. CASE Discard(r)
    BY <2>7 DEF Discard
  <2>8. CASE ReturnCached(r)
    BY <2>8 DEF ReturnCached
  <2>9. CASE BeginRefresh(r)
    BY <2>9 DEF BeginRefresh
  <2>10. CASE Issue(r)
    BY <2>10 DEF Issue
  <2>11. CASE Publish(r)
    BY <2>11 DEF Publish
  <2>12. CASE FetchFails(r)
    BY <2>12 DEF FetchFails
  <2>13. QED
    BY <1>1, <2>1, <2>2, <2>3, <2>4, <2>5, <2>6, <2>7,
       <2>8, <2>9, <2>10, <2>11, <2>12 DEF Step
<1>2. ASSUME NEW r \in Request, Cancel(r) PROVE NoLostWaiter'
  BY <1>2 DEF Cancel
<1>3. ASSUME NEW k \in Token, Expire(k) PROVE NoLostWaiter'
  BY <1>3 DEF Expire
<1>4. CASE UNCHANGED vars
  BY <1>4 DEF vars
<1>5. QED
  BY <1>1, <1>2, <1>3, <1>4 DEF Next

LEMMA Invariance == Spec => []IInv
<1>1. Init => IInv
  BY DEF Init, IInv, TypeOK, LocalsOK, SingleFlight, ReturnedWasVerified,
         NoLostWaiter, Locals, NoLocals, Fetchers, Current
<1>2. IInv /\ [Next]_vars => IInv'
  BY TypeStep, SingleFlightStep, LocalsStep, ReturnedStep, WaiterStep DEF IInv
<1>3. QED
  BY <1>1, <1>2, PTL DEF Spec

-----------------------------------------------------------------------------
(***************************************************************************)
(* The values of the variables keep their types; in particular exactly the *)
(* channels of the refreshes that are over are closed.                     *)
(***************************************************************************)
THEOREM TypeCorrect == Spec => []TypeOK
BY Invariance, PTL DEF IInv

(***************************************************************************)
(* At any time at most one call refreshes the token (AccessToken).         *)
(***************************************************************************)
THEOREM OneRefreshAtATime == Spec => []SingleFlight
BY Invariance, PTL DEF IInv

(***************************************************************************)
(* A call returns only a token that it saw the platform accept itself.     *)
(***************************************************************************)
THEOREM OnlyVerifiedReturned == Spec => []ReturnedWasVerified
BY Invariance, PTL DEF IInv

(***************************************************************************)
(* The end of a refresh reaches every call that waits for it.              *)
(***************************************************************************)
THEOREM WaitersAreWoken == Spec => []NoLostWaiter
BY Invariance, PTL DEF IInv

LEMMA StaleStep ==
  ASSUME IInv, [Next]_vars, NEW r \in Request PROVE ReturnsCurrent(r)
<1> USE DEF IInv, TypeOK, LocalsOK, ReturnsCurrent, cache, world
<1>1. ASSUME NEW s \in Request, Step(s) PROVE ReturnsCurrent(r)
  <2>1. CASE ReturnCached(s)
    BY <2>1 DEF ReturnCached, Return, Goto, Usable
  <2>2. CASE GiveUp(s)
    BY <2>2 DEF GiveUp, Return, Goto
  <2>3. QED
    BY <1>1, <2>1, <2>2 DEF Step, Call, Join, Wake, Snapshot, Check, Discard,
       BeginRefresh, Issue, Publish, FetchFails, Return, Goto
<1>2. QED
  BY <1>1 DEF Next, Cancel, Expire, vars

(***************************************************************************)
(* A check outside the mutex never brings back an outdated token.          *)
(***************************************************************************)
THEOREM StaleNeverReturned == Spec => NoStaleReturn
<1>1. IInv /\ [Next]_vars => [\A r \in Request : ReturnsCurrent(r)]_vars
  BY StaleStep
<1>2. QED
  BY <1>1, Invariance, PTL DEF Spec, NoStaleReturn

LEMMA EvictionStep ==
  ASSUME IInv, [Next]_vars, token # NoToken, token' # token
  PROVE  \E r \in Request : Evicts(r)
<1> USE DEF IInv, TypeOK, SingleFlight, Fetchers, cache, world
<1>1. ASSUME NEW s \in Request, Step(s) PROVE BeginRefresh(s)
  <2>1. ~Publish(s) /\ ~FetchFails(s)
    BY DEF Publish, FetchFails
  <2>2. QED
    BY <1>1, <2>1 DEF Step, Call, Join, Wake, Snapshot, Check, GiveUp, Discard,
       ReturnCached, Issue
<1>2. ASSUME NEW s \in Request, BeginRefresh(s) PROVE Evicts(s)
  BY <1>2 DEF BeginRefresh, Goto, Evicts, LocalsOK
<1>3. QED
  BY <1>1, <1>2 DEF Next, Cancel, Expire, vars

(***************************************************************************)
(* Only a call whose own check of the cached token failed empties the      *)
(* cache; a cancelled call never does.                                     *)
(***************************************************************************)
THEOREM EvictionIsJustified == Spec => NoWrongfulEviction
<1>1. IInv /\ [Next]_vars =>
        [token # NoToken /\ token' # token => \E r \in Request : Evicts(r)]_vars
  BY EvictionStep
<1>2. QED
  BY <1>1, Invariance, PTL DEF Spec, NoWrongfulEviction
-----------------------------------------------------------------------------
(***************************************************************************)
(* Implementing SharedToken                                                *)
(***************************************************************************)

\* A check has an outcome, and no check was made because there was no token
\* to be used: while the snapshot is the cache's there is none still.
Found ==
  \A r \in Request : pc[r] = "checked" =>
    /\ local[r].verdict # "none"
    /\ local[r].verdict = "absent" /\ Current(r) => token \notin fresh

LEMMA FoundStep ==
  TypeOK /\ LocalsOK /\ SingleFlight /\ Found /\ [Next]_vars => Found'
<1> SUFFICES ASSUME TypeOK, LocalsOK, SingleFlight, Found, [Next]_vars
             PROVE  Found'
  OBVIOUS
<1> USE DEF TypeOK, Locals, NoLocals, Goto, Restart, Return, EndRefresh, cache,
            world, Found, Current
<1>1. ASSUME NEW r \in Request, Step(r) PROVE Found'
  <2>1. CASE Call(r)
    BY <2>1 DEF Call
  <2>2. CASE Join(r)
    BY <2>2 DEF Join
  <2>3. CASE Wake(r)
    BY <2>3 DEF Wake
  <2>4. CASE Snapshot(r)
    BY <2>4 DEF Snapshot
  <2>5. CASE Check(r)
    BY <2>5 DEF Check
  <2>6. CASE GiveUp(r)
    BY <2>6 DEF GiveUp
  <2>7. CASE Discard(r)
    BY <2>7 DEF Discard
  <2>8. CASE ReturnCached(r)
    BY <2>8 DEF ReturnCached
  <2>9. CASE BeginRefresh(r)
    BY <2>9 DEF BeginRefresh
  <2>10. CASE Issue(r)
    BY <2>10 DEF Issue
  <2>11. CASE Publish(r)
    BY <2>11 DEF Publish, LocalsOK
  <2>12. CASE FetchFails(r)
    BY <2>12 DEF FetchFails, LocalsOK
  <2>13. QED
    BY <1>1, <2>1, <2>2, <2>3, <2>4, <2>5, <2>6, <2>7, <2>8, <2>9, <2>10,
       <2>11, <2>12 DEF Step
<1>2. ASSUME NEW r \in Request, Cancel(r) PROVE Found'
  BY <1>2 DEF Cancel
<1>3. ASSUME NEW k \in Token, Expire(k) PROVE Found'
  BY <1>3 DEF Expire
<1>4. CASE UNCHANGED vars
  BY <1>4 DEF vars
<1>5. QED
  BY <1>1, <1>2, <1>3, <1>4 DEF Next
\* The inductive invariant of the refinement.
RInv == IInv /\ Found

\* What a step leaves of the sets that the calls are in.
SameKnowledge == Trusted' = Trusted /\ Doubted' = Doubted
SameCalls == Fetchers' = Fetchers /\ Over' = Over

\* A step that SharedToken does not see.
Unseen ==
  /\ SameKnowledge /\ SameCalls
  /\ UNCHANGED <<token, fresh, cancelled, answer>>

LEMMA UnseenStutters == Unseen => UNCHANGED Shared!vars
BY DEF Unseen, SameKnowledge, SameCalls, Shared!vars

LEMMA InitIsShared == Init => Shared!Init
<1> SUFFICES ASSUME Init PROVE Shared!Init
  OBVIOUS
<1>1. Trusted = {} /\ Doubted = {} /\ Fetchers = {} /\ Over = {}
  BY DEF Init, Trusted, Doubted, Fetchers, Over, Knows
<1>2. QED
  BY <1>1 DEF Init, Shared!Init

\* These go from one place to another without having learned of the token,
\* or forget what they know of another.
LEMMA MovesAreUnseen ==
  ASSUME RInv, NEW r \in Request,
         Call(r) \/ Join(r) \/ Wake(r) \/ Snapshot(r) \/ Discard(r) \/ Issue(r)
  PROVE  Unseen
<1> USE DEF RInv, IInv, TypeOK, Locals, NoLocals, Goto, Restart, cache, world,
            Knows, Current, Unseen, SameKnowledge, SameCalls, Trusted, Doubted,
            Fetchers, Over
<1>1. CASE Call(r)
  BY <1>1 DEF Call
<1>2. CASE Join(r)
  BY <1>2 DEF Join
<1>3. CASE Wake(r)
  BY <1>3 DEF Wake
<1>4. CASE Snapshot(r)
  BY <1>4 DEF Snapshot
<1>5. CASE Discard(r)
  BY <1>5 DEF Discard
<1>6. CASE Issue(r)
  BY <1>6 DEF Issue
<1>7. QED
  BY <1>1, <1>2, <1>3, <1>4, <1>5, <1>6

\* An answer about a token that is no longer the one, or no answer, teaches
\* nothing.
LEMMA CheckIsShared ==
  ASSUME RInv, NEW r \in Request, Check(r)
  PROVE  Unseen \/ Shared!Check(r)
<1> USE DEF RInv, IInv, TypeOK, Locals, Goto, cache, world, Knows, Current,
            Fetchers, Over, Trusted, Doubted
<1>1. PICK v \in {"ok", "rejected", "aborted"} :
        local' = [local EXCEPT ![r].verdict = v]
  BY DEF Check
<1>2. /\ pc[r] = "checking" /\ pc' = [pc EXCEPT ![r] = "checked"]
      /\ UNCHANGED <<cache, answer, world>>
  BY DEF Check
<1>3. SameCalls /\ r \notin Over
  BY <1>2 DEF SameCalls
<1>4. CASE ~ Current(r) \/ v = "aborted"
  BY <1>1, <1>2, <1>3, <1>4 DEF Unseen, SameKnowledge
<1>5. CASE Current(r) /\ v = "ok"
  <2>1. Trusted' = Trusted \cup {r} /\ Doubted' = Doubted
    BY <1>1, <1>2, <1>5
  <2>2. token # NoToken
    BY <1>2, <1>5 DEF LocalsOK
  <2>3. QED
    BY <1>2, <1>3, <2>1, <2>2 DEF Shared!Check, SameCalls
<1>6. CASE Current(r) /\ v = "rejected"
  <2>1. Doubted' = Doubted \cup {r} /\ Trusted' = Trusted
    BY <1>1, <1>2, <1>6
  <2>2. token # NoToken
    BY <1>2, <1>6 DEF LocalsOK
  <2>3. QED
    BY <1>2, <1>3, <2>1, <2>2 DEF Shared!Check, SameCalls
<1>7. QED
  BY <1>4, <1>5, <1>6

\* A call that returns knows nothing any more.
LEMMA ReturnForgets ==
  ASSUME RInv, NEW r \in Request, NEW k, Return(r, k), UNCHANGED cache,
         pc[r] # "done"
  PROVE  /\ Trusted' = Trusted \ {r} /\ Doubted' = Doubted \ {r}
         /\ Fetchers' = Fetchers \ {r}
         /\ Over' = Over \cup {r} /\ r \notin Over
         /\ answer' = [answer EXCEPT ![r] = k]
BY DEF RInv, IInv, TypeOK, Locals, NoLocals, Return, Goto, cache, Knows,
   Current, Fetchers, Over, Trusted, Doubted

LEMMA ReturnCachedIsShared ==
  ASSUME RInv, NEW r \in Request, ReturnCached(r)
  PROVE  Shared!Use(r)
<1>1. /\ pc[r] = "checked" /\ r \notin cancelled /\ Current(r) /\ Usable(r)
      /\ Return(r, local[r].token)
      /\ UNCHANGED <<cache, world>>
  BY DEF ReturnCached
<1>2. local[r].token = token
  BY <1>1 DEF RInv, IInv, LocalsOK
<1>3. /\ Trusted' = Trusted \ {r} /\ Doubted' = Doubted \ {r}
      /\ Fetchers' = Fetchers \ {r}
      /\ Over' = Over \cup {r} /\ r \notin Over
      /\ answer' = [answer EXCEPT ![r] = token]
  BY <1>1, <1>2, ReturnForgets DEF cache
<1>4. r \in Trusted /\ r \notin Doubted /\ r \notin Fetchers
  BY <1>1 DEF Trusted, Doubted, Fetchers, Knows, Usable
<1>5. token \in fresh
  BY <1>1, <1>2 DEF Usable
<1>6. QED
  BY <1>1, <1>3, <1>4, <1>5 DEF Shared!Use, Shared!Return, cache, world

LEMMA GiveUpIsShared ==
  ASSUME RInv, NEW r \in Request, GiveUp(r)
  PROVE  Shared!GiveUp(r)
<1>1. /\ pc[r] \in {"top", "waiting", "checked"} /\ r \in cancelled
      /\ Return(r, NoToken)
      /\ UNCHANGED <<cache, world>>
  BY DEF GiveUp
<1>2. /\ Trusted' = Trusted \ {r} /\ Doubted' = Doubted \ {r}
      /\ Fetchers' = Fetchers \ {r}
      /\ Over' = Over \cup {r} /\ r \notin Over
      /\ answer' = [answer EXCEPT ![r] = NoToken]
  BY <1>1, ReturnForgets DEF cache
<1>3. r \notin Fetchers
  BY <1>1 DEF Fetchers
<1>4. QED
  BY <1>1, <1>2, <1>3 DEF Shared!GiveUp, Shared!Return, cache, world

\* The cache is emptied for a reason of the call's own.
LEMMA BeginRefreshIsShared ==
  ASSUME RInv, NEW r \in Request, BeginRefresh(r)
  PROVE  Shared!Withdraw(r)
<1> USE DEF RInv, IInv, TypeOK, Locals
<1>1. /\ pc[r] = "checked" /\ r \notin cancelled /\ Current(r) /\ ~ Usable(r)
      /\ refreshing' = generation /\ token' = NoToken
      /\ pc' = [pc EXCEPT ![r] = "fetching"]
      /\ UNCHANGED <<generation, closed, local, answer, world, verified>>
  BY DEF BeginRefresh, Goto
<1>2. Fetchers = {}
  BY <1>1 DEF SingleFlight, Current
<1>3. token \notin fresh \/ r \in Doubted
  <2>1. CASE local[r].verdict = "ok"
    BY <1>1, <2>1 DEF LocalsOK, Usable
  <2>2. CASE local[r].verdict = "absent"
    BY <1>1, <2>2 DEF Found
  <2>3. CASE local[r].verdict = "rejected"
    BY <1>1, <2>3 DEF Doubted, Knows
  <2>4. CASE local[r].verdict = "aborted"
    BY <1>1, <2>4 DEF LocalsOK
  <2>5. QED
    BY <1>1, <2>1, <2>2, <2>3, <2>4 DEF Found
<1>4. Trusted' = {} /\ Doubted' = {}
  BY <1>1 DEF Trusted, Doubted, Knows, Current
<1>5. Fetchers' = {r}
  BY <1>1, <1>2 DEF Fetchers
<1>6. Over' = Over /\ r \notin Over
  BY <1>1 DEF Over
<1>7. QED
  BY <1>1, <1>2, <1>3, <1>4, <1>5, <1>6 DEF Shared!Withdraw, world

\* While one call replaces the token the others know nothing of it, nor do
\* they when it has.
LEMMA EndRefreshForgets ==
  ASSUME RInv, NEW r \in Fetchers, NEW k, NEW v, EndRefresh(k), Return(r, v)
  PROVE  /\ SameKnowledge
         /\ Fetchers' = {}
         /\ Over' = Over \cup {r} /\ r \notin Over
         /\ answer' = [answer EXCEPT ![r] = v]
<1> USE DEF RInv, IInv, TypeOK, Locals, NoLocals, EndRefresh, Return, Goto
<1>1. refreshing # NoChannel /\ \A s \in Fetchers : s = r
  BY DEF SingleFlight
<1>2. Trusted = {} /\ Doubted = {}
  BY <1>1 DEF Trusted, Doubted, Knows, Current
<1>3. Trusted' = {} /\ Doubted' = {}
  BY DEF Trusted, Doubted, Knows, Current, LocalsOK, Fetchers
<1>4. Fetchers' = {}
  BY <1>1 DEF Fetchers
<1>5. Over' = Over \cup {r} /\ r \notin Over
  BY DEF Over, Fetchers
<1>6. QED
  BY <1>2, <1>3, <1>4, <1>5 DEF SameKnowledge

LEMMA PublishIsShared ==
  ASSUME RInv, NEW r \in Request, Publish(r)
  PROVE  Shared!Replace(r)
<1> DEFINE k == local[r].token
<1>1. /\ EndRefresh(k) /\ Return(r, k)
      /\ fresh' = fresh \cup {k}
      /\ UNCHANGED cancelled
  BY DEF Publish
<1>2. r \in Fetchers
  BY DEF Publish, Fetchers
<1>3. k \in Token
  BY DEF Publish, RInv, IInv, LocalsOK
<1>4. token' = k
  BY <1>1 DEF EndRefresh
<1> HIDE DEF k
<1>5. /\ SameKnowledge
      /\ Fetchers' = {}
      /\ Over' = Over \cup {r} /\ r \notin Over
      /\ answer' = [answer EXCEPT ![r] = k]
  BY <1>1, <1>2, EndRefreshForgets
<1>6. QED
  BY <1>1, <1>2, <1>3, <1>4, <1>5 DEF Shared!Replace, Shared!Return,
     SameKnowledge

LEMMA FetchFailsIsShared ==
  ASSUME RInv, NEW r \in Request, FetchFails(r)
  PROVE  Shared!Fail(r)
<1>1. /\ EndRefresh(NoToken) /\ Return(r, NoToken)
      /\ UNCHANGED <<world, verified>>
  BY DEF FetchFails
<1>2. r \in Fetchers
  BY DEF FetchFails, Fetchers
<1>3. token = NoToken
  BY <1>2 DEF RInv, IInv, SingleFlight
<1>4. token' = token
  BY <1>1, <1>3 DEF EndRefresh
<1>5. /\ SameKnowledge
      /\ Fetchers' = {}
      /\ Over' = Over \cup {r} /\ r \notin Over
      /\ answer' = [answer EXCEPT ![r] = NoToken]
  BY <1>1, <1>2, EndRefreshForgets
<1>6. QED
  BY <1>1, <1>2, <1>4, <1>5 DEF Shared!Fail, Shared!Return, SameKnowledge,
     world

LEMMA CancelIsShared ==
  ASSUME RInv, NEW r \in Request, Cancel(r)
  PROVE  Shared!Cancel(r)
<1>1. SameKnowledge /\ SameCalls /\ r \notin Over
  BY DEF Cancel, SameKnowledge, SameCalls, Trusted, Doubted, Over, Fetchers,
     Knows, Current, cache
<1>2. QED
  BY <1>1 DEF Cancel, Shared!Cancel, SameKnowledge, SameCalls, cache

LEMMA ExpireIsShared ==
  ASSUME RInv, NEW k \in Token, Expire(k)
  PROVE  Shared!Expire(k)
<1>1. SameKnowledge /\ SameCalls
  BY DEF Expire, SameKnowledge, SameCalls, Trusted, Doubted, Over, Fetchers,
     Knows, Current, cache
<1>2. QED
  BY <1>1 DEF Expire, Shared!Expire, SameKnowledge, SameCalls, cache

LEMMA StepIsShared ==
  ASSUME RInv, [Next]_vars PROVE [Shared!Next]_(Shared!vars)
<1>1. ASSUME NEW r \in Request, Step(r) PROVE Unseen \/ Shared!Next
  <2>1. CASE \/ Call(r) \/ Join(r) \/ Wake(r) \/ Snapshot(r) \/ Discard(r)
             \/ Issue(r)
    BY <2>1, MovesAreUnseen
  <2>2. CASE Check(r)
    BY <2>2, CheckIsShared DEF Shared!Next
  <2>3. CASE GiveUp(r)
    BY <2>3, GiveUpIsShared DEF Shared!Next
  <2>4. CASE ReturnCached(r)
    BY <2>4, ReturnCachedIsShared DEF Shared!Next
  <2>5. CASE BeginRefresh(r)
    BY <2>5, BeginRefreshIsShared DEF Shared!Next
  <2>6. CASE Publish(r)
    BY <2>6, PublishIsShared DEF Shared!Next
  <2>7. CASE FetchFails(r)
    BY <2>7, FetchFailsIsShared DEF Shared!Next
  <2>8. QED
    BY <1>1, <2>1, <2>2, <2>3, <2>4, <2>5, <2>6, <2>7 DEF Step
<1>2. ASSUME NEW r \in Request, Cancel(r) PROVE Shared!Next
  BY <1>2, CancelIsShared DEF Shared!Next
<1>3. ASSUME NEW k \in Token, Expire(k) PROVE Shared!Next
  BY <1>3, ExpireIsShared DEF Shared!Next
<1>4. ASSUME UNCHANGED vars PROVE Unseen
  BY <1>4 DEF vars, cache, world, Unseen, SameKnowledge, SameCalls, Trusted,
     Doubted, Over, Fetchers, Knows, Current
<1>5. QED
  BY <1>1, <1>2, <1>3, <1>4, UnseenStutters DEF Next

(***************************************************************************)
(* AccessToken keeps what SharedToken promises the calls that share the    *)
(* cache, for any number of them, whenever they are cancelled and whatever *)
(* the platform answers.                                                   *)
(***************************************************************************)
THEOREM CacheSharesToken == Spec => SharesToken
<1>1. Init => RInv
  BY DEF Init, RInv, IInv, TypeOK, LocalsOK, SingleFlight, ReturnedWasVerified,
         NoLostWaiter, Locals, NoLocals, Fetchers, Current, Found
<1>2. RInv /\ [Next]_vars => RInv'
  BY TypeStep, SingleFlightStep, LocalsStep, ReturnedStep, WaiterStep, FoundStep
     DEF IInv, RInv
<1>3. RInv /\ [Next]_vars => [Shared!Next]_(Shared!vars)
  BY StepIsShared
<1>4. QED
  BY <1>1, <1>2, <1>3, InitIsShared, PTL DEF Spec, SharesToken, Shared!Spec
=============================================================================
