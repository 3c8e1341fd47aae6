--------------------------- MODULE ChatTurnProofs ---------------------------
(***************************************************************************)
(* Theorems about ChatTurn: that turns and deletions of a session exclude  *)
(* each other, and what follows from it for the history a turn uses, for   *)
(* the order of the stored messages and for deletions; the shape of the    *)
(* event stream of a run and the calls in it; and what a run that is told  *)
(* to have completed has stored.                                           *)
(***************************************************************************)
EXTENDS ChatTurn, SequenceTheorems, FiniteSetTheorems, TLAPS

-----------------------------------------------------------------------------
(***************************************************************************)
(* Type correctness                                                        *)
(***************************************************************************)

LEMMA ListedType ==
  ASSUME NEW calls \in SUBSET CallId
  PROVE  Listed(calls) \in [1 .. Cardinality(calls) -> calls]
<1>1. IsFiniteSet(calls)
  BY FS_Subset, Calls
<1>2. ExistsBijection(1 .. Cardinality(calls), calls)
  BY <1>1, FS_CardinalityType
<1>3. PICK f \in Bijection(1 .. Cardinality(calls), calls) : TRUE
  BY <1>2 DEF ExistsBijection
<1>4. /\ f \in [1 .. Cardinality(calls) -> calls]
      /\ \A i, j \in 1 .. Cardinality(calls) : f[i] = f[j] => i = j
  BY <1>3, Zenon DEF Bijection, Injection, IsInjective
<1>5. DOMAIN f = 1 .. Cardinality(calls)
  BY <1>4
<1>6. \E order \in [1 .. Cardinality(calls) -> calls] :
        \A i, j \in DOMAIN order : order[i] = order[j] => i = j
  BY <1>4, <1>5
<1> QED BY <1>6, Zenon DEF Listed

\* The events of a list of calls, all of one type.
LEMMA EvOfEachType ==
  ASSUME NEW calls \in SUBSET CallId,
         NEW type \in {"tool.call.started", "tool.call.failed"}
  PROVE  /\ EvOfEach(type, calls) \in Seq(Event)
         /\ \A i \in DOMAIN EvOfEach(type, calls) :
              ~ Terminal(EvOfEach(type, calls)[i])
<1>1. Listed(calls) \in [1 .. Cardinality(calls) -> calls]
  BY ListedType
<1>2. Cardinality(calls) \in Nat
  BY FS_Subset, FS_CardinalityType, Calls
<1>3. \A i \in 1 .. Cardinality(calls) :
        /\ CallEv(type, Listed(calls)[i]) \in Event
        /\ ~ Terminal(CallEv(type, Listed(calls)[i]))
  BY <1>1 DEF CallEv, Event, Terminal
<1>4. EvOfEach(type, calls) \in [1 .. Cardinality(calls) -> Event]
  BY <1>3 DEF EvOfEach
<1>5. EvOfEach(type, calls) \in Seq(Event)
  BY <1>2, <1>4, SeqDef
<1>6. \A i \in DOMAIN EvOfEach(type, calls) :
        ~ Terminal(EvOfEach(type, calls)[i])
  BY <1>3 DEF EvOfEach
<1> QED BY <1>5, <1>6

LEMMA EvType ==
  /\ Ev("run.started") \in Event
  /\ Ev("run.completed") \in Event
  /\ Ev("run.failed") \in Event
  /\ Ev("task_plan.updated") \in Event
BY DEF Ev, Event

\* What Emit does to the events of its turn and of the others.
LEMMA EmitKeeps ==
  ASSUME events \in [Turn -> Seq(Event)],
         NEW t \in Turn, NEW new \in Seq(Event), Emit(t, new)
  PROVE  /\ events' \in [Turn -> Seq(Event)]
         /\ \A u \in Turn : u # t => events'[u] = events[u]
         /\ events'[t] = IF Open(t) THEN events[t] \o new ELSE events[t]
<1>1. events[t] \o new \in Seq(Event)
  BY ConcatProperties
<1> QED BY <1>1 DEF Emit

LEMMA StoredType ==
  ASSUME TypeOK, NEW m \in Message, Stored(m)
  PROVE  alive' \in BOOLEAN /\ durable' \in BOOLEAN /\ log' \in Seq(Message)
BY AppendProperties DEF TypeOK, Stored

LEMMA NotStoredType ==
  ASSUME TypeOK, NEW m \in Message, NotStored(m)
  PROVE  alive' \in BOOLEAN /\ durable' \in BOOLEAN /\ log' \in Seq(Message)
BY StoredType DEF NotStored, session, TypeOK

LEMMA MessagesType ==
  ASSUME NEW t \in Turn
  PROVE  /\ UserMessage(t) \in Message
         /\ \A calls \in SUBSET CallId : ModelMessage(t, calls) \in Message
         /\ \A c \in CallId : ToolMessage(t, c) \in Message
BY DEF UserMessage, ModelMessage, ToolMessage, Message

LEMMA AskableCalls ==
  ASSUME NEW t \in Turn
  PROVE  Askable(t) \subseteq SUBSET CallId
BY DEF Askable

\* The lists of events that the actions emit are sequences of events.
LEMMA NewEvents ==
  ASSUME NEW t \in Turn, TypeOK
  PROVE  /\ <<Ev("run.started")>> \in Seq(Event)
         /\ <<Ev("run.failed")>> \in Seq(Event)
         /\ <<Ev("run.completed")>> \in Seq(Event)
         /\ <<Ev("task_plan.updated")>> \in Seq(Event)
         /\ <<Ev("run.started"), Ev("run.failed")>> \in Seq(Event)
         /\ \A c \in CallId : <<Reported(c)>> \in Seq(Event)
         /\ \A calls \in SUBSET CallId :
              EvOfEach("tool.call.started", calls) \in Seq(Event)
         /\ EvOfEach("tool.call.failed", pending[t]) \o <<Ev("run.failed")>>
              \in Seq(Event)
<1>1. \A c \in CallId : Reported(c) \in Event
  BY DEF Reported, CallEv, Event
<1>2. pending[t] \in SUBSET CallId
  BY DEF TypeOK
<1>3. EvOfEach("tool.call.failed", pending[t]) \in Seq(Event)
  BY <1>2, EvOfEachType
<1>4. <<Ev("run.failed")>> \in Seq(Event)
  BY EvType
<1>5. EvOfEach("tool.call.failed", pending[t]) \o <<Ev("run.failed")>>
        \in Seq(Event)
  BY <1>3, <1>4, ConcatProperties
<1>6. \A calls \in SUBSET CallId :
        EvOfEach("tool.call.started", calls) \in Seq(Event)
  BY EvOfEachType
<1> QED BY <1>1, <1>4, <1>5, <1>6, EvType

Places ==
  {"idle", "locked", "ready", "appending", "model", "tools", "answered",
   "waiting", "deleting", "releasing", "done"}

LEMMA GotoType ==
  ASSUME TypeOK, NEW r \in Turn \cup Deletion, NEW place \in Places,
         Goto(r, place)
  PROVE  /\ pc' \in [Turn \cup Deletion -> Places]
         /\ pc'[r] = place
         /\ \A q \in Turn \cup Deletion : q # r => pc'[q] = pc[q]
BY DEF TypeOK, Goto, Places

LockType ==
  /\ executing \subseteq Turn \cup Deletion
  /\ lost \subseteq executing
  /\ disturbed \subseteq Turn \cup Deletion

LEMMA LockTypeGet ==
  ASSUME TypeOK, NEW r \in Turn \cup Deletion, GetTurn(r)
  PROVE  LockType'
BY DEF TypeOK, LockType, GetTurn, Lock!Begin

LEMMA LockTypeGiven ==
  ASSUME TypeOK, NEW r \in Turn \cup Deletion, GiveTurnBack(r)
  PROVE  LockType'
BY DEF TypeOK, LockType, GiveTurnBack, Lock!End

LEMMA TypeStep ==
  ASSUME TypeOK, Next
  PROVE  TypeOK'
<1> USE DEF Places
<1>0. /\ executing \subseteq Turn \cup Deletion /\ lost \subseteq executing
      /\ disturbed \subseteq Turn \cup Deletion
      /\ pc \in [Turn \cup Deletion -> Places]
      /\ history \in [Turn -> Seq(Message)]
      /\ events \in [Turn -> Seq(Event)]
      /\ log \in Seq(Message)
  BY DEF TypeOK
<1>1. ASSUME NEW t \in Turn, AcquireTurn(t)
      PROVE  TypeOK'
  <2>1. LockType'
    BY <1>1, LockTypeGet DEF AcquireTurn
  <2>2. pc' \in [Turn \cup Deletion -> Places]
    BY <1>1, GotoType DEF AcquireTurn
  <2> QED BY <1>1, <2>1, <2>2 DEF TypeOK, LockType, AcquireTurn, session, loop
<1>2. ASSUME NEW t \in Turn, TurnRefused(t)
      PROVE  TypeOK'
  <2>1. pc' \in [Turn \cup Deletion -> Places]
    BY <1>2, GotoType DEF TurnRefused
  <2>2. events' \in [Turn -> Seq(Event)]
    BY <1>0, <1>2, EmitKeeps, NewEvents DEF TurnRefused
  <2> QED BY <1>2, <2>1, <2>2 DEF TypeOK, TurnRefused, lock, session, loop
<1>3. ASSUME NEW t \in Turn, ReadHistory(t)
      PROVE  TypeOK'
  <2>1. pc' \in [Turn \cup Deletion -> Places]
    BY <1>3, GotoType DEF ReadHistory
  <2>2. history' \in [Turn -> Seq(Message)]
    BY <1>0, <1>3 DEF ReadHistory
  <2> QED BY <1>3, <2>1, <2>2 DEF TypeOK, ReadHistory, lock, session
<1>4. ASSUME NEW t \in Turn, ReadFails(t)
      PROVE  TypeOK'
  <2>1. pc' \in [Turn \cup Deletion -> Places]
    BY <1>4, GotoType DEF ReadFails
  <2>2. events' \in [Turn -> Seq(Event)]
    BY <1>0, <1>4, EmitKeeps, NewEvents DEF ReadFails
  <2> QED BY <1>4, <2>1, <2>2 DEF TypeOK, ReadFails, lock, session, loop
<1>5. ASSUME NEW t \in Turn, Start(t)
      PROVE  TypeOK'
  <2>1. pc' \in [Turn \cup Deletion -> Places]
    BY <1>5, GotoType DEF Start
  <2>2. events' \in [Turn -> Seq(Event)]
    BY <1>0, <1>5, EmitKeeps, NewEvents DEF Start
  <2> QED BY <1>5, <2>1, <2>2 DEF TypeOK, Start, lock, session, loop
<1>6. ASSUME NEW t \in Turn, AppendUser(t)
      PROVE  TypeOK'
  <2>1. pc' \in [Turn \cup Deletion -> Places]
    BY <1>6, GotoType DEF AppendUser
  <2>2. alive' \in BOOLEAN /\ durable' \in BOOLEAN /\ log' \in Seq(Message)
    BY <1>6, StoredType, MessagesType DEF AppendUser
  <2> QED BY <1>6, <2>1, <2>2 DEF TypeOK, AppendUser, lock, loop
<1>7. ASSUME NEW t \in Turn, BeforeModelFails(t)
      PROVE  TypeOK'
  <2>1. pc' \in [Turn \cup Deletion -> Places]
    BY <1>7, GotoType DEF BeforeModelFails
  <2>2. alive' \in BOOLEAN /\ durable' \in BOOLEAN /\ log' \in Seq(Message)
    BY <1>7, NotStoredType, MessagesType DEF BeforeModelFails
  <2>3. events' \in [Turn -> Seq(Event)]
    BY <1>0, <1>7, EmitKeeps, NewEvents DEF BeforeModelFails
  <2> QED BY <1>7, <2>1, <2>2, <2>3 DEF TypeOK, BeforeModelFails, lock, loop
<1>8. ASSUME NEW t \in Turn, NEW calls \in Askable(t), NEW text \in BOOLEAN,
             ModelReplies(t, calls, text)
      PROVE  TypeOK'
  <2>0. calls \in SUBSET CallId /\ calls \ pending[t] \in SUBSET CallId
    BY AskableCalls
  <2>1. pc' \in [Turn \cup Deletion -> Places]
    <3>1. CASE calls = {}
      BY <1>8, <3>1, GotoType DEF ModelReplies
    <3>2. CASE calls # {}
      BY <1>8, <3>2, GotoType DEF ModelReplies
    <3> QED BY <3>1, <3>2
  <2>2. alive' \in BOOLEAN /\ durable' \in BOOLEAN /\ log' \in Seq(Message)
    BY <1>8, <2>0, StoredType, MessagesType DEF ModelReplies
  <2>3. events' \in [Turn -> Seq(Event)]
    BY <1>0, <1>8, <2>0, EmitKeeps, NewEvents DEF ModelReplies
  <2>4. /\ asked' \in [Turn -> SUBSET CallId]
        /\ pending' \in [Turn -> SUBSET CallId]
        /\ responded' \in [Turn -> BOOLEAN]
    BY <1>8, <2>0 DEF TypeOK, ModelReplies
  <2>5. replies' \in [Turn -> 0 .. MaxReplies]
    BY <1>8, Bounds DEF TypeOK, ModelReplies, MayReply
  <2> QED BY <1>8, <2>1, <2>2, <2>3, <2>4, <2>5 DEF TypeOK, ModelReplies, lock
<1>9. ASSUME NEW t \in Turn, NEW c \in CallId, ToolResult(t, c)
      PROVE  TypeOK'
  <2>1. pc' \in [Turn \cup Deletion -> Places]
    <3>1. CASE asked[t] = {c}
      BY <1>9, <3>1, GotoType DEF ToolResult
    <3>2. CASE asked[t] # {c}
      BY <1>9, <3>2, GotoType DEF ToolResult
    <3> QED BY <3>1, <3>2
  <2>2. alive' \in BOOLEAN /\ durable' \in BOOLEAN /\ log' \in Seq(Message)
    BY <1>9, StoredType, MessagesType DEF ToolResult
  <2>3. events' \in [Turn -> Seq(Event)]
    BY <1>0, <1>9, EmitKeeps, NewEvents DEF ToolResult
  <2>4. /\ asked' \in [Turn -> SUBSET CallId]
        /\ pending' \in [Turn -> SUBSET CallId]
    BY <1>9 DEF TypeOK, ToolResult
  <2> QED BY <1>9, <2>1, <2>2, <2>3, <2>4 DEF TypeOK, ToolResult, lock
<1>10. ASSUME NEW t \in Turn, RecordFails(t)
       PROVE  TypeOK'
  <2>1. pc' \in [Turn \cup Deletion -> Places]
    BY <1>10, GotoType DEF RecordFails
  <2>2. alive' \in BOOLEAN /\ durable' \in BOOLEAN /\ log' \in Seq(Message)
    <3>1. \E m \in Message : NotStored(m)
      <4>1. asked[t] \in SUBSET CallId
        BY DEF TypeOK
      <4> QED BY <1>10, <4>1, AskableCalls, MessagesType DEF RecordFails
    <3> QED BY <3>1, NotStoredType
  <2>3. events' \in [Turn -> Seq(Event)]
    BY <1>0, <1>10, EmitKeeps, NewEvents DEF RecordFails
  <2> QED BY <1>10, <2>1, <2>2, <2>3 DEF TypeOK, RecordFails, lock
<1>11. ASSUME NEW t \in Turn, AgentFails(t)
       PROVE  TypeOK'
  <2>1. pc' \in [Turn \cup Deletion -> Places]
    BY <1>11, GotoType DEF AgentFails
  <2>2. events' \in [Turn -> Seq(Event)]
    BY <1>0, <1>11, EmitKeeps, NewEvents DEF AgentFails
  <2> QED BY <1>11, <2>1, <2>2 DEF TypeOK, AgentFails, lock, session, loop
<1>12. ASSUME NEW t \in Turn, NoResponse(t)
       PROVE  TypeOK'
  <2>1. pc' \in [Turn \cup Deletion -> Places]
    BY <1>12, GotoType DEF NoResponse
  <2>2. events' \in [Turn -> Seq(Event)]
    BY <1>0, <1>12, EmitKeeps, NewEvents DEF NoResponse
  <2> QED BY <1>12, <2>1, <2>2 DEF TypeOK, NoResponse, lock, session, loop
<1>13. ASSUME NEW t \in Turn, Complete(t)
       PROVE  TypeOK'
  <2>1. pc' \in [Turn \cup Deletion -> Places]
    BY <1>13, GotoType DEF Complete
  <2>2. events' \in [Turn -> Seq(Event)]
    BY <1>0, <1>13, EmitKeeps, NewEvents DEF Complete
  <2> QED BY <1>13, <2>1, <2>2 DEF TypeOK, Complete, lock, session, loop
<1>14. ASSUME NEW t \in Turn, PlanUpdated(t)
       PROVE  TypeOK'
  <2>1. events' \in [Turn -> Seq(Event)]
    BY <1>0, <1>14, EmitKeeps, NewEvents DEF PlanUpdated
  <2> QED BY <1>14, <2>1 DEF TypeOK, PlanUpdated, lock, session, loop
<1>15. ASSUME NEW t \in Turn, ReleaseTurn(t)
       PROVE  TypeOK'
  <2>1. LockType'
    BY <1>15, LockTypeGiven DEF ReleaseTurn
  <2>2. pc' \in [Turn \cup Deletion -> Places]
    BY <1>15, GotoType DEF ReleaseTurn
  <2>3. <<>> \in Seq(Message)
    BY EmptySeq
  <2>4. /\ history' \in [Turn -> Seq(Message)]
        /\ pending' \in [Turn -> SUBSET CallId]
        /\ replies' \in [Turn -> 0 .. MaxReplies]
        /\ responded' \in [Turn -> BOOLEAN]
    BY <1>15, <2>3, Bounds DEF TypeOK, ReleaseTurn
  <2> QED BY <1>15, <2>1, <2>2, <2>4 DEF TypeOK, LockType, ReleaseTurn, session
<1>16. ASSUME NEW d \in Deletion, AcquireForDelete(d) \/ ReleaseDelete(d)
       PROVE  TypeOK'
  <2>1. LockType'
    BY <1>16, LockTypeGet, LockTypeGiven DEF AcquireForDelete, ReleaseDelete
  <2>2. pc' \in [Turn \cup Deletion -> Places]
    BY <1>16, GotoType DEF AcquireForDelete, ReleaseDelete
  <2> QED BY <1>16, <2>1, <2>2
          DEF TypeOK, LockType, AcquireForDelete, ReleaseDelete, session, loop
<1>17. ASSUME NEW d \in Deletion, DeleteGivesUp(d) \/ DeleteFails(d)
       PROVE  TypeOK'
  <2>1. pc' \in [Turn \cup Deletion -> Places]
    BY <1>17, GotoType DEF DeleteGivesUp, DeleteFails
  <2> QED BY <1>17, <2>1
          DEF TypeOK, DeleteGivesUp, DeleteFails, lock, session, loop
<1>18. ASSUME NEW d \in Deletion, Delete(d)
       PROVE  TypeOK'
  <2>1. pc' \in [Turn \cup Deletion -> Places]
    BY <1>18, GotoType DEF Delete
  <2>2. log' \in Seq(Message)
    BY <1>18, EmptySeq DEF Delete
  <2> QED BY <1>18, <2>1, <2>2 DEF TypeOK, Delete, lock, loop
<1>19. ASSUME Expire
       PROVE  TypeOK'
  <2>1. log' \in Seq(Message)
    BY <1>19, EmptySeq DEF Expire
  <2> QED BY <1>19, <2>1 DEF TypeOK, Expire, lock, loop
<1>20. ASSUME NEW r \in Turn \cup Deletion, LoseTurn(r)
       PROVE  TypeOK'
  BY <1>20 DEF TypeOK, LoseTurn, Lock!Lose, session, loop
<1> QED BY <1>1, <1>2, <1>3, <1>4, <1>5, <1>6, <1>7, <1>8, <1>9, <1>10, <1>11,
           <1>12, <1>13, <1>14, <1>15, <1>16, <1>17, <1>18, <1>19, <1>20
        DEF Next, TurnStep, DeleteStep

(***************************************************************************)
(* The variables of the turns of a session keep their types: no turn gets  *)
(* more than MaxIterations replies, and the messages and the events are    *)
(* sequences of what the store and the client know.                        *)
(***************************************************************************)
THEOREM TypeCorrect == Spec => []TypeOK
<1>1. Init => TypeOK
  <2> SUFFICES ASSUME Init PROVE TypeOK
    OBVIOUS
  <2>1. <<>> \in Seq(Message) /\ <<>> \in Seq(Event)
    BY EmptySeq
  <2> QED BY <2>1, Bounds DEF Init, TypeOK, Lock!Init
<1>2. TypeOK /\ [Next]_vars => TypeOK'
  <2>1. ASSUME TypeOK, UNCHANGED vars PROVE TypeOK'
    BY <2>1 DEF vars, lock, session, loop, TypeOK
  <2> QED BY <2>1, TypeStep
<1> QED BY <1>1, <1>2, PTL DEF Spec

-----------------------------------------------------------------------------
(***************************************************************************)
(* Exclusion                                                               *)
(***************************************************************************)

\* The places of a request that does not have the turn.
Outside == {"idle", "waiting", "done"}

\* Who has the session's turn, or had it and has lost it; that two requests
\* only execute together when both are disturbed; and where turns and
\* deletions can be.
Placed ==
  /\ executing = {r \in Turn \cup Deletion : pc[r] \notin Outside}
  /\ \A r, s \in executing : r # s => r \in disturbed
  /\ \A t \in Turn : pc[t] \notin {"waiting", "deleting"}
  /\ \A d \in Deletion : pc[d] \in {"waiting", "deleting", "releasing", "done"}

\* A request that keeps the turn it has, or stays without.
LEMMA PlacedMove ==
  ASSUME TypeOK, Placed, NEW r \in Turn \cup Deletion, NEW place \in Places,
         Goto(r, place), UNCHANGED lock,
         pc[r] \in Outside <=> place \in Outside,
         r \in Turn => place \notin {"waiting", "deleting"},
         r \in Deletion => place \in {"waiting", "deleting", "releasing", "done"}
  PROVE  Placed'
<1>1. /\ pc'[r] = place
      /\ \A q \in Turn \cup Deletion : q # r => pc'[q] = pc[q]
  BY GotoType
<1>2. executing' = executing /\ disturbed' = disturbed
  BY DEF lock
<1>3. \A q \in Turn \cup Deletion : pc'[q] \in Outside <=> pc[q] \in Outside
  BY <1>1
<1>4. executing' = {q \in Turn \cup Deletion : pc'[q] \notin Outside}
  BY <1>2, <1>3 DEF Placed
<1>5. \A q, s \in executing' : q # s => q \in disturbed'
  BY <1>2 DEF Placed
<1>6. /\ \A t \in Turn : pc'[t] \notin {"waiting", "deleting"}
      /\ \A d \in Deletion : pc'[d] \in {"waiting", "deleting", "releasing", "done"}
  BY <1>1 DEF Placed
<1> QED BY <1>4, <1>5, <1>6 DEF Placed

\* A request that gets the turn.
LEMMA PlacedBegin ==
  ASSUME TypeOK, Placed, NEW r \in Turn \cup Deletion, NEW place \in Places,
         GetTurn(r), Goto(r, place), place \notin Outside,
         r \in Turn => place # "deleting",
         r \in Deletion => place = "deleting"
  PROVE  Placed'
<1>1. /\ pc'[r] = place
      /\ \A q \in Turn \cup Deletion : q # r => pc'[q] = pc[q]
  BY GotoType
<1>2. executing' = executing \cup {r}
  BY DEF GetTurn, Lock!Begin
<1>3. executing' = {q \in Turn \cup Deletion : pc'[q] \notin Outside}
  BY <1>1, <1>2 DEF Placed
<1>4. \A q, s \in executing' : q # s => q \in disturbed'
  <2>1. CASE executing = {}
    BY <1>2, <2>1
  <2>2. CASE executing # {}
    BY <2>2 DEF GetTurn
  <2> QED BY <2>1, <2>2
<1>5. /\ \A t \in Turn : pc'[t] \notin {"waiting", "deleting"}
      /\ \A d \in Deletion : pc'[d] \in {"waiting", "deleting", "releasing", "done"}
  BY <1>1 DEF Placed, Outside
<1> QED BY <1>3, <1>4, <1>5 DEF Placed

\* A request that gives the turn back.
LEMMA PlacedEnd ==
  ASSUME TypeOK, Placed, NEW r \in Turn \cup Deletion,
         GiveTurnBack(r), Goto(r, "done")
  PROVE  Placed'
<1>1. /\ pc'[r] = "done"
      /\ \A q \in Turn \cup Deletion : q # r => pc'[q] = pc[q]
  BY GotoType DEF Places
<1>2. executing' = executing \ {r} /\ disturbed' = disturbed
  BY DEF GiveTurnBack, Lock!End
<1>3. executing' = {q \in Turn \cup Deletion : pc'[q] \notin Outside}
  BY <1>1, <1>2 DEF Placed, Outside
<1>4. /\ \A t \in Turn : pc'[t] \notin {"waiting", "deleting"}
      /\ \A d \in Deletion : pc'[d] \in {"waiting", "deleting", "releasing", "done"}
  BY <1>1 DEF Placed
<1>5. \A q, s \in executing' : q # s => q \in disturbed'
  BY <1>2 DEF Placed
<1> QED BY <1>3, <1>4, <1>5 DEF Placed

LEMMA PlacedStep ==
  ASSUME TypeOK, Placed, [Next]_vars
  PROVE  Placed'
<1> USE DEF Places, Outside
<1>0. ASSUME UNCHANGED vars PROVE Placed'
  BY <1>0 DEF vars, lock, Placed
<1>1. ASSUME NEW t \in Turn, AcquireTurn(t) PROVE Placed'
  BY <1>1, CallersDiffer, PlacedBegin DEF AcquireTurn
<1>2. ASSUME NEW t \in Turn, TurnStep(t) \/ PlanUpdated(t) PROVE Placed'
  <2>0. t \notin Deletion
    BY CallersDiffer
  <2>1. CASE TurnRefused(t)
    BY <2>0, <2>1, PlacedMove DEF TurnRefused
  <2>2. CASE ReadHistory(t)
    BY <2>0, <2>2, PlacedMove DEF ReadHistory
  <2>3. CASE ReadFails(t)
    BY <2>0, <2>3, PlacedMove DEF ReadFails
  <2>4. CASE Start(t)
    BY <2>0, <2>4, PlacedMove DEF Start
  <2>5. CASE AppendUser(t)
    BY <2>0, <2>5, PlacedMove DEF AppendUser
  <2>6. CASE BeforeModelFails(t)
    BY <2>0, <2>6, PlacedMove DEF BeforeModelFails
  <2>7. ASSUME NEW calls \in Askable(t), NEW text \in BOOLEAN,
               ModelReplies(t, calls, text)
        PROVE  Placed'
    <3>1. CASE calls = {}
      BY <2>0, <2>7, <3>1, PlacedMove DEF ModelReplies, MayReply
    <3>2. CASE calls # {}
      BY <2>0, <2>7, <3>2, PlacedMove DEF ModelReplies, MayReply
    <3> QED BY <3>1, <3>2
  <2>8. ASSUME NEW c \in CallId, ToolResult(t, c) PROVE Placed'
    <3>1. CASE asked[t] = {c}
      BY <2>0, <2>8, <3>1, PlacedMove DEF ToolResult
    <3>2. CASE asked[t] # {c}
      BY <2>0, <2>8, <3>2, PlacedMove DEF ToolResult
    <3> QED BY <3>1, <3>2
  <2>9. CASE RecordFails(t)
    BY <2>0, <2>9, PlacedMove DEF RecordFails, MayReply
  <2>10. CASE AgentFails(t)
    BY <2>0, <2>10, PlacedMove DEF AgentFails
  <2>11. CASE NoResponse(t) \/ Complete(t)
    BY <2>0, <2>11, PlacedMove DEF NoResponse, Complete
  <2>12. CASE ReleaseTurn(t)
    BY <2>12, PlacedEnd DEF ReleaseTurn
  <2>13. CASE PlanUpdated(t)
    BY <2>13 DEF PlanUpdated, lock, Placed
  <2> QED BY <1>2, <2>1, <2>2, <2>3, <2>4, <2>5, <2>6, <2>7, <2>8, <2>9,
             <2>10, <2>11, <2>12, <2>13 DEF TurnStep
<1>3. ASSUME NEW d \in Deletion,
             AcquireForDelete(d) \/ DeleteGivesUp(d) \/ DeleteStep(d)
      PROVE  Placed'
  <2>0. d \notin Turn
    BY CallersDiffer
  <2>1. CASE AcquireForDelete(d)
    BY <2>0, <2>1, PlacedBegin DEF AcquireForDelete
  <2>2. CASE DeleteGivesUp(d)
    BY <2>0, <2>2, PlacedMove DEF DeleteGivesUp
  <2>3. CASE Delete(d)
    BY <2>0, <2>3, PlacedMove DEF Delete
  <2>4. CASE DeleteFails(d)
    BY <2>0, <2>4, PlacedMove DEF DeleteFails
  <2>5. CASE ReleaseDelete(d)
    BY <2>5, PlacedEnd DEF ReleaseDelete
  <2> QED BY <1>3, <2>1, <2>2, <2>3, <2>4, <2>5 DEF DeleteStep
<1>4. ASSUME Expire PROVE Placed'
  BY <1>4 DEF Expire, lock, Placed
<1>5. ASSUME NEW r \in Turn \cup Deletion, LoseTurn(r) PROVE Placed'
  BY <1>5 DEF LoseTurn, Lock!Lose, Placed
<1> QED BY <1>0, <1>1, <1>2, <1>3, <1>4, <1>5 DEF Next

\* The requests that were disturbed stay so.
LEMMA DisturbedStay ==
  ASSUME [Next]_vars
  PROVE  disturbed \subseteq disturbed'
<1>1. ASSUME NEW r \in Turn \cup Deletion, GetTurn(r)
      PROVE  disturbed \subseteq disturbed'
  BY <1>1 DEF GetTurn
<1>2. ASSUME NEW t \in Turn, TurnStep(t) \/ PlanUpdated(t)
      PROVE  UNCHANGED disturbed
  BY <1>2 DEF TurnStep, PlanUpdated, TurnRefused, ReadHistory, ReadFails, Start,
              AppendUser, BeforeModelFails, ModelReplies, ToolResult,
              RecordFails, AgentFails, NoResponse, Complete, ReleaseTurn,
              GiveTurnBack, lock
<1>3. ASSUME NEW d \in Deletion, DeleteGivesUp(d) \/ DeleteStep(d)
      PROVE  UNCHANGED disturbed
  BY <1>3 DEF DeleteGivesUp, DeleteStep, Delete, DeleteFails, ReleaseDelete,
              GiveTurnBack, lock
<1> QED BY <1>1, <1>2, <1>3
        DEF Next, AcquireTurn, AcquireForDelete, LoseTurn, Expire, vars, lock

LEMMA PlacedAlways == Spec => []Placed
<1>1. Init => Placed
  BY CallersDiffer DEF Init, Lock!Init, Placed, Outside
<1> QED BY <1>1, PlacedStep, TypeCorrect, PTL DEF Spec

\* Nobody has lost the lock, and nobody was disturbed.
Kept == lost = {} /\ disturbed = {}

(***************************************************************************)
(* A lock that is never lost is what makes the session's requests execute  *)
(* one at a time, and then none is disturbed: what the other theorems say  *)
(* of the turns that were not holds for all of them.                       *)
(***************************************************************************)
THEOREM KeptLocksExclude ==
  ASSUME LostAt = {}
  PROVE  Spec => [](disturbed = {} /\ \A r, s \in executing : r = s)
<1>1. Init => Kept
  BY DEF Init, Lock!Init, Kept
<1>2. ASSUME TypeOK, Kept, [Next]_vars
      PROVE  Kept'
  <2>1. ASSUME NEW r \in Turn \cup Deletion, GetTurn(r)
        PROVE  Kept'
    BY <1>2, <2>1 DEF GetTurn, Lock!Begin, Kept
  <2>2. ASSUME NEW r \in Turn \cup Deletion, GiveTurnBack(r)
        PROVE  Kept'
    BY <1>2, <2>2 DEF GiveTurnBack, Lock!End, Kept
  <2>3. CASE UNCHANGED lock
    BY <1>2, <2>3 DEF lock, Kept
  <2>4. \A r \in Turn \cup Deletion : ~ LoseTurn(r)
    BY DEF LoseTurn
  <2>5. ASSUME NEW t \in Turn, TurnStep(t) \/ PlanUpdated(t)
        PROVE  UNCHANGED lock \/ GiveTurnBack(t)
    BY <2>5 DEF TurnStep, PlanUpdated, TurnRefused, ReadHistory, ReadFails,
                Start, AppendUser, BeforeModelFails, ModelReplies, ToolResult,
                RecordFails, AgentFails, NoResponse, Complete, ReleaseTurn
  <2>6. ASSUME NEW d \in Deletion, DeleteGivesUp(d) \/ DeleteStep(d)
        PROVE  UNCHANGED lock \/ GiveTurnBack(d)
    BY <2>6 DEF DeleteGivesUp, DeleteStep, Delete, DeleteFails, ReleaseDelete
  <2> QED BY <1>2, <2>1, <2>2, <2>3, <2>4, <2>5, <2>6
          DEF Next, AcquireTurn, AcquireForDelete, Expire, vars
<1>3. Placed /\ Kept => disturbed = {} /\ \A r, s \in executing : r = s
  BY DEF Placed, Kept
<1> QED BY <1>1, <1>2, <1>3, TypeCorrect, PlacedAlways, PTL DEF Spec

(***************************************************************************)
(* A user's session is deleted only when no turn of it runs, however many  *)
(* turns and deletions there are and whatever fails, but for turns that    *)
(* were disturbed because a lock was lost.                                 *)
(***************************************************************************)
THEOREM DeletionsWait == Spec => DeletionWaits
<1>1. ASSUME TypeOK, Placed, [Next]_vars
      PROVE  [durable /\ alive /\ ~alive' =>
                \A t \in Turn : Running(t) => t \in disturbed]_vars
  <2> SUFFICES ASSUME Next, durable, alive, ~ alive'
               PROVE  \A t \in Turn : Running(t) => t \in disturbed
    BY <1>1
  <2>1. \A t \in Turn : ~ (AcquireTurn(t) \/ TurnStep(t) \/ PlanUpdated(t))
    BY DEF AcquireTurn, TurnStep, PlanUpdated, TurnRefused, ReadHistory,
           ReadFails, Start, AppendUser, BeforeModelFails, ModelReplies,
           ToolResult, RecordFails, AgentFails, NoResponse, Complete,
           ReleaseTurn, Stored, NotStored, session
  <2>2. ~ Expire
    BY DEF Expire
  <2>3. PICK d \in Deletion : Delete(d)
    BY <2>1, <2>2 DEF Next, AcquireForDelete, DeleteGivesUp, DeleteStep,
                      DeleteFails, ReleaseDelete, LoseTurn, session
  <2>4. d \in executing
    BY <1>1, <2>3 DEF Delete, Placed, Outside
  <2>5. \A t \in Turn : t \in executing => t \in disturbed
    BY <1>1, <2>4, CallersDiffer DEF Placed
  <2> QED BY <1>1, <2>5 DEF Placed, Outside, Running
<1> QED BY <1>1, TypeCorrect, PlacedAlways, PTL DEF Spec, DeletionWaits

-----------------------------------------------------------------------------
(***************************************************************************)
(* The log of the session                                                  *)
(***************************************************************************)

\* A turn that has not stored its user's message has nothing in the log, and
\* one that has read the history has read all of the log.
LogPlaced ==
  /\ ~ alive => log = <<>>
  /\ \A t \in Turn : pc[t] \in {"idle", "locked", "ready", "appending"} =>
       \A i \in DOMAIN log : log[i].run # t

LogInv == LogPlaced /\ HistoryIsFresh /\ RunsAreContiguous

\* What storing a message of a turn does: the user's as the turn's first, and
\* then those of the agent.
LEMMA StoreKeeps ==
  ASSUME TypeOK, Placed, LogInv,
         NEW t \in Turn, NEW m \in Message, Stored(m), m.run = t,
         \/ pc[t] = "appending"
         \/ pc[t] \in {"model", "tools"} /\ m.role # "user",
         disturbed \subseteq disturbed'
  PROVE  /\ RunsAreContiguous'
         /\ alive' = alive
         /\ DOMAIN log' = 1 .. Len(log) + 1 /\ Len(log') = Len(log) + 1
         /\ \A i \in DOMAIN log : log'[i] = log[i]
         /\ log'[Len(log) + 1] = m
         /\ DOMAIN log = 1 .. Len(log) /\ Len(log) \in Nat
<1>1. log \in Seq(Message)
  BY DEF TypeOK
<1>2. Len(log) \in Nat /\ DOMAIN log = 1 .. Len(log)
  BY <1>1, LenProperties
<1>3. /\ Len(log') = Len(log) + 1
      /\ DOMAIN log' = 1 .. Len(log) + 1
      /\ \A i \in DOMAIN log : log'[i] = log[i]
      /\ log'[Len(log) + 1] = m
  BY <1>1, <1>2, AppendProperties DEF Stored
<1>4. alive /\ alive' = alive
  BY DEF Stored
<1>5. ASSUME NEW i \in DOMAIN log, log[i].run = t
      PROVE  /\ t \notin disturbed => \A k \in i .. Len(log) : log[k].run = t
             /\ m.role # "user"
  <2>1. pc[t] \in {"model", "tools"}
    BY <1>5 DEF LogInv, LogPlaced
  <2>2. t \notin disturbed =>
          \A k \in DOMAIN log : log[k].run = t <=> k > Len(history[t])
    <3>1. history[t] \in Seq(Message)
      BY DEF TypeOK
    <3>2. Len(history[t]) \in Nat
      BY <3>1, LenProperties
    <3> QED BY <1>2, <1>4, <2>1, <3>2 DEF LogInv, HistoryIsFresh
  <2>3. Len(history[t]) \in Nat
    BY LenProperties DEF TypeOK
  <2> QED BY <1>2, <1>5, <2>1, <2>2, <2>3
<1>6. ASSUME NEW i \in DOMAIN log', NEW j \in DOMAIN log',
             i < j, log'[i].run = log'[j].run
      PROVE  /\ log'[i].run \notin disturbed =>
                  \A k \in i .. j : log'[k].run = log'[i].run
             /\ log'[j].role # "user"
  <2>1. i \in DOMAIN log
    BY <1>2, <1>3, <1>6
  <2>2. CASE j \in DOMAIN log
    <3>1. log[i].run = log[j].run
      BY <1>3, <1>6, <2>1, <2>2
    <3>2. /\ log[i].run \notin disturbed =>
               \A k \in i .. j : log[k].run = log[i].run
          /\ log[j].role # "user"
      BY <1>6, <2>1, <2>2, <3>1 DEF LogInv, RunsAreContiguous
    <3>3. \A k \in i .. j : k \in DOMAIN log
      BY <1>2, <2>1, <2>2
    <3> QED BY <1>3, <2>1, <2>2, <3>2, <3>3
  <2>3. CASE j = Len(log) + 1
    <3>1. log[i].run = t
      BY <1>3, <1>6, <2>1, <2>3
    <3>2. \A k \in i .. Len(log) :
            (t \notin disturbed => log[k].run = t) /\ k \in DOMAIN log
      BY <1>2, <1>5, <2>1, <3>1
    <3>3. \A k \in i .. j : k \in i .. Len(log) \/ k = j
      BY <1>2, <2>1, <2>3
    <3> QED BY <1>3, <1>5, <2>1, <2>3, <3>1, <3>2, <3>3
  <2> QED BY <1>2, <1>3, <2>2, <2>3
<1>7. RunsAreContiguous'
  BY <1>6 DEF RunsAreContiguous
<1> QED BY <1>2, <1>3, <1>4, <1>7

\* A turn stores a message and goes on: the others have not begun, or are
\* over, or are disturbed.
LEMMA StoreAndGoOn ==
  ASSUME TypeOK, Placed, LogInv,
         NEW t \in Turn, NEW m \in Message, Stored(m), m.run = t,
         \/ pc[t] = "appending"
         \/ pc[t] \in {"model", "tools"} /\ m.role # "user",
         NEW place \in {"model", "tools", "answered", "releasing"},
         Goto(t, place), UNCHANGED history, disturbed \subseteq disturbed'
  PROVE  LogInv'
<1>1. /\ RunsAreContiguous'
      /\ alive' = alive
      /\ DOMAIN log' = 1 .. Len(log) + 1 /\ Len(log') = Len(log) + 1
      /\ \A i \in DOMAIN log : log'[i] = log[i]
      /\ log'[Len(log) + 1] = m
      /\ DOMAIN log = 1 .. Len(log) /\ Len(log) \in Nat
  BY StoreKeeps
<1>2. /\ pc'[t] = place
      /\ \A q \in Turn \cup Deletion : q # t => pc'[q] = pc[q]
  BY GotoType DEF Places
<1>3. \A u \in Turn : u # t => pc[u] \in Outside \/ u \in disturbed
  BY DEF Placed, Outside
<1>4. alive
  BY DEF Stored
<1>5. LogPlaced'
  <2>1. ASSUME NEW u \in Turn, pc'[u] \in {"idle", "locked", "ready", "appending"},
               NEW i \in DOMAIN log'
        PROVE  log'[i].run # u
    <3>1. u # t /\ pc[u] = pc'[u]
      BY <1>2, <2>1
    <3>2. CASE i \in DOMAIN log
      BY <1>1, <2>1, <3>1, <3>2 DEF LogInv, LogPlaced
    <3>3. CASE i = Len(log) + 1
      BY <1>1, <3>1, <3>3
    <3> QED BY <1>1, <3>2, <3>3
  <2> QED BY <1>1, <1>4, <2>1 DEF LogPlaced
<1>6. HistoryIsFresh'
  <2>1. SUFFICES ASSUME NEW u \in Turn \ disturbed',
                        pc'[u] \in {"ready", "appending", "model", "tools", "answered"}
                 PROVE  /\ Len(history'[u]) <= Len(log')
                        /\ \A i \in DOMAIN log' :
                             IF i <= Len(history'[u])
                               THEN log'[i] = history'[u][i] /\ log'[i].run # u
                               ELSE log'[i].run = u
    BY DEF HistoryIsFresh
  <2>2. u = t /\ t \notin disturbed
    BY <1>2, <1>3, <2>1 DEF Outside
  <2>3. Len(history[t]) \in Nat /\ history' = history
    BY LenProperties DEF TypeOK
  <2>4. /\ Len(history[t]) <= Len(log)
        /\ \A i \in DOMAIN log :
             IF i <= Len(history[t]) THEN log[i] = history[t][i] /\ log[i].run # t
                                     ELSE log[i].run = t
    BY <1>4, <2>2 DEF LogInv, HistoryIsFresh
  <2>5. ASSUME NEW i \in DOMAIN log'
        PROVE  IF i <= Len(history[t])
                 THEN log'[i] = history[t][i] /\ log'[i].run # t
                 ELSE log'[i].run = t
    <3>1. CASE i \in DOMAIN log
      BY <1>1, <2>4, <3>1
    <3>2. CASE i = Len(log) + 1
      BY <1>1, <2>3, <2>4, <3>2
    <3> QED BY <1>1, <3>1, <3>2
  <2> QED BY <1>1, <2>2, <2>3, <2>4, <2>5
<1> QED BY <1>1, <1>5, <1>6 DEF LogInv

\* A request moves and the log stays: nobody comes to a place where the
\* invariant says more than it did before.
LEMMA MoveKeepsLog ==
  ASSUME TypeOK, LogInv, NEW r \in Turn \cup Deletion, NEW place \in Places,
         Goto(r, place), UNCHANGED <<session, history>>,
         disturbed \subseteq disturbed',
         \/ place \in {"done", "releasing", "deleting"}
         \/ pc[r] = "idle" /\ place = "locked"
         \/ pc[r] = "ready" /\ place = "appending"
  PROVE  LogInv'
<1>1. /\ pc'[r] = place
      /\ \A q \in Turn \cup Deletion : q # r => pc'[q] = pc[q]
  BY GotoType
<1>2. alive' = alive /\ log' = log /\ history' = history
  BY DEF session
<1>3. RunsAreContiguous'
  BY <1>2 DEF LogInv, RunsAreContiguous
<1>4. LogPlaced'
  BY <1>1, <1>2 DEF LogInv, LogPlaced
<1>5. HistoryIsFresh'
  BY <1>1, <1>2 DEF LogInv, HistoryIsFresh
<1> QED BY <1>3, <1>4, <1>5 DEF LogInv

\* The session goes.
LEMMA GoneKeepsLog ==
  ASSUME ~ alive', log' = <<>>
  PROVE  LogInv'
BY DEF LogInv, LogPlaced, HistoryIsFresh, RunsAreContiguous

\* Nothing of it changes, or a request is disturbed more.
LEMMA StillKeepsLog ==
  ASSUME LogInv, UNCHANGED <<session, pc, history>>,
         disturbed \subseteq disturbed'
  PROVE  LogInv'
BY DEF session, LogInv, LogPlaced, HistoryIsFresh, RunsAreContiguous

LEMMA LogStep ==
  ASSUME TypeOK, Placed, LogInv, [Next]_vars
  PROVE  LogInv'
<1> USE DEF Places
<1>s. disturbed \subseteq disturbed'
  BY DisturbedStay
<1>0. ASSUME UNCHANGED vars PROVE LogInv'
  BY <1>0, <1>s, StillKeepsLog DEF vars, loop
<1>1. ASSUME NEW t \in Turn, AcquireTurn(t) PROVE LogInv'
  BY <1>1, <1>s, MoveKeepsLog DEF AcquireTurn, loop
<1>2. ASSUME NEW t \in Turn, TurnStep(t) \/ PlanUpdated(t) PROVE LogInv'
  <2>1. CASE TurnRefused(t)
    BY <2>1, <1>s, MoveKeepsLog DEF TurnRefused, loop
  <2>2. CASE ReadHistory(t)
    <3>1. /\ pc'[t] = "ready"
          /\ \A q \in Turn \cup Deletion : q # t => pc'[q] = pc[q]
      BY <2>2, GotoType DEF ReadHistory
    <3>2. /\ alive' = alive /\ log' = log
          /\ history'[t] = log
          /\ \A u \in Turn : u # t => history'[u] = history[u]
      BY <2>2 DEF ReadHistory, session, TypeOK
    <3>3. \A i \in DOMAIN log : log[i].run # t
      BY <2>2 DEF ReadHistory, LogInv, LogPlaced
    <3>4. Len(log) \in Nat /\ DOMAIN log = 1 .. Len(log)
      BY LenProperties DEF TypeOK
    <3>5. RunsAreContiguous'
      BY <1>s, <3>2 DEF LogInv, RunsAreContiguous
    <3>6. LogPlaced'
      BY <3>1, <3>2, <3>3 DEF LogInv, LogPlaced
    <3>7. HistoryIsFresh'
      BY <1>s, <3>1, <3>2, <3>3, <3>4 DEF LogInv, HistoryIsFresh
    <3> QED BY <3>5, <3>6, <3>7 DEF LogInv
  <2>3. CASE ReadFails(t)
    BY <2>3, <1>s, MoveKeepsLog DEF ReadFails, loop
  <2>4. CASE Start(t)
    BY <2>4, <1>s, MoveKeepsLog DEF Start, loop
  <2>5. CASE AppendUser(t)
    BY <2>5, <1>s, StoreAndGoOn, MessagesType DEF AppendUser, UserMessage, loop
  <2>6. CASE BeforeModelFails(t)
    <3>1. CASE UNCHANGED session
      BY <2>6, <3>1, <1>s, MoveKeepsLog DEF BeforeModelFails, loop
    <3>2. CASE Stored(UserMessage(t))
      BY <2>6, <3>2, <1>s, StoreAndGoOn, MessagesType
         DEF BeforeModelFails, UserMessage, loop
    <3> QED BY <2>6, <3>1, <3>2 DEF BeforeModelFails, NotStored
  <2>7. ASSUME NEW calls \in Askable(t), NEW text \in BOOLEAN,
               ModelReplies(t, calls, text)
        PROVE  LogInv'
    <3>1. /\ ModelMessage(t, calls) \in Message
          /\ ModelMessage(t, calls).run = t
          /\ ModelMessage(t, calls).role # "user"
      BY AskableCalls, MessagesType DEF ModelMessage
    <3>2. PICK place \in {"tools", "answered"} : Goto(t, place)
      BY <2>7 DEF ModelReplies
    <3> QED BY <2>7, <3>1, <3>2, <1>s, StoreAndGoOn DEF ModelReplies, MayReply
  <2>8. ASSUME NEW c \in CallId, ToolResult(t, c) PROVE LogInv'
    <3>1. /\ ToolMessage(t, c) \in Message
          /\ ToolMessage(t, c).run = t
          /\ ToolMessage(t, c).role # "user"
      BY MessagesType DEF ToolMessage
    <3>2. PICK place \in {"tools", "model"} : Goto(t, place)
      BY <2>8 DEF ToolResult
    <3> QED BY <2>8, <3>1, <3>2, <1>s, StoreAndGoOn DEF ToolResult
  <2>9. CASE RecordFails(t)
    <3>1. PICK m \in Message : /\ NotStored(m)
                               /\ m.run = t /\ m.role # "user"
      <4>1. asked[t] \in SUBSET CallId
        BY DEF TypeOK
      <4> QED BY <2>9, <4>1, AskableCalls, MessagesType
              DEF RecordFails, ModelMessage, ToolMessage
    <3>2. pc[t] \in {"model", "tools"}
      BY <2>9 DEF RecordFails, MayReply
    <3>3. CASE UNCHANGED session
      BY <2>9, <3>3, <1>s, MoveKeepsLog DEF RecordFails
    <3>4. CASE Stored(m)
      BY <2>9, <3>1, <3>2, <3>4, <1>s, StoreAndGoOn DEF RecordFails
    <3> QED BY <3>1, <3>3, <3>4 DEF NotStored
  <2>10. CASE AgentFails(t) \/ NoResponse(t) \/ Complete(t)
    BY <2>10, <1>s, MoveKeepsLog DEF AgentFails, NoResponse, Complete, loop
  <2>11. CASE ReleaseTurn(t)
    <3>1. /\ pc'[t] = "done"
          /\ \A q \in Turn \cup Deletion : q # t => pc'[q] = pc[q]
      BY <2>11, GotoType DEF ReleaseTurn
    <3>2. /\ alive' = alive /\ log' = log
          /\ \A u \in Turn : u # t => history'[u] = history[u]
      BY <2>11 DEF ReleaseTurn, session, TypeOK
    <3>3. RunsAreContiguous'
      BY <1>s, <3>2 DEF LogInv, RunsAreContiguous
    <3>4. LogPlaced'
      BY <3>1, <3>2 DEF LogInv, LogPlaced
    <3>5. HistoryIsFresh'
      BY <1>s, <3>1, <3>2 DEF LogInv, HistoryIsFresh
    <3> QED BY <3>3, <3>4, <3>5 DEF LogInv
  <2>12. CASE PlanUpdated(t)
    BY <1>s, <2>12, StillKeepsLog DEF PlanUpdated, loop
  <2> QED BY <1>2, <2>1, <2>2, <2>3, <2>4, <2>5, <2>6, <2>7, <2>8, <2>9,
             <2>10, <2>11, <2>12 DEF TurnStep
<1>3. ASSUME NEW d \in Deletion,
             AcquireForDelete(d) \/ DeleteGivesUp(d) \/ DeleteStep(d)
      PROVE  LogInv'
  <2>1. CASE Delete(d)
    BY <2>1, GoneKeepsLog DEF Delete
  <2>2. CASE AcquireForDelete(d) \/ DeleteGivesUp(d) \/ DeleteFails(d)
             \/ ReleaseDelete(d)
    BY <2>2, <1>s, MoveKeepsLog DEF AcquireForDelete, DeleteGivesUp, DeleteFails,
                              ReleaseDelete, loop
  <2> QED BY <1>3, <2>1, <2>2 DEF DeleteStep
<1>4. ASSUME Expire PROVE LogInv'
  BY <1>4, GoneKeepsLog DEF Expire
<1>5. ASSUME NEW r \in Turn \cup Deletion, LoseTurn(r) PROVE LogInv'
  BY <1>5, StillKeepsLog DEF LoseTurn, loop
<1> QED BY <1>0, <1>1, <1>2, <1>3, <1>4, <1>5 DEF Next

LEMMA LogAlways == Spec => []LogInv
<1>1. Init => LogInv
  BY DEF Init, LogInv, LogPlaced, HistoryIsFresh, RunsAreContiguous
<1> QED BY <1>1, LogStep, TypeCorrect, PlacedAlways, PTL DEF Spec

(***************************************************************************)
(* What a turn read before it fetched the profile and stored its user's    *)
(* message is, to its end, what precedes its own messages in the log,      *)
(* unless it was disturbed because a lock was lost.                        *)
(***************************************************************************)
THEOREM HistoryStaysFresh == Spec => []HistoryIsFresh
BY LogAlways, PTL DEF LogInv

(***************************************************************************)
(* The messages of a turn that was not disturbed are never interleaved     *)
(* with others, whatever disturbed turns do before or after it; and each   *)
(* turn's start with its user's, also when a store says that it failed and *)
(* did not.                                                                *)
(***************************************************************************)
THEOREM RunsStayTogether == Spec => []RunsAreContiguous
BY LogAlways, PTL DEF LogInv

-----------------------------------------------------------------------------
(***************************************************************************)
(* The events of a run                                                     *)
(***************************************************************************)

OpenList(ev) == \A i \in DOMAIN ev : ~ Terminal(ev[i])

\* A run that has not started has sent nothing, one that goes on has started
\* and not ended.
EventsPlaced ==
  \A t \in Turn :
    /\ pc[t] \in {"idle", "locked", "ready"} => events[t] = <<>>
    /\ pc[t] \in {"appending", "model", "tools", "answered"} =>
         Len(events[t]) > 0 /\ Open(t)

EventInv == EventsPlaced /\ StreamShape

\* A list that has started, followed by one without a terminal event.
LEMMA MoreEvents ==
  ASSUME NEW ev \in Seq(Event), NEW new \in Seq(Event),
         Len(ev) > 0, ev[1].type = "run.started", OpenList(ev), OpenList(new)
  PROVE  /\ Len(ev \o new) > 0
         /\ (ev \o new)[1].type = "run.started"
         /\ OpenList(ev \o new)
<1>1. /\ Len(ev) \in Nat /\ DOMAIN ev = 1 .. Len(ev)
      /\ Len(new) \in Nat /\ DOMAIN new = 1 .. Len(new)
  BY LenProperties
<1>2. /\ Len(ev \o new) = Len(ev) + Len(new)
      /\ DOMAIN (ev \o new) = 1 .. Len(ev) + Len(new)
      /\ \A i \in 1 .. Len(ev) + Len(new) :
           (ev \o new)[i] = IF i <= Len(ev) THEN ev[i] ELSE new[i - Len(ev)]
  BY <1>1, ConcatProperties, LenProperties
<1>3. ASSUME NEW i \in DOMAIN (ev \o new)
      PROVE  ~ Terminal((ev \o new)[i])
  <2>1. CASE i <= Len(ev)
    BY <1>1, <1>2, <2>1 DEF OpenList
  <2>2. CASE i > Len(ev)
    <3>1. i - Len(ev) \in DOMAIN new
      BY <1>1, <1>2, <2>2
    <3> QED BY <1>1, <1>2, <2>2, <3>1 DEF OpenList
  <2> QED BY <1>1, <1>2, <2>1, <2>2
<1> QED BY <1>1, <1>2, <1>3 DEF OpenList

LEMMA StartedEvents ==
  /\ ~ Terminal(Ev("run.started"))
  /\ ~ Terminal(Ev("task_plan.updated"))
  /\ Terminal(Ev("run.failed"))
  /\ Terminal(Ev("run.completed"))
  /\ \A c \in CallId : ~ Terminal(Reported(c))
BY DEF Terminal, Ev, Reported, CallEv

\* A run goes on.
LEMMA EmitMore ==
  ASSUME TypeOK, EventInv, NEW t \in Turn, NEW new \in Seq(Event),
         OpenList(new), Emit(t, new),
         pc[t] \in {"appending", "model", "tools", "answered"},
         pc'[t] \in {"appending", "model", "tools", "answered"},
         \A u \in Turn : u # t => pc'[u] = pc[u]
  PROVE  EventInv'
<1>1. /\ events[t] \in Seq(Event)
      /\ Len(events[t]) > 0 /\ Open(t) /\ events[t][1].type = "run.started"
  BY DEF TypeOK, EventInv, EventsPlaced, StreamShape
<1>2. /\ events'[t] = events[t] \o new
      /\ \A u \in Turn : u # t => events'[u] = events[u]
  BY <1>1, EmitKeeps DEF TypeOK
<1>3. OpenList(events[t])
  BY <1>1 DEF Open, OpenList
<1>4. /\ Len(events'[t]) > 0
      /\ events'[t][1].type = "run.started"
      /\ OpenList(events'[t])
  BY <1>1, <1>2, <1>3, MoreEvents
<1> QED BY <1>2, <1>4
        DEF EventInv, EventsPlaced, StreamShape, Open, OpenList

\* A list that has started, followed by the last events of its run.
LEMMA LastEvents ==
  ASSUME NEW ev \in Seq(Event), NEW new \in Seq(Event), NEW e \in Event,
         Len(ev) > 0, ev[1].type = "run.started", OpenList(ev), OpenList(new),
         Terminal(e), NEW all, all = ev \o (new \o <<e>>)
  PROVE  /\ all \in Seq(Event)
         /\ Len(all) > 0
         /\ all[1].type = "run.started"
         /\ \A i \in DOMAIN all : Terminal(all[i]) <=> i = Len(all)
<1>1. /\ Len(ev) \in Nat /\ DOMAIN ev = 1 .. Len(ev)
      /\ Len(new) \in Nat /\ DOMAIN new = 1 .. Len(new)
  BY LenProperties
<1> DEFINE last == new \o <<e>>
<1>2. /\ last \in Seq(Event)
      /\ Len(last) = Len(new) + 1
      /\ \A i \in 1 .. Len(new) : last[i] = new[i]
      /\ last[Len(new) + 1] = e
  BY <1>1, ConcatProperties, LenProperties
<1> HIDE DEF last
<1>3. all = ev \o last
  BY DEF last
<1>4. /\ all \in Seq(Event)
      /\ Len(all) = Len(ev) + Len(new) + 1
      /\ DOMAIN all = 1 .. Len(ev) + Len(new) + 1
      /\ \A i \in 1 .. Len(ev) : all[i] = ev[i]
      /\ \A i \in 1 .. Len(new) + 1 : all[Len(ev) + i] = last[i]
  BY <1>1, <1>2, <1>3, ConcatProperties, LenProperties
<1> DEFINE n == Len(ev) + Len(new)
<1>5. n \in Nat /\ Len(all) = n + 1
  BY <1>1, <1>4
<1>6. ASSUME NEW i \in 1 .. Len(ev) PROVE ~ Terminal(all[i])
  BY <1>1, <1>4 DEF OpenList
<1>7. ASSUME NEW i \in Len(ev) + 1 .. n PROVE ~ Terminal(all[i])
  <2>1. i - Len(ev) \in 1 .. Len(new) /\ i = Len(ev) + (i - Len(ev))
    BY <1>1
  <2>2. all[i] = new[i - Len(ev)]
    BY <1>1, <1>2, <1>4, <2>1
  <2> QED BY <1>1, <2>1, <2>2 DEF OpenList
<1>8. Terminal(all[n + 1])
  <2>1. n + 1 = Len(ev) + (Len(new) + 1) /\ Len(new) + 1 \in 1 .. Len(new) + 1
    BY <1>1
  <2> QED BY <1>2, <1>4, <2>1
<1>9. \A i \in 1 .. n + 1 : i \in 1 .. Len(ev) \/ i \in Len(ev) + 1 .. n \/ i = n + 1
  <2>1. ASSUME NEW a \in Nat, NEW b \in Nat
        PROVE  \A i \in 1 .. b + 1 : i \in 1 .. a \/ i \in a + 1 .. b \/ i = b + 1
    OBVIOUS
  <2> HIDE DEF n
  <2> QED BY <1>1, <1>5, <2>1
<1>10. DOMAIN all = 1 .. n + 1
  BY <1>4
<1>11. \A i \in 1 .. Len(ev) : i # n + 1
  BY <1>1
<1>12. \A i \in Len(ev) + 1 .. n : i # n + 1
  BY <1>1
<1> HIDE DEF n
<1>13. \A i \in DOMAIN all : Terminal(all[i]) <=> i = n + 1
  BY <1>6, <1>7, <1>8, <1>9, <1>10, <1>11, <1>12
<1> QED BY <1>1, <1>4, <1>5, <1>13

\* A run that is over, and has told so.
LEMMA Ended ==
  ASSUME EventInv, NEW t \in Turn,
         pc'[t] \in {"releasing", "done"},
         \A u \in Turn : u # t => pc'[u] = pc[u] /\ events'[u] = events[u],
         events'[t] \in Seq(Event), Len(events'[t]) > 0,
         events'[t][1].type = "run.started",
         \A i \in DOMAIN events'[t] :
           Terminal(events'[t][i]) <=> i = Len(events'[t])
  PROVE  EventInv'
<1>1. Len(events'[t]) \in DOMAIN events'[t]
  BY LenProperties
<1>2. ASSUME NEW u \in Turn
      PROVE  /\ Len(events'[u]) > 0 => events'[u][1].type = "run.started"
             /\ \A i \in DOMAIN events'[u] :
                  Terminal(events'[u][i]) => i = Len(events'[u])
             /\ pc'[u] \in {"releasing", "done"} =>
                  Len(events'[u]) > 0 /\ Terminal(events'[u][Len(events'[u])])
  <2>1. CASE u = t
    BY <1>1, <2>1
  <2>2. CASE u # t
    BY <2>2 DEF EventInv, StreamShape
  <2> QED BY <2>1, <2>2
<1>3. StreamShape'
  BY <1>2 DEF StreamShape
<1>4. EventsPlaced'
  BY DEF EventInv, EventsPlaced, Open
<1> QED BY <1>3, <1>4 DEF EventInv

\* A run ends, whatever of its calls it reports first.
LEMMA EmitLast ==
  ASSUME TypeOK, EventInv, NEW t \in Turn, NEW new \in Seq(Event),
         NEW e \in Event, OpenList(new), Terminal(e), Emit(t, new \o <<e>>),
         pc[t] \in {"appending", "model", "tools", "answered"},
         pc'[t] = "releasing",
         \A u \in Turn : u # t => pc'[u] = pc[u]
  PROVE  EventInv'
<1>1. /\ events[t] \in Seq(Event)
      /\ Len(events[t]) > 0 /\ Open(t) /\ events[t][1].type = "run.started"
  BY DEF TypeOK, EventInv, EventsPlaced, StreamShape
<1>2. new \o <<e>> \in Seq(Event)
  BY ConcatProperties
<1>3. /\ events'[t] = events[t] \o (new \o <<e>>)
      /\ \A u \in Turn : u # t => events'[u] = events[u]
  BY <1>1, <1>2, EmitKeeps DEF TypeOK
<1>4. OpenList(events[t])
  BY <1>1 DEF Open, OpenList
<1>5. /\ events'[t] \in Seq(Event)
      /\ Len(events'[t]) > 0
      /\ events'[t][1].type = "run.started"
      /\ \A i \in DOMAIN events'[t] :
           Terminal(events'[t][i]) <=> i = Len(events'[t])
  BY <1>1, <1>3, <1>4, LastEvents
<1> QED BY <1>3, <1>5, Ended

\* A run that never got to its model has its two events.
LEMMA EmitOnlyFailure ==
  ASSUME TypeOK, EventInv, NEW t \in Turn,
         Emit(t, <<Ev("run.started"), Ev("run.failed")>>),
         pc[t] \in {"idle", "locked", "ready"},
         pc'[t] \in {"releasing", "done"},
         \A u \in Turn : u # t => pc'[u] = pc[u]
  PROVE  EventInv'
<1>1. events[t] = <<>> /\ Open(t)
  BY DEF EventInv, EventsPlaced, Open
<1>2. /\ events'[t] = <<>> \o <<Ev("run.started"), Ev("run.failed")>>
      /\ \A u \in Turn : u # t => events'[u] = events[u]
  BY <1>1, NewEvents, EmitKeeps DEF TypeOK
<1>3. events'[t] = <<Ev("run.started"), Ev("run.failed")>>
  BY <1>2, NewEvents, ConcatEmptySeq
<1>4. events'[t] \in Seq(Event) /\ events'[t][1].type = "run.started"
  BY <1>3, NewEvents DEF Ev
<1>5. \A i \in DOMAIN events'[t] : Terminal(events'[t][i]) <=> i = 2
  BY <1>3, StartedEvents
<1>6. Len(events'[t]) = 2
  BY <1>3
<1>7. /\ Len(events'[t]) > 0
      /\ \A i \in DOMAIN events'[t] :
           Terminal(events'[t][i]) <=> i = Len(events'[t])
  BY <1>5, <1>6
<1> QED BY <1>2, <1>4, <1>7, Ended

\* Nothing is sent.
LEMMA EmitNothing ==
  ASSUME EventInv, UNCHANGED events,
         \A t \in Turn :
           \/ pc'[t] = pc[t]
           \/ pc[t] \in {"idle", "locked", "ready"}
                /\ pc'[t] \in {"idle", "locked", "ready"}
           \/ pc[t] \in {"appending", "model", "tools", "answered"}
                /\ pc'[t] \in {"appending", "model", "tools", "answered"}
           \/ pc[t] = "releasing" /\ pc'[t] = "done"
  PROVE  EventInv'
BY DEF EventInv, EventsPlaced, StreamShape, Open

\* Where a step leaves the turns that do not take it.
LEMMA GotoTurns ==
  ASSUME TypeOK, NEW r \in Turn \cup Deletion, NEW place \in Places,
         Goto(r, place)
  PROVE  pc'[r] = place /\ \A u \in Turn : u # r => pc'[u] = pc[u]
BY GotoType

LEMMA EventStep ==
  ASSUME TypeOK, Placed, EventInv, [Next]_vars
  PROVE  EventInv'
<1> USE DEF Places
<1>0. ASSUME UNCHANGED vars PROVE EventInv'
  BY <1>0, EmitNothing DEF vars
<1>1. ASSUME NEW t \in Turn, AcquireTurn(t) PROVE EventInv'
  BY <1>1, GotoTurns, EmitNothing DEF AcquireTurn
<1>2. ASSUME NEW t \in Turn, TurnStep(t) \/ PlanUpdated(t) PROVE EventInv'
  <2>0. <<>> \in Seq(Event) /\ OpenList(<<>>)
    BY EmptySeq DEF OpenList
  <2>1. CASE TurnRefused(t)
    BY <2>1, GotoTurns, EmitOnlyFailure DEF TurnRefused
  <2>2. CASE ReadHistory(t)
    BY <2>2, GotoTurns, EmitNothing DEF ReadHistory
  <2>3. CASE ReadFails(t)
    BY <2>3, GotoTurns, EmitOnlyFailure DEF ReadFails
  <2>4. CASE Start(t)
    <3>1. events[t] = <<>> /\ Open(t)
      BY <2>4 DEF Start, EventInv, EventsPlaced, Open
    <3>2. /\ events'[t] = <<>> \o <<Ev("run.started")>>
          /\ \A u \in Turn : u # t => events'[u] = events[u]
      BY <2>4, <3>1, NewEvents, EmitKeeps DEF Start, TypeOK
    <3>3. events'[t] = <<Ev("run.started")>>
      BY <3>2, NewEvents, ConcatEmptySeq
    <3>4. /\ Len(events'[t]) = 1 /\ events'[t][1].type = "run.started"
          /\ \A i \in DOMAIN events'[t] : ~ Terminal(events'[t][i])
      BY <3>3, StartedEvents DEF Ev
    <3>5. pc'[t] = "appending" /\ \A u \in Turn : u # t => pc'[u] = pc[u]
      BY <2>4, GotoTurns DEF Start
    <3> QED BY <3>2, <3>4, <3>5 DEF EventInv, EventsPlaced, StreamShape, Open
  <2>5. CASE AppendUser(t)
    BY <2>5, GotoTurns, EmitNothing DEF AppendUser
  <2>6. CASE BeforeModelFails(t)
    <3>1. Emit(t, <<>> \o <<Ev("run.failed")>>)
      BY <2>6, NewEvents, ConcatEmptySeq DEF BeforeModelFails
    <3> QED BY <2>0, <2>6, <3>1, GotoTurns, EmitLast, StartedEvents, EvType
            DEF BeforeModelFails
  <2>7. ASSUME NEW calls \in Askable(t), NEW text \in BOOLEAN,
               ModelReplies(t, calls, text)
        PROVE  EventInv'
    <3>1. calls \ pending[t] \in SUBSET CallId
      BY AskableCalls
    <3>2. /\ EvOfEach("tool.call.started", calls \ pending[t]) \in Seq(Event)
          /\ OpenList(EvOfEach("tool.call.started", calls \ pending[t]))
      BY <3>1, EvOfEachType DEF OpenList
    <3>3. PICK place \in {"tools", "answered"} : Goto(t, place)
      BY <2>7 DEF ModelReplies
    <3> QED BY <2>7, <3>2, <3>3, GotoTurns, EmitMore DEF ModelReplies, MayReply
  <2>8. ASSUME NEW c \in CallId, ToolResult(t, c) PROVE EventInv'
    <3>1. <<Reported(c)>> \in Seq(Event) /\ OpenList(<<Reported(c)>>)
      BY NewEvents, StartedEvents DEF OpenList
    <3>2. PICK place \in {"tools", "model"} : Goto(t, place)
      BY <2>8 DEF ToolResult
    <3> QED BY <2>8, <3>1, <3>2, GotoTurns, EmitMore DEF ToolResult
  <2>9. CASE RecordFails(t)
    <3>1. Emit(t, <<>> \o <<Ev("run.failed")>>)
      BY <2>9, NewEvents, ConcatEmptySeq DEF RecordFails
    <3> QED BY <2>0, <2>9, <3>1, GotoTurns, EmitLast, StartedEvents, EvType
            DEF RecordFails, MayReply
  <2>10. CASE AgentFails(t) \/ NoResponse(t)
    <3>1. pending[t] \in SUBSET CallId
      BY DEF TypeOK
    <3>2. /\ EvOfEach("tool.call.failed", pending[t]) \in Seq(Event)
          /\ OpenList(EvOfEach("tool.call.failed", pending[t]))
      BY <3>1, EvOfEachType DEF OpenList
    <3> QED BY <2>10, <3>2, GotoTurns, EmitLast, StartedEvents, EvType
            DEF AgentFails, NoResponse
  <2>11. CASE Complete(t)
    <3>1. Emit(t, <<>> \o <<Ev("run.completed")>>)
      BY <2>11, NewEvents, ConcatEmptySeq DEF Complete
    <3> QED BY <2>0, <2>11, <3>1, GotoTurns, EmitLast, StartedEvents, EvType
            DEF Complete
  <2>12. CASE ReleaseTurn(t)
    BY <2>12, GotoTurns, EmitNothing DEF ReleaseTurn
  <2>13. CASE PlanUpdated(t)
    <3>0. pc' = pc
      BY <2>13 DEF PlanUpdated
    <3>1. <<Ev("task_plan.updated")>> \in Seq(Event)
          /\ OpenList(<<Ev("task_plan.updated")>>)
      BY NewEvents, StartedEvents DEF OpenList
    <3>2. CASE pc[t] \in {"model", "tools"}
      BY <2>13, <3>0, <3>1, <3>2, EmitMore DEF PlanUpdated
    <3>3. CASE pc[t] \in {"releasing", "done"}
      <4>1. Len(events[t]) \in DOMAIN events[t] /\ Terminal(events[t][Len(events[t])])
        BY <3>3, LenProperties DEF EventInv, StreamShape, TypeOK
      <4>2. ~ Open(t)
        BY <4>1 DEF Open
      <4>3. UNCHANGED events
        BY <2>13, <4>2 DEF PlanUpdated, Emit
      <4> QED BY <3>0, <4>3, EmitNothing
    <3> QED BY <2>13, <3>2, <3>3 DEF PlanUpdated
  <2> QED BY <1>2, <2>1, <2>2, <2>3, <2>4, <2>5, <2>6, <2>7, <2>8, <2>9,
             <2>10, <2>11, <2>12, <2>13 DEF TurnStep
<1>3. ASSUME NEW d \in Deletion,
             AcquireForDelete(d) \/ DeleteGivesUp(d) \/ DeleteStep(d)
      PROVE  EventInv'
  <2>1. PICK place \in Places : Goto(d, place)
    BY <1>3 DEF AcquireForDelete, DeleteGivesUp, DeleteStep, Delete,
                DeleteFails, ReleaseDelete
  <2>2. UNCHANGED events
    BY <1>3 DEF AcquireForDelete, DeleteGivesUp, DeleteStep, Delete,
                DeleteFails, ReleaseDelete
  <2>3. \A t \in Turn : pc'[t] = pc[t]
    BY <2>1, GotoTurns, CallersDiffer
  <2> QED BY <2>2, <2>3, EmitNothing
<1>4. ASSUME Expire PROVE EventInv'
  BY <1>4, EmitNothing DEF Expire
<1>5. ASSUME NEW r \in Turn \cup Deletion, LoseTurn(r) PROVE EventInv'
  BY <1>5, EmitNothing DEF LoseTurn
<1> QED BY <1>0, <1>1, <1>2, <1>3, <1>4, <1>5 DEF Next

LEMMA EventAlways == Spec => []EventInv
<1>1. Init => EventInv
  <2> SUFFICES ASSUME Init PROVE EventInv
    OBVIOUS
  <2>1. \A t \in Turn : events[t] = <<>> /\ pc[t] = "idle"
    BY DEF Init
  <2> QED BY <2>1 DEF EventInv, EventsPlaced, StreamShape
<1> QED BY <1>1, EventStep, TypeCorrect, PlacedAlways, PTL DEF Spec

(***************************************************************************)
(* What a run sends starts with run.started and ends with its one terminal *)
(* event, after which nothing is sent, whatever its tools still do.        *)
(***************************************************************************)
THEOREM StreamsAreShaped == Spec => []StreamShape
<1>1. EventInv => StreamShape
  BY DEF EventInv
<1> QED BY <1>1, EventAlways, PTL

-----------------------------------------------------------------------------
(***************************************************************************)
(* The calls a client sees start and end                                   *)
(***************************************************************************)

\* The events of a list that are in a set.
Marks(ev, X) == {i \in DOMAIN ev : ev[i] \in X}
Upto(ev, X, i) == {k \in Marks(ev, X) : k <= i}

StartOf(c) == {CallEv("tool.call.started", c)}
EndOf(c) ==
  {CallEv("tool.call.completed", c), CallEv("tool.call.failed", c)}

\* A call has never ended more often than it started, and open of its starts
\* have not ended.
Balance(ev, c, open) ==
  /\ \A i \in DOMAIN ev :
       Cardinality(Upto(ev, EndOf(c), i)) <= Cardinality(Upto(ev, StartOf(c), i))
  /\ Cardinality(Marks(ev, StartOf(c))) = Cardinality(Marks(ev, EndOf(c))) + open

LEMMA MarksFinite ==
  ASSUME NEW ev \in Seq(Event), NEW X
  PROVE  /\ IsFiniteSet(Marks(ev, X))
         /\ Cardinality(Marks(ev, X)) \in Nat
         /\ \A i : /\ IsFiniteSet(Upto(ev, X, i))
                   /\ Cardinality(Upto(ev, X, i)) \in Nat
                   /\ Cardinality(Upto(ev, X, i)) <= Cardinality(Marks(ev, X))
<1>1. Len(ev) \in Nat /\ DOMAIN ev = 1 .. Len(ev)
  BY LenProperties
<1>2. IsFiniteSet(1 .. Len(ev))
  BY <1>1, FS_Interval
<1>3. Marks(ev, X) \in SUBSET (1 .. Len(ev))
  BY <1>1 DEF Marks
<1>4. IsFiniteSet(Marks(ev, X))
  BY <1>2, <1>3, FS_Subset
<1>5. \A i : Upto(ev, X, i) \in SUBSET Marks(ev, X)
  BY DEF Upto
<1>6. ASSUME NEW i
      PROVE  /\ IsFiniteSet(Upto(ev, X, i))
             /\ Cardinality(Upto(ev, X, i)) <= Cardinality(Marks(ev, X))
  BY <1>4, <1>5, FS_Subset
<1> QED BY <1>4, <1>6, FS_CardinalityType

\* Where the events of a joined list come from.
IsJoin(all, ev, new) ==
  /\ all \in Seq(Event)
  /\ Len(ev) \in Nat /\ DOMAIN ev = 1 .. Len(ev)
  /\ Len(new) \in Nat /\ DOMAIN new = 1 .. Len(new)
  /\ DOMAIN all = 1 .. Len(ev) + Len(new)
  /\ \A i \in DOMAIN ev : i \in DOMAIN all /\ all[i] = ev[i]
  /\ \A p \in DOMAIN new :
       Len(ev) + p \in DOMAIN all /\ all[Len(ev) + p] = new[p]
  /\ \A i \in DOMAIN all : i \in DOMAIN ev \/ i - Len(ev) \in DOMAIN new

LEMMA Joined ==
  ASSUME NEW ev \in Seq(Event), NEW new \in Seq(Event), NEW all, all = ev \o new
  PROVE  IsJoin(all, ev, new)
<1>1. /\ Len(ev) \in Nat /\ DOMAIN ev = 1 .. Len(ev)
      /\ Len(new) \in Nat /\ DOMAIN new = 1 .. Len(new)
  BY LenProperties
<1>2. /\ all \in Seq(Event)
      /\ Len(all) = Len(ev) + Len(new)
      /\ \A i \in 1 .. Len(ev) + Len(new) :
           all[i] = IF i <= Len(ev) THEN ev[i] ELSE new[i - Len(ev)]
  BY <1>1, ConcatProperties
<1>3. DOMAIN all = 1 .. Len(ev) + Len(new)
  BY <1>2, LenProperties
<1>4. \A i \in DOMAIN ev : i \in DOMAIN all /\ all[i] = ev[i]
  BY <1>1, <1>2, <1>3
<1>5. ASSUME NEW p \in DOMAIN new
      PROVE  Len(ev) + p \in DOMAIN all /\ all[Len(ev) + p] = new[p]
  <2>1. /\ Len(ev) + p \in 1 .. Len(ev) + Len(new)
        /\ ~ (Len(ev) + p <= Len(ev))
        /\ (Len(ev) + p) - Len(ev) = p
    BY <1>1
  <2> QED BY <1>2, <1>3, <2>1
<1>6. \A i \in DOMAIN all : i \in DOMAIN ev \/ i - Len(ev) \in DOMAIN new
  BY <1>1, <1>3
<1> QED BY <1>1, <1>2, <1>3, <1>4, <1>5, <1>6 DEF IsJoin

\* What comes later does not change what a prefix holds.
LEMMA SamePrefix ==
  ASSUME NEW ev \in Seq(Event), NEW new \in Seq(Event), NEW all, IsJoin(all, ev, new),
         NEW X, NEW i \in DOMAIN ev
  PROVE  Upto(all, X, i) = Upto(ev, X, i)
<1>1. /\ DOMAIN ev = 1 .. Len(ev) /\ Len(ev) \in Nat /\ Len(new) \in Nat
      /\ DOMAIN all = 1 .. Len(ev) + Len(new)
      /\ \A k \in DOMAIN ev : k \in DOMAIN all /\ all[k] = ev[k]
  BY DEF IsJoin
<1>2. \A k \in DOMAIN all : k <= i => k \in DOMAIN ev
  BY <1>1
<1> QED BY <1>1, <1>2 DEF Upto, Marks

NoneMore(all, ev, X) ==
  /\ Marks(all, X) = Marks(ev, X)
  /\ \A i \in DOMAIN all : IF i \in DOMAIN ev
                            THEN Upto(all, X, i) = Upto(ev, X, i)
                            ELSE Upto(all, X, i) = Marks(ev, X)

OneMore(all, ev, X) ==
  /\ Cardinality(Marks(all, X)) = Cardinality(Marks(ev, X)) + 1
  /\ \A i \in DOMAIN all :
       IF i \in DOMAIN ev
         THEN Upto(all, X, i) = Upto(ev, X, i)
         ELSE /\ Cardinality(Marks(ev, X)) <= Cardinality(Upto(all, X, i))
              /\ Cardinality(Upto(all, X, i)) <= Cardinality(Marks(ev, X)) + 1

\* Events that are not in a set add nothing to its marks.
LEMMA NoMark ==
  ASSUME NEW ev \in Seq(Event), NEW new \in Seq(Event), NEW all, IsJoin(all, ev, new),
         NEW X, Marks(new, X) = {}
  PROVE  NoneMore(all, ev, X)
<1>1. /\ DOMAIN ev = 1 .. Len(ev) /\ Len(ev) \in Nat /\ Len(new) \in Nat
      /\ DOMAIN new = 1 .. Len(new)
      /\ DOMAIN all = 1 .. Len(ev) + Len(new)
      /\ \A k \in DOMAIN ev : k \in DOMAIN all /\ all[k] = ev[k]
      /\ \A p \in DOMAIN new :
           Len(ev) + p \in DOMAIN all /\ all[Len(ev) + p] = new[p]
      /\ \A k \in DOMAIN all : k \in DOMAIN ev \/ k - Len(ev) \in DOMAIN new
  BY DEF IsJoin
<1>2. ASSUME NEW k \in DOMAIN all, all[k] \in X
      PROVE  k \in DOMAIN ev
  <2>1. SUFFICES ASSUME k \notin DOMAIN ev PROVE FALSE
    OBVIOUS
  <2>2. k - Len(ev) \in DOMAIN new /\ k = Len(ev) + (k - Len(ev))
    BY <1>1, <2>1
  <2>3. new[k - Len(ev)] \in X
    BY <1>1, <1>2, <2>2
  <2> QED BY <2>2, <2>3 DEF Marks
<1>3. Marks(all, X) = Marks(ev, X)
  BY <1>1, <1>2 DEF Marks
<1>4. ASSUME NEW i \in DOMAIN all, i \notin DOMAIN ev
      PROVE  Upto(all, X, i) = Marks(ev, X)
  <2>1. \A k \in Marks(ev, X) : k <= i
    BY <1>1, <1>4 DEF Marks
  <2> QED BY <1>3, <2>1 DEF Upto
<1>5. ASSUME NEW i \in DOMAIN ev
      PROVE  Upto(all, X, i) = Upto(ev, X, i)
  BY SamePrefix
<1> QED BY <1>3, <1>4, <1>5 DEF NoneMore

\* One event in the set adds one mark, from its place on.
LEMMA OneMark ==
  ASSUME NEW ev \in Seq(Event), NEW new \in Seq(Event), NEW all, IsJoin(all, ev, new),
         NEW X, NEW p, Marks(new, X) = {p}
  PROVE  OneMore(all, ev, X)
<1>1. /\ DOMAIN ev = 1 .. Len(ev) /\ Len(ev) \in Nat /\ Len(new) \in Nat
      /\ DOMAIN new = 1 .. Len(new)
      /\ all \in Seq(Event)
      /\ DOMAIN all = 1 .. Len(ev) + Len(new)
      /\ \A k \in DOMAIN ev : k \in DOMAIN all /\ all[k] = ev[k]
      /\ \A q \in DOMAIN new :
           Len(ev) + q \in DOMAIN all /\ all[Len(ev) + q] = new[q]
      /\ \A k \in DOMAIN all : k \in DOMAIN ev \/ k - Len(ev) \in DOMAIN new
  BY DEF IsJoin
<1>2. p \in DOMAIN new /\ new[p] \in X
  BY DEF Marks
<1>3. Len(ev) + p \notin DOMAIN ev
  BY <1>1, <1>2
<1>4. ASSUME NEW k \in DOMAIN all, all[k] \in X, k \notin DOMAIN ev
      PROVE  k = Len(ev) + p
  <2>1. k - Len(ev) \in DOMAIN new /\ k = Len(ev) + (k - Len(ev))
    BY <1>1, <1>4
  <2>2. new[k - Len(ev)] \in X
    BY <1>1, <1>4, <2>1
  <2>3. k - Len(ev) = p
    BY <2>1, <2>2 DEF Marks
  <2> QED BY <2>1, <2>3
<1>5. Marks(all, X) = Marks(ev, X) \cup {Len(ev) + p}
  BY <1>1, <1>2, <1>4 DEF Marks
<1>6. Len(ev) + p \notin Marks(ev, X)
  BY <1>3 DEF Marks
<1>7. IsFiniteSet(Marks(ev, X)) /\ Cardinality(Marks(ev, X)) \in Nat
  BY MarksFinite
<1>8. Cardinality(Marks(all, X)) = Cardinality(Marks(ev, X)) + 1
  BY <1>5, <1>6, <1>7, FS_AddElement
<1>9. ASSUME NEW i \in DOMAIN all, i \notin DOMAIN ev
      PROVE  /\ Cardinality(Marks(ev, X)) <= Cardinality(Upto(all, X, i))
             /\ Cardinality(Upto(all, X, i)) <= Cardinality(Marks(ev, X)) + 1
  <2>1. \A k \in Marks(ev, X) : k <= i
    BY <1>1, <1>9 DEF Marks
  <2>2. Marks(ev, X) \in SUBSET Upto(all, X, i)
    BY <1>5, <2>1 DEF Upto
  <2>3. /\ IsFiniteSet(Upto(all, X, i))
        /\ Cardinality(Upto(all, X, i)) <= Cardinality(Marks(all, X))
    BY <1>1, MarksFinite
  <2> QED BY <1>8, <2>2, <2>3, FS_Subset
<1>10. ASSUME NEW i \in DOMAIN ev
       PROVE  Upto(all, X, i) = Upto(ev, X, i)
  BY SamePrefix
<1> QED BY <1>8, <1>9, <1>10 DEF OneMore

\* Events that are not about a call.
LEMMA BalanceStays ==
  ASSUME NEW ev \in Seq(Event), NEW new \in Seq(Event), NEW all, IsJoin(all, ev, new),
         NEW c, NEW open \in {0, 1}, Balance(ev, c, open),
         Marks(new, StartOf(c)) = {}, Marks(new, EndOf(c)) = {}
  PROVE  Balance(all, c, open)
<1>1. NoneMore(all, ev, StartOf(c)) /\ NoneMore(all, ev, EndOf(c))
  BY NoMark
<1>2. /\ Cardinality(Marks(ev, StartOf(c))) \in Nat
      /\ Cardinality(Marks(ev, EndOf(c))) \in Nat
  BY MarksFinite
<1>3. ASSUME NEW i \in DOMAIN all
      PROVE  Cardinality(Upto(all, EndOf(c), i))
               <= Cardinality(Upto(all, StartOf(c), i))
  <2>1. CASE i \in DOMAIN ev
    BY <1>1, <1>3, <2>1 DEF Balance, NoneMore
  <2>2. CASE i \notin DOMAIN ev
    BY <1>1, <1>2, <1>3, <2>2 DEF Balance, NoneMore
  <2> QED BY <2>1, <2>2
<1> QED BY <1>1, <1>3 DEF Balance, NoneMore

\* A call that is not open starts.
LEMMA BalanceStarts ==
  ASSUME NEW ev \in Seq(Event), NEW new \in Seq(Event), NEW all, IsJoin(all, ev, new),
         NEW c, Balance(ev, c, 0), NEW p,
         Marks(new, StartOf(c)) = {p}, Marks(new, EndOf(c)) = {}
  PROVE  Balance(all, c, 1)
<1>1. OneMore(all, ev, StartOf(c)) /\ NoneMore(all, ev, EndOf(c))
  BY NoMark, OneMark
<1>2. /\ Cardinality(Marks(ev, StartOf(c))) \in Nat
      /\ Cardinality(Marks(ev, EndOf(c))) \in Nat
      /\ all \in Seq(Event)
  BY MarksFinite DEF IsJoin
<1>3. ASSUME NEW i \in DOMAIN all
      PROVE  Cardinality(Upto(all, EndOf(c), i))
               <= Cardinality(Upto(all, StartOf(c), i))
  <2>1. CASE i \in DOMAIN ev
    BY <1>1, <1>3, <2>1 DEF Balance, NoneMore, OneMore
  <2>2. CASE i \notin DOMAIN ev
    BY <1>1, <1>2, <1>3, <2>2 DEF Balance, NoneMore, OneMore
  <2> QED BY <2>1, <2>2
<1> QED BY <1>1, <1>2, <1>3 DEF Balance, NoneMore, OneMore

\* An open call ends.
LEMMA BalanceEnds ==
  ASSUME NEW ev \in Seq(Event), NEW new \in Seq(Event), NEW all, IsJoin(all, ev, new),
         NEW c, Balance(ev, c, 1), NEW p,
         Marks(new, StartOf(c)) = {}, Marks(new, EndOf(c)) = {p}
  PROVE  Balance(all, c, 0)
<1>1. NoneMore(all, ev, StartOf(c)) /\ OneMore(all, ev, EndOf(c))
  BY NoMark, OneMark
<1>2. /\ Cardinality(Marks(ev, StartOf(c))) \in Nat
      /\ Cardinality(Marks(ev, EndOf(c))) \in Nat
      /\ all \in Seq(Event)
  BY MarksFinite DEF IsJoin
<1>3. \A i : Cardinality(Upto(all, EndOf(c), i)) \in Nat
  BY <1>2, MarksFinite
<1>4. ASSUME NEW i \in DOMAIN all
      PROVE  Cardinality(Upto(all, EndOf(c), i))
               <= Cardinality(Upto(all, StartOf(c), i))
  <2>1. CASE i \in DOMAIN ev
    BY <1>1, <1>4, <2>1 DEF Balance, NoneMore, OneMore
  <2>2. CASE i \notin DOMAIN ev
    <3>1. Cardinality(Upto(all, EndOf(c), i)) <= Cardinality(Marks(ev, EndOf(c))) + 1
      BY <1>1, <1>4, <2>2 DEF OneMore
    <3>2. Upto(all, StartOf(c), i) = Marks(ev, StartOf(c))
      BY <1>1, <1>4, <2>2 DEF NoneMore
    <3> QED BY <1>2, <3>1, <3>2 DEF Balance
  <2> QED BY <2>1, <2>2
<1>5. Cardinality(Marks(all, StartOf(c))) = Cardinality(Marks(all, EndOf(c))) + 0
  BY <1>1, <1>2 DEF Balance, NoneMore, OneMore
<1> QED BY <1>4, <1>5 DEF Balance

\* Listed names each call, and names it once.
LEMMA ListedEach ==
  ASSUME NEW calls \in SUBSET CallId, NEW c \in calls
  PROVE  \E p \in 1 .. Cardinality(calls) :
           \A i \in 1 .. Cardinality(calls) : Listed(calls)[i] = c <=> i = p
<1> DEFINE n == Cardinality(calls)
           f == Listed(calls)
<1>1. IsFiniteSet(calls) /\ n \in Nat /\ ExistsBijection(1 .. n, calls)
  BY FS_Subset, FS_CardinalityType, Calls
<1>2. PICK g \in Bijection(1 .. n, calls) : TRUE
  BY <1>1 DEF ExistsBijection
<1>3. /\ g \in [1 .. n -> calls]
      /\ \A i, j \in DOMAIN g : g[i] = g[j] => i = j
  BY <1>2, Zenon DEF Bijection, Injection, IsInjective
<1>4. /\ f \in [1 .. n -> calls]
      /\ \A i, j \in DOMAIN f : f[i] = f[j] => i = j
  BY <1>3, Zenon DEF Listed
<1>5. f \in Injection(1 .. n, calls)
  BY <1>4, Zenon DEF Injection, IsInjective
<1>6. Cardinality(1 .. n) = n
  BY <1>1, FS_Interval
<1>7. f \in Surjection(1 .. n, calls)
  BY <1>1, <1>5, <1>6, FS_Injection, Zenon
<1>8. PICK p \in 1 .. n : f[p] = c
  BY <1>7, Zenon DEF Surjection
<1>9. \A i \in 1 .. n : f[i] = c <=> i = p
  BY <1>4, <1>8
<1> QED BY <1>8, <1>9

\* The events of a list of calls mark each of them once, and no other.
LEMMA EachMark ==
  ASSUME NEW calls \in SUBSET CallId, NEW c \in CallId
  PROVE  /\ Marks(EvOfEach("tool.call.started", calls), EndOf(c)) = {}
         /\ Marks(EvOfEach("tool.call.failed", calls), StartOf(c)) = {}
         /\ c \notin calls =>
              /\ Marks(EvOfEach("tool.call.started", calls), StartOf(c)) = {}
              /\ Marks(EvOfEach("tool.call.failed", calls), EndOf(c)) = {}
         /\ c \in calls =>
              /\ \E p : Marks(EvOfEach("tool.call.started", calls), StartOf(c)) = {p}
              /\ \E p : Marks(EvOfEach("tool.call.failed", calls), EndOf(c)) = {p}
<1>1. \A i \in 1 .. Cardinality(calls) : Listed(calls)[i] \in calls
  BY ListedType
<1>2. /\ Marks(EvOfEach("tool.call.started", calls), StartOf(c))
           = {i \in 1 .. Cardinality(calls) : Listed(calls)[i] = c}
      /\ Marks(EvOfEach("tool.call.failed", calls), EndOf(c))
           = {i \in 1 .. Cardinality(calls) : Listed(calls)[i] = c}
      /\ Marks(EvOfEach("tool.call.started", calls), EndOf(c)) = {}
      /\ Marks(EvOfEach("tool.call.failed", calls), StartOf(c)) = {}
  BY DEF Marks, EvOfEach, StartOf, EndOf, CallEv
<1>3. ASSUME c \in calls
      PROVE  \E p : {i \in 1 .. Cardinality(calls) : Listed(calls)[i] = c} = {p}
  <2>1. PICK p \in 1 .. Cardinality(calls) :
               \A i \in 1 .. Cardinality(calls) : Listed(calls)[i] = c <=> i = p
    BY <1>3, ListedEach
  <2>2. {i \in 1 .. Cardinality(calls) : Listed(calls)[i] = c} = {p}
    BY <2>1
  <2> QED BY <2>2
<1> QED BY <1>1, <1>2, <1>3

LEMMA SingleMarks ==
  ASSUME NEW c \in CallId
  PROVE  /\ \A type \in {"run.started", "run.failed", "run.completed",
                         "task_plan.updated"} :
              /\ Marks(<<Ev(type)>>, StartOf(c)) = {}
              /\ Marks(<<Ev(type)>>, EndOf(c)) = {}
         /\ Marks(<<Ev("run.started"), Ev("run.failed")>>, StartOf(c)) = {}
         /\ Marks(<<Ev("run.started"), Ev("run.failed")>>, EndOf(c)) = {}
         /\ \A d \in CallId :
              /\ Marks(<<Reported(d)>>, StartOf(c)) = {}
              /\ Marks(<<Reported(d)>>, EndOf(c)) = IF c = d THEN {1} ELSE {}
<1>1. \A type \in {"run.started", "run.failed", "run.completed",
                  "task_plan.updated"} :
        Ev(type) \notin StartOf(c) /\ Ev(type) \notin EndOf(c)
  BY DEF Ev, StartOf, EndOf, CallEv
<1>2. \A d \in CallId : /\ Reported(d) \notin StartOf(c)
                        /\ Reported(d) \in EndOf(c) <=> c = d
  BY DEF Reported, StartOf, EndOf, CallEv
<1>3. \A e, X : Marks(<<e>>, X) = IF e \in X THEN {1} ELSE {}
  BY DEF Marks
<1>4. \A d, e, X : (d \notin X /\ e \notin X) => Marks(<<d, e>>, X) = {}
  BY DEF Marks
<1> QED BY <1>1, <1>2, <1>3, <1>4

\* The calls of a run that are open, as its client sees them.
OpenCalls(ev, calls) ==
  \A c \in CallId : Balance(ev, c, IF c \in calls THEN 1 ELSE 0)

LEMMA OpenCallsStay ==
  ASSUME NEW ev \in Seq(Event), NEW new \in Seq(Event), NEW all,
         IsJoin(all, ev, new), NEW calls, OpenCalls(ev, calls),
         \A c \in CallId : Marks(new, StartOf(c)) = {} /\ Marks(new, EndOf(c)) = {}
  PROVE  OpenCalls(all, calls)
<1>1. ASSUME NEW c \in CallId
      PROVE  Balance(all, c, IF c \in calls THEN 1 ELSE 0)
  <2>1. CASE c \in calls
    BY <2>1, BalanceStays DEF OpenCalls
  <2>2. CASE c \notin calls
    BY <2>2, BalanceStays DEF OpenCalls
  <2> QED BY <2>1, <2>2
<1> QED BY <1>1 DEF OpenCalls

LEMMA CallsOpen ==
  ASSUME NEW ev \in Seq(Event), NEW calls \in SUBSET CallId, NEW all,
         IsJoin(all, ev, EvOfEach("tool.call.started", calls)), OpenCalls(ev, {})
  PROVE  OpenCalls(all, calls)
<1>0. EvOfEach("tool.call.started", calls) \in Seq(Event)
  BY EvOfEachType
<1>1. ASSUME NEW c \in CallId
      PROVE  Balance(all, c, IF c \in calls THEN 1 ELSE 0)
  <2>1. Balance(ev, c, 0)
    BY DEF OpenCalls
  <2>2. CASE c \in calls
    <3>1. PICK p : Marks(EvOfEach("tool.call.started", calls), StartOf(c)) = {p}
      BY <2>2, EachMark
    <3>2. Marks(EvOfEach("tool.call.started", calls), EndOf(c)) = {}
      BY EachMark
    <3> QED BY <1>0, <2>1, <2>2, <3>1, <3>2, BalanceStarts
  <2>3. CASE c \notin calls
    <3>1. /\ Marks(EvOfEach("tool.call.started", calls), StartOf(c)) = {}
          /\ Marks(EvOfEach("tool.call.started", calls), EndOf(c)) = {}
      BY <2>3, EachMark
    <3> QED BY <1>0, <2>1, <2>3, <3>1, BalanceStays
  <2> QED BY <2>2, <2>3
<1> QED BY <1>1 DEF OpenCalls

LEMMA CallCloses ==
  ASSUME NEW ev \in Seq(Event), NEW calls \in SUBSET CallId, NEW d \in calls,
         NEW all, IsJoin(all, ev, <<Reported(d)>>), OpenCalls(ev, calls)
  PROVE  OpenCalls(all, calls \ {d})
<1>0. <<Reported(d)>> \in Seq(Event)
  BY DEF Reported, CallEv, Event
<1>1. ASSUME NEW c \in CallId
      PROVE  Balance(all, c, IF c \in calls \ {d} THEN 1 ELSE 0)
  <2>1. Balance(ev, c, IF c \in calls THEN 1 ELSE 0)
    BY DEF OpenCalls
  <2>2. CASE c = d
    <3>1. /\ Marks(<<Reported(d)>>, StartOf(c)) = {}
          /\ Marks(<<Reported(d)>>, EndOf(c)) = {1}
      BY <2>2, SingleMarks
    <3> QED BY <1>0, <2>1, <2>2, <3>1, BalanceEnds
  <2>3. CASE c # d
    <3>1. /\ Marks(<<Reported(d)>>, StartOf(c)) = {}
          /\ Marks(<<Reported(d)>>, EndOf(c)) = {}
      BY <2>3, SingleMarks
    <3>2. c \in calls \ {d} <=> c \in calls
      BY <2>3
    <3> QED BY <1>0, <2>1, <3>1, <3>2, BalanceStays
  <2> QED BY <2>2, <2>3
<1> QED BY <1>1 DEF OpenCalls

LEMMA CallsFail ==
  ASSUME NEW ev \in Seq(Event), NEW calls \in SUBSET CallId, NEW all,
         all = ev \o (EvOfEach("tool.call.failed", calls) \o <<Ev("run.failed")>>),
         OpenCalls(ev, calls)
  PROVE  OpenCalls(all, {})
<1> DEFINE each == EvOfEach("tool.call.failed", calls)
           new == each \o <<Ev("run.failed")>>
<1>0. each \in Seq(Event) /\ <<Ev("run.failed")>> \in Seq(Event)
  BY EvOfEachType, EvType
<1>1. new \in Seq(Event)
  BY <1>0, ConcatProperties
<1> HIDE DEF each
<1>2. IsJoin(new, each, <<Ev("run.failed")>>)
  BY <1>0, Joined
<1> HIDE DEF new
<1>3. IsJoin(all, ev, new)
  BY <1>1, Joined DEF each, new
<1>4. ASSUME NEW c \in CallId
      PROVE  Balance(all, c, 0)
  <2>1. Balance(ev, c, IF c \in calls THEN 1 ELSE 0)
    BY DEF OpenCalls
  <2>2. /\ NoneMore(new, each, StartOf(c))
        /\ NoneMore(new, each, EndOf(c))
    BY <1>0, <1>2, SingleMarks, NoMark
  <2>3. /\ Marks(new, StartOf(c)) = Marks(each, StartOf(c))
        /\ Marks(new, EndOf(c)) = Marks(each, EndOf(c))
    BY <2>2 DEF NoneMore
  <2>4. Marks(new, StartOf(c)) = {}
    BY <2>3, EachMark DEF each
  <2>5. CASE c \in calls
    <3>0. \E p : Marks(each, EndOf(c)) = {p}
      BY <2>5, EachMark DEF each
    <3>1. PICK p : Marks(new, EndOf(c)) = {p}
      BY <2>3, <3>0
    <3> QED BY <1>1, <1>3, <2>1, <2>4, <2>5, <3>1, BalanceEnds
  <2>6. CASE c \notin calls
    <3>1. Marks(new, EndOf(c)) = {}
      BY <2>3, <2>6, EachMark DEF each
    <3> QED BY <1>1, <1>3, <2>1, <2>4, <2>6, <3>1, BalanceStays
  <2> QED BY <2>5, <2>6
<1> QED BY <1>4 DEF OpenCalls

Over == {"releasing", "done"}

\* What is open in the stream of a run is what the loop still waits for; a
\* run that is over leaves nothing open unless its record failed.
CallState(t, place, ask, pend, failed, ev) ==
  /\ place \notin Over => /\ pend = ask
                          /\ t \notin failed
                          /\ OpenCalls(ev, pend)
  /\ place \notin Over \cup {"tools"} => ask = {}
  /\ \E calls \in SUBSET CallId : OpenCalls(ev, calls)
  /\ (place \in Over /\ t \notin failed) => OpenCalls(ev, {})

CallInv ==
  \A t \in Turn :
    CallState(t, pc[t], asked[t], pending[t], unrecorded, events[t])

\* A step of one turn leaves the calls of the others alone.
LEMMA OthersCalls ==
  ASSUME CallInv, NEW t \in Turn,
         CallState(t, pc'[t], asked'[t], pending'[t], unrecorded', events'[t]),
         \A u \in Turn : u # t =>
           /\ pc'[u] = pc[u] /\ asked'[u] = asked[u] /\ pending'[u] = pending[u]
           /\ events'[u] = events[u] /\ (u \in unrecorded' <=> u \in unrecorded)
  PROVE  CallInv'
<1>1. ASSUME NEW u \in Turn
      PROVE  CallState(u, pc'[u], asked'[u], pending'[u], unrecorded', events'[u])
  <2>1. CASE u = t
    BY <2>1
  <2>2. CASE u # t
    BY <2>2 DEF CallInv, CallState
  <2> QED BY <2>1, <2>2
<1> QED BY <1>1 DEF CallInv

\* A step that sends nothing and leaves the loop alone.
LEMMA QuietCalls ==
  ASSUME TypeOK, CallInv, NEW t \in Turn, NEW place \in Places,
         Goto(t, place), UNCHANGED <<asked, pending, unrecorded, events>>,
         pc[t] \in Over <=> place \in Over,
         pc[t] = "tools" <=> place = "tools"
  PROVE  CallInv'
<1>1. pc'[t] = place /\ \A u \in Turn : u # t => pc'[u] = pc[u]
  BY GotoTurns
<1>2. CallState(t, place, asked[t], pending[t], unrecorded, events[t])
  BY DEF CallInv, CallState
<1> QED BY <1>1, <1>2, OthersCalls

\* A run without open calls starts or ends, or ends with its calls open.
LEMMA MarklessCalls ==
  ASSUME TypeOK, CallInv, NEW t \in Turn, NEW place \in Places,
         Goto(t, place), UNCHANGED <<asked, pending>>,
         NEW new \in Seq(Event), Emit(t, new), Open(t),
         \A c \in CallId : Marks(new, StartOf(c)) = {} /\ Marks(new, EndOf(c)) = {},
         pc[t] \notin Over, place # "tools",
         \/ pc[t] # "tools" /\ UNCHANGED unrecorded
         \/ place \in Over /\ unrecorded' = unrecorded \cup {t}
  PROVE  CallInv'
<1>1. pc'[t] = place /\ \A u \in Turn : u # t => pc'[u] = pc[u]
  BY GotoTurns
<1>2. /\ events[t] \in Seq(Event) /\ pending[t] \in SUBSET CallId
      /\ events'[t] = events[t] \o new
      /\ \A u \in Turn : u # t => events'[u] = events[u]
  BY EmitKeeps DEF TypeOK
<1>3. IsJoin(events'[t], events[t], new)
  BY <1>2, Joined
<1>4. /\ pending[t] = asked[t] /\ t \notin unrecorded
      /\ OpenCalls(events[t], pending[t])
      /\ pc[t] # "tools" => asked[t] = {}
  BY DEF CallInv, CallState
<1>5. OpenCalls(events'[t], pending[t])
  BY <1>2, <1>3, <1>4, OpenCallsStay
<1>6. CallState(t, place, asked[t], pending[t], unrecorded', events'[t])
  BY <1>2, <1>4, <1>5 DEF CallState
<1> QED BY <1>1, <1>2, <1>6, OthersCalls

LEMMA CallStep ==
  ASSUME TypeOK, EventInv, CallInv, [Next]_vars
  PROVE  CallInv'
<1> USE DEF Places
<1>a. \A t \in Turn : pc[t] \in {"idle", "locked", "ready"} => Open(t)
  BY DEF EventInv, EventsPlaced, Open
<1>b. \A t \in Turn : pc[t] \in {"appending", "model", "tools", "answered"} => Open(t)
  BY DEF EventInv, EventsPlaced
<1>0. ASSUME UNCHANGED vars PROVE CallInv'
  BY <1>0 DEF vars, loop, CallInv
<1>1. ASSUME NEW t \in Turn, AcquireTurn(t) PROVE CallInv'
  BY <1>1, QuietCalls DEF AcquireTurn, loop, Over
<1>2. ASSUME NEW t \in Turn, TurnStep(t) \/ PlanUpdated(t) PROVE CallInv'
  <2>1. CASE TurnRefused(t)
    <3>1. /\ Open(t) /\ Emit(t, <<Ev("run.started"), Ev("run.failed")>>)
          /\ UNCHANGED <<asked, pending, unrecorded>>
      BY <1>a, <2>1 DEF TurnRefused, loop
    <3>2. /\ <<Ev("run.started"), Ev("run.failed")>> \in Seq(Event)
          /\ \A c \in CallId :
               /\ Marks(<<Ev("run.started"), Ev("run.failed")>>, StartOf(c)) = {}
               /\ Marks(<<Ev("run.started"), Ev("run.failed")>>, EndOf(c)) = {}
      BY NewEvents, SingleMarks
    <3> QED BY <2>1, <3>1, <3>2, MarklessCalls DEF TurnRefused, Over
  <2>2. CASE ReadHistory(t)
    BY <2>2, QuietCalls DEF ReadHistory, Over
  <2>3. CASE ReadFails(t)
    <3>1. /\ Open(t) /\ Emit(t, <<Ev("run.started"), Ev("run.failed")>>)
          /\ UNCHANGED <<asked, pending, unrecorded>>
      BY <1>a, <2>3 DEF ReadFails, loop
    <3>2. /\ <<Ev("run.started"), Ev("run.failed")>> \in Seq(Event)
          /\ \A c \in CallId :
               /\ Marks(<<Ev("run.started"), Ev("run.failed")>>, StartOf(c)) = {}
               /\ Marks(<<Ev("run.started"), Ev("run.failed")>>, EndOf(c)) = {}
      BY NewEvents, SingleMarks
    <3> QED BY <2>3, <3>1, <3>2, MarklessCalls DEF ReadFails, Over
  <2>4. CASE Start(t)
    <3>1. /\ Open(t) /\ Emit(t, <<Ev("run.started")>>)
          /\ UNCHANGED <<asked, pending, unrecorded>>
      BY <1>a, <2>4 DEF Start, loop
    <3>2. /\ <<Ev("run.started")>> \in Seq(Event)
          /\ \A c \in CallId :
               /\ Marks(<<Ev("run.started")>>, StartOf(c)) = {}
               /\ Marks(<<Ev("run.started")>>, EndOf(c)) = {}
      BY NewEvents, SingleMarks
    <3> QED BY <2>4, <3>1, <3>2, MarklessCalls DEF Start, Over
  <2>5. CASE AppendUser(t)
    BY <2>5, QuietCalls DEF AppendUser, loop, Over
  <2>6. CASE BeforeModelFails(t)
    BY <1>b, <2>6, NewEvents, SingleMarks, MarklessCalls
       DEF BeforeModelFails, loop, Over
  <2>7. ASSUME NEW calls \in Askable(t), NEW text \in BOOLEAN,
               ModelReplies(t, calls, text)
        PROVE  CallInv'
    <3>0. calls \in SUBSET CallId /\ pc[t] = "model"
      BY <2>7, AskableCalls DEF ModelReplies, MayReply
    <3>1. /\ pending[t] = {} /\ asked[t] = {} /\ t \notin unrecorded
          /\ OpenCalls(events[t], {})
      BY <3>0 DEF CallInv, CallState, Over
    <3>2. calls \ pending[t] = calls
      BY <3>1
    <3>3. /\ events[t] \in Seq(Event)
          /\ EvOfEach("tool.call.started", calls) \in Seq(Event)
          /\ events'[t] = events[t] \o EvOfEach("tool.call.started", calls)
          /\ \A u \in Turn : u # t => events'[u] = events[u]
      BY <1>b, <2>7, <3>0, <3>2, NewEvents, EmitKeeps DEF ModelReplies, TypeOK
    <3>4. IsJoin(events'[t], events[t], EvOfEach("tool.call.started", calls))
      BY <3>3, Joined
    <3>5. OpenCalls(events'[t], calls)
      BY <3>0, <3>1, <3>3, <3>4, CallsOpen
    <3>6. /\ asked'[t] = calls /\ pending'[t] = calls /\ unrecorded' = unrecorded
          /\ \A u \in Turn : u # t =>
               asked'[u] = asked[u] /\ pending'[u] = pending[u]
      BY <2>7, <3>1 DEF ModelReplies, TypeOK
    <3>7. PICK place \in {"tools", "answered"} :
               /\ Goto(t, place)
               /\ place = "answered" => calls = {}
      BY <2>7 DEF ModelReplies
    <3>8. pc'[t] = place /\ \A u \in Turn : u # t => pc'[u] = pc[u]
      BY <3>7, GotoTurns
    <3>9. CallState(t, place, calls, calls, unrecorded, events'[t])
      BY <3>0, <3>1, <3>5, <3>7 DEF CallState, Over
    <3> QED BY <3>3, <3>6, <3>8, <3>9, OthersCalls
  <2>8. ASSUME NEW c \in CallId, ToolResult(t, c) PROVE CallInv'
    <3>0. pc[t] = "tools" /\ c \in asked[t]
      BY <2>8 DEF ToolResult
    <3>1. /\ pending[t] = asked[t] /\ pending[t] \in SUBSET CallId
          /\ t \notin unrecorded /\ OpenCalls(events[t], pending[t])
      BY <3>0 DEF CallInv, CallState, Over, TypeOK
    <3>2. /\ events[t] \in Seq(Event)
          /\ <<Reported(c)>> \in Seq(Event)
          /\ events'[t] = events[t] \o <<Reported(c)>>
          /\ \A u \in Turn : u # t => events'[u] = events[u]
      BY <1>b, <2>8, <3>0, NewEvents, EmitKeeps DEF ToolResult, TypeOK
    <3>3. IsJoin(events'[t], events[t], <<Reported(c)>>)
      BY <3>2, Joined
    <3>4. OpenCalls(events'[t], pending[t] \ {c})
      BY <3>0, <3>1, <3>2, <3>3, CallCloses
    <3>5. /\ asked'[t] = pending[t] \ {c} /\ pending'[t] = pending[t] \ {c}
          /\ unrecorded' = unrecorded
          /\ \A u \in Turn : u # t =>
               asked'[u] = asked[u] /\ pending'[u] = pending[u]
      BY <2>8, <3>1 DEF ToolResult, TypeOK
    <3>6. PICK place \in {"tools", "model"} :
               /\ Goto(t, place)
               /\ place = "model" => asked[t] = {c}
      BY <2>8 DEF ToolResult
    <3>7. pc'[t] = place /\ \A u \in Turn : u # t => pc'[u] = pc[u]
      BY <3>6, GotoTurns
    <3>8. pending[t] \ {c} \in SUBSET CallId
      BY <3>1
    <3>9. CallState(t, place, pending[t] \ {c}, pending[t] \ {c}, unrecorded,
                    events'[t])
      BY <3>1, <3>4, <3>6, <3>8 DEF CallState, Over
    <3> QED BY <3>2, <3>5, <3>7, <3>9, OthersCalls
  <2>9. CASE RecordFails(t)
    <3>1. /\ Open(t) /\ Emit(t, <<Ev("run.failed")>>)
          /\ UNCHANGED <<asked, pending>>
          /\ pc[t] \in {"model", "tools"} /\ Goto(t, "releasing")
          /\ unrecorded' = unrecorded \cup {t}
      BY <1>b, <2>9 DEF RecordFails, MayReply
    <3>2. /\ <<Ev("run.failed")>> \in Seq(Event)
          /\ \A c \in CallId :
               /\ Marks(<<Ev("run.failed")>>, StartOf(c)) = {}
               /\ Marks(<<Ev("run.failed")>>, EndOf(c)) = {}
      BY NewEvents, SingleMarks
    <3> QED BY <3>1, <3>2, MarklessCalls DEF Over
  <2>10. CASE AgentFails(t) \/ NoResponse(t)
    <3>0. /\ pc[t] \in {"model", "tools", "answered"}
          /\ Goto(t, "releasing")
          /\ UNCHANGED <<asked, pending, unrecorded>>
          /\ Emit(t, EvOfEach("tool.call.failed", pending[t]) \o <<Ev("run.failed")>>)
      BY <2>10 DEF AgentFails, NoResponse, loop
    <3>1. /\ pending[t] \in SUBSET CallId
          /\ t \notin unrecorded /\ OpenCalls(events[t], pending[t])
      BY <3>0 DEF CallInv, CallState, Over, TypeOK
    <3>2. /\ events[t] \in Seq(Event)
          /\ events'[t] = events[t] \o
               (EvOfEach("tool.call.failed", pending[t]) \o <<Ev("run.failed")>>)
          /\ \A u \in Turn : u # t => events'[u] = events[u]
      BY <1>b, <3>0, NewEvents, EmitKeeps DEF TypeOK
    <3>3. OpenCalls(events'[t], {})
      BY <3>1, <3>2, CallsFail
    <3>4. pc'[t] = "releasing" /\ \A u \in Turn : u # t => pc'[u] = pc[u]
      BY <3>0, GotoTurns
    <3>5. CallState(t, "releasing", asked[t], pending[t], unrecorded, events'[t])
      BY <3>1, <3>3 DEF CallState, Over
    <3> QED BY <3>0, <3>2, <3>4, <3>5, OthersCalls
  <2>11. CASE Complete(t)
    BY <1>b, <2>11, NewEvents, SingleMarks, MarklessCalls DEF Complete, loop, Over
  <2>12. CASE ReleaseTurn(t)
    <3>1. /\ UNCHANGED <<asked, unrecorded, events>>
          /\ \A u \in Turn : u # t => pending'[u] = pending[u]
          /\ pc[t] = "releasing"
      BY <2>12 DEF ReleaseTurn, TypeOK
    <3>2. pc'[t] = "done" /\ \A u \in Turn : u # t => pc'[u] = pc[u]
      BY <2>12, GotoTurns DEF ReleaseTurn
    <3>3. CallState(t, "done", asked[t], pending'[t], unrecorded, events[t])
      BY <3>1 DEF CallInv, CallState, Over
    <3> QED BY <3>1, <3>2, <3>3, OthersCalls
  <2>13. CASE PlanUpdated(t)
    <3>0. /\ UNCHANGED <<pc, asked, pending, unrecorded>>
          /\ Emit(t, <<Ev("task_plan.updated")>>)
          /\ <<Ev("task_plan.updated")>> \in Seq(Event)
      BY <2>13, NewEvents DEF PlanUpdated, loop
    <3>1. CASE Open(t)
      <4>1. /\ events[t] \in Seq(Event)
            /\ events'[t] = events[t] \o <<Ev("task_plan.updated")>>
            /\ \A u \in Turn : u # t => events'[u] = events[u]
        BY <3>0, <3>1, EmitKeeps DEF TypeOK
      <4>2. IsJoin(events'[t], events[t], <<Ev("task_plan.updated")>>)
        BY <3>0, <4>1, Joined
      <4>3. \A calls \in SUBSET CallId :
              OpenCalls(events[t], calls) => OpenCalls(events'[t], calls)
        BY <3>0, <4>1, <4>2, SingleMarks, OpenCallsStay
      <4>4. pending[t] \in SUBSET CallId /\ {} \in SUBSET CallId
        BY DEF TypeOK
      <4>5. CallState(t, pc[t], asked[t], pending[t], unrecorded, events'[t])
        BY <4>3, <4>4 DEF CallInv, CallState
      <4> QED BY <3>0, <4>1, <4>5, OthersCalls
    <3>2. CASE ~ Open(t)
      BY <3>0, <3>2 DEF Emit, CallInv
    <3> QED BY <3>1, <3>2
  <2> QED BY <1>2, <2>1, <2>2, <2>3, <2>4, <2>5, <2>6, <2>7, <2>8, <2>9,
             <2>10, <2>11, <2>12, <2>13 DEF TurnStep
<1>3. ASSUME NEW d \in Deletion,
             AcquireForDelete(d) \/ DeleteGivesUp(d) \/ DeleteStep(d)
      PROVE  CallInv'
  <2>1. PICK place \in Places : Goto(d, place)
    BY <1>3 DEF AcquireForDelete, DeleteGivesUp, DeleteStep, Delete,
                DeleteFails, ReleaseDelete
  <2>2. UNCHANGED <<loop, events>>
    BY <1>3 DEF AcquireForDelete, DeleteGivesUp, DeleteStep, Delete,
                DeleteFails, ReleaseDelete
  <2>3. \A t \in Turn : pc'[t] = pc[t]
    BY <2>1, GotoTurns, CallersDiffer
  <2> QED BY <2>2, <2>3 DEF CallInv, loop
<1>4. ASSUME Expire PROVE CallInv'
  BY <1>4 DEF Expire, CallInv, loop
<1>5. ASSUME NEW r \in Turn \cup Deletion, LoseTurn(r) PROVE CallInv'
  BY <1>5 DEF LoseTurn, CallInv, loop
<1> QED BY <1>0, <1>1, <1>2, <1>3, <1>4, <1>5 DEF Next

LEMMA InitCalls == Init => CallInv
<1> SUFFICES ASSUME Init PROVE CallInv
  OBVIOUS
<1>1. Cardinality({}) = 0
  BY FS_EmptySet
<1>2. ASSUME NEW ev, DOMAIN ev = {}, NEW c
      PROVE  Balance(ev, c, 0)
  <2>1. Marks(ev, StartOf(c)) = {} /\ Marks(ev, EndOf(c)) = {}
    BY <1>2 DEF Marks
  <2> QED BY <1>1, <1>2, <2>1 DEF Balance
<1>3. DOMAIN <<>> = {}
  OBVIOUS
<1>4. OpenCalls(<<>>, {})
  BY <1>2, <1>3 DEF OpenCalls
<1>5. ASSUME NEW t \in Turn
      PROVE  CallState(t, pc[t], asked[t], pending[t], unrecorded, events[t])
  BY <1>4 DEF Init, CallState, Over
<1> QED BY <1>5 DEF CallInv

(***************************************************************************)
(* Whatever fails, every tool call a client has seen start is seen to end, *)
(* once and not before it started; only a run whose record failed leaves   *)
(* calls open.                                                             *)
(***************************************************************************)
THEOREM CallsEnd == Spec => []ToolCallsEnd
<1>1. ASSUME TypeOK, CallInv PROVE ToolCallsEnd
  <2>1. SUFFICES ASSUME NEW t \in Turn, NEW c \in CallId
                 PROVE  /\ \A i \in DOMAIN events[t] :
                             Cardinality({k \in Ends(t, c) : k <= i})
                               <= Cardinality({k \in Starts(t, c) : k <= i})
                        /\ (pc[t] \in {"releasing", "done"} /\ t \notin unrecorded)
                             => Cardinality(Ends(t, c)) = Cardinality(Starts(t, c))
    BY DEF ToolCallsEnd
  <2>2. /\ Ends(t, c) = Marks(events[t], EndOf(c))
        /\ Starts(t, c) = Marks(events[t], StartOf(c))
    BY DEF Ends, Starts, Marks, EndOf, StartOf
  <2>3. PICK calls \in SUBSET CallId : OpenCalls(events[t], calls)
    BY <1>1 DEF CallInv, CallState
  <2>4. \A i \in DOMAIN events[t] :
          Cardinality(Upto(events[t], EndOf(c), i))
            <= Cardinality(Upto(events[t], StartOf(c), i))
    BY <2>3 DEF OpenCalls, Balance
  <2>5. ASSUME pc[t] \in {"releasing", "done"}, t \notin unrecorded
        PROVE  Cardinality(Ends(t, c)) = Cardinality(Starts(t, c))
    <3>1. OpenCalls(events[t], {})
      BY <1>1, <2>5 DEF CallInv, CallState, Over
    <3>2. /\ Cardinality(Marks(events[t], StartOf(c)))
               = Cardinality(Marks(events[t], EndOf(c))) + 0
      BY <3>1 DEF OpenCalls, Balance
    <3>3. Cardinality(Marks(events[t], EndOf(c))) \in Nat
      BY <1>1, MarksFinite DEF TypeOK
    <3> QED BY <2>2, <3>2, <3>3
  <2> QED BY <2>2, <2>4, <2>5 DEF Upto
<1>2. Spec => []CallInv
  BY EventAlways, InitCalls, CallStep, TypeCorrect, PTL DEF Spec
<1> QED BY <1>1, <1>2, TypeCorrect, PTL

-----------------------------------------------------------------------------
(***************************************************************************)
(* What a completed run has stored                                         *)
(***************************************************************************)

\* The results of the reply at k follow it, by n, one for each of its calls.
Replied(lg, k, n) ==
  LET results == k + 1 .. k + Cardinality(lg[k].calls) IN
  /\ \A r \in results : r <= n /\ lg[r].role = "tool"
  /\ UNION {lg[r].calls : r \in results} = lg[k].calls

\* WholeTurn, of any log.
WholeIn(lg, t, i, j) ==
  /\ \A k \in DOMAIN lg : lg[k].run = t <=> k \in i .. j
  /\ lg[i].role = "user"
  /\ lg[j].role = "assistant" /\ lg[j].calls = {}
  /\ \A k \in i .. j : lg[k].role = "assistant" => Replied(lg, k, j)

\* No reply among the messages between h and n waits for a result.
Closed(lg, h, n) ==
  \A k \in h + 1 .. n : lg[k].role = "assistant" => Replied(lg, k, n)

\* Only the reply at p does, for the results of the calls in ask.
OpenAt(lg, h, p, n, ask) ==
  /\ p \in h + 1 .. n /\ lg[p].role = "assistant"
  /\ Closed(lg, h, p - 1)
  /\ \A r \in p + 1 .. n : lg[r].role = "tool"
  /\ ask \subseteq lg[p].calls
  /\ Cardinality(lg[p].calls) = Cardinality(ask) + (n - p)
  /\ UNION {lg[r].calls : r \in p + 1 .. n} = lg[p].calls \ ask

\* What a turn that read h messages has stored when its loop is at place.
TurnLog(place, lg, h, ask) ==
  /\ h + 1 \in DOMAIN lg /\ lg[h + 1].role = "user"
  /\ place \in {"model", "answered"} => Closed(lg, h, Len(lg))
  /\ place = "model" => lg[Len(lg)].role # "assistant"
  /\ place = "tools" => \E p \in DOMAIN lg : OpenAt(lg, h, p, Len(lg), ask)
  /\ place = "answered" => lg[Len(lg)].role = "assistant" /\ lg[Len(lg)].calls = {}

\* A log and the same log with a message more.
IsGrown(lg2, lg, m) ==
  /\ lg \in Seq(Message) /\ Len(lg) \in Nat /\ DOMAIN lg = 1 .. Len(lg)
  /\ lg2 \in Seq(Message) /\ Len(lg2) = Len(lg) + 1
  /\ DOMAIN lg2 = 1 .. Len(lg) + 1
  /\ \A i \in DOMAIN lg : lg2[i] = lg[i]
  /\ lg2[Len(lg) + 1] = m

LEMMA Grown ==
  ASSUME NEW lg \in Seq(Message), NEW m \in Message, NEW lg2, lg2 = Append(lg, m)
  PROVE  IsGrown(lg2, lg, m)
<1>1. Len(lg) \in Nat /\ DOMAIN lg = 1 .. Len(lg)
  BY LenProperties
<1>2. /\ lg2 \in Seq(Message)
      /\ Len(lg2) = Len(lg) + 1
      /\ DOMAIN lg2 = 1 .. Len(lg) + 1
      /\ \A i \in DOMAIN lg : lg2[i] = lg[i]
      /\ lg2[Len(lg) + 1] = m
  BY <1>1, AppendProperties
<1> QED BY <1>1, <1>2 DEF IsGrown

LEMMA MessageCalls ==
  ASSUME NEW lg \in Seq(Message), NEW k \in DOMAIN lg
  PROVE  /\ lg[k].calls \in SUBSET CallId
         /\ IsFiniteSet(lg[k].calls)
         /\ Cardinality(lg[k].calls) \in Nat
<1>1. lg[k] \in Message
  BY LenProperties, ElementOfSeq
<1>2. lg[k].calls \in SUBSET CallId
  BY <1>1 DEF Message
<1> QED BY <1>2, Calls, FS_Subset, FS_CardinalityType

\* A reply that has its results keeps them.
LEMMA RepliedStays ==
  ASSUME NEW lg, NEW lg2, NEW m, IsGrown(lg2, lg, m),
         NEW k \in DOMAIN lg, NEW n \in 0 .. Len(lg), NEW n2 \in Nat, n <= n2,
         Replied(lg, k, n)
  PROVE  Replied(lg2, k, n2)
<1>1. /\ Len(lg) \in Nat /\ DOMAIN lg = 1 .. Len(lg) /\ lg \in Seq(Message)
      /\ \A i \in DOMAIN lg : lg2[i] = lg[i]
  BY DEF IsGrown
<1>2. Cardinality(lg[k].calls) \in Nat
  BY <1>1, MessageCalls
<1> DEFINE results == k + 1 .. k + Cardinality(lg[k].calls)
<1>3. /\ \A r \in results : r <= n /\ lg[r].role = "tool"
      /\ UNION {lg[r].calls : r \in results} = lg[k].calls
  BY DEF Replied
<1>4. \A r \in results : r \in DOMAIN lg /\ r <= n2
  BY <1>1, <1>2, <1>3
<1>5. lg2[k] = lg[k] /\ \A r \in results : lg2[r] = lg[r]
  BY <1>1, <1>4
<1>6. {lg2[r].calls : r \in results} = {lg[r].calls : r \in results}
  BY <1>5
<1> QED BY <1>3, <1>4, <1>5, <1>6 DEF Replied

LEMMA ClosedStays ==
  ASSUME NEW lg, NEW lg2, NEW m, IsGrown(lg2, lg, m),
         NEW h \in Nat, NEW n \in 0 .. Len(lg), Closed(lg, h, n)
  PROVE  Closed(lg2, h, n)
<1>1. /\ Len(lg) \in Nat /\ DOMAIN lg = 1 .. Len(lg)
      /\ \A i \in DOMAIN lg : lg2[i] = lg[i]
  BY DEF IsGrown
<1>2. ASSUME NEW k \in h + 1 .. n, lg2[k].role = "assistant"
      PROVE  Replied(lg2, k, n)
  <2>1. k \in DOMAIN lg /\ lg2[k] = lg[k] /\ n \in Nat
    BY <1>1
  <2>2. Replied(lg, k, n)
    BY <1>2, <2>1 DEF Closed
  <2> QED BY <2>1, <2>2, RepliedStays
<1> QED BY <1>2 DEF Closed

\* A completed turn stays whole when another stores a message.
LEMMA WholeStays ==
  ASSUME NEW lg, NEW lg2, NEW m, IsGrown(lg2, lg, m), NEW t, m.run # t,
         NEW i \in DOMAIN lg, NEW j \in DOMAIN lg, WholeIn(lg, t, i, j)
  PROVE  WholeIn(lg2, t, i, j)
<1>1. /\ Len(lg) \in Nat /\ DOMAIN lg = 1 .. Len(lg)
      /\ DOMAIN lg2 = 1 .. Len(lg) + 1
      /\ \A k \in DOMAIN lg : lg2[k] = lg[k]
      /\ lg2[Len(lg) + 1] = m
  BY DEF IsGrown
<1>2. \A k \in DOMAIN lg2 : lg2[k].run = t <=> k \in i .. j
  <2>1. \A k \in DOMAIN lg : lg2[k].run = t <=> k \in i .. j
    BY <1>1 DEF WholeIn
  <2>2. Len(lg) + 1 \notin i .. j
    BY <1>1
  <2>3. \A k \in DOMAIN lg2 : k \in DOMAIN lg \/ k = Len(lg) + 1
    BY <1>1
  <2> QED BY <1>1, <2>1, <2>2, <2>3
<1>3. ASSUME NEW k \in i .. j, lg2[k].role = "assistant"
      PROVE  Replied(lg2, k, j)
  <2>1. k \in DOMAIN lg /\ lg2[k] = lg[k] /\ j \in Nat /\ j \in 0 .. Len(lg)
    BY <1>1
  <2>2. Replied(lg, k, j)
    BY <1>3, <2>1 DEF WholeIn
  <2> QED BY <2>1, <2>2, RepliedStays
<1>4. lg2[i].role = "user" /\ lg2[j].role = "assistant" /\ lg2[j].calls = {}
  BY <1>1 DEF WholeIn
<1> QED BY <1>2, <1>3, <1>4 DEF WholeIn

\* The user's message.
LEMMA UserStored ==
  ASSUME NEW lg, NEW lg2, NEW m, IsGrown(lg2, lg, m), m.role = "user", NEW ask
  PROVE  TurnLog("model", lg2, Len(lg), ask)
<1>1. /\ Len(lg) \in Nat
      /\ DOMAIN lg2 = 1 .. Len(lg) + 1 /\ Len(lg2) = Len(lg) + 1
      /\ lg2[Len(lg) + 1] = m
  BY DEF IsGrown
<1>2. \A k \in Len(lg) + 1 .. Len(lg2) : k = Len(lg) + 1
  BY <1>1
<1>3. Closed(lg2, Len(lg), Len(lg2))
  BY <1>1, <1>2 DEF Closed
<1> QED BY <1>1, <1>3 DEF TurnLog

\* A reply that asks for nothing.
LEMMA AnswerStored ==
  ASSUME NEW lg, NEW lg2, NEW m, IsGrown(lg2, lg, m),
         m.role = "assistant", m.calls = {},
         NEW h \in Nat, NEW ask, NEW ask2, TurnLog("model", lg, h, ask)
  PROVE  TurnLog("answered", lg2, h, ask2)
<1>1. /\ Len(lg) \in Nat /\ DOMAIN lg = 1 .. Len(lg)
      /\ DOMAIN lg2 = 1 .. Len(lg) + 1 /\ Len(lg2) = Len(lg) + 1
      /\ \A k \in DOMAIN lg : lg2[k] = lg[k]
      /\ lg2[Len(lg) + 1] = m
  BY DEF IsGrown
<1>2. h + 1 \in DOMAIN lg2 /\ lg2[h + 1].role = "user"
  BY <1>1 DEF TurnLog
<1>3. Closed(lg, h, Len(lg))
  BY DEF TurnLog
<1>4. ASSUME NEW k \in h + 1 .. Len(lg2), lg2[k].role = "assistant"
      PROVE  Replied(lg2, k, Len(lg2))
  <2>1. CASE k \in DOMAIN lg
    <3>1. lg2[k] = lg[k] /\ k \in h + 1 .. Len(lg)
      BY <1>1, <2>1
    <3>2. Replied(lg, k, Len(lg))
      BY <1>3, <1>4, <3>1 DEF Closed
    <3>3. /\ Len(lg) \in 0 .. Len(lg) /\ Len(lg2) \in Nat /\ Len(lg) <= Len(lg2)
      BY <1>1
    <3> QED BY <2>1, <3>2, <3>3, RepliedStays
  <2>2. CASE k = Len(lg) + 1
    <3>1. lg2[k].calls = {}
      BY <1>1, <2>2
    <3>2. Cardinality(lg2[k].calls) = 0
      BY <3>1, FS_EmptySet
    <3>3. \A r : r \notin k + 1 .. k + 0
      BY <1>1, <2>2
    <3> QED BY <3>1, <3>2, <3>3 DEF Replied
  <2> QED BY <1>1, <2>1, <2>2
<1>5. lg2[Len(lg2)].role = "assistant" /\ lg2[Len(lg2)].calls = {}
  BY <1>1
<1> QED BY <1>2, <1>4, <1>5 DEF TurnLog, Closed

\* A reply that asks for results.
LEMMA ReplyStored ==
  ASSUME NEW lg, NEW lg2, NEW m, IsGrown(lg2, lg, m), m.role = "assistant",
         NEW h \in Nat, NEW ask, TurnLog("model", lg, h, ask)
  PROVE  TurnLog("tools", lg2, h, m.calls)
<1>1. /\ Len(lg) \in Nat /\ DOMAIN lg = 1 .. Len(lg)
      /\ DOMAIN lg2 = 1 .. Len(lg) + 1 /\ Len(lg2) = Len(lg) + 1
      /\ lg2 \in Seq(Message)
      /\ \A k \in DOMAIN lg : lg2[k] = lg[k]
      /\ lg2[Len(lg) + 1] = m
  BY DEF IsGrown
<1>2. h + 1 \in DOMAIN lg /\ h + 1 \in DOMAIN lg2 /\ lg2[h + 1].role = "user"
  BY <1>1 DEF TurnLog
<1> DEFINE p == Len(lg) + 1
<1>3. p \in DOMAIN lg2 /\ p \in h + 1 .. Len(lg2) /\ p - 1 = Len(lg)
  BY <1>1, <1>2
<1>4. Closed(lg2, h, Len(lg))
  <2>1. Len(lg) \in 0 .. Len(lg)
    BY <1>1
  <2>2. Closed(lg, h, Len(lg))
    BY DEF TurnLog
  <2> QED BY <2>1, <2>2, ClosedStays
<1>5. \A r : r \notin p + 1 .. Len(lg2)
  BY <1>1
<1>6. Cardinality(m.calls) \in Nat
  BY <1>1, <1>3, MessageCalls
<1>7. Cardinality(lg2[p].calls) = Cardinality(m.calls) + (Len(lg2) - p)
  BY <1>1, <1>6
<1>8. UNION {lg2[r].calls : r \in p + 1 .. Len(lg2)} = {}
  BY <1>5
<1>9. lg2[p] = m
  BY <1>1
<1> HIDE DEF p
<1>10. OpenAt(lg2, h, p, Len(lg2), m.calls)
  BY <1>3, <1>4, <1>5, <1>7, <1>8, <1>9 DEF OpenAt
<1> QED BY <1>2, <1>3, <1>10 DEF TurnLog

\* A result, which may be the last that its reply waits for.
LEMMA ResultStored ==
  ASSUME NEW lg, NEW lg2, NEW m, IsGrown(lg2, lg, m), NEW c, m.role = "tool",
         m.calls = {c}, NEW h \in Nat, NEW ask \in SUBSET CallId, c \in ask,
         TurnLog("tools", lg, h, ask)
  PROVE  /\ TurnLog("tools", lg2, h, ask \ {c})
         /\ ask = {c} => TurnLog("model", lg2, h, {})
<1>1. /\ Len(lg) \in Nat /\ DOMAIN lg = 1 .. Len(lg)
      /\ DOMAIN lg2 = 1 .. Len(lg) + 1 /\ Len(lg2) = Len(lg) + 1
      /\ lg \in Seq(Message) /\ lg2 \in Seq(Message)
      /\ \A k \in DOMAIN lg : lg2[k] = lg[k]
      /\ lg2[Len(lg) + 1] = m
  BY DEF IsGrown
<1>2. h + 1 \in DOMAIN lg2 /\ lg2[h + 1].role = "user"
  BY <1>1 DEF TurnLog
<1>3. PICK p \in DOMAIN lg : OpenAt(lg, h, p, Len(lg), ask)
  BY DEF TurnLog
<1>4. /\ p \in h + 1 .. Len(lg) /\ lg[p].role = "assistant"
      /\ Closed(lg, h, p - 1)
      /\ \A r \in p + 1 .. Len(lg) : lg[r].role = "tool"
      /\ ask \subseteq lg[p].calls
      /\ Cardinality(lg[p].calls) = Cardinality(ask) + (Len(lg) - p)
      /\ UNION {lg[r].calls : r \in p + 1 .. Len(lg)} = lg[p].calls \ ask
  BY <1>3 DEF OpenAt
<1>5. /\ IsFiniteSet(ask) /\ Cardinality(ask) \in Nat
      /\ Cardinality(ask \ {c}) = Cardinality(ask) - 1
  BY Calls, FS_Subset, FS_CardinalityType, FS_RemoveElement
<1>6. p \in DOMAIN lg2 /\ p \in h + 1 .. Len(lg2) /\ lg2[p] = lg[p]
  BY <1>1, <1>4
<1>7. Closed(lg2, h, p - 1)
  <2>1. p - 1 \in 0 .. Len(lg)
    BY <1>1
  <2> QED BY <1>4, <2>1, ClosedStays
<1>8. \A r \in p + 1 .. Len(lg2) :
        \/ r \in p + 1 .. Len(lg) /\ lg2[r] = lg[r]
        \/ r = Len(lg) + 1 /\ lg2[r] = m
  BY <1>1
<1>9. \A r \in p + 1 .. Len(lg2) : lg2[r].role = "tool"
  BY <1>4, <1>8
<1>10. Cardinality(lg2[p].calls) = Cardinality(ask \ {c}) + (Len(lg2) - p)
  BY <1>1, <1>4, <1>5, <1>6
<1>11. UNION {lg2[r].calls : r \in p + 1 .. Len(lg2)} = lg2[p].calls \ (ask \ {c})
  <2>1. /\ \A r \in p + 1 .. Len(lg) : r \in p + 1 .. Len(lg2) /\ lg2[r] = lg[r]
        /\ Len(lg) + 1 \in p + 1 .. Len(lg2)
    BY <1>1
  <2>2. UNION {lg2[r].calls : r \in p + 1 .. Len(lg2)}
          = (UNION {lg[r].calls : r \in p + 1 .. Len(lg)}) \cup {c}
    <3>1. ASSUME NEW x \in UNION {lg2[r].calls : r \in p + 1 .. Len(lg2)}
          PROVE  x \in (UNION {lg[r].calls : r \in p + 1 .. Len(lg)}) \cup {c}
      <4>1. PICK r \in p + 1 .. Len(lg2) : x \in lg2[r].calls
        BY <3>1
      <4> QED BY <1>8, <4>1
    <3>2. ASSUME NEW x \in (UNION {lg[r].calls : r \in p + 1 .. Len(lg)}) \cup {c}
          PROVE  x \in UNION {lg2[r].calls : r \in p + 1 .. Len(lg2)}
      <4>1. CASE x = c
        BY <1>1, <2>1, <4>1
      <4>2. CASE x # c
        <5>1. PICK r \in p + 1 .. Len(lg) : x \in lg[r].calls
          BY <3>2, <4>2
        <5> QED BY <2>1, <5>1
      <4> QED BY <4>1, <4>2
    <3> QED BY <3>1, <3>2
  <2> QED BY <1>4, <1>6, <2>2
<1>12. ask \ {c} \subseteq lg2[p].calls /\ lg2[p].role = "assistant"
  BY <1>4, <1>6
<1>13. OpenAt(lg2, h, p, Len(lg2), ask \ {c})
  BY <1>6, <1>7, <1>9, <1>10, <1>11, <1>12 DEF OpenAt
<1>14. ASSUME ask = {c} PROVE Closed(lg2, h, Len(lg2))
  <2>1. /\ Cardinality(lg2[p].calls) = Len(lg2) - p
        /\ UNION {lg2[r].calls : r \in p + 1 .. Len(lg2)} = lg2[p].calls
    <3>1. ask \ {c} = {} /\ Cardinality(ask \ {c}) = 0
      BY <1>14, FS_EmptySet
    <3>2. UNION {lg2[r].calls : r \in p + 1 .. Len(lg2)} = lg2[p].calls
      BY <1>11, <3>1
    <3>3. Cardinality(lg2[p].calls) = Len(lg2) - p
      BY <1>1, <1>10, <3>1
    <3> QED BY <3>2, <3>3
  <2>2. p + Cardinality(lg2[p].calls) = Len(lg2)
    BY <1>1, <1>6, <2>1
  <2>3. Replied(lg2, p, Len(lg2))
    <3>1. \A r \in p + 1 .. Len(lg2) : r <= Len(lg2)
      BY <1>1
    <3> QED BY <1>9, <2>1, <2>2, <3>1 DEF Replied
  <2>4. ASSUME NEW k \in h + 1 .. Len(lg2), lg2[k].role = "assistant"
        PROVE  Replied(lg2, k, Len(lg2))
    <3>1. CASE k \in h + 1 .. p - 1
      <4>1. k \in DOMAIN lg /\ lg2[k] = lg[k]
        BY <1>1, <3>1
      <4>2. Replied(lg, k, p - 1)
        BY <1>4, <2>4, <3>1, <4>1 DEF Closed
      <4>3. p - 1 \in 0 .. Len(lg) /\ Len(lg2) \in Nat /\ p - 1 <= Len(lg2)
        BY <1>1
      <4> QED BY <4>1, <4>2, <4>3, RepliedStays
    <3>2. CASE k = p
      BY <2>3, <3>2
    <3>3. CASE k \in p + 1 .. Len(lg2)
      BY <1>9, <2>4, <3>3
    <3>4. k \in h + 1 .. p - 1 \/ k = p \/ k \in p + 1 .. Len(lg2)
      BY <1>1, <1>6
    <3> QED BY <3>1, <3>2, <3>3, <3>4
  <2> QED BY <2>4 DEF Closed
<1>15. lg2[Len(lg2)].role # "assistant"
  BY <1>1
<1>16. ask = {c} => TurnLog("model", lg2, h, {})
  BY <1>2, <1>14, <1>15 DEF TurnLog
<1>17. TurnLog("tools", lg2, h, ask \ {c})
  BY <1>2, <1>6, <1>13 DEF TurnLog
<1> QED BY <1>16, <1>17

Completed(ev) == Marks(ev, {Ev("run.completed")}) # {}

WholeSomewhere(lg, t) == \E i, j \in DOMAIN lg : WholeIn(lg, t, i, j)

WholeInv ==
  /\ \A t \in Turn \ disturbed :
       (alive /\ pc[t] \in {"model", "tools", "answered"}) =>
         TurnLog(pc[t], log, Len(history[t]), asked[t])
  /\ \A t \in Turn \ disturbed :
       (alive /\ Completed(events[t])) => WholeSomewhere(log, t)

LEMMA WholeMeans ==
  ASSUME NEW t \in Turn
  PROVE  /\ (\E i \in DOMAIN events[t] : events[t][i] = Ev("run.completed"))
              <=> Completed(events[t])
         /\ (\E i, j \in DOMAIN log : WholeTurn(t, i, j)) <=> WholeSomewhere(log, t)
<1>1. \A i, j \in DOMAIN log : WholeTurn(t, i, j) <=> WholeIn(log, t, i, j)
  BY DEF WholeTurn, WholeIn, Replied
<1>2. (\E i \in DOMAIN events[t] : events[t][i] = Ev("run.completed"))
        <=> Completed(events[t])
  BY DEF Completed, Marks
<1> QED BY <1>1, <1>2 DEF WholeSomewhere

\* Only run.completed says that a run completed.
LEMMA NotCompleted ==
  /\ \A type \in {"run.started", "run.failed", "task_plan.updated"} :
       ~ Completed(<<Ev(type)>>)
  /\ ~ Completed(<<Ev("run.started"), Ev("run.failed")>>)
  /\ \A c \in CallId : ~ Completed(<<Reported(c)>>)
  /\ \A calls \in SUBSET CallId :
       /\ ~ Completed(EvOfEach("tool.call.started", calls))
       /\ ~ Completed(EvOfEach("tool.call.failed", calls) \o <<Ev("run.failed")>>)
<1>1. ASSUME NEW type \in {"run.started", "run.failed", "task_plan.updated"}
      PROVE  Ev(type) # Ev("run.completed")
  BY DEF Ev
<1>2. \A c \in CallId : Reported(c) # Ev("run.completed")
  BY DEF Reported, CallEv, Ev
<1>3. \A e : e # Ev("run.completed") => ~ Completed(<<e>>)
  BY DEF Completed, Marks
<1>4. \A d, e : (d # Ev("run.completed") /\ e # Ev("run.completed"))
                  => ~ Completed(<<d, e>>)
  BY DEF Completed, Marks
<1>5. ASSUME NEW calls \in SUBSET CallId,
             NEW type \in {"tool.call.started", "tool.call.failed"}
      PROVE  ~ Completed(EvOfEach(type, calls))
  BY DEF Completed, Marks, EvOfEach, CallEv, Ev
<1>6. ASSUME NEW calls \in SUBSET CallId
      PROVE  ~ Completed(EvOfEach("tool.call.failed", calls) \o <<Ev("run.failed")>>)
  <2> DEFINE each == EvOfEach("tool.call.failed", calls)
             new == each \o <<Ev("run.failed")>>
  <2>1. each \in Seq(Event) /\ <<Ev("run.failed")>> \in Seq(Event)
    BY EvOfEachType, EvType
  <2>2. ~ Completed(each)
    BY <1>5
  <2>3. ~ Completed(<<Ev("run.failed")>>)
    BY <1>1, <1>3
  <2> HIDE DEF each
  <2>4. IsJoin(new, each, <<Ev("run.failed")>>)
    BY <2>1, Joined
  <2> HIDE DEF new
  <2>5. NoneMore(new, each, {Ev("run.completed")})
    BY <2>1, <2>3, <2>4, NoMark DEF Completed
  <2>6. ~ Completed(new)
    BY <2>2, <2>5 DEF Completed, NoneMore
  <2> QED BY <2>6 DEF each, new
<1> QED BY <1>1, <1>2, <1>3, <1>4, <1>5, <1>6

\* Whoever is told that a run completed was told so before.
LEMMA EmitNoCompletion ==
  ASSUME TypeOK, NEW t \in Turn, NEW new \in Seq(Event), Emit(t, new),
         ~ Completed(new)
  PROVE  \A u \in Turn : Completed(events'[u]) => Completed(events[u])
<1>1. /\ \A u \in Turn : u # t => events'[u] = events[u]
      /\ events'[t] = IF Open(t) THEN events[t] \o new ELSE events[t]
      /\ events[t] \in Seq(Event)
  BY EmitKeeps DEF TypeOK
<1>2. CASE Open(t)
  <2>1. IsJoin(events'[t], events[t], new)
    BY <1>1, <1>2, Joined
  <2>2. NoneMore(events'[t], events[t], {Ev("run.completed")})
    BY <1>1, <2>1, NoMark DEF Completed
  <2>3. Completed(events'[t]) => Completed(events[t])
    BY <2>2 DEF Completed, NoneMore
  <2> QED BY <1>1, <2>3
<1>3. CASE ~ Open(t)
  BY <1>1, <1>3
<1> QED BY <1>2, <1>3

\* A run that completed does not go on.
LEMMA CompletedIsOver ==
  ASSUME TypeOK, Placed, EventInv, NEW t \in Turn, Completed(events[t])
  PROVE  pc[t] \in Over
<1>1. PICK i \in DOMAIN events[t] : events[t][i] = Ev("run.completed")
  BY DEF Completed, Marks
<1>2. ~ Open(t)
  BY <1>1, StartedEvents DEF Open
<1>3. events[t] # <<>>
  BY <1>1
<1>4. pc[t] \in Places /\ pc[t] \notin {"waiting", "deleting"}
  BY DEF TypeOK, Places, Placed
<1> QED BY <1>2, <1>3, <1>4 DEF EventInv, EventsPlaced, Places, Over

\* A step that stores nothing and sends no completion.
LEMMA WholeUnstored ==
  ASSUME WholeInv, alive' => alive, log' = log, disturbed \subseteq disturbed',
         \A u \in Turn : Completed(events'[u]) => Completed(events[u]),
         \A u \in Turn :
           \/ pc'[u] \notin {"model", "tools", "answered"}
           \/ /\ pc'[u] = pc[u] /\ history'[u] = history[u]
              /\ asked'[u] = asked[u]
  PROVE  WholeInv'
BY DEF WholeInv

\* The session goes.
LEMMA WholeGone ==
  ASSUME ~ alive'
  PROVE  WholeInv'
BY DEF WholeInv

\* A turn stores a message, and sends no completion.
LEMMA WholeStored ==
  ASSUME TypeOK, Placed, EventInv, WholeInv,
         NEW t \in Turn, NEW m \in Message, Stored(m), m.run = t,
         pc[t] \in {"appending", "model", "tools"},
         NEW place \in Places, Goto(t, place), disturbed \subseteq disturbed',
         \A u \in Turn : Completed(events'[u]) => Completed(events[u]),
         (t \notin disturbed /\ place \in {"model", "tools", "answered"}) =>
           TurnLog(place, log', Len(history'[t]), asked'[t])
  PROVE  WholeInv'
<1>1. pc'[t] = place /\ \A u \in Turn : u # t => pc'[u] = pc[u]
  BY GotoTurns
<1>2. alive /\ log' = Append(log, m) /\ log \in Seq(Message)
  BY DEF Stored, TypeOK
<1>3. IsGrown(log', log, m)
  BY <1>2, Grown
<1>4. \A u \in Turn : u # t => pc[u] \in Outside \/ u \in disturbed
  BY DEF Placed, Outside
<1>5. \A u \in Turn \ disturbed' :
        (alive' /\ pc'[u] \in {"model", "tools", "answered"}) =>
          TurnLog(pc'[u], log', Len(history'[u]), asked'[u])
  BY <1>1, <1>4 DEF Outside
<1>6. ASSUME NEW u \in Turn \ disturbed', Completed(events'[u])
      PROVE  WholeSomewhere(log', u)
  <2>1. Completed(events[u]) /\ pc[u] \in Over
    BY <1>6, CompletedIsOver
  <2>2. u # t /\ m.run # u
    BY <2>1 DEF Over
  <2>3. PICK i \in DOMAIN log, j \in DOMAIN log : WholeIn(log, u, i, j)
    BY <1>2, <2>1 DEF WholeInv, WholeSomewhere
  <2>4. WholeIn(log', u, i, j)
    BY <1>3, <2>2, <2>3, WholeStays
  <2>5. i \in DOMAIN log' /\ j \in DOMAIN log'
    BY <1>3 DEF IsGrown
  <2> QED BY <2>4, <2>5 DEF WholeSomewhere
<1> QED BY <1>5, <1>6 DEF WholeInv

\* What the log of a turn that has its answer is.
LEMMA AnsweredIsWhole ==
  ASSUME TypeOK, LogInv, WholeInv, NEW t \in Turn \ disturbed,
         alive, pc[t] = "answered"
  PROVE  WholeSomewhere(log, t)
<1> DEFINE h == Len(history[t])
           n == Len(log)
<1>1. /\ n \in Nat /\ DOMAIN log = 1 .. n /\ h \in Nat
  BY LenProperties DEF TypeOK
<1>2. \A i \in DOMAIN log : log[i].run = t <=> i > h
  BY <1>1 DEF LogInv, HistoryIsFresh
<1>3. /\ h + 1 \in DOMAIN log /\ log[h + 1].role = "user"
      /\ Closed(log, h, n)
      /\ log[n].role = "assistant" /\ log[n].calls = {}
  BY DEF WholeInv, TurnLog
<1>4. n \in DOMAIN log
  BY <1>1, <1>3
<1>5. \A i \in DOMAIN log : i > h <=> i \in h + 1 .. n
  BY <1>1
<1> HIDE DEF h, n
<1>6. WholeIn(log, t, h + 1, n)
  BY <1>2, <1>3, <1>5 DEF WholeIn, Closed
<1> QED BY <1>3, <1>4, <1>6 DEF WholeSomewhere

LEMMA WholeStep ==
  ASSUME TypeOK, Placed, LogInv, EventInv, WholeInv, [Next]_vars
  PROVE  WholeInv'
<1> USE DEF Places
<1>s. disturbed \subseteq disturbed'
  BY DisturbedStay
<1>0. ASSUME UNCHANGED vars PROVE WholeInv'
  BY <1>0, <1>s, WholeUnstored DEF vars, session, loop
<1>1. ASSUME NEW t \in Turn, AcquireTurn(t) PROVE WholeInv'
  BY <1>1, GotoTurns, <1>s, WholeUnstored DEF AcquireTurn, session, loop
<1>2. ASSUME NEW t \in Turn, TurnStep(t) \/ PlanUpdated(t) PROVE WholeInv'
  <2>1. CASE TurnRefused(t) \/ ReadFails(t)
    <3>1. /\ Emit(t, <<Ev("run.started"), Ev("run.failed")>>)
          /\ UNCHANGED <<alive, log, history, asked>>
      BY <2>1 DEF TurnRefused, ReadFails, session, loop
    <3>2. PICK place \in {"releasing", "done"} : Goto(t, place)
      BY <2>1 DEF TurnRefused, ReadFails
    <3>3. pc'[t] = place /\ \A u \in Turn : u # t => pc'[u] = pc[u]
      BY <3>2, GotoTurns
    <3>4. \A u \in Turn : Completed(events'[u]) => Completed(events[u])
      BY <3>1, NewEvents, NotCompleted, EmitNoCompletion
    <3> QED BY <3>1, <3>3, <3>4, <1>s, WholeUnstored
  <2>2. CASE ReadHistory(t)
    <3>1. pc'[t] = "ready" /\ \A u \in Turn : u # t => pc'[u] = pc[u]
      BY <2>2, GotoTurns DEF ReadHistory
    <3>2. /\ UNCHANGED <<alive, log, asked, events>>
          /\ \A u \in Turn : u # t => history'[u] = history[u]
      BY <2>2 DEF ReadHistory, session, TypeOK
    <3> QED BY <3>1, <3>2, <1>s, WholeUnstored
  <2>3. CASE Start(t)
    <3>1. /\ Emit(t, <<Ev("run.started")>>)
          /\ UNCHANGED <<alive, log, history, asked>>
      BY <2>3 DEF Start, session, loop
    <3>3. pc'[t] = "appending" /\ \A u \in Turn : u # t => pc'[u] = pc[u]
      BY <2>3, GotoTurns DEF Start
    <3>4. \A u \in Turn : Completed(events'[u]) => Completed(events[u])
      BY <3>1, NewEvents, NotCompleted, EmitNoCompletion
    <3> QED BY <3>1, <3>3, <3>4, <1>s, WholeUnstored
  <2>4. CASE AppendUser(t)
    <3>1. /\ UserMessage(t) \in Message /\ Stored(UserMessage(t))
          /\ UserMessage(t).run = t /\ UserMessage(t).role = "user"
          /\ UNCHANGED <<history, asked, events>>
          /\ pc[t] = "appending" /\ Goto(t, "model")
      BY <2>4, MessagesType DEF AppendUser, UserMessage, loop
    <3>2. /\ alive /\ log \in Seq(Message)
          /\ log' = Append(log, UserMessage(t))
      BY <3>1 DEF Stored, TypeOK
    <3>3. IsGrown(log', log, UserMessage(t))
      BY <3>1, <3>2, Grown
    <3>4. t \notin disturbed => Len(history[t]) = Len(log)
      <4> SUFFICES ASSUME t \notin disturbed PROVE Len(history[t]) = Len(log)
        OBVIOUS
      <4>1. /\ Len(history[t]) \in Nat /\ Len(log) \in Nat
            /\ DOMAIN log = 1 .. Len(log)
        BY LenProperties DEF TypeOK
      <4>2. Len(history[t]) <= Len(log)
        BY <3>1, <3>2 DEF LogInv, HistoryIsFresh
      <4>3. \A i \in DOMAIN log : ~ (i > Len(history[t]))
        BY <3>1, <3>2, <4>1 DEF LogInv, HistoryIsFresh, LogPlaced
      <4> QED BY <4>1, <4>2, <4>3
    <3>5. t \notin disturbed => TurnLog("model", log', Len(history'[t]), asked'[t])
      BY <3>1, <3>3, <3>4, UserStored
    <3> QED BY <3>1, <3>5, <1>s, WholeStored
  <2>5. CASE BeforeModelFails(t)
    <3>1. /\ Emit(t, <<Ev("run.failed")>>)
          /\ UNCHANGED <<history, asked>>
          /\ pc[t] = "appending" /\ Goto(t, "releasing")
          /\ UserMessage(t) \in Message /\ UserMessage(t).run = t
      BY <2>5, MessagesType DEF BeforeModelFails, UserMessage, loop
    <3>2. \A u \in Turn : Completed(events'[u]) => Completed(events[u])
      BY <3>1, NewEvents, NotCompleted, EmitNoCompletion
    <3>3. CASE UNCHANGED session
      <4>1. pc'[t] = "releasing" /\ \A u \in Turn : u # t => pc'[u] = pc[u]
        BY <3>1, GotoTurns
      <4> QED BY <3>1, <3>2, <3>3, <4>1, <1>s, WholeUnstored DEF session
    <3>4. CASE Stored(UserMessage(t))
      BY <3>1, <3>2, <3>4, <1>s, WholeStored
    <3> QED BY <2>5, <3>3, <3>4 DEF BeforeModelFails, NotStored
  <2>6. ASSUME NEW calls \in Askable(t), NEW text \in BOOLEAN,
               ModelReplies(t, calls, text)
        PROVE  WholeInv'
    <3> DEFINE m == ModelMessage(t, calls)
    <3>0. calls \in SUBSET CallId
      BY AskableCalls
    <3>1. /\ m \in Message /\ Stored(m) /\ m.run = t /\ m.role = "assistant"
          /\ m.calls = calls
          /\ history' = history /\ pc[t] = "model" /\ asked'[t] = calls
          /\ Emit(t, EvOfEach("tool.call.started", calls \ pending[t]))
      BY <2>6, <3>0, MessagesType DEF ModelReplies, MayReply, ModelMessage, TypeOK
    <3> HIDE DEF m
    <3>2. alive /\ log \in Seq(Message) /\ log' = Append(log, m)
      BY <3>1 DEF Stored, TypeOK
    <3>3. IsGrown(log', log, m)
      BY <3>1, <3>2, Grown
    <3>4. /\ t \notin disturbed => TurnLog("model", log, Len(history[t]), asked[t])
          /\ Len(history[t]) \in Nat
      BY <3>1, <3>2, LenProperties DEF WholeInv, TypeOK
    <3>5. calls \ pending[t] \in SUBSET CallId
      BY <3>0
    <3>6. \A u \in Turn : Completed(events'[u]) => Completed(events[u])
      BY <3>1, <3>5, NewEvents, NotCompleted, EmitNoCompletion
    <3>7. CASE calls = {}
      <4>1. Goto(t, "answered")
        BY <2>6, <3>7 DEF ModelReplies
      <4>2. t \notin disturbed => TurnLog("answered", log', Len(history'[t]), asked'[t])
        BY <3>1, <3>3, <3>4, <3>7, AnswerStored
      <4> QED BY <3>1, <3>6, <4>1, <4>2, <1>s, WholeStored
    <3>8. CASE calls # {}
      <4>1. Goto(t, "tools")
        BY <2>6, <3>8 DEF ModelReplies
      <4>2. t \notin disturbed => TurnLog("tools", log', Len(history'[t]), asked'[t])
        BY <3>1, <3>3, <3>4, ReplyStored
      <4> QED BY <3>1, <3>6, <4>1, <4>2, <1>s, WholeStored
    <3> QED BY <3>7, <3>8
  <2>7. ASSUME NEW c \in CallId, ToolResult(t, c) PROVE WholeInv'
    <3> DEFINE m == ToolMessage(t, c)
    <3>1. /\ m \in Message /\ Stored(m) /\ m.run = t /\ m.role = "tool"
          /\ m.calls = {c}
          /\ history' = history /\ pc[t] = "tools" /\ c \in asked[t]
          /\ asked'[t] = asked[t] \ {c} /\ asked[t] \in SUBSET CallId
          /\ Emit(t, <<Reported(c)>>)
      BY <2>7, MessagesType DEF ToolResult, ToolMessage, TypeOK
    <3> HIDE DEF m
    <3>2. alive /\ log \in Seq(Message) /\ log' = Append(log, m)
      BY <3>1 DEF Stored, TypeOK
    <3>3. IsGrown(log', log, m)
      BY <3>1, <3>2, Grown
    <3>4. /\ t \notin disturbed => TurnLog("tools", log, Len(history[t]), asked[t])
          /\ Len(history[t]) \in Nat
      BY <3>1, <3>2, LenProperties DEF WholeInv, TypeOK
    <3>5. t \notin disturbed =>
            /\ TurnLog("tools", log', Len(history[t]), asked[t] \ {c})
            /\ asked[t] = {c} => TurnLog("model", log', Len(history[t]), {})
      BY <3>1, <3>3, <3>4, ResultStored
    <3>6. \A u \in Turn : Completed(events'[u]) => Completed(events[u])
      BY <3>1, NewEvents, NotCompleted, EmitNoCompletion
    <3>7. CASE asked[t] = {c}
      <4>1. Goto(t, "model") /\ asked'[t] = {}
        BY <2>7, <3>1, <3>7 DEF ToolResult
      <4> QED BY <3>1, <3>5, <3>6, <3>7, <4>1, <1>s, WholeStored
    <3>8. CASE asked[t] # {c}
      <4>1. Goto(t, "tools")
        BY <2>7, <3>8 DEF ToolResult
      <4> QED BY <3>1, <3>5, <3>6, <4>1, <1>s, WholeStored
    <3> QED BY <3>7, <3>8
  <2>8. CASE RecordFails(t)
    <3>1. /\ Emit(t, <<Ev("run.failed")>>)
          /\ UNCHANGED <<history, asked>>
          /\ pc[t] \in {"model", "tools"} /\ Goto(t, "releasing")
      BY <2>8 DEF RecordFails, MayReply
    <3>2. \A u \in Turn : Completed(events'[u]) => Completed(events[u])
      BY <3>1, NewEvents, NotCompleted, EmitNoCompletion
    <3>3. PICK m \in Message : NotStored(m) /\ m.run = t
      <4>1. asked[t] \in SUBSET CallId
        BY DEF TypeOK
      <4> QED BY <2>8, <4>1, AskableCalls, MessagesType
              DEF RecordFails, ModelMessage, ToolMessage
    <3>4. CASE UNCHANGED session
      <4>1. pc'[t] = "releasing" /\ \A u \in Turn : u # t => pc'[u] = pc[u]
        BY <3>1, GotoTurns
      <4> QED BY <3>1, <3>2, <3>4, <4>1, <1>s, WholeUnstored DEF session
    <3>5. CASE Stored(m)
      BY <3>1, <3>2, <3>3, <3>5, <1>s, WholeStored
    <3> QED BY <3>3, <3>4, <3>5 DEF NotStored
  <2>9. CASE AgentFails(t) \/ NoResponse(t)
    <3>1. /\ Emit(t, EvOfEach("tool.call.failed", pending[t]) \o <<Ev("run.failed")>>)
          /\ UNCHANGED <<alive, log, history, asked>>
          /\ Goto(t, "releasing") /\ pending[t] \in SUBSET CallId
      BY <2>9 DEF AgentFails, NoResponse, session, loop, TypeOK
    <3>2. \A u \in Turn : Completed(events'[u]) => Completed(events[u])
      BY <3>1, NewEvents, NotCompleted, EmitNoCompletion
    <3>3. pc'[t] = "releasing" /\ \A u \in Turn : u # t => pc'[u] = pc[u]
      BY <3>1, GotoTurns
    <3> QED BY <3>1, <3>2, <3>3, <1>s, WholeUnstored
  <2>10. CASE Complete(t)
    <3>1. /\ Emit(t, <<Ev("run.completed")>>)
          /\ UNCHANGED <<alive, log, history, asked>>
          /\ Goto(t, "releasing") /\ pc[t] = "answered"
      BY <2>10 DEF Complete, session, loop
    <3>2. \A u \in Turn : u # t => events'[u] = events[u]
      BY <3>1, NewEvents, EmitKeeps DEF TypeOK
    <3>3. pc'[t] = "releasing" /\ \A u \in Turn : u # t => pc'[u] = pc[u]
      BY <3>1, GotoTurns
    <3>4. (alive /\ t \notin disturbed) => WholeSomewhere(log, t)
      BY <3>1, AnsweredIsWhole
    <3> QED BY <1>s, <3>1, <3>2, <3>3, <3>4 DEF WholeInv
  <2>11. CASE ReleaseTurn(t)
    <3>1. /\ UNCHANGED <<alive, log, asked, events>>
          /\ \A u \in Turn : u # t => history'[u] = history[u]
      BY <2>11 DEF ReleaseTurn, session, TypeOK
    <3>2. pc'[t] = "done" /\ \A u \in Turn : u # t => pc'[u] = pc[u]
      BY <2>11, GotoTurns DEF ReleaseTurn
    <3> QED BY <3>1, <3>2, <1>s, WholeUnstored
  <2>12. CASE PlanUpdated(t)
    <3>1. /\ Emit(t, <<Ev("task_plan.updated")>>)
          /\ UNCHANGED <<alive, log, history, asked, pc>>
      BY <2>12 DEF PlanUpdated, session, loop
    <3>2. \A u \in Turn : Completed(events'[u]) => Completed(events[u])
      BY <3>1, NewEvents, NotCompleted, EmitNoCompletion
    <3> QED BY <3>1, <3>2, <1>s, WholeUnstored
  <2> QED BY <1>2, <2>1, <2>2, <2>3, <2>4, <2>5, <2>6, <2>7, <2>8, <2>9,
             <2>10, <2>11, <2>12 DEF TurnStep
<1>3. ASSUME NEW d \in Deletion,
             AcquireForDelete(d) \/ DeleteGivesUp(d) \/ DeleteStep(d)
      PROVE  WholeInv'
  <2>1. PICK place \in Places : Goto(d, place)
    BY <1>3 DEF AcquireForDelete, DeleteGivesUp, DeleteStep, Delete,
                DeleteFails, ReleaseDelete
  <2>2. \A t \in Turn : pc'[t] = pc[t]
    BY <2>1, GotoTurns, CallersDiffer
  <2>3. CASE Delete(d)
    BY <2>3, WholeGone DEF Delete
  <2>4. CASE ~ Delete(d)
    <3>1. UNCHANGED <<alive, log, history, asked, events>>
      BY <1>3, <2>4 DEF AcquireForDelete, DeleteGivesUp, DeleteStep,
                        DeleteFails, ReleaseDelete, session, loop
    <3> QED BY <2>2, <3>1, <1>s, WholeUnstored
  <2> QED BY <2>3, <2>4
<1>4. ASSUME Expire PROVE WholeInv'
  BY <1>4, WholeGone DEF Expire
<1>5. ASSUME NEW r \in Turn \cup Deletion, LoseTurn(r) PROVE WholeInv'
  BY <1>5, <1>s, WholeUnstored DEF LoseTurn, session, loop
<1> QED BY <1>0, <1>1, <1>2, <1>3, <1>4, <1>5 DEF Next

LEMMA WholeAlways == Spec => []WholeInv
<1>1. Init => WholeInv
  <2> SUFFICES ASSUME Init PROVE WholeInv
    OBVIOUS
  <2>1. ASSUME NEW ev, ev = <<>> PROVE ~ Completed(ev)
    BY <2>1 DEF Completed, Marks
  <2>2. \A t \in Turn : events[t] = <<>> /\ pc[t] = "idle"
    BY DEF Init
  <2> QED BY <2>1, <2>2 DEF WholeInv
<1> QED
  BY <1>1, WholeStep, LogAlways, EventAlways, TypeCorrect, PlacedAlways,
     PTL DEF Spec

(***************************************************************************)
(* A run whose client is told that it completed, and that was not          *)
(* disturbed, is in the log as a whole, the user's message, replies each   *)
(* with its results, and the answer, for as long as the session exists,    *)
(* whatever the turns after it do, and whatever happens to their locks.    *)
(***************************************************************************)
THEOREM CompletedIsStored == Spec => []CompletedTurnsAreWhole
<1>1. WholeInv => CompletedTurnsAreWhole
  BY WholeMeans DEF WholeInv, CompletedTurnsAreWhole
<1> QED BY <1>1, WholeAlways, PTL

-----------------------------------------------------------------------------
(***************************************************************************)
(* The conversation                                                        *)
(***************************************************************************)

\* A turn that is to call its model has all the results that it asked for.
LEMMA NothingWaits ==
  ASSUME TypeOK, NEW h \in Nat, NEW ask, TurnLog("model", log, h, ask)
  PROVE  /\ log # <<>> /\ log[Len(log)].role # "assistant"
         /\ \A c \in CallId : ~ Talk!Waits(c)
<1>1. Len(log) \in Nat /\ DOMAIN log = 1 .. Len(log)
  BY LenProperties DEF TypeOK
<1>2. /\ h + 1 \in 1 .. Len(log) /\ log[h + 1].role = "user"
      /\ Closed(log, h, Len(log)) /\ log[Len(log)].role # "assistant"
  BY <1>1 DEF TurnLog
<1>3. ASSUME NEW c, NEW i \in 1 .. Len(log), log[i].role = "assistant",
             c \in log[i].calls,
             \A k \in i + 1 .. Len(log) :
               log[k].role = "tool" /\ c \notin log[k].calls
      PROVE  FALSE
  <2>1. i \in h + 1 .. Len(log)
    BY <1>1, <1>2, <1>3
  <2>2. Replied(log, i, Len(log))
    BY <1>2, <1>3, <2>1 DEF Closed
  <2>3. PICK r \in i + 1 .. i + Cardinality(log[i].calls) : c \in log[r].calls
    BY <1>3, <2>2 DEF Replied
  <2>4. Cardinality(log[i].calls) \in Nat
    BY <1>1, MessageCalls DEF TypeOK
  <2>5. r \in i + 1 .. Len(log)
    BY <1>1, <2>2, <2>3, <2>4 DEF Replied
  <2> QED BY <1>3, <2>3, <2>5
<1>4. \A c \in CallId : ~ Talk!Waits(c)
  BY <1>1, <1>3 DEF Talk!Waits
<1> QED BY <1>1, <1>2, <1>4

\* A turn at its tools waits for the results of the calls that are open.
LEMMA AskedWaits ==
  ASSUME TypeOK, NEW h \in Nat, NEW ask, TurnLog("tools", log, h, ask),
         NEW c \in ask
  PROVE  Talk!Waits(c)
<1>1. Len(log) \in Nat /\ DOMAIN log = 1 .. Len(log)
  BY LenProperties DEF TypeOK
<1>2. PICK p \in DOMAIN log : OpenAt(log, h, p, Len(log), ask)
  BY DEF TurnLog
<1>3. /\ log[p].role = "assistant" /\ c \in log[p].calls
      /\ \A r \in p + 1 .. Len(log) : log[r].role = "tool"
      /\ UNION {log[r].calls : r \in p + 1 .. Len(log)} = log[p].calls \ ask
  BY <1>2 DEF OpenAt
<1>4. \A r \in p + 1 .. Len(log) : c \notin log[r].calls
  BY <1>3
<1> QED BY <1>3, <1>4 DEF Talk!Waits

\* What a turn stores, if it is its turn to.
LEMMA TurnStored ==
  ASSUME TypeOK, WholeInv, NEW t \in Turn \ disturbed, NEW m \in Message,
         Stored(m),
         \/ m = UserMessage(t)
         \/ pc[t] = "model" /\ \E calls \in SUBSET CallId : m = ModelMessage(t, calls)
         \/ pc[t] = "tools" /\ \E c \in asked[t] : m = ToolMessage(t, c)
  PROVE  Talk!Next
<1>1. Talk!Say(m) /\ alive
  BY DEF Stored, Talk!Say
<1>2. Len(history[t]) \in Nat /\ asked[t] \subseteq CallId
  BY LenProperties DEF TypeOK
<1>3. CASE m = UserMessage(t)
  <2>1. Talk!Ask(m)
    BY <1>1, <1>3 DEF UserMessage, Talk!Ask
  <2> QED BY <2>1 DEF Talk!Next
<1>4. CASE pc[t] = "model" /\ \E calls \in SUBSET CallId : m = ModelMessage(t, calls)
  <2>1. TurnLog("model", log, Len(history[t]), asked[t])
    BY <1>1, <1>4 DEF WholeInv
  <2>2. /\ log # <<>> /\ log[Len(log)].role # "assistant"
        /\ \A c \in CallId : ~ Talk!Waits(c)
    BY <1>2, <2>1, NothingWaits
  <2>3. Talk!Reply(m)
    BY <1>1, <1>4, <2>2 DEF ModelMessage, Talk!Reply
  <2> QED BY <2>3 DEF Talk!Next
<1>5. CASE pc[t] = "tools" /\ \E c \in asked[t] : m = ToolMessage(t, c)
  <2>1. PICK c \in asked[t] : m = ToolMessage(t, c)
    BY <1>5
  <2>2. TurnLog("tools", log, Len(history[t]), asked[t])
    BY <1>1, <1>5 DEF WholeInv
  <2>3. Talk!Waits(c)
    BY <1>2, <2>2, AskedWaits
  <2>4. Talk!Result(m)
    BY <1>1, <1>2, <2>1, <2>3 DEF ToolMessage, Talk!Result
  <2> QED BY <2>4 DEF Talk!Next
<1> QED BY <1>3, <1>4, <1>5

\* A turn that is not disturbed, or does not store.
LEMMA TurnSpeaks ==
  ASSUME TypeOK, WholeInv, NEW t \in Turn,
         AcquireTurn(t) \/ TurnStep(t) \/ PlanUpdated(t),
         log' # <<>> => log'[Len(log')].run \notin disturbed
  PROVE  UNCHANGED session \/ Talk!Next
<1>1. ASSUME NEW m \in Message, Stored(m), m.run = t PROVE t \notin disturbed
  <2>1. IsGrown(log', log, m)
    BY <1>1, Grown DEF Stored, TypeOK
  <2>2. log' # <<>> /\ log'[Len(log')].run = t
    BY <1>1, <2>1 DEF IsGrown
  <2> QED BY <2>2
<1>2. asked[t] \subseteq CallId
  BY DEF TypeOK
<1>3. ASSUME Stored(UserMessage(t)) PROVE Talk!Next
  <2>1. UserMessage(t) \in Message /\ UserMessage(t).run = t
    BY MessagesType DEF UserMessage
  <2> QED BY <1>1, <1>3, <2>1, TurnStored
<1>4. ASSUME pc[t] = "model", NEW calls \in Askable(t), Stored(ModelMessage(t, calls))
      PROVE  Talk!Next
  <2>1. /\ calls \in SUBSET CallId
        /\ ModelMessage(t, calls) \in Message /\ ModelMessage(t, calls).run = t
    BY AskableCalls, MessagesType DEF ModelMessage
  <2> QED BY <1>1, <1>4, <2>1, TurnStored
<1>5. ASSUME pc[t] = "tools", NEW c \in asked[t], Stored(ToolMessage(t, c))
      PROVE  Talk!Next
  <2>1. ToolMessage(t, c) \in Message /\ ToolMessage(t, c).run = t
    BY <1>2, MessagesType DEF ToolMessage
  <2> QED BY <1>1, <1>5, <2>1, TurnStored
<1>6. CASE AppendUser(t) \/ BeforeModelFails(t)
  BY <1>3, <1>6 DEF AppendUser, BeforeModelFails, NotStored
<1>7. CASE \E calls \in Askable(t), text \in BOOLEAN : ModelReplies(t, calls, text)
  BY <1>4, <1>7 DEF ModelReplies, MayReply
<1>8. CASE \E c \in CallId : ToolResult(t, c)
  BY <1>5, <1>8 DEF ToolResult
<1>9. CASE RecordFails(t)
  <2>1. CASE MayReply(t) /\ \E calls \in Askable(t) : NotStored(ModelMessage(t, calls))
    BY <1>4, <2>1 DEF NotStored, MayReply
  <2>2. CASE pc[t] = "tools" /\ \E c \in asked[t] : NotStored(ToolMessage(t, c))
    BY <1>5, <2>2 DEF NotStored
  <2> QED BY <1>9, <2>1, <2>2 DEF RecordFails
<1>10. CASE AcquireTurn(t) \/ PlanUpdated(t) \/ TurnRefused(t) \/ ReadHistory(t)
            \/ ReadFails(t) \/ Start(t) \/ AgentFails(t) \/ NoResponse(t)
            \/ Complete(t) \/ ReleaseTurn(t)
  BY <1>10 DEF AcquireTurn, PlanUpdated, TurnRefused, ReadHistory, ReadFails,
               Start, AgentFails, NoResponse, Complete, ReleaseTurn
<1> QED BY <1>6, <1>7, <1>8, <1>9, <1>10 DEF TurnStep

(***************************************************************************)
(* All that a turn stores which was not disturbed goes on with the         *)
(* conversation, whatever turns failed or were cancelled before it: it     *)
(* replies when nothing waits for a result, and each result answers, once, *)
(* a call of the last reply.                                               *)
(***************************************************************************)
THEOREM TurnsConverse == Spec => KeepsConversation
<1>1. Init => Talk!Init
  BY DEF Init, Talk!Init
<1>2. ASSUME TypeOK, WholeInv, [Next]_vars
      PROVE  [(log' # <<>> => log'[Len(log')].run \notin disturbed)
                => Talk!Next]_Talk!vars
  <2> SUFFICES ASSUME Next, log' # <<>> => log'[Len(log')].run \notin disturbed
               PROVE  UNCHANGED session \/ Talk!Next
    BY <1>2 DEF vars, session, Talk!vars
  <2>1. ASSUME NEW t \in Turn, AcquireTurn(t) \/ TurnStep(t) \/ PlanUpdated(t)
        PROVE  UNCHANGED session \/ Talk!Next
    BY <1>2, <2>1, TurnSpeaks
  <2>2. ASSUME NEW d \in Deletion,
               AcquireForDelete(d) \/ DeleteGivesUp(d) \/ DeleteStep(d)
        PROVE  UNCHANGED session \/ Talk!Next
    BY <2>2 DEF AcquireForDelete, DeleteGivesUp, DeleteStep, Delete,
                DeleteFails, ReleaseDelete, Talk!Next, Talk!End
  <2>3. ASSUME Expire PROVE Talk!Next
    BY <2>3 DEF Expire, Talk!Next, Talk!End
  <2>4. \A r \in Turn \cup Deletion : LoseTurn(r) => UNCHANGED session
    BY DEF LoseTurn
  <2> QED BY <2>1, <2>2, <2>3, <2>4 DEF Next
<1> QED
  BY <1>1, <1>2, WholeAlways, TypeCorrect, PTL DEF Spec, KeepsConversation

(***************************************************************************)
(* Where no lock is lost, the requests of a session implement Conversation *)
(* as it stands.                                                           *)
(***************************************************************************)
THEOREM KeptLocksConverse ==
  ASSUME LostAt = {}
  PROVE  Spec => Talk!Spec
<1>1. Spec => [](disturbed = {})
  BY KeptLocksExclude, PTL
<1>2. ASSUME disturbed = {},
             [(log' # <<>> => log'[Len(log')].run \notin disturbed)
                => Talk!Next]_Talk!vars
      PROVE  [Talk!Next]_Talk!vars
  BY <1>2
<1> QED BY <1>1, <1>2, TurnsConverse, PTL DEF KeepsConversation, Talk!Spec
=============================================================================
