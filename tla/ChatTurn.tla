------------------------------ MODULE ChatTurn ------------------------------
(***************************************************************************)
(* The turns of one session, from the request to the end of its event      *)
(* stream: chat.Service.StreamSession (internal/application/chat), the     *)
(* agent loop of runtime.StreamWithHistoryAndMessages and the Emitter that *)
(* orders what the client is sent; and DeleteSession, which waits for the  *)
(* session's turn.  Turns and deletions exclude each other by the contract *)
(* of TurnLocker, which TurnLock is shown to implement: a request may lose *)
(* the lock while it executes, and then nobody tells it or the next one.   *)
(*                                                                         *)
(* Any step may fail, whether because a service fails or because the       *)
(* client has gone and its context is cancelled.  agent.status and         *)
(* assistant.* events are left out: they are emitted like the others, at   *)
(* points where nothing else happens.  The log is whole: how much of it a  *)
(* store keeps and a turn reads is not this module's subject.              *)
(***************************************************************************)
EXTENDS Integers, Sequences, FiniteSets

CONSTANTS
  Turn,        \* requests that post a message to the session
  Deletion,    \* requests that delete it
  CallId,      \* identifiers of tool calls
  Unregistered,  \* those for which there is no tool
  NoCall,
  MaxReplies,    \* Config.MaxIterations: model replies in a turn
  WithTools,     \* bound: the turns whose model calls tools
  MaxPlanEvents,  \* bound: task_plan.updated events of a turn
  LostAt          \* bound: <<request, place>>, where requests may lose the lock

ASSUME CallersDiffer == Turn \cap Deletion = {}
ASSUME Calls ==
  /\ Unregistered \subseteq CallId
  /\ IsFiniteSet(CallId)
  /\ NoCall \notin CallId
ASSUME Bounds ==
  /\ MaxReplies \in Nat
  /\ WithTools \subseteq Turn
  /\ MaxPlanEvents \in Nat

VARIABLES
  executing, lost,  \* the session's turn lock (TurnLocker)
  disturbed,        \* history: requests that executed together with another
  durable,          \* it is a user's session, not an anonymous one
  alive,            \* the session exists
  log,              \* its messages
  pc,               \* where each request is
  history,          \* the messages each turn read before its own
  asked,            \* the calls of its last reply that are still to be answered
  pending,          \* pendingTools
  replies,          \* how many times its model has replied
  responded,        \* response # ""
  events,           \* what its Emitter has sent
  unrecorded        \* history: turns that ended because record failed

lock == <<executing, lost, disturbed>>
session == <<durable, alive, log>>
loop == <<history, asked, pending, replies, responded, unrecorded>>
vars == <<lock, session, pc, loop, events>>

Lock == INSTANCE TurnLocker WITH Turn <- Turn \cup Deletion, MayLose <- TRUE

Message ==
  [run : Turn, role : {"user", "assistant", "tool"}, calls : SUBSET CallId]

Event ==
  [type : {"run.started", "tool.call.started", "tool.call.completed",
           "tool.call.failed", "task_plan.updated", "run.completed",
           "run.failed"},
   call : CallId \cup {NoCall}]

TypeOK ==
  /\ executing \subseteq Turn \cup Deletion
  /\ lost \subseteq executing
  /\ disturbed \subseteq Turn \cup Deletion
  /\ durable \in BOOLEAN
  /\ alive \in BOOLEAN
  /\ log \in Seq(Message)
  /\ pc \in [Turn \cup Deletion ->
               {"idle", "locked", "ready", "appending", "model", "tools",
                "answered", "waiting", "deleting", "releasing", "done"}]
  /\ history \in [Turn -> Seq(Message)]
  /\ asked \in [Turn -> SUBSET CallId]
  /\ pending \in [Turn -> SUBSET CallId]
  /\ replies \in [Turn -> 0 .. MaxReplies]
  /\ responded \in [Turn -> BOOLEAN]
  /\ events \in [Turn -> Seq(Event)]
  /\ unrecorded \subseteq Turn

Init ==
  /\ Lock!Init
  /\ disturbed = {}
  /\ durable \in BOOLEAN
  /\ alive = TRUE
  /\ log = <<>>
  /\ pc = [r \in Turn \cup Deletion |-> IF r \in Turn THEN "idle" ELSE "waiting"]
  /\ history = [t \in Turn |-> <<>>]
  /\ asked = [t \in Turn |-> {}]
  /\ pending = [t \in Turn |-> {}]
  /\ replies = [t \in Turn |-> 0]
  /\ responded = [t \in Turn |-> FALSE]
  /\ events = [t \in Turn |-> <<>>]
  /\ unrecorded = {}

-----------------------------------------------------------------------------
(***************************************************************************)
(* The Emitter and the message store                                       *)
(***************************************************************************)

Ev(type) == [type |-> type, call |-> NoCall]
CallEv(type, c) == [type |-> type, call |-> c]

Terminal(e) == e.type \in {"run.completed", "run.failed"}

\* A mutant: the Emitter sends whatever it is given.
OpenAlways(t) == TRUE

\* The Emitter of a turn still sends: no terminal event so far.
Open(t) == \A i \in DOMAIN events[t] : ~ Terminal(events[t][i])

Emit(t, new) ==
  events' = IF Open(t) THEN [events EXCEPT ![t] = @ \o new] ELSE events

Goto(r, place) == pc' = [pc EXCEPT ![r] = place]

\* A mutant: the error of Append is ignored.
StoredMaybe(m) ==
  /\ log' \in {log, Append(log, m)}
  /\ UNCHANGED <<durable, alive>>

\* Append finds the session's row or key.
Stored(m) == alive /\ log' = Append(log, m) /\ UNCHANGED <<durable, alive>>

\* When Append fails, the message may have reached the store all the same.
NotStored(m) == UNCHANGED session \/ Stored(m)

\* One event for each call.  No property depends on the order.
Listed(calls) ==
  CHOOSE order \in [1 .. Cardinality(calls) -> calls] :
    \A i, j \in DOMAIN order : order[i] = order[j] => i = j

EvOfEach(type, calls) ==
  [i \in 1 .. Cardinality(calls) |-> CallEv(type, Listed(calls)[i])]

-----------------------------------------------------------------------------
(***************************************************************************)
(* The turn lock                                                           *)
(***************************************************************************)

\* A request gets the lock: those that still execute have lost it.
GetTurn(r) ==
  /\ Lock!Begin(r)
  /\ disturbed' = IF executing = {} THEN disturbed
                                    ELSE disturbed \cup executing'

GiveTurnBack(r) == Lock!End(r) /\ UNCHANGED disturbed

\* The key of a request expires while it executes.
LoseTurn(r) ==
  /\ <<r, pc[r]>> \in LostAt
  /\ Lock!Lose(r)
  /\ UNCHANGED <<disturbed, session, pc, loop, events>>

-----------------------------------------------------------------------------
(***************************************************************************)
(* StreamSession                                                           *)
(***************************************************************************)

\* A mutant: the turn does not wait for the turn that executes.
AcquireShared(t) ==
  /\ pc[t] = "idle"
  /\ executing' = executing \cup {t}
  /\ UNCHANGED <<lost, disturbed>>
  /\ Goto(t, "locked")
  /\ UNCHANGED <<session, loop, events>>

\* The turn lock is free and the request gets it.
AcquireTurn(t) ==
  /\ pc[t] = "idle"
  /\ GetTurn(t)
  /\ Goto(t, "locked")
  /\ UNCHANGED <<session, loop, events>>

\* ErrTurnInProgress, or the lock cannot be reached: emitSessionFailure.
TurnRefused(t) ==
  /\ pc[t] = "idle"
  /\ Emit(t, <<Ev("run.started"), Ev("run.failed")>>)
  /\ Goto(t, "done")
  /\ UNCHANGED <<lock, session, loop>>

\* The task plan's scope and snapshot, and then the history, are read from
\* a session that exists.
ReadHistory(t) ==
  /\ pc[t] = "locked"
  /\ alive
  /\ history' = [history EXCEPT ![t] = log]
  /\ Goto(t, "ready")
  /\ UNCHANGED <<lock, session, asked, pending, replies, responded, unrecorded,
                 events>>

\* One of those reads fails, or there is no such session.
ReadFails(t) ==
  /\ pc[t] = "locked"
  /\ Emit(t, <<Ev("run.started"), Ev("run.failed")>>)
  /\ Goto(t, "releasing")
  /\ UNCHANGED <<lock, session, loop>>

\* stream starts; a student profile that cannot be loaded is left out.
Start(t) ==
  /\ pc[t] = "ready"
  /\ Emit(t, <<Ev("run.started")>>)
  /\ Goto(t, "appending")
  /\ UNCHANGED <<lock, session, loop>>

UserMessage(t) == [run |-> t, role |-> "user", calls |-> {}]

\* A mutant: the history is read once the message has been stored.
AppendUserFirst(t) ==
  /\ pc[t] = "appending"
  /\ Stored(UserMessage(t))
  /\ history' = [history EXCEPT ![t] = log']
  /\ Goto(t, "model")
  /\ UNCHANGED <<lock, asked, pending, replies, responded, unrecorded, events>>

\* beforeModel: the user's message is stored before the model is called.
AppendUser(t) ==
  /\ pc[t] = "appending"
  /\ Stored(UserMessage(t))
  /\ Goto(t, "model")
  /\ UNCHANGED <<lock, loop, events>>

\* The client goes while its profile is loaded, or the message is not
\* stored as far as the service can tell.
BeforeModelFails(t) ==
  /\ pc[t] = "appending"
  /\ NotStored(UserMessage(t))
  /\ Emit(t, <<Ev("run.failed")>>)
  /\ Goto(t, "releasing")
  /\ UNCHANGED <<lock, loop>>

-----------------------------------------------------------------------------
(***************************************************************************)
(* StreamWithHistoryAndMessages: one action per message of the agent.  The *)
(* agent calls its model until a reply asks for no tool, and runs all the  *)
(* calls of a reply, together, before it calls the model again.            *)
(***************************************************************************)

ModelMessage(t, calls) == [run |-> t, role |-> "assistant", calls |-> calls]
ToolMessage(t, c) == [run |-> t, role |-> "tool", calls |-> {c}]

\* The calls a reply may ask for.
Askable(t) == IF t \in WithTools THEN SUBSET CallId ELSE {{}}

\* A mutant: the limit is checked too late.
MayReplyOnceMore(t) == pc[t] = "model" /\ replies[t] <= MaxReplies

MayReply(t) == pc[t] = "model" /\ replies[t] < MaxReplies

\* A reply is stored, and then its new calls are announced.
ModelReplies(t, calls, text) ==
  /\ MayReply(t)
  /\ Stored(ModelMessage(t, calls))
  /\ Emit(t, EvOfEach("tool.call.started", calls \ pending[t]))
  /\ asked' = [asked EXCEPT ![t] = calls]
  /\ pending' = [pending EXCEPT ![t] = @ \cup calls]
  /\ replies' = [replies EXCEPT ![t] = @ + 1]
  /\ responded' = [responded EXCEPT ![t] = @ \/ text]
  /\ Goto(t, IF calls = {} THEN "answered" ELSE "tools")
  /\ UNCHANGED <<lock, history, unrecorded>>

\* A tool that is not registered has a result too.
Reported(c) ==
  CallEv(IF c \in Unregistered THEN "tool.call.failed"
                               ELSE "tool.call.completed", c)

\* The result of a call, in any order, is stored and then reported.
ToolResult(t, c) ==
  /\ pc[t] = "tools"
  /\ c \in asked[t]
  /\ Stored(ToolMessage(t, c))
  /\ Emit(t, <<Reported(c)>>)
  /\ asked' = [asked EXCEPT ![t] = @ \ {c}]
  /\ pending' = [pending EXCEPT ![t] = @ \ {c}]
  /\ Goto(t, IF asked[t] = {c} THEN "model" ELSE "tools")
  /\ UNCHANGED <<lock, history, replies, responded, unrecorded>>

\* record fails: the run ends at once, and the calls that are open are not
\* reported.
RecordFails(t) ==
  /\ \/ /\ MayReply(t)
        /\ \E calls \in Askable(t) : NotStored(ModelMessage(t, calls))
     \/ /\ pc[t] = "tools"
        /\ \E c \in asked[t] : NotStored(ToolMessage(t, c))
  /\ Emit(t, <<Ev("run.failed")>>)
  /\ unrecorded' = unrecorded \cup {t}
  /\ Goto(t, "releasing")
  /\ UNCHANGED <<lock, history, asked, pending, replies, responded>>

\* A mutant: the open calls are forgotten.
AgentFailsSilently(t) ==
  /\ pc[t] \in {"model", "tools", "answered"}
  /\ Emit(t, <<Ev("run.failed")>>)
  /\ Goto(t, "releasing")
  /\ UNCHANGED <<lock, session, loop>>

\* The agent or the stream of its message fails, or it may not go on.
AgentFails(t) ==
  /\ pc[t] \in {"model", "tools", "answered"}
  /\ Emit(t, EvOfEach("tool.call.failed", pending[t]) \o <<Ev("run.failed")>>)
  /\ Goto(t, "releasing")
  /\ UNCHANGED <<lock, session, loop>>

\* The agent ends without ever having answered.
NoResponse(t) ==
  /\ pc[t] = "answered"
  /\ ~ responded[t]
  /\ Emit(t, EvOfEach("tool.call.failed", pending[t]) \o <<Ev("run.failed")>>)
  /\ Goto(t, "releasing")
  /\ UNCHANGED <<lock, session, loop>>

Complete(t) ==
  /\ pc[t] = "answered"
  /\ responded[t]
  /\ Emit(t, <<Ev("run.completed")>>)
  /\ Goto(t, "releasing")
  /\ UNCHANGED <<lock, session, loop>>

\* system.manage_task_plan reports the plan from its own goroutine, which
\* may run ahead of the record of its call, or outlive the run.
PlanUpdated(t) ==
  /\ \/ pc[t] \in {"model", "tools"} /\ t \in WithTools
     \/ pc[t] \in {"releasing", "done"} /\ asked[t] # {}
  /\ Cardinality({i \in DOMAIN events[t] :
                    events[t][i].type = "task_plan.updated"}) < MaxPlanEvents
  /\ Emit(t, <<Ev("task_plan.updated")>>)
  /\ UNCHANGED <<lock, session, pc, loop>>

\* A mutant: the turn is only released when the run succeeds.
ReleaseCompleted(t) ==
  /\ pc[t] = "releasing"
  /\ responded[t]
  /\ GiveTurnBack(t)
  /\ Goto(t, "done")
  /\ UNCHANGED <<session, loop, events>>

\* The deferred releaseTurn; the variables of the call are gone with it.
ReleaseTurn(t) ==
  /\ pc[t] = "releasing"
  /\ GiveTurnBack(t)
  /\ Goto(t, "done")
  /\ history' = [history EXCEPT ![t] = <<>>]
  /\ pending' = [pending EXCEPT ![t] = {}]
  /\ replies' = [replies EXCEPT ![t] = 0]
  /\ responded' = [responded EXCEPT ![t] = FALSE]
  /\ UNCHANGED <<session, asked, unrecorded, events>>

-----------------------------------------------------------------------------
(***************************************************************************)
(* DeleteSession, and the end of an anonymous session                      *)
(***************************************************************************)

\* A mutant: the deletion does not take part in the turn lock.
AcquireNothing(d) ==
  /\ pc[d] = "waiting"
  /\ executing' = executing \cup {d}
  /\ UNCHANGED <<lost, disturbed>>
  /\ Goto(d, "deleting")
  /\ UNCHANGED <<session, loop, events>>

\* A request to delete may come at any time, so it waits from the start:
\* waitForSessionTurn tries again while the session's turn is taken.
AcquireForDelete(d) ==
  /\ pc[d] = "waiting"
  /\ GetTurn(d)
  /\ Goto(d, "deleting")
  /\ UNCHANGED <<session, loop, events>>

\* The request is cancelled, or the lock cannot be reached.
DeleteGivesUp(d) ==
  /\ pc[d] = "waiting"
  /\ Goto(d, "done")
  /\ UNCHANGED <<lock, session, loop, events>>

Delete(d) ==
  /\ pc[d] = "deleting"
  /\ durable /\ alive
  /\ alive' = FALSE
  /\ log' = <<>>
  /\ Goto(d, "releasing")
  /\ UNCHANGED <<lock, durable, loop, events>>

\* The store fails, or the caller owns no such session.
DeleteFails(d) ==
  /\ pc[d] = "deleting"
  /\ Goto(d, "releasing")
  /\ UNCHANGED <<lock, session, loop, events>>

ReleaseDelete(d) ==
  /\ pc[d] = "releasing"
  /\ GiveTurnBack(d)
  /\ Goto(d, "done")
  /\ UNCHANGED <<session, loop, events>>

\* The keys of an anonymous session expire, under a turn if need be.
Expire ==
  /\ alive /\ ~ durable
  /\ alive' = FALSE
  /\ log' = <<>>
  /\ UNCHANGED <<lock, durable, pc, loop, events>>

TurnStep(t) ==
  \/ TurnRefused(t) \/ ReadHistory(t) \/ ReadFails(t) \/ Start(t)
  \/ AppendUser(t) \/ BeforeModelFails(t)
  \/ \E calls \in Askable(t), text \in BOOLEAN : ModelReplies(t, calls, text)
  \/ \E c \in CallId : ToolResult(t, c)
  \/ RecordFails(t) \/ AgentFails(t) \/ NoResponse(t) \/ Complete(t)
  \/ ReleaseTurn(t)

DeleteStep(d) == Delete(d) \/ DeleteFails(d) \/ ReleaseDelete(d)

Next ==
  \/ \E t \in Turn : AcquireTurn(t) \/ TurnStep(t) \/ PlanUpdated(t)
  \/ \E d \in Deletion :
       AcquireForDelete(d) \/ DeleteGivesUp(d) \/ DeleteStep(d)
  \/ \E r \in Turn \cup Deletion : LoseTurn(r)
  \/ Expire

Spec == Init /\ [][Next]_vars

\* A goroutine that can run does: a request in hand is worked on, which for
\* the model and for the tools is what their timeouts ensure, and a deletion
\* that waits tries the lock again and again.
FairSpec ==
  /\ Spec
  /\ \A t \in Turn : WF_vars(TurnStep(t))
  /\ \A d \in Deletion : WF_vars(AcquireForDelete(d)) /\ WF_vars(DeleteStep(d))

-----------------------------------------------------------------------------
(***************************************************************************)
(* Properties                                                              *)
(***************************************************************************)

Running(t) ==
  pc[t] \in {"locked", "ready", "appending", "model", "tools", "answered"}

\* What the model is given is still what precedes the turn's own messages,
\* although it was read before the student profile was loaded and before the
\* user's message was stored: nothing comes between, unless the turn's lock
\* was lost and another request came, or the turn came while another was left.
HistoryIsFresh ==
  \A t \in Turn \ disturbed :
    (pc[t] \in {"ready", "appending", "model", "tools", "answered"} /\ alive) =>
      /\ Len(history[t]) <= Len(log)
      /\ \A i \in DOMAIN log :
           IF i <= Len(history[t]) THEN log[i] = history[t][i] /\ log[i].run # t
                                   ELSE log[i].run = t

\* The messages of a run are next to each other in the history, if it was not
\* disturbed, and the first of them is the user's.
RunsAreContiguous ==
  \A i, j \in DOMAIN log :
    (i < j /\ log[i].run = log[j].run) =>
      /\ log[i].run \notin disturbed =>
           \A k \in i .. j : log[k].run = log[i].run
      /\ log[j].role # "user"

\* A run starts with run.started and sends exactly one terminal event, the
\* last thing it ever sends: nothing is written to a response whose handler
\* has returned, though tools of the run may still be at work.
StreamShape ==
  \A t \in Turn :
    LET ev == events[t] IN
    /\ Len(ev) > 0 => ev[1].type = "run.started"
    /\ \A i \in DOMAIN ev : Terminal(ev[i]) => i = Len(ev)
    /\ pc[t] \in {"releasing", "done"} => Len(ev) > 0 /\ Terminal(ev[Len(ev)])

Starts(t, c) ==
  {i \in DOMAIN events[t] : events[t][i] = CallEv("tool.call.started", c)}
Ends(t, c) ==
  {i \in DOMAIN events[t] :
     events[t][i] \in {CallEv("tool.call.completed", c),
                       CallEv("tool.call.failed", c)}}

\* Every tool call the client has seen start is seen to end, once, and never
\* the other way round; only a run whose record failed leaves calls open.
ToolCallsEnd ==
  \A t \in Turn, c \in CallId :
    /\ \A i \in DOMAIN events[t] :
         Cardinality({k \in Ends(t, c) : k <= i})
           <= Cardinality({k \in Starts(t, c) : k <= i})
    /\ (pc[t] \in {"releasing", "done"} /\ t \notin unrecorded)
         => Cardinality(Ends(t, c)) = Cardinality(Starts(t, c))

\* The run's messages, the first at i and the last at j, are a whole turn: the
\* user's, then replies each followed by one result for each of its calls, and
\* at last a reply that asks for nothing.
WholeTurn(t, i, j) ==
  /\ \A k \in DOMAIN log : log[k].run = t <=> k \in i .. j
  /\ log[i].role = "user"
  /\ log[j].role = "assistant" /\ log[j].calls = {}
  /\ \A k \in i .. j : log[k].role = "assistant" =>
       LET results == k + 1 .. k + Cardinality(log[k].calls) IN
       /\ \A r \in results : r <= j /\ log[r].role = "tool"
       /\ UNION {log[r].calls : r \in results} = log[k].calls

\* A run whose client is told that it completed, and that was not disturbed,
\* is stored whole for as long as the session exists, whatever other requests
\* disturb each other.
CompletedTurnsAreWhole ==
  \A t \in Turn \ disturbed :
    (alive /\ \E i \in DOMAIN events[t] : events[t][i] = Ev("run.completed"))
      => \E i, j \in DOMAIN log : WholeTurn(t, i, j)

\* A user's session is only deleted when no turn executes, however the
\* deletion and the turns are timed, but for a turn whose lock was lost or
\* that came when the deletion's was.
DeletionWaits ==
  [][durable /\ alive /\ ~alive' => \A t \in Turn : Running(t) => t \in disturbed]_vars

\* Every turn that gets the lock gives it back, and its client is told how it
\* ended; and every deletion that waits is answered.
RequestsEnd ==
  \A r \in Turn \cup Deletion :
    (pc[r] \in {"locked", "waiting"}) ~> (pc[r] = "done")

\* Whatever fails and whoever is cancelled, a turn that was not disturbed goes
\* on with the session's conversation in all that it stores; where locks are
\* lost, two turns may answer the same message.
Talk == INSTANCE Conversation WITH said <- log, open <- alive

KeepsConversation ==
  /\ Talk!Init
  /\ [][(log' # <<>> => log'[Len(log')].run \notin disturbed) => Talk!Next]_Talk!vars
=============================================================================
