------------------------------ MODULE TaskPlan ------------------------------
(***************************************************************************)
(* The task plan of one session: system.manage_task_plan                   *)
(* (internal/agentic/systemtools/manage_task_plan/tool.go) over the        *)
(* repository of internal/agentic/session/taskplan and the two stores      *)
(* behind it (PostgreSQL and Redis).  A model may call the tool several    *)
(* times at once, and a turn that has lost its lock may still be calling   *)
(* it, so calls read the plan and later write it with the revision they    *)
(* read as a precondition, in any interleaving.                            *)
(*                                                                         *)
(* A plan that has been stored is announced to the client of the run the   *)
(* call belongs to, if that run still announces anything: a goroutine of a *)
(* tool may outlive its run, and a client may have gone.                   *)
(*                                                                         *)
(* A task is its identifier and its status; a description, like the form   *)
(* of an identifier, only matters as one more way to be invalid, which     *)
(* BadStatus stands for.                                                   *)
(***************************************************************************)
EXTENDS Integers, Sequences

CONSTANTS
  Run,        \* runs of the session's turns
  Call,       \* calls of the tool
  RunOf,      \* the run each call belongs to
  Id,         \* task identifiers
  Status,     \* the statuses isTaskStatus accepts
  BadStatus,  \* any other
  MaxTasks,   \* maxTaskPlanTasks
  NoPlan,     \* nil
  Input,      \* the arguments a call may come with
  Earlier     \* plans an earlier turn may have left

Task == [id : Id, status : Status \cup {BadStatus}]
Action == {"create", "modify", "update_status", "append", "clear"}

\* Identifiers do not repeat.
Distinct(tasks) ==
  \A i, j \in DOMAIN tasks : tasks[i].id = tasks[j].id => i = j

\* A mutant: the validation forgets repeated identifiers.
ValidRepeats(tasks) ==
  /\ Len(tasks) \in 1 .. MaxTasks
  /\ \A i \in DOMAIN tasks : tasks[i].status \in Status

\* ValidateTaskPlanTasks.
Valid(tasks) ==
  /\ Len(tasks) \in 1 .. MaxTasks
  /\ Distinct(tasks)
  /\ \A i \in DOMAIN tasks : tasks[i].status \in Status

Tasks == Seq(Task)

Plan == [revision : Nat \ {0}, tasks : Tasks]

ASSUME CallsHaveRuns == RunOf \in [Call -> Run]
ASSUME Arguments == Input \subseteq [action : Action, tasks : Tasks]
ASSUME EarlierPlans == Earlier \subseteq {p \in Plan : Valid(p.tasks)}
ASSUME NoPlanIsNone == NoPlan \notin Plan
ASSUME StatusesDiffer == BadStatus \notin Status
ASSUME LimitIsNatural == MaxTasks \in Nat

VARIABLES
  live,        \* the session exists
  plan,        \* the plan stored with it
  incarnation, \* history: how many plans have been created
  announced,   \* plans shown to the client by task_plan.updated
  silent,      \* runs that announce nothing any more
  pc,          \* where each call is
  local        \* its arguments, the plan it read, the tasks it will save,
               \* the store's verdict, the plan it stored, its answer and,
               \* for the history, the incarnation it read or wrote

store == <<live, plan, incarnation>>
client == <<announced, silent>>
vars == <<store, client, pc, local>>

Verdicts == {"none", "ok", "invalid", "conflict", "not_found", "failed"}

Answers ==
  {"none", "invalid_arguments", "active_plan_exists", "no_active_plan",
   "unknown_task_id", "plan_conflict", "updated", "cleared", "error"}

Locals ==
  [input : Input, seen : Plan \cup {NoPlan}, tasks : Tasks,
   verdict : Verdicts, result : Plan \cup {NoPlan}, at : Nat,
   answer : Answers]

TypeOK ==
  /\ live \in BOOLEAN
  /\ plan \in Plan \cup {NoPlan}
  /\ incarnation \in Nat
  /\ announced \subseteq Plan
  /\ silent \subseteq Run
  /\ pc \in [Call -> {"idle", "reading", "loading", "writing", "replying",
                      "done"}]
  /\ local \in [Call -> Locals]

\* A call before it runs.
NotStarted(in) ==
  [input |-> in, seen |-> NoPlan, tasks |-> <<>>, verdict |-> "none",
   result |-> NoPlan, at |-> 0, answer |-> "none"]

\* The plan of an earlier turn has been announced or is read by the page.
Init ==
  /\ live = TRUE
  /\ plan \in Earlier \cup {NoPlan}
  /\ incarnation = 0
  /\ announced = {plan} \ {NoPlan}
  /\ silent = {}
  /\ pc = [c \in Call |-> "idle"]
  /\ local \in [Call -> {NotStarted(i) : i \in Input}]

-----------------------------------------------------------------------------
Goto(c, place) == pc' = [pc EXCEPT ![c] = place]

Answer(c, status) ==
  /\ pc' = [pc EXCEPT ![c] = "done"]
  /\ local' = [local EXCEPT ![c].answer = status]

\* The tool's argument checks: clear takes no tasks, the others need some.
Start(c) ==
  LET in == local[c].input IN
  /\ pc[c] = "idle"
  /\ \/ /\ (in.action = "clear") = (in.tasks = <<>>)
        /\ Goto(c, "reading")
        /\ UNCHANGED local
     \/ /\ (in.action = "clear") # (in.tasks = <<>>)
        /\ Answer(c, "invalid_arguments")
  /\ UNCHANGED <<store, client>>

\* GetTaskPlan first looks the session up, then reads its plan.
LookUp(c) ==
  /\ pc[c] = "reading"
  /\ IF live THEN Goto(c, "loading") /\ UNCHANGED local
             ELSE Answer(c, "error")
  /\ UNCHANGED <<store, client>>

\* The identifiers and the new statuses of an update, as one function.
Updates(tasks) ==
  [id \in {tasks[i].id : i \in DOMAIN tasks} |->
     tasks[CHOOSE i \in DOMAIN tasks : tasks[i].id = id].status]

Updated(old, updates) ==
  [i \in DOMAIN old |->
     IF old[i].id \in DOMAIN updates
       THEN [old[i] EXCEPT !.status = updates[old[i].id]]
       ELSE old[i]]

KnownIds(old) == {old[i].id : i \in DOMAIN old}

\* Why the tool does not go on with what it read, or "none".
Refusal(in, current) ==
  CASE in.action = "create" /\ current # NoPlan -> "active_plan_exists"
    [] in.action # "create" /\ current = NoPlan -> "no_active_plan"
    [] in.action = "update_status" /\ current # NoPlan ->
         IF ~ Distinct(in.tasks) THEN "invalid_arguments"
         ELSE IF \E i \in DOMAIN in.tasks :
                   in.tasks[i].id \notin KnownIds(current.tasks)
                THEN "unknown_task_id" ELSE "none"
    [] OTHER -> "none"

\* The tasks a call asks the store to save.
Wanted(in, current) ==
  CASE in.action = "update_status" -> Updated(current.tasks, Updates(in.tasks))
    [] in.action = "append" -> current.tasks \o in.tasks
    [] OTHER -> in.tasks

\* The plan arrives, or nil, and the tool decides.
Load(c) ==
  LET in == local[c].input IN
  /\ pc[c] = "loading"
  /\ IF Refusal(in, plan) = "none"
       THEN /\ Goto(c, "writing")
            /\ local' = [local EXCEPT ![c].seen = plan,
                                      ![c].at = incarnation,
                                      ![c].tasks = Wanted(in, plan)]
       ELSE Answer(c, Refusal(in, plan))
  /\ UNCHANGED <<store, client>>

ReadFails(c) ==
  /\ pc[c] \in {"reading", "loading"}
  /\ Answer(c, "error")
  /\ UNCHANGED <<store, client>>

-----------------------------------------------------------------------------
Revision(p) == IF p = NoPlan THEN 0 ELSE p.revision

\* A mutant: the new plan keeps the revision it was written with.
SameRevision(c) == Revision(local[c].seen)

NextRevision(c) == Revision(local[c].seen) + 1

\* A mutant: the store only checks that there still is, or is not, a plan.
UnchangedPresence(c) == (plan = NoPlan) = (local[c].seen = NoPlan)

\* The store compares revisions, nothing else.
Unchanged(c) == Revision(plan) = Revision(local[c].seen)

Verdict(c, v) ==
  /\ Goto(c, "replying")
  /\ local' = [local EXCEPT ![c].verdict = v]
  /\ UNCHANGED <<store, client>>

Saving(c) == pc[c] = "writing" /\ local[c].input.action # "clear"
Clearing(c) == pc[c] = "writing" /\ local[c].input.action = "clear"

\* What a save or a clear does to the store.  A reply that is lost after the
\* commit leaves the caller with an error ("failed").
Write(c, new, v) ==
  /\ plan' = new
  /\ incarnation' = IF plan = NoPlan THEN incarnation + 1 ELSE incarnation
  /\ Goto(c, "replying")
  /\ local' = [local EXCEPT ![c].verdict = v, ![c].result = new,
                            ![c].at = incarnation']
  /\ UNCHANGED <<live, client>>

\* SaveTaskPlan: one script or one transaction that holds the session's row.
Save(c) ==
  /\ Saving(c) /\ live
  /\ Valid(local[c].tasks)
  /\ Unchanged(c)
  /\ \E v \in {"ok", "failed"} :
       Write(c, [revision |-> NextRevision(c),
                 tasks |-> local[c].tasks], v)

SaveRefused(c) ==
  /\ Saving(c)
  /\ \/ ~ Valid(local[c].tasks) /\ Verdict(c, "invalid")
     \/ Valid(local[c].tasks) /\ ~ live /\ Verdict(c, "not_found")
     \/ Valid(local[c].tasks) /\ live /\ ~ Unchanged(c) /\ Verdict(c, "conflict")

\* ClearTaskPlan, with the same precondition.
Clear(c) ==
  /\ Clearing(c) /\ live
  /\ plan # NoPlan
  /\ Unchanged(c)
  /\ \E v \in {"ok", "failed"} : Write(c, NoPlan, v)

ClearRefused(c) ==
  /\ Clearing(c)
  /\ \/ ~ (live /\ plan # NoPlan) /\ Verdict(c, "not_found")
     \/ live /\ plan # NoPlan /\ ~ Unchanged(c) /\ Verdict(c, "conflict")

\* The request never reached the store.
WriteFails(c) == pc[c] = "writing" /\ Verdict(c, "failed")

\* A mutant: the tool announces the tasks it was called with.
AnnouncesInput(c) ==
  [local[c].result EXCEPT !.tasks = local[c].input.tasks]

\* The event carries the plan the store returned.
Announces(c) == local[c].result

\* EmitFromContext, whose result the tool ignores: the event is dropped when
\* the run of the call announces nothing any more.
Emit(c, plans) ==
  /\ announced' = announced \cup (IF RunOf[c] \in silent THEN {} ELSE plans)
  /\ UNCHANGED silent

\* save: the plan that was stored is announced, and every refusal that the
\* model can act on is a result rather than an error.
SaveReplied(c) ==
  /\ pc[c] = "replying" /\ local[c].input.action # "clear"
  /\ Answer(c, CASE local[c].verdict = "ok" -> "updated"
                 [] local[c].verdict = "invalid" -> "invalid_arguments"
                 [] local[c].verdict = "conflict" -> "plan_conflict"
                 [] OTHER -> "error")
  /\ Emit(c, IF local[c].verdict = "ok" THEN {Announces(c)} ELSE {})
  /\ UNCHANGED store

\* clear: an empty plan is announced under the revision that was cleared.
ClearReplied(c) ==
  /\ pc[c] = "replying" /\ local[c].input.action = "clear"
  /\ Answer(c, IF local[c].verdict = "ok" THEN "cleared" ELSE "error")
  /\ Emit(c, IF local[c].verdict = "ok"
                THEN {[revision |-> local[c].seen.revision, tasks |-> <<>>]}
                ELSE {})
  /\ UNCHANGED store

\* The run has sent its terminal event, or an event could not be sent and the
\* handler has stopped the stream: whatever its tools still do, the client is
\* told nothing more.
FallSilent(r) ==
  /\ r \notin silent
  /\ silent' = silent \cup {r}
  /\ UNCHANGED <<store, announced, pc, local>>

\* The session expires or is deleted, and its plan with it.
SessionEnds ==
  /\ live
  /\ live' = FALSE
  /\ plan' = NoPlan
  /\ UNCHANGED <<incarnation, client, pc, local>>

Next ==
  \/ \E c \in Call :
       \/ Start(c) \/ LookUp(c) \/ Load(c) \/ ReadFails(c)
       \/ Save(c) \/ SaveRefused(c) \/ Clear(c) \/ ClearRefused(c)
       \/ WriteFails(c) \/ SaveReplied(c) \/ ClearReplied(c)
  \/ \E r \in Run : FallSilent(r)
  \/ SessionEnds

Spec == Init /\ [][Next]_vars

-----------------------------------------------------------------------------
(***************************************************************************)
(* Properties                                                              *)
(***************************************************************************)

\* Whatever sequence of calls built it, the stored plan passes
\* ValidateTaskPlanTasks: an append cannot repeat an identifier or outgrow
\* the limit, a status update cannot smuggle a status in.
PlanValid ==
  plan # NoPlan =>
    /\ Len(plan.tasks) \in 1 .. MaxTasks
    /\ \A i, j \in DOMAIN plan.tasks :
         i # j => plan.tasks[i].id # plan.tasks[j].id
    /\ \A i \in DOMAIN plan.tasks : plan.tasks[i].status \in Status

\* No lost update.  A write the store accepts replaces the very plan its
\* call read; only when the plan has been cleared and another created since
\* may it replace one it never saw.  A create never replaces a plan.
NoLostUpdate ==
  [][\A c \in Call :
       (pc[c] = "writing" /\ pc'[c] = "replying" /\ plan' # plan) =>
         \/ local[c].seen = plan
         \/ local[c].seen # NoPlan /\ local[c].at # incarnation]_vars

\* The calls whose save took effect, reported or not.
Saved == {c \in Call : local[c].result # NoPlan}

\* Between one creation and the next, two saves never produce the same
\* revision: a client that has seen a revision has seen that plan.
DistinctRevisions ==
  \A c, d \in Saved :
    (c # d /\ local[c].at = local[d].at) =>
      local[c].result.revision # local[d].result.revision

\* The stored plan has been announced with exactly its tasks and revision,
\* or its author is about to announce it; the only plans a client is never
\* told of are those whose store call failed after the commit, and those of
\* a run that has ended, or whose client has gone, meanwhile.
PlanAnnounced ==
  plan = NoPlan \/ plan \in announced
    \/ \E c \in Saved :
         /\ local[c].result = plan
         /\ \/ pc[c] = "replying"
            \/ local[c].verdict = "failed"
            \/ RunOf[c] \in silent

\* What a call with these variables has come to: its answer, or what the
\* store has said.
Outcome(l) ==
  CASE l.answer # "none" -> l.answer
    [] l.answer = "none" /\ l.verdict = "none" -> "none"
    [] l.answer = "none" /\ l.verdict = "ok" ->
         IF l.input.action = "clear" THEN "cleared" ELSE "updated"
    [] l.answer = "none" /\ l.verdict = "invalid" -> "invalid_arguments"
    [] l.answer = "none" /\ l.verdict = "conflict" -> "plan_conflict"
    [] OTHER -> "error"

Register == INSTANCE PlanRegister WITH
  round <- incarnation,
  input <- [c \in Call |-> local[c].input],
  seen <- [c \in Call |-> local[c].seen],
  since <- [c \in Call |-> local[c].at],
  answer <- [c \in Call |-> Outcome(local[c])]

\* Although calls read the plan and write it back later, each takes effect as
\* if it ran alone on the plan that is stored, does to it what its action
\* says and nothing else, and answers truly whether it did: PlanRegister.
KeepsRegister == Register!Spec

\* taskplan/model.go:47 says that the revision prevents any write detached
\* from the current snapshot.
SnapshotGuard ==
  [][\A c \in Call :
       (pc[c] = "writing" /\ pc'[c] = "replying" /\ plan' # plan)
         => local[c].seen = plan]_vars

\* docs/CHANGELOG.md:1161 says that create, update and clear all answer a
\* concurrent change with the stable result plan_conflict.
ConflictsAreResults ==
  \A c \in Call :
    (pc[c] = "done" /\ local[c].verdict = "conflict")
      => local[c].answer = "plan_conflict"

=============================================================================
