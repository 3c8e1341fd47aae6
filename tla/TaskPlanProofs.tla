--------------------------- MODULE TaskPlanProofs ---------------------------
(***************************************************************************)
(* Proofs about TaskPlan, for any calls, arguments and earlier plans.      *)
(*                                                                         *)
(* A save is accepted when a revision read earlier equals the stored one.  *)
(* What makes this more than a comparison of numbers is Behind: within one *)
(* incarnation of the plan, whatever a call read or wrote is no newer than *)
(* the stored plan, and equal to it when the revisions are equal.          *)
(***************************************************************************)
EXTENDS TaskPlan, TLAPS

\* How far a call has got decides which of its variables are set.
Stages ==
  \A c \in Call :
    /\ pc[c] \notin {"replying", "done"} => local[c].result = NoPlan
    /\ pc[c] \in {"writing", "replying"} =>
         (local[c].seen = NoPlan <=> local[c].input.action = "create")
    /\ local[c].result # NoPlan =>
         /\ local[c].verdict \in {"ok", "failed"}
         /\ local[c].input.action # "clear"
    /\ (pc[c] = "replying" /\ local[c].verdict = "ok"
          /\ local[c].input.action # "clear") => local[c].result # NoPlan

\* Reads and writes of this incarnation are no newer than the plan.
Behind ==
  \A c \in Call :
    /\ local[c].at <= incarnation
    /\ (plan # NoPlan /\ local[c].at = incarnation) =>
         /\ local[c].result # NoPlan => local[c].result.revision <= plan.revision
         /\ (pc[c] = "writing" /\ local[c].seen # NoPlan) =>
              /\ local[c].seen.revision <= plan.revision
              /\ local[c].seen.revision = plan.revision => local[c].seen = plan

IInv == TypeOK /\ PlanValid /\ Stages /\ Behind /\ DistinctRevisions /\ PlanAnnounced

\* Valid is what PlanValid asks of the stored tasks.
LEMMA ValidAccepts ==
  ASSUME NEW tasks, Valid(tasks)
  PROVE  /\ Len(tasks) \in 1 .. MaxTasks
         /\ \A i, j \in DOMAIN tasks : i # j => tasks[i].id # tasks[j].id
         /\ \A i \in DOMAIN tasks : tasks[i].status \in Status
  BY DEF Valid, Distinct

\* The tasks a call asks to save are tasks.
LEMMA WantedType ==
  ASSUME NEW in \in Input, NEW current \in Plan \cup {NoPlan},
         in.action # "clear", Refusal(in, current) = "none"
  PROVE  Wanted(in, current) \in Tasks
<1>1. in \in [action : Action, tasks : Seq(Task)]
  BY Arguments DEF Tasks
<1>2. CASE in.action = "update_status"
  <2>1. current \in Plan
    BY <1>2 DEF Refusal
  <2> DEFINE old == current.tasks
  <2>2. old \in Seq(Task)
    BY <2>1 DEF Plan, Tasks
  <2>3. ASSUME NEW id \in DOMAIN Updates(in.tasks)
        PROVE  Updates(in.tasks)[id] \in Status \cup {BadStatus}
    <3>1. PICK i \in DOMAIN in.tasks : in.tasks[i].id = id
      BY <2>3 DEF Updates
    <3> DEFINE k == CHOOSE j \in DOMAIN in.tasks : in.tasks[j].id = id
    <3>2. k \in DOMAIN in.tasks
      BY <3>1
    <3>3. in.tasks[k] \in Task
      BY <1>1, <3>2
    <3>4. Updates(in.tasks)[id] = in.tasks[k].status
      BY <2>3 DEF Updates
    <3> QED BY <3>3, <3>4 DEF Task
  <2>4. ASSUME NEW i \in DOMAIN old
        PROVE  Updated(old, Updates(in.tasks))[i] \in Task
    <3>1. old[i] \in Task
      BY <2>2
    <3> QED BY <2>3, <3>1 DEF Updated, Task
  <2>5. Updated(old, Updates(in.tasks)) \in Seq(Task)
    <3>1. DOMAIN Updated(old, Updates(in.tasks)) = 1 .. Len(old) /\ Len(old) \in Nat
      BY <2>2 DEF Updated
    <3>2. Updated(old, Updates(in.tasks)) \in [1 .. Len(old) -> Task]
      BY <2>2, <2>4, <3>1 DEF Updated
    <3> QED BY <3>1, <3>2
  <2> QED BY <1>2, <2>5 DEF Wanted, Tasks
<1>3. CASE in.action = "append"
  <2>1. current \in Plan
    BY <1>3 DEF Refusal
  <2>2. current.tasks \in Seq(Task) /\ in.tasks \in Seq(Task)
    BY <1>1, <2>1 DEF Plan, Tasks
  <2> QED BY <1>3, <2>2 DEF Wanted, Tasks
<1>4. CASE in.action \notin {"update_status", "append"}
  BY <1>1, <1>4 DEF Wanted, Tasks
<1> QED BY <1>2, <1>3, <1>4

\* The end of a call, and a reply of the store, keep the types.
LEMMA AnswerType ==
  ASSUME TypeOK, NEW c \in Call, NEW status \in Answers, Answer(c, status)
  PROVE  (pc \in [Call -> {"idle", "reading", "loading", "writing", "replying",
                           "done"}] /\ local \in [Call -> Locals])'
<1>1. [local[c] EXCEPT !.answer = status] \in Locals
  BY DEF TypeOK, Locals
<1> QED BY <1>1 DEF TypeOK, Answer

LEMMA VerdictType ==
  ASSUME TypeOK, NEW c \in Call, NEW v \in Verdicts, Verdict(c, v)
  PROVE  TypeOK'
<1>1. [local[c] EXCEPT !.verdict = v] \in Locals
  BY DEF TypeOK, Locals
<1> QED BY <1>1 DEF TypeOK, Verdict, Goto, store, client

LEMMA WriteType ==
  ASSUME TypeOK, NEW c \in Call, NEW new \in Plan \cup {NoPlan},
         NEW v \in Verdicts, Write(c, new, v)
  PROVE  TypeOK'
<1>1. incarnation' \in Nat
  BY DEF TypeOK, Write
<1>2. [local[c] EXCEPT !.verdict = v, !.result = new, !.at = incarnation']
        \in Locals
  BY <1>1 DEF TypeOK, Locals
<1>3. local' = [local EXCEPT ![c] = [local[c] EXCEPT
        !.verdict = v, !.result = new, !.at = incarnation']]
  BY DEF Write, TypeOK
<1> QED BY <1>1, <1>2, <1>3 DEF TypeOK, Write, Goto, client

-----------------------------------------------------------------------------
\* Every step keeps the types.
LEMMA TypeStep == TypeOK /\ Stages /\ [Next]_vars => TypeOK'
<1> SUFFICES ASSUME TypeOK, Stages, [Next]_vars PROVE TypeOK'
  OBVIOUS
<1>0. \A c \in Call : local[c] \in Locals /\ local[c].input \in Input
  BY DEF TypeOK, Locals
<1>1. ASSUME NEW c \in Call, Start(c) PROVE TypeOK'
  <2>1. CASE Answer(c, "invalid_arguments")
    BY <1>1, <2>1, AnswerType DEF Start, TypeOK, store, client, Answers
  <2>2. CASE Goto(c, "reading") /\ UNCHANGED local
    BY <1>1, <2>2 DEF Start, Goto, TypeOK, store, client
  <2> QED BY <1>1, <2>1, <2>2 DEF Start
<1>2. ASSUME NEW c \in Call, LookUp(c) PROVE TypeOK'
  <2>1. CASE Answer(c, "error")
    BY <1>2, <2>1, AnswerType DEF LookUp, TypeOK, store, client, Answers
  <2>2. CASE Goto(c, "loading") /\ UNCHANGED local
    BY <1>2, <2>2 DEF LookUp, Goto, TypeOK, store, client
  <2> QED BY <1>2, <2>1, <2>2 DEF LookUp
<1>3. ASSUME NEW c \in Call, Load(c) PROVE TypeOK'
  <2> DEFINE in == local[c].input
  <2>1. in \in Input /\ in.action \in Action /\ in.tasks \in Tasks
    BY <1>0, Arguments
  <2>p. plan \in Plan \cup {NoPlan} /\ incarnation \in Nat
    BY DEF TypeOK
  <2>2. CASE Refusal(in, plan) = "none"
    <3>1. Wanted(in, plan) \in Tasks
      <4>1. CASE in.action = "clear"
        BY <2>1, <4>1 DEF Wanted
      <4>2. CASE in.action # "clear"
        BY <2>1, <2>2, <2>p, <4>2, WantedType
      <4> QED BY <4>1, <4>2
    <3>2. [local[c] EXCEPT !.seen = plan, !.at = incarnation,
                           !.tasks = Wanted(in, plan)] \in Locals
      BY <1>0, <2>p, <3>1 DEF Locals
    <3>3. local' = [local EXCEPT ![c] = [local[c] EXCEPT !.seen = plan,
                      !.at = incarnation, !.tasks = Wanted(in, plan)]]
      BY <1>3, <2>2 DEF Load, TypeOK
    <3> QED BY <1>3, <2>2, <3>2, <3>3 DEF Load, Goto, TypeOK, store, client
  <2>3. CASE Refusal(in, plan) # "none"
    <3>1. Refusal(in, plan) \in Answers
      BY <2>3 DEF Refusal, Answers
    <3>2. Answer(c, Refusal(in, plan)) /\ UNCHANGED <<store, client>>
      BY <1>3, <2>3 DEF Load
    <3> QED BY <3>1, <3>2, AnswerType DEF TypeOK, store, client
  <2> QED BY <2>2, <2>3
<1>4. ASSUME NEW c \in Call, ReadFails(c) PROVE TypeOK'
  BY <1>4, AnswerType DEF ReadFails, TypeOK, store, client, Answers
<1>5. ASSUME NEW c \in Call, Save(c) PROVE TypeOK'
  <2> DEFINE new == [revision |-> NextRevision(c), tasks |-> local[c].tasks]
  <2>1. new \in Plan
    BY <1>0 DEF NextRevision, Revision, Plan, Locals
  <2>2. PICK v \in {"ok", "failed"} : Write(c, new, v)
    BY <1>5 DEF Save
  <2> HIDE DEF new
  <2> QED BY <2>1, <2>2, WriteType DEF Verdicts
<1>6. ASSUME NEW c \in Call, SaveRefused(c) PROVE TypeOK'
  BY <1>6, VerdictType DEF SaveRefused, Verdicts
<1>7. ASSUME NEW c \in Call, Clear(c) PROVE TypeOK'
  BY <1>7, WriteType DEF Clear, Verdicts
<1>8. ASSUME NEW c \in Call, ClearRefused(c) PROVE TypeOK'
  BY <1>8, VerdictType DEF ClearRefused, Verdicts
<1>9. ASSUME NEW c \in Call, WriteFails(c) PROVE TypeOK'
  BY <1>9, VerdictType DEF WriteFails, Verdicts
<1>10. ASSUME NEW c \in Call, SaveReplied(c) PROVE TypeOK'
  <2>1. PICK status \in Answers : Answer(c, status)
    BY <1>10 DEF SaveReplied, Answers
  <2>2. local[c].verdict = "ok" => local[c].result \in Plan
    BY <1>0, <1>10 DEF SaveReplied, Stages, Locals
  <2>3. announced' \subseteq Plan
    BY <1>10, <2>2 DEF SaveReplied, Emit, Announces, TypeOK
  <2> QED BY <1>10, <2>1, <2>3, AnswerType DEF SaveReplied, Emit, TypeOK, store
<1>11. ASSUME NEW c \in Call, ClearReplied(c) PROVE TypeOK'
  <2>1. PICK status \in Answers : Answer(c, status)
    BY <1>11 DEF ClearReplied, Answers
  <2>2. [revision |-> local[c].seen.revision, tasks |-> <<>>] \in Plan
    BY <1>0, <1>11 DEF ClearReplied, Stages, Plan, Locals, Tasks
  <2>3. announced' \subseteq Plan
    BY <1>11, <2>2 DEF ClearReplied, Emit, TypeOK
  <2> QED BY <1>11, <2>1, <2>3, AnswerType DEF ClearReplied, Emit, TypeOK, store
<1>12. CASE SessionEnds
  BY <1>12 DEF SessionEnds, TypeOK, client
<1>13. CASE UNCHANGED vars
  BY <1>13 DEF vars, store, client, TypeOK
<1>14. ASSUME NEW r \in Run, FallSilent(r) PROVE TypeOK'
  BY <1>14 DEF FallSilent, TypeOK, store
<1> QED
  BY <1>1, <1>2, <1>3, <1>4, <1>5, <1>6, <1>7, <1>8, <1>9, <1>10, <1>11,
     <1>12, <1>13, <1>14 DEF Next

-----------------------------------------------------------------------------
\* What a step does to the stored plan: nothing, or one call's save or clear,
\* or the end of the session.
LEMMA PlanStep ==
  ASSUME TypeOK, [Next]_vars
  PROVE  \/ plan' = plan /\ incarnation' = incarnation
         \/ \E c \in Call : Save(c) \/ Clear(c)
         \/ SessionEnds
  BY DEF Next, Start, LookUp, Load, ReadFails, SaveRefused, ClearRefused,
         Verdict, WriteFails, SaveReplied, ClearReplied, FallSilent, vars, store

\* Only valid tasks are stored.
LEMMA ValidStep == TypeOK /\ PlanValid /\ [Next]_vars => PlanValid'
<1> SUFFICES ASSUME TypeOK, PlanValid, [Next]_vars PROVE PlanValid'
  OBVIOUS
<1>1. CASE plan' = plan
  BY <1>1 DEF PlanValid
<1>2. ASSUME NEW c \in Call, Save(c) PROVE PlanValid'
  <2>1. plan'.tasks = local[c].tasks /\ Valid(local[c].tasks)
    BY <1>2 DEF Save, Write
  <2> QED BY <2>1, ValidAccepts DEF PlanValid
<1>3. CASE plan' = NoPlan
  BY <1>3 DEF PlanValid
<1> QED
  BY <1>1, <1>2, <1>3, PlanStep DEF Clear, Write, SessionEnds

\* What the end of a call, a reply and a write leave alone, call by call.
LEMMA AnswerKeeps ==
  ASSUME TypeOK, NEW c \in Call, NEW status, Answer(c, status)
  PROVE  \A d \in Call :
           /\ pc'[d] = IF d = c THEN "done" ELSE pc[d]
           /\ local'[d].input = local[d].input
           /\ local'[d].seen = local[d].seen
           /\ local'[d].verdict = local[d].verdict
           /\ local'[d].result = local[d].result
           /\ local'[d].at = local[d].at
<1> TAKE d \in Call
<1>1. pc'[d] = IF d = c THEN "done" ELSE pc[d]
  BY DEF TypeOK, Answer
<1>2. local'[d] = IF d = c THEN [local[d] EXCEPT !.answer = status] ELSE local[d]
  BY DEF TypeOK, Answer
<1>3. local[d] \in Locals
  BY DEF TypeOK
<1> QED BY <1>1, <1>2, <1>3 DEF Locals

LEMMA VerdictKeeps ==
  ASSUME TypeOK, NEW c \in Call, NEW v, Verdict(c, v)
  PROVE  \A d \in Call :
           /\ pc'[d] = IF d = c THEN "replying" ELSE pc[d]
           /\ local'[d].input = local[d].input
           /\ local'[d].seen = local[d].seen
           /\ local'[d].verdict = IF d = c THEN v ELSE local[d].verdict
           /\ local'[d].result = local[d].result
           /\ local'[d].at = local[d].at
<1> TAKE d \in Call
<1>1. pc'[d] = IF d = c THEN "replying" ELSE pc[d]
  BY DEF TypeOK, Verdict, Goto
<1>2. local'[d] = IF d = c THEN [local[d] EXCEPT !.verdict = v] ELSE local[d]
  BY DEF TypeOK, Verdict
<1>3. local[d] \in Locals
  BY DEF TypeOK
<1> QED BY <1>1, <1>2, <1>3 DEF Locals

LEMMA WriteKeeps ==
  ASSUME TypeOK, NEW c \in Call, NEW new, NEW v, Write(c, new, v)
  PROVE  \A d \in Call :
           /\ pc'[d] = IF d = c THEN "replying" ELSE pc[d]
           /\ local'[d].input = local[d].input
           /\ local'[d].seen = local[d].seen
           /\ local'[d].verdict = IF d = c THEN v ELSE local[d].verdict
           /\ local'[d].result = IF d = c THEN new ELSE local[d].result
           /\ local'[d].at = IF d = c THEN incarnation' ELSE local[d].at
<1> TAKE d \in Call
<1>1. pc'[d] = IF d = c THEN "replying" ELSE pc[d]
  BY DEF TypeOK, Write, Goto
<1>2. local'[d] = IF d = c THEN [local[d] EXCEPT !.verdict = v, !.result = new,
                                                 !.at = incarnation']
                  ELSE local[d]
  BY DEF TypeOK, Write
<1>3. local[d] \in Locals
  BY DEF TypeOK
<1> QED BY <1>1, <1>2, <1>3 DEF Locals

\* Steps that neither read nor write the plan, call by call: a call moves on
\* or ends, or learns the store's verdict on a write that had no effect.
Moves ==
  /\ UNCHANGED <<plan, incarnation>>
  /\ \A d \in Call :
       /\ local'[d].input = local[d].input
       /\ local'[d].seen = local[d].seen
       /\ local'[d].result = local[d].result
       /\ local'[d].at = local[d].at
       /\ \/ /\ local'[d].verdict = local[d].verdict
             /\ \/ pc'[d] = pc[d]
                \/ pc[d] = "idle" /\ pc'[d] = "reading"
                \/ pc[d] = "reading" /\ pc'[d] = "loading"
                \/ pc'[d] = "done"
          \/ /\ pc[d] = "writing" /\ pc'[d] = "replying"
             /\ local'[d].verdict \in Verdicts \ {"ok"}

LEMMA StepKinds ==
  ASSUME TypeOK, [Next]_vars
  PROVE  \/ Moves \/ SessionEnds
         \/ \E c \in Call :
              \/ Save(c) \/ Clear(c)
              \/ Load(c) /\ Refusal(local[c].input, plan) = "none"
<1>1. ASSUME NEW c \in Call, NEW status, Answer(c, status),
             UNCHANGED <<plan, incarnation>>
      PROVE  Moves
  BY <1>1, AnswerKeeps DEF Moves
<1>2. ASSUME NEW c \in Call, NEW v \in Verdicts \ {"ok"}, pc[c] = "writing",
             Verdict(c, v)
      PROVE  Moves
  <2>1. UNCHANGED <<plan, incarnation>>
    BY <1>2 DEF Verdict, store
  <2>2. local'[c].verdict \in Verdicts \ {"ok"} /\ pc'[c] = "replying"
    BY <1>2, VerdictKeeps
  <2> QED BY <1>2, <2>1, <2>2, VerdictKeeps DEF Moves
<1>3. ASSUME NEW c \in Call, Start(c) PROVE Moves
  <2>1. CASE Goto(c, "reading") /\ UNCHANGED local
    BY <1>3, <2>1 DEF Start, Goto, TypeOK, Moves, store
  <2> QED BY <1>1, <1>3, <2>1 DEF Start, store
<1>4. ASSUME NEW c \in Call, LookUp(c) PROVE Moves
  <2>1. CASE Goto(c, "loading") /\ UNCHANGED local
    BY <1>4, <2>1 DEF LookUp, Goto, TypeOK, Moves, store
  <2> QED BY <1>1, <1>4, <2>1 DEF LookUp, store
<1>5. ASSUME NEW c \in Call, Load(c), Refusal(local[c].input, plan) # "none"
      PROVE  Moves
  BY <1>1, <1>5 DEF Load, store
<1>6. ASSUME NEW c \in Call, ReadFails(c) PROVE Moves
  BY <1>1, <1>6 DEF ReadFails, store
<1>7. ASSUME NEW c \in Call, SaveRefused(c) PROVE Moves
  BY <1>2, <1>7 DEF SaveRefused, Saving, Verdicts
<1>8. ASSUME NEW c \in Call, ClearRefused(c) PROVE Moves
  BY <1>2, <1>8 DEF ClearRefused, Clearing, Verdicts
<1>9. ASSUME NEW c \in Call, WriteFails(c) PROVE Moves
  BY <1>2, <1>9 DEF WriteFails, Verdicts
<1>10. ASSUME NEW c \in Call, SaveReplied(c) PROVE Moves
  <2>1. PICK status : Answer(c, status)
    BY <1>10 DEF SaveReplied
  <2> QED BY <1>1, <1>10, <2>1 DEF SaveReplied, store
<1>11. ASSUME NEW c \in Call, ClearReplied(c) PROVE Moves
  <2>1. PICK status : Answer(c, status)
    BY <1>11 DEF ClearReplied
  <2> QED BY <1>1, <1>11, <2>1 DEF ClearReplied, store
<1>12. CASE UNCHANGED vars
  BY <1>12 DEF vars, store, Moves
<1>13. ASSUME NEW r \in Run, FallSilent(r) PROVE Moves
  BY <1>13 DEF FallSilent, store, Moves
<1> QED
  BY <1>3, <1>4, <1>5, <1>6, <1>7, <1>8, <1>9, <1>10, <1>11, <1>12, <1>13 DEF Next

\* What a successful read leaves in the call.
LEMMA LoadSets ==
  ASSUME TypeOK, NEW c \in Call, Load(c),
         Refusal(local[c].input, plan) = "none"
  PROVE  /\ UNCHANGED <<plan, incarnation, announced>>
         /\ plan = NoPlan <=> local[c].input.action = "create"
         /\ \A d \in Call :
              /\ pc'[d] = IF d = c THEN "writing" ELSE pc[d]
              /\ local'[d].input = local[d].input
              /\ local'[d].seen = IF d = c THEN plan ELSE local[d].seen
              /\ local'[d].verdict = local[d].verdict
              /\ local'[d].result = local[d].result
              /\ local'[d].at = IF d = c THEN incarnation ELSE local[d].at
<1>1. UNCHANGED <<plan, incarnation, announced>>
  BY DEF Load, store, client
<1>2. plan = NoPlan <=> local[c].input.action = "create"
  BY DEF Refusal
<1>3. ASSUME NEW d \in Call
      PROVE  /\ pc'[d] = IF d = c THEN "writing" ELSE pc[d]
             /\ local'[d].input = local[d].input
             /\ local'[d].seen = IF d = c THEN plan ELSE local[d].seen
             /\ local'[d].verdict = local[d].verdict
             /\ local'[d].result = local[d].result
             /\ local'[d].at = IF d = c THEN incarnation ELSE local[d].at
  <2>1. pc'[d] = IF d = c THEN "writing" ELSE pc[d]
    BY DEF TypeOK, Load, Goto
  <2>2. local'[d] = IF d = c
          THEN [local[d] EXCEPT !.seen = plan, !.at = incarnation,
                                !.tasks = Wanted(local[c].input, plan)]
          ELSE local[d]
    BY DEF TypeOK, Load
  <2>3. local[d] \in Locals
    BY DEF TypeOK
  <2> QED BY <2>1, <2>2, <2>3 DEF Locals
<1> QED BY <1>1, <1>2, <1>3

\* A save leaves in the store, and in the call, a plan one revision on from
\* the one the call read.
NewPlan(c) == [revision |-> NextRevision(c), tasks |-> local[c].tasks]

LEMMA SaveSets ==
  ASSUME TypeOK, NEW c \in Call, Save(c)
  PROVE  /\ NewPlan(c) \in Plan /\ NewPlan(c) # NoPlan
         /\ NewPlan(c).revision = Revision(plan) + 1
         /\ \E v \in {"ok", "failed"} : Write(c, NewPlan(c), v)
<1>1. local[c] \in Locals
  BY DEF TypeOK
<1>2. NewPlan(c) \in Plan
  BY <1>1 DEF NewPlan, NextRevision, Revision, Plan, Locals
<1>3. NewPlan(c).revision = Revision(plan) + 1
  BY DEF Save, Unchanged, NewPlan, NextRevision
<1> QED BY <1>2, <1>3, NoPlanIsNone DEF Save, NewPlan

\* A call's variables are set in order.
LEMMA StagesStep == TypeOK /\ Stages /\ [Next]_vars => Stages'
<1> SUFFICES ASSUME TypeOK, Stages, [Next]_vars PROVE Stages'
  OBVIOUS
<1>1. CASE Moves
  BY <1>1 DEF Moves, Stages
<1>2. ASSUME NEW c \in Call, Load(c), Refusal(local[c].input, plan) = "none"
      PROVE  Stages'
  <2>1. pc[c] = "loading"
    BY <1>2 DEF Load
  <2> QED BY <1>2, <2>1, LoadSets DEF Stages
<1>3. ASSUME NEW c \in Call, Save(c) PROVE Stages'
  <2>1. PICK v \in {"ok", "failed"} : Write(c, NewPlan(c), v)
    BY <1>3, SaveSets
  <2>2. pc[c] = "writing" /\ NewPlan(c) # NoPlan
          /\ local[c].input.action # "clear"
    BY <1>3, SaveSets DEF Save, Saving
  <2> QED BY <2>1, <2>2, WriteKeeps DEF Stages
<1>4. ASSUME NEW c \in Call, Clear(c) PROVE Stages'
  <2>1. PICK v \in {"ok", "failed"} : Write(c, NoPlan, v)
    BY <1>4 DEF Clear
  <2>2. Clearing(c)
    BY <1>4 DEF Clear
  <2> QED BY <2>1, <2>2, WriteKeeps DEF Stages, Clearing
<1>5. CASE SessionEnds
  BY <1>5 DEF SessionEnds, Stages
<1> QED BY <1>1, <1>2, <1>3, <1>4, <1>5, StepKinds

-----------------------------------------------------------------------------
\* Nothing read or written in this incarnation overtakes the stored plan.
LEMMA BehindStep ==
  TypeOK /\ Stages /\ Behind /\ [Next]_vars => Behind'
<1> SUFFICES ASSUME TypeOK, Stages, Behind, [Next]_vars PROVE Behind'
  OBVIOUS
<1>0. /\ incarnation \in Nat
      /\ plan # NoPlan => plan.revision \in Nat
      /\ \A d \in Call :
           /\ local[d].at \in Nat
           /\ local[d].result # NoPlan => local[d].result.revision \in Nat
           /\ local[d].seen # NoPlan => local[d].seen.revision \in Nat
  BY DEF TypeOK, Locals, Plan
<1>1. CASE Moves
  BY <1>1 DEF Moves, Behind
<1>2. ASSUME NEW c \in Call, Load(c), Refusal(local[c].input, plan) = "none"
      PROVE  Behind'
  <2>1. local[c].result = NoPlan
    BY <1>2 DEF Load, Stages
  <2> QED BY <1>0, <1>2, <2>1, LoadSets DEF Behind
<1>3. ASSUME NEW c \in Call, Save(c) PROVE Behind'
  <2>1. PICK v \in {"ok", "failed"} : Write(c, NewPlan(c), v)
    BY <1>3, SaveSets
  <2>2. /\ plan' = NewPlan(c) /\ NewPlan(c).revision = Revision(plan) + 1
        /\ incarnation' = IF plan = NoPlan THEN incarnation + 1 ELSE incarnation
    BY <1>3, <2>1, SaveSets DEF Write
  <2>3. ASSUME NEW d \in Call, d # c, local'[d].at = incarnation'
        PROVE  /\ local'[d].result # NoPlan =>
                    local'[d].result.revision <= plan'.revision
               /\ (pc'[d] = "writing" /\ local'[d].seen # NoPlan) =>
                    /\ local'[d].seen.revision <= plan'.revision
                    /\ local'[d].seen.revision # plan'.revision
    <3>1. local[d].at = incarnation' /\ local[d].at <= incarnation
      BY <2>1, <2>3, WriteKeeps DEF Behind
    <3>2. plan # NoPlan /\ incarnation' = incarnation
      BY <1>0, <2>2, <3>1
    <3> QED BY <1>0, <2>1, <2>2, <2>3, <3>1, <3>2, WriteKeeps DEF Behind, Revision
  <2>4. /\ pc'[c] = "replying" /\ local'[c].at = incarnation'
        /\ local'[c].result = plan'
    BY <2>1, <2>2, WriteKeeps
  <2>5. \A d \in Call : local'[d].at <= incarnation'
    BY <1>0, <2>1, <2>2, WriteKeeps DEF Behind
  <2>6. plan'.revision <= plan'.revision
    BY <1>0, <2>2 DEF Revision
  <2> QED BY <2>3, <2>4, <2>5, <2>6 DEF Behind
<1>4. ASSUME NEW c \in Call, Clear(c) PROVE Behind'
  <2>1. PICK v \in {"ok", "failed"} : Write(c, NoPlan, v)
    BY <1>4 DEF Clear
  <2>2. plan' = NoPlan /\ incarnation' = incarnation
    BY <1>4, <2>1 DEF Clear, Write
  <2> QED BY <1>0, <2>1, <2>2, WriteKeeps DEF Behind
<1>5. CASE SessionEnds
  BY <1>5 DEF SessionEnds, Behind
<1> QED BY <1>1, <1>2, <1>3, <1>4, <1>5, StepKinds

\* A new save's revision is above those of its incarnation.
LEMMA DistinctStep ==
  TypeOK /\ Stages /\ Behind /\ DistinctRevisions /\ [Next]_vars
    => DistinctRevisions'
<1> SUFFICES ASSUME TypeOK, Stages, Behind, DistinctRevisions, [Next]_vars
             PROVE  DistinctRevisions'
  OBVIOUS
<1>0. /\ incarnation \in Nat
      /\ plan # NoPlan => plan.revision \in Nat
      /\ \A d \in Call :
           /\ local[d].at \in Nat
           /\ local[d].result # NoPlan => local[d].result.revision \in Nat
  BY DEF TypeOK, Locals, Plan
<1>1. CASE Moves
  BY <1>1 DEF Moves, DistinctRevisions, Saved
<1>2. ASSUME NEW c \in Call, Load(c), Refusal(local[c].input, plan) = "none"
      PROVE  DistinctRevisions'
  <2>1. local[c].result = NoPlan
    BY <1>2 DEF Load, Stages
  <2> QED BY <1>2, <2>1, LoadSets DEF DistinctRevisions, Saved
<1>3. ASSUME NEW c \in Call, Save(c) PROVE DistinctRevisions'
  <2>1. PICK v \in {"ok", "failed"} : Write(c, NewPlan(c), v)
    BY <1>3, SaveSets
  <2>2. /\ NewPlan(c).revision = Revision(plan) + 1
        /\ incarnation' = IF plan = NoPlan THEN incarnation + 1 ELSE incarnation
    BY <1>3, <2>1, SaveSets DEF Write
  <2>3. ASSUME NEW d \in Call, d # c, local'[d].at = incarnation',
               local'[d].result # NoPlan
        PROVE  local'[d].result.revision < NewPlan(c).revision
    <3>1. local[d].at = incarnation' /\ local[d].at <= incarnation
      BY <2>1, <2>3, WriteKeeps DEF Behind
    <3>2. plan # NoPlan /\ incarnation' = incarnation
      BY <1>0, <2>2, <3>1
    <3>3. local'[d].result = local[d].result
      BY <2>1, <2>3, WriteKeeps
    <3> QED BY <1>0, <2>2, <2>3, <3>1, <3>2, <3>3 DEF Behind, Revision
  <2>4. local'[c].result = NewPlan(c) /\ local'[c].at = incarnation'
    BY <2>1, WriteKeeps
  <2>5. \A d \in Call : (d # c /\ local'[d].at = incarnation'
                          /\ local'[d].result # NoPlan)
                           => local'[d].result.revision # NewPlan(c).revision
    <3> SUFFICES ASSUME NEW d \in Call, d # c, local'[d].at = incarnation',
                        local'[d].result # NoPlan
                 PROVE  local'[d].result.revision # NewPlan(c).revision
      OBVIOUS
    <3>1. local'[d].result = local[d].result
      BY <2>1, WriteKeeps
    <3> QED BY <1>0, <2>2, <2>3, <3>1 DEF Revision
  <2> QED BY <2>1, <2>4, <2>5, WriteKeeps DEF DistinctRevisions, Saved
<1>4. ASSUME NEW c \in Call, Clear(c) PROVE DistinctRevisions'
  <2>1. PICK v \in {"ok", "failed"} : Write(c, NoPlan, v)
    BY <1>4 DEF Clear
  <2> QED BY <2>1, WriteKeeps DEF DistinctRevisions, Saved
<1>5. CASE SessionEnds
  BY <1>5 DEF SessionEnds, DistinctRevisions, Saved
<1> QED BY <1>1, <1>2, <1>3, <1>4, <1>5, StepKinds

\* A call that the store has answered only ends by its own reply.
LEMMA OwnReply ==
  ASSUME TypeOK, [Next]_vars, NEW c \in Call, pc[c] = "replying"
  PROVE  pc'[c] = "replying" \/ SaveReplied(c) \/ ClearReplied(c)
<1>1. ASSUME NEW d \in Call, NEW place, pc' = [pc EXCEPT ![d] = place], d # c
      PROVE  pc'[c] = "replying"
  BY <1>1 DEF TypeOK
<1>2. ASSUME NEW d \in Call, d # c,
             \/ Start(d) \/ LookUp(d) \/ Load(d) \/ ReadFails(d)
             \/ Save(d) \/ SaveRefused(d) \/ Clear(d) \/ ClearRefused(d)
             \/ WriteFails(d) \/ SaveReplied(d) \/ ClearReplied(d)
      PROVE  \E place : pc' = [pc EXCEPT ![d] = place]
  BY <1>2 DEF Start, LookUp, Load, ReadFails, Save, SaveRefused, Clear,
              ClearRefused, Write, Verdict, WriteFails, SaveReplied,
              ClearReplied, Goto, Answer
<1>3. pc[c] \notin {"idle", "reading", "loading", "writing"}
  OBVIOUS
<1>4. SessionEnds \/ (\E r \in Run : FallSilent(r)) \/ UNCHANGED vars
        => pc'[c] = "replying"
  BY DEF SessionEnds, FallSilent, vars
<1> QED
  BY <1>1, <1>2, <1>3, <1>4
     DEF Next, Start, LookUp, Load, ReadFails, Save, Saving, SaveRefused, Clear,
         Clearing, ClearRefused, WriteFails

\* Announcements are never taken back, and a silent run stays silent.
LEMMA AnnouncedGrows ==
  [Next]_vars => announced \subseteq announced' /\ silent \subseteq silent'
  BY DEF Next, Start, LookUp, Load, ReadFails, Save, SaveRefused, Clear,
         ClearRefused, Write, Verdict, WriteFails, SaveReplied, ClearReplied,
         Emit, FallSilent, SessionEnds, vars, client

\* The stored plan has been announced, or its author still has it to say.
LEMMA AnnouncedStep ==
  TypeOK /\ Stages /\ PlanAnnounced /\ [Next]_vars => PlanAnnounced'
<1> SUFFICES ASSUME TypeOK, Stages, PlanAnnounced, [Next]_vars
             PROVE  PlanAnnounced'
  OBVIOUS
<1>1. CASE plan' = NoPlan
  BY <1>1 DEF PlanAnnounced
<1>2. ASSUME NEW c \in Call, Save(c) PROVE PlanAnnounced'
  <2>1. PICK v \in {"ok", "failed"} : Write(c, NewPlan(c), v)
    BY <1>2, SaveSets
  <2>2. plan' = NewPlan(c) /\ NewPlan(c) # NoPlan
    BY <1>2, <2>1, SaveSets DEF Write
  <2> QED BY <2>1, <2>2, WriteKeeps DEF PlanAnnounced, Saved
<1>3. ASSUME plan' = plan,
             NEW c \in Call, local[c].result = plan, plan # NoPlan,
             \/ pc[c] = "replying" \/ local[c].verdict = "failed"
             \/ RunOf[c] \in silent,
             local'[c].result = local[c].result,
             local'[c].verdict = local[c].verdict
      PROVE  PlanAnnounced'
  <2>1. CASE \/ local[c].verdict = "failed" \/ pc'[c] = "replying"
             \/ RunOf[c] \in silent
    BY <1>3, <2>1, AnnouncedGrows DEF PlanAnnounced, Saved
  <2>2. CASE local[c].verdict = "ok" /\ SaveReplied(c) /\ RunOf[c] \notin silent
    BY <1>3, <2>2 DEF SaveReplied, Emit, Announces, PlanAnnounced
  <2>3. local[c].verdict \in {"ok", "failed"} /\ ~ ClearReplied(c)
    BY <1>3 DEF Stages, ClearReplied
  <2> QED BY <1>3, <2>1, <2>2, <2>3, OwnReply
<1>4. ASSUME plan' = plan, plan # NoPlan,
             \A c \in Call : pc[c] \in {"replying", "done"} =>
               /\ local'[c].result = local[c].result
               /\ local'[c].verdict = local[c].verdict
      PROVE  PlanAnnounced'
  <2>1. \A c \in Saved : c \in Call /\ pc[c] \in {"replying", "done"}
    BY DEF Stages, Saved
  <2> QED BY <1>3, <1>4, <2>1, AnnouncedGrows DEF PlanAnnounced
<1>5. CASE Moves
  BY <1>1, <1>4, <1>5 DEF Moves
<1>6. ASSUME NEW c \in Call, Load(c), Refusal(local[c].input, plan) = "none"
      PROVE  PlanAnnounced'
  BY <1>1, <1>4, <1>6, LoadSets
<1> QED BY <1>1, <1>2, <1>5, <1>6, StepKinds DEF Clear, Write, SessionEnds

-----------------------------------------------------------------------------
\* The inductive invariant holds in every reachable state.
THEOREM Invariance == Spec => []IInv
<1>1. Init => IInv
  <2> SUFFICES ASSUME Init PROVE IInv
    OBVIOUS
  <2>1. plan \in {p \in Plan : Valid(p.tasks)} \cup {NoPlan}
    BY EarlierPlans DEF Init
  <2>2. ASSUME NEW c \in Call PROVE \E i \in Input : local[c] = NotStarted(i)
    BY DEF Init
  <2>3. ASSUME NEW i \in Input PROVE NotStarted(i) \in Locals
    <3>1. <<>> \in Tasks
      BY DEF Tasks
    <3> QED BY <3>1 DEF NotStarted, Locals, Verdicts, Answers
  <2>4. DOMAIN local = Call /\ local = [c \in DOMAIN local |-> local[c]]
    BY DEF Init
  <2>5. TypeOK
    BY <2>1, <2>2, <2>3, <2>4 DEF TypeOK, Init
  <2>6. PlanValid
    BY <2>1, ValidAccepts DEF PlanValid
  <2>7. Stages /\ Behind
    BY <2>2 DEF Stages, Behind, NotStarted, Init
  <2>8. DistinctRevisions /\ PlanAnnounced
    BY <2>2 DEF DistinctRevisions, PlanAnnounced, Saved, NotStarted, Init
  <2> QED BY <2>5, <2>6, <2>7, <2>8 DEF IInv
<1>2. IInv /\ [Next]_vars => IInv'
  BY TypeStep, ValidStep, StagesStep, BehindStep, DistinctStep, AnnouncedStep
     DEF IInv
<1> QED BY <1>1, <1>2, PTL DEF Spec

\* Every variable keeps its type.
THEOREM TypeCorrect == Spec => []TypeOK
<1>1. IInv => TypeOK
  BY DEF IInv
<1> QED BY <1>1, Invariance, PTL

\* The stored plan is valid, whatever calls built it.
THEOREM StoredPlansAreValid == Spec => []PlanValid
<1>1. IInv => PlanValid
  BY DEF IInv
<1> QED BY <1>1, Invariance, PTL

\* A revision names one plan between two creations.
THEOREM RevisionsNamePlans == Spec => []DistinctRevisions
<1>1. IInv => DistinctRevisions
  BY DEF IInv
<1> QED BY <1>1, Invariance, PTL

\* The client is told of the stored plan.
THEOREM StoredPlansAreAnnounced == Spec => []PlanAnnounced
<1>1. IInv => PlanAnnounced
  BY DEF IInv
<1> QED BY <1>1, Invariance, PTL

\* An accepted write replaces the plan it read, or one of a later
\* incarnation.
LEMMA NoLostUpdateStep ==
  ASSUME IInv, [Next]_vars, NEW c \in Call,
         pc[c] = "writing", pc'[c] = "replying", plan' # plan
  PROVE  \/ local[c].seen = plan
         \/ local[c].seen # NoPlan /\ local[c].at # incarnation
<1> USE DEF IInv
<1>0. local[c] \in Locals /\ (plan # NoPlan => plan \in Plan)
  BY DEF TypeOK
<1>1. Save(c) \/ Clear(c)
  <2>1. ~ Moves /\ ~ SessionEnds
    BY DEF Moves, SessionEnds
  <2>2. ASSUME NEW d \in Call, Save(d) \/ Clear(d) PROVE d = c
    <3>1. PICK new, v : Write(d, new, v)
      BY <2>2 DEF Save, Clear
    <3> QED BY <3>1, WriteKeeps
  <2>3. \A d \in Call : ~ (Load(d) /\ Refusal(local[d].input, plan) = "none")
    BY LoadSets
  <2> QED BY <2>1, <2>2, <2>3, StepKinds
<1>2. Unchanged(c)
  BY <1>1 DEF Save, Clear
<1>3. CASE plan = NoPlan
  BY <1>0, <1>2, <1>3 DEF Unchanged, Revision, Locals, Plan
<1>4. CASE plan # NoPlan
  <2>1. local[c].seen # NoPlan /\ local[c].seen.revision = plan.revision
    BY <1>0, <1>2, <1>4 DEF Unchanged, Revision, Locals, Plan
  <2> QED BY <1>4, <2>1 DEF Behind
<1> QED BY <1>3, <1>4

\* Optimistic concurrency loses no update within an incarnation.
THEOREM UpdatesAreNotLost == Spec => NoLostUpdate
<1>1. IInv /\ [Next]_vars =>
        [\A c \in Call :
           (pc[c] = "writing" /\ pc'[c] = "replying" /\ plan' # plan) =>
             \/ local[c].seen = plan
             \/ local[c].seen # NoPlan /\ local[c].at # incarnation]_vars
  BY NoLostUpdateStep
<1> QED BY <1>1, Invariance, PTL DEF NoLostUpdate, Spec
-----------------------------------------------------------------------------
(***************************************************************************)
(* Implementing PlanRegister.                                              *)
(*                                                                         *)
(* Load is where a call sees the plan; Save and Clear are where it takes   *)
(* effect; a call is refused where the tool or the store decides it, and   *)
(* its reply changes nothing but for a conflict that a clear reports as an *)
(* error.                                                                  *)
(***************************************************************************)

\* What is known of a call's variables on its way.
Progress ==
  \A c \in Call :
    LET l == local[c] IN
    /\ pc[c] # "done" => l.answer = "none"
    /\ pc[c] \in {"idle", "reading", "loading"} => l.seen = NoPlan
    /\ pc[c] \in {"idle", "reading", "loading", "writing"} => l.verdict = "none"
    /\ pc[c] = "replying" => l.verdict # "none"
    /\ l.input.action = "clear" => l.verdict # "invalid"
    /\ pc[c] \in {"reading", "loading", "writing"} =>
         (l.input.action = "clear" <=> l.input.tasks = <<>>)
    /\ pc[c] = "writing" =>
         /\ Refusal(l.input, l.seen) = "none"
         /\ l.tasks = Wanted(l.input, l.seen)
    /\ l.seen # NoPlan => Valid(l.seen.tasks)

\* A step of one call changes its variables alone.
LEMMA OneCall ==
  ASSUME TypeOK, NEW c \in Call, NEW l, local' = [local EXCEPT ![c] = l]
  PROVE  /\ local'[c] = l
         /\ \A d \in Call : d # c => local'[d] = local[d]
  BY DEF TypeOK

LEMMA OnePlace ==
  ASSUME TypeOK, NEW c \in Call, NEW place, pc' = [pc EXCEPT ![c] = place]
  PROVE  /\ pc'[c] = place
         /\ \A d \in Call : d # c => pc'[d] = pc[d]
  BY DEF TypeOK

\* What each way to change a call's variables makes of them.
LEMMA AnswerSets ==
  ASSUME TypeOK, NEW c \in Call, NEW status, Answer(c, status)
  PROVE  /\ local' = [local EXCEPT ![c] = [local[c] EXCEPT !.answer = status]]
         /\ [local[c] EXCEPT !.answer = status] =
              [input |-> local[c].input, seen |-> local[c].seen,
               tasks |-> local[c].tasks, verdict |-> local[c].verdict,
               result |-> local[c].result, at |-> local[c].at, answer |-> status]
<1>1. local[c] \in Locals
  BY DEF TypeOK
<1> QED BY <1>1 DEF TypeOK, Answer, Locals

LEMMA VerdictSets ==
  ASSUME TypeOK, NEW c \in Call, NEW v, Verdict(c, v)
  PROVE  /\ local' = [local EXCEPT ![c] = [local[c] EXCEPT !.verdict = v]]
         /\ [local[c] EXCEPT !.verdict = v] =
              [input |-> local[c].input, seen |-> local[c].seen,
               tasks |-> local[c].tasks, verdict |-> v,
               result |-> local[c].result, at |-> local[c].at,
               answer |-> local[c].answer]
<1>1. local[c] \in Locals
  BY DEF TypeOK
<1> QED BY <1>1 DEF TypeOK, Verdict, Locals

Written(c, new, v) ==
  [input |-> local[c].input, seen |-> local[c].seen, tasks |-> local[c].tasks,
   verdict |-> v, result |-> new, at |-> incarnation', answer |-> local[c].answer]

LEMMA WriteSets ==
  ASSUME TypeOK, NEW c \in Call, NEW new, NEW v, Write(c, new, v)
  PROVE  local' = [local EXCEPT ![c] = Written(c, new, v)]
<1>1. local[c] \in Locals
  BY DEF TypeOK
<1>2. ASSUME NEW l \in Locals, NEW n
      PROVE  [l EXCEPT !.verdict = v, !.result = new, !.at = n] =
               [input |-> l.input, seen |-> l.seen, tasks |-> l.tasks, verdict |-> v,
                result |-> new, at |-> n, answer |-> l.answer]
  <2> DEFINE one == [input |-> l.input, seen |-> l.seen, tasks |-> l.tasks, verdict |-> v,
                     result |-> l.result, at |-> l.at, answer |-> l.answer]
             two == [input |-> l.input, seen |-> l.seen, tasks |-> l.tasks, verdict |-> v,
                     result |-> new, at |-> l.at, answer |-> l.answer]
  <2>1. [l EXCEPT !.verdict = v] = one
    BY <1>2 DEF Locals
  <2>2. [one EXCEPT !.result = new] = two
    OBVIOUS
  <2>3. [two EXCEPT !.at = n] =
          [input |-> l.input, seen |-> l.seen, tasks |-> l.tasks, verdict |-> v,
           result |-> new, at |-> n, answer |-> l.answer]
    OBVIOUS
  <2> HIDE DEF one, two
  <2>4. [l EXCEPT !.verdict = v, !.result = new, !.at = n] =
          [[[l EXCEPT !.verdict = v] EXCEPT !.result = new] EXCEPT !.at = n]
    OBVIOUS
  <2>5. @ = [[one EXCEPT !.result = new] EXCEPT !.at = n]
    BY <2>1
  <2>6. @ = [two EXCEPT !.at = n]
    BY <2>2
  <2> QED BY <2>3, <2>4, <2>5, <2>6
<1>3. Written(c, new, v) =
        [local[c] EXCEPT !.verdict = v, !.result = new, !.at = incarnation']
  BY <1>1, <1>2 DEF Written
<1> QED BY <1>3 DEF TypeOK, Write

Loaded(c) ==
  [input |-> local[c].input, seen |-> plan,
   tasks |-> Wanted(local[c].input, plan), verdict |-> local[c].verdict,
   result |-> local[c].result, at |-> incarnation, answer |-> local[c].answer]

LEMMA LoadedSets ==
  ASSUME TypeOK, NEW c \in Call, Load(c), Refusal(local[c].input, plan) = "none"
  PROVE  local' = [local EXCEPT ![c] = Loaded(c)]
<1>1. local[c] \in Locals
  BY DEF TypeOK
<1>2. ASSUME NEW l \in Locals, NEW s, NEW n, NEW t
      PROVE  [l EXCEPT !.seen = s, !.at = n, !.tasks = t] =
               [input |-> l.input, seen |-> s, tasks |-> t, verdict |-> l.verdict,
                result |-> l.result, at |-> n, answer |-> l.answer]
  <2> DEFINE one == [input |-> l.input, seen |-> s, tasks |-> l.tasks, verdict |-> l.verdict,
                     result |-> l.result, at |-> l.at, answer |-> l.answer]
             two == [input |-> l.input, seen |-> s, tasks |-> l.tasks, verdict |-> l.verdict,
                     result |-> l.result, at |-> n, answer |-> l.answer]
  <2>1. [l EXCEPT !.seen = s] = one
    BY <1>2 DEF Locals
  <2>2. [one EXCEPT !.at = n] = two
    OBVIOUS
  <2>3. [two EXCEPT !.tasks = t] =
          [input |-> l.input, seen |-> s, tasks |-> t, verdict |-> l.verdict,
           result |-> l.result, at |-> n, answer |-> l.answer]
    OBVIOUS
  <2> HIDE DEF one, two
  <2>4. [l EXCEPT !.seen = s, !.at = n, !.tasks = t] =
          [[[l EXCEPT !.seen = s] EXCEPT !.at = n] EXCEPT !.tasks = t]
    OBVIOUS
  <2>5. @ = [[one EXCEPT !.at = n] EXCEPT !.tasks = t]
    BY <2>1
  <2>6. @ = [two EXCEPT !.tasks = t]
    BY <2>2
  <2> QED BY <2>3, <2>4, <2>5, <2>6
<1>3. Loaded(c) =
        [local[c] EXCEPT !.seen = plan, !.at = incarnation,
                         !.tasks = Wanted(local[c].input, plan)]
  BY <1>1, <1>2 DEF Loaded
<1> QED BY <1>3 DEF TypeOK, Load

\* Progress of one call.
Progresses(l, place) ==
  /\ place # "done" => l.answer = "none"
  /\ place \in {"idle", "reading", "loading"} => l.seen = NoPlan
  /\ place \in {"idle", "reading", "loading", "writing"} => l.verdict = "none"
  /\ place = "replying" => l.verdict # "none"
  /\ l.input.action = "clear" => l.verdict # "invalid"
  /\ place \in {"reading", "loading", "writing"} =>
       (l.input.action = "clear" <=> l.input.tasks = <<>>)
  /\ place = "writing" =>
       /\ Refusal(l.input, l.seen) = "none"
       /\ l.tasks = Wanted(l.input, l.seen)
  /\ l.seen # NoPlan => Valid(l.seen.tasks)

LEMMA ProgressIs == Progress <=> \A c \in Call : Progresses(local[c], pc[c])
  BY DEF Progress, Progresses

LEMMA ProgressOfOne ==
  ASSUME TypeOK, Progress, NEW c \in Call, NEW l, NEW place,
         local' = [local EXCEPT ![c] = l], pc' = [pc EXCEPT ![c] = place],
         Progresses(l, place)
  PROVE  Progress'
<1>1. \A d \in Call : Progresses(local[d], pc[d])
  BY ProgressIs
<1>2. local'[c] = l /\ \A d \in Call : d # c => local'[d] = local[d]
  BY OneCall
<1>3. pc'[c] = place /\ \A d \in Call : d # c => pc'[d] = pc[d]
  BY OnePlace
<1>4. \A d \in Call : Progresses(local'[d], pc'[d])
  <2> TAKE d \in Call
  <2>1. CASE d = c
    BY <1>2, <1>3, <2>1
  <2>2. CASE d # c
    BY <1>1, <1>2, <1>3, <2>2
  <2> QED BY <2>1, <2>2
<1> QED BY <1>4 DEF Progress, Progresses

\* Unique and Distinct say the same.
LEMMA DistinctIsUnique ==
  ASSUME NEW tasks
  PROVE  Distinct(tasks) <=> Register!Unique(tasks)
  BY DEF Distinct, Register!Unique

LEMMA ValidIsProper ==
  ASSUME NEW tasks
  PROVE  Valid(tasks) <=> Register!Proper(tasks)
  BY DistinctIsUnique DEF Valid, Register!Proper

LEMMA ProgressStep ==
  TypeOK /\ PlanValid /\ Stages /\ Progress /\ [Next]_vars => Progress'
<1> SUFFICES ASSUME TypeOK, PlanValid, Stages, Progress, [Next]_vars PROVE Progress'
  OBVIOUS
<1>0. \A c \in Call : Progresses(local[c], pc[c]) /\ local[c] \in Locals
  BY ProgressIs DEF TypeOK
<1>1. ASSUME NEW c \in Call, NEW status, Answer(c, status) PROVE Progress'
  <2> DEFINE l == [local[c] EXCEPT !.answer = status]
  <2>1. Progresses(l, "done")
    BY <1>0, <1>1, AnswerSets DEF Progresses
  <2>2. local' = [local EXCEPT ![c] = l] /\ pc' = [pc EXCEPT ![c] = "done"]
    BY <1>1, AnswerSets DEF Answer
  <2> HIDE DEF l
  <2> QED BY <2>1, <2>2, ProgressOfOne
<1>2. ASSUME NEW c \in Call, NEW v \in Verdicts \ {"none"}, pc[c] = "writing",
             v = "invalid" => local[c].input.action # "clear", Verdict(c, v)
      PROVE  Progress'
  <2> DEFINE l == [local[c] EXCEPT !.verdict = v]
  <2>1. Progresses(l, "replying")
    BY <1>0, <1>2, VerdictSets DEF Progresses
  <2>2. local' = [local EXCEPT ![c] = l]
    BY <1>2, VerdictSets
  <2>3. pc' = [pc EXCEPT ![c] = "replying"]
    BY <1>2 DEF Verdict, Goto
  <2> HIDE DEF l
  <2> QED BY <2>1, <2>2, <2>3, ProgressOfOne
<1>3. ASSUME NEW c \in Call, NEW new, NEW v \in {"ok", "failed"},
             pc[c] = "writing", Write(c, new, v)
      PROVE  Progress'
  <2> DEFINE l == Written(c, new, v)
  <2>1. Progresses(l, "replying")
    BY <1>0, <1>3 DEF Progresses, Written
  <2>2. local' = [local EXCEPT ![c] = l]
    BY <1>3, WriteSets
  <2>3. pc' = [pc EXCEPT ![c] = "replying"]
    BY <1>3 DEF Write, Goto
  <2> HIDE DEF l
  <2> QED BY <2>1, <2>2, <2>3, ProgressOfOne
<1>4. ASSUME NEW c \in Call, NEW place, Goto(c, place), UNCHANGED local,
             Progresses(local[c], place)
      PROVE  Progress'
  <2>1. local' = [local EXCEPT ![c] = local[c]]
    BY <1>4 DEF TypeOK
  <2> QED BY <1>4, <2>1, ProgressOfOne DEF Goto
<1>5. ASSUME NEW c \in Call, Start(c) PROVE Progress'
  <2>1. CASE Goto(c, "reading") /\ (local[c].input.action = "clear") = (local[c].input.tasks = <<>>)
             /\ UNCHANGED local
    <3>1. Progresses(local[c], "reading")
      BY <1>0, <1>5, <2>1 DEF Start, Progresses
    <3> QED BY <1>4, <2>1, <3>1
  <2> QED BY <1>1, <1>5, <2>1 DEF Start
<1>6. ASSUME NEW c \in Call, LookUp(c) PROVE Progress'
  <2>1. CASE Goto(c, "loading") /\ UNCHANGED local
    <3>1. Progresses(local[c], "loading")
      BY <1>0, <1>6 DEF LookUp, Progresses
    <3> QED BY <1>4, <2>1, <3>1
  <2> QED BY <1>1, <1>6, <2>1 DEF LookUp
<1>7. ASSUME NEW c \in Call, Load(c) PROVE Progress'
  <2>1. CASE Refusal(local[c].input, plan) = "none"
    <3>1. plan # NoPlan => Valid(plan.tasks)
      BY DEF PlanValid, Valid, Distinct
    <3>2. Progresses(Loaded(c), "writing")
      BY <1>0, <1>7, <2>1, <3>1 DEF Load, Progresses, Loaded
    <3>3. local' = [local EXCEPT ![c] = Loaded(c)]
      BY <1>7, <2>1, LoadedSets
    <3>4. pc' = [pc EXCEPT ![c] = "writing"]
      BY <1>7, <2>1 DEF Load, Goto
    <3> QED BY <3>2, <3>3, <3>4, ProgressOfOne
  <2> QED BY <1>1, <1>7, <2>1 DEF Load
<1>8. ASSUME NEW c \in Call, ReadFails(c) PROVE Progress'
  BY <1>1, <1>8 DEF ReadFails
<1>9. ASSUME NEW c \in Call, Save(c) PROVE Progress'
  BY <1>3, <1>9 DEF Save, Saving
<1>10. ASSUME NEW c \in Call, SaveRefused(c) PROVE Progress'
  BY <1>2, <1>10 DEF SaveRefused, Saving, Verdicts
<1>11. ASSUME NEW c \in Call, Clear(c) PROVE Progress'
  BY <1>3, <1>11 DEF Clear, Clearing
<1>12. ASSUME NEW c \in Call, ClearRefused(c) PROVE Progress'
  BY <1>2, <1>12 DEF ClearRefused, Clearing, Verdicts
<1>13. ASSUME NEW c \in Call, WriteFails(c) PROVE Progress'
  BY <1>2, <1>13 DEF WriteFails, Verdicts
<1>14. ASSUME NEW c \in Call, SaveReplied(c) \/ ClearReplied(c) PROVE Progress'
  BY <1>1, <1>14 DEF SaveReplied, ClearReplied
<1>15. CASE SessionEnds \/ (\E r \in Run : FallSilent(r)) \/ UNCHANGED vars
  BY <1>15 DEF SessionEnds, FallSilent, vars, Progress
<1> QED
  BY <1>5, <1>6, <1>7, <1>8, <1>9, <1>10, <1>11, <1>12, <1>13, <1>14, <1>15
     DEF Next

\* The calls' variables are where their places say they are.
LEMMA ProgressInvariance == Spec => []Progress
<1>1. Init => Progress
  <2> SUFFICES ASSUME Init PROVE Progress
    OBVIOUS
  <2> SUFFICES ASSUME NEW c \in Call PROVE Progresses(local[c], pc[c])
    BY ProgressIs
  <2>1. PICK i \in Input : local[c] = NotStarted(i)
    BY DEF Init
  <2>2. pc[c] = "idle"
    BY DEF Init
  <2> QED BY <2>1, <2>2 DEF Progresses, NotStarted
<1>2. IInv /\ Progress /\ [Next]_vars => Progress'
  BY ProgressStep DEF IInv
<1> QED BY <1>1, <1>2, Invariance, PTL DEF Spec

-----------------------------------------------------------------------------
\* The tasks of an update keep their order and identifiers, and have the
\* statuses the arguments give them.
LEMMA UpdatedSetsStatuses ==
  ASSUME NEW named \in Tasks, NEW old \in Tasks, Distinct(named),
         \A i \in DOMAIN named : named[i].id \in KnownIds(old)
  PROVE  Register!StatusesSet(named, old, Updated(old, Updates(named)))
<1> DEFINE new == Updated(old, Updates(named))
<1>1. named \in Seq(Task) /\ old \in Seq(Task)
  BY DEF Tasks
<1>2. Register!Ids(named) \subseteq Register!Ids(old)
  BY DEF Register!Ids, KnownIds
<1>3. DOMAIN new = 1 .. Len(old) /\ Len(new) = Len(old)
  <2>1. new = [i \in 1 .. Len(old) |-> new[i]]
    BY <1>1 DEF Updated
  <2> HIDE DEF new
  <2> QED BY <1>1, <2>1
<1>4. ASSUME NEW i \in DOMAIN old
      PROVE  /\ new[i].id = old[i].id
             /\ \A j \in DOMAIN named :
                  named[j].id = old[i].id => new[i].status = named[j].status
             /\ old[i].id \notin Register!Ids(named) =>
                  new[i].status = old[i].status
  <2>1. old[i] \in Task
    BY <1>1
  <2>2. DOMAIN Updates(named) = Register!Ids(named)
    BY DEF Updates, Register!Ids
  <2>3. new[i] = IF old[i].id \in DOMAIN Updates(named)
                   THEN [old[i] EXCEPT !.status = Updates(named)[old[i].id]]
                   ELSE old[i]
    BY DEF Updated
  <2>4. new[i].id = old[i].id
    BY <2>1, <2>3 DEF Task
  <2>5. old[i].id \notin Register!Ids(named) => new[i].status = old[i].status
    BY <2>2, <2>3
  <2>6. ASSUME NEW j \in DOMAIN named, named[j].id = old[i].id
        PROVE  new[i].status = named[j].status
    <3> DEFINE k == CHOOSE n \in DOMAIN named : named[n].id = old[i].id
    <3>1. k \in DOMAIN named /\ named[k].id = old[i].id
      BY <2>6
    <3>2. k = j
      BY <2>6, <3>1 DEF Distinct
    <3>3. old[i].id \in Register!Ids(named)
      BY <2>6 DEF Register!Ids
    <3>4. Updates(named)[old[i].id] = named[k].status
      BY <3>3 DEF Updates, Register!Ids
    <3>5. new[i].status = Updates(named)[old[i].id]
      BY <2>1, <2>2, <2>3, <3>3 DEF Task
    <3> QED BY <3>2, <3>4, <3>5
  <2> QED BY <2>4, <2>5, <2>6
<1> QED BY <1>2, <1>3, <1>4 DEF Register!StatusesSet

\* What a call that has not been refused asks the store to save is what its
\* action makes of the plan it read.
LEMMA WantedMakes ==
  ASSUME NEW in \in Input, NEW old \in Plan \cup {NoPlan},
         in.action # "clear", Refusal(in, old) = "none"
  PROVE  Register!Makes(in, old, Wanted(in, old))
<1>1. in.action \in Action /\ in.tasks \in Tasks
  BY Arguments
<1>2. CASE in.action = "update_status"
  <2>1. old \in Plan /\ old # NoPlan
    BY <1>2, NoPlanIsNone DEF Refusal
  <2>2. Distinct(in.tasks)
          /\ \A i \in DOMAIN in.tasks : in.tasks[i].id \in KnownIds(old.tasks)
    BY <1>2, <2>1 DEF Refusal
  <2>3. old.tasks \in Tasks
    BY <2>1 DEF Plan
  <2>4. Register!StatusesSet(in.tasks, old.tasks,
                             Updated(old.tasks, Updates(in.tasks)))
    BY <1>1, <2>2, <2>3, UpdatedSetsStatuses
  <2>5. Wanted(in, old) = Updated(old.tasks, Updates(in.tasks))
    BY <1>2 DEF Wanted
  <2> QED BY <1>2, <2>1, <2>4, <2>5 DEF Register!Makes
<1>3. CASE in.action # "update_status"
  BY <1>1, <1>3 DEF Action, Refusal, Wanted, Register!Makes
<1> QED BY <1>2, <1>3

\* Arguments of which the store finds nothing valid were at fault.
LEMMA InvalidIsFaulty ==
  ASSUME NEW in \in Input, NEW old \in Plan \cup {NoPlan},
         in.action # "clear", Refusal(in, old) = "none",
         old # NoPlan => Valid(old.tasks), ~ Register!Faulty(in, old)
  PROVE  Valid(Wanted(in, old))
<1>1. in.action \in Action /\ in.tasks \in Seq(Task)
  BY Arguments DEF Tasks
<1>2. /\ in.tasks # <<>> /\ Distinct(in.tasks)
      /\ \A i \in DOMAIN in.tasks : in.tasks[i].status \in Status
  BY DistinctIsUnique DEF Register!Faulty
<1>3. Len(in.tasks) \in Nat \ {0}
  BY <1>1, <1>2
<1>4. CASE in.action \in {"create", "modify"}
  <2>1. ~ (Len(in.tasks) > MaxTasks)
    BY <1>4, Zenon DEF Register!Faulty
  <2>2. Len(in.tasks) \in 1 .. MaxTasks
    BY <1>3, <2>1, LimitIsNatural
  <2> QED BY <1>2, <1>4, <2>2 DEF Wanted, Valid
<1>5. CASE in.action # "create"
  <2>1. old \in Plan /\ old # NoPlan /\ Valid(old.tasks)
    BY <1>5, NoPlanIsNone DEF Refusal
  <2> DEFINE was == old.tasks
  <2>2. was \in Seq(Task)
    BY <2>1 DEF Plan, Tasks
  <2>3. CASE in.action = "append"
    <3> DEFINE all == was \o in.tasks
    <3>1. /\ Len(was) + Len(in.tasks) <= MaxTasks
          /\ Register!Ids(in.tasks) \cap Register!Ids(was) = {}
      <4>1. /\ ~ (Len(was) + Len(in.tasks) > MaxTasks)
            /\ ~ (Register!Ids(in.tasks) \cap Register!Ids(was) # {})
        BY <2>1, <2>3, Zenon DEF Register!Faulty
      <4> HIDE DEF was
      <4> QED BY <1>3, <2>2, <4>1, LimitIsNatural
    <3>v. Valid(was)
      BY <2>1
    <3> HIDE DEF was
    <3>2. /\ Len(all) = Len(was) + Len(in.tasks)
          /\ DOMAIN all = 1 .. Len(all)
          /\ \A i \in 1 .. Len(was) : all[i] = was[i]
          /\ \A i \in Len(was) + 1 .. Len(all) : all[i] = in.tasks[i - Len(was)]
      BY <1>1, <2>2
    <3>3. Len(all) \in 1 .. MaxTasks
      BY <1>3, <2>2, <3>1, <3>2, LimitIsNatural
    <3> HIDE DEF all
    <3>4. ASSUME NEW i \in DOMAIN all
          PROVE  \/ i \in DOMAIN was /\ all[i] = was[i]
                 \/ i - Len(was) \in DOMAIN in.tasks
                      /\ all[i] = in.tasks[i - Len(was)]
      BY <1>1, <2>2, <3>2
    <3>5. ASSUME NEW i \in DOMAIN all PROVE all[i].status \in Status
      BY <1>2, <3>v, <3>4 DEF Valid
    <3>6. ASSUME NEW i \in DOMAIN all, NEW j \in DOMAIN all,
                 all[i].id = all[j].id
          PROVE  i = j
      <4>1. ASSUME NEW k \in DOMAIN was, NEW n \in DOMAIN in.tasks
            PROVE  was[k].id # in.tasks[n].id
        BY <3>1 DEF Register!Ids
      <4>2. CASE i \in DOMAIN was /\ all[i] = was[i]
                   /\ j \in DOMAIN was /\ all[j] = was[j]
        BY <3>v, <3>6, <4>2 DEF Valid, Distinct
      <4>3. CASE /\ i - Len(was) \in DOMAIN in.tasks
                 /\ all[i] = in.tasks[i - Len(was)]
                 /\ j - Len(was) \in DOMAIN in.tasks
                 /\ all[j] = in.tasks[j - Len(was)]
        <5>1. i - Len(was) = j - Len(was)
          BY <1>2, <3>6, <4>3 DEF Distinct
        <5>2. i \in Int /\ j \in Int /\ Len(was) \in Int
          BY <2>2, <3>2, <1>1
        <5> QED BY <5>1, <5>2
      <4> QED BY <3>4, <3>6, <4>1, <4>2, <4>3
    <3> QED BY <2>3, <3>3, <3>5, <3>6 DEF Valid, Distinct, Wanted, all, was
  <2>4. CASE in.action = "update_status"
    <3> DEFINE new == Updated(was, Updates(in.tasks))
    <3>1. Register!StatusesSet(in.tasks, was, new)
      <4>1. \A i \in DOMAIN in.tasks : in.tasks[i].id \in KnownIds(was)
        BY <2>1, <2>4 DEF Refusal
      <4> QED BY <1>1, <1>2, <2>2, <4>1, UpdatedSetsStatuses DEF Tasks
    <3>2. DOMAIN new = DOMAIN was
      BY DEF Updated
    <3> HIDE DEF new
    <3>3. Len(new) \in 1 .. MaxTasks
      BY <2>1, <3>1 DEF Register!StatusesSet, Valid
    <3>4. Distinct(new)
      BY <2>1, <3>1, <3>2 DEF Register!StatusesSet, Valid, Distinct
    <3>5. ASSUME NEW i \in DOMAIN new PROVE new[i].status \in Status
      <4>1. CASE was[i].id \in Register!Ids(in.tasks)
        <5>1. PICK j \in DOMAIN in.tasks : in.tasks[j].id = was[i].id
          BY <4>1 DEF Register!Ids
        <5> QED BY <1>2, <3>1, <3>2, <5>1 DEF Register!StatusesSet
      <4>2. CASE was[i].id \notin Register!Ids(in.tasks)
        BY <2>1, <3>1, <3>2, <4>2 DEF Register!StatusesSet, Valid
      <4> QED BY <4>1, <4>2
    <3> QED BY <2>4, <3>3, <3>4, <3>5 DEF Valid, Wanted, new
  <2> QED BY <1>1, <1>4, <2>3, <2>4 DEF Action
<1> QED BY <1>1, <1>4, <1>5 DEF Action

-----------------------------------------------------------------------------
\* The register's variables that are the calls'.
Inputs == [c \in Call |-> local[c].input]
Seens == [c \in Call |-> local[c].seen]
Sinces == [c \in Call |-> local[c].at]
Outcomes == [c \in Call |-> Outcome(local[c])]

\* What a step of one call does to them.
LEMMA Mapped ==
  ASSUME TypeOK, NEW c \in Call, NEW l, local' = [local EXCEPT ![c] = l],
         l.input = local[c].input
  PROVE  /\ Inputs' = Inputs
         /\ Seens' = [Seens EXCEPT ![c] = l.seen]
         /\ Sinces' = [Sinces EXCEPT ![c] = l.at]
         /\ Outcomes' = [Outcomes EXCEPT ![c] = Outcome(l)]
<1>1. local'[c] = l /\ \A d \in Call : d # c => local'[d] = local[d]
  BY OneCall
<1>2. Inputs' = Inputs
  BY <1>1 DEF Inputs
<1>3. Seens' = [Seens EXCEPT ![c] = l.seen]
  <2>1. \A d \in Call : d # c => local'[d].seen = local[d].seen
    BY <1>1
  <2>2. local'[c].seen = l.seen
    BY <1>1
  <2> QED BY <2>1, <2>2 DEF Seens
<1>4. Sinces' = [Sinces EXCEPT ![c] = l.at]
  <2>1. \A d \in Call : d # c => local'[d].at = local[d].at
    BY <1>1
  <2>2. local'[c].at = l.at
    BY <1>1
  <2> QED BY <2>1, <2>2 DEF Sinces
<1>5. Outcomes' = [Outcomes EXCEPT ![c] = Outcome(l)]
  <2>1. \A d \in Call : d # c => Outcome(local'[d]) = Outcome(local[d])
    BY <1>1
  <2>2. Outcome(local'[c]) = Outcome(l)
    BY <1>1
  <2> QED BY <2>1, <2>2 DEF Outcomes
<1> QED BY <1>2, <1>3, <1>4, <1>5

\* A step that leaves alone what the call has read comes to an outcome.
LEMMA Comes ==
  ASSUME TypeOK, NEW c \in Call, NEW l, local' = [local EXCEPT ![c] = l],
         l.input = local[c].input, l.seen = local[c].seen, l.at = local[c].at
  PROVE  /\ UNCHANGED <<Inputs, Seens, Sinces>>
         /\ Outcomes' = [Outcomes EXCEPT ![c] = Outcome(l)]
<1>1. Seens[c] = l.seen /\ Sinces[c] = l.at
  BY DEF Seens, Sinces
<1>2. [Seens EXCEPT ![c] = l.seen] = Seens
  BY <1>1 DEF Seens
<1>3. [Sinces EXCEPT ![c] = l.at] = Sinces
  BY <1>1 DEF Sinces
<1> QED BY <1>2, <1>3, Mapped

\* The steps of the register, over these variables.
LEMMA Stutters ==
  ASSUME UNCHANGED store, UNCHANGED <<Inputs, Seens, Sinces, Outcomes>>
  PROVE  UNCHANGED Register!vars
  BY DEF Register!vars, store, Inputs, Seens, Sinces, Outcomes

LEMMA Fails ==
  ASSUME NEW c \in Call, UNCHANGED store, UNCHANGED <<Inputs, Seens, Sinces>>,
         Outcome(local[c]) \in {"none", "plan_conflict"},
         Outcomes' = [Outcomes EXCEPT ![c] = "error"]
  PROVE  Register!Fail(c)
<1>1. Outcomes[c] = Outcome(local[c])
  BY DEF Outcomes
<1> QED BY <1>1 DEF Register!Fail, Register!Answer, store, Inputs, Seens, Sinces, Outcomes

\* Why the register refuses a call.
Reason(c, a) ==
  LET in == local[c].input IN
  \/ in.action = "create" /\ plan # NoPlan /\ a = "active_plan_exists"
  \/ in.action # "create" /\ plan = NoPlan /\ a = "no_active_plan"
  \/ /\ in.action = "update_status" /\ plan # NoPlan
     /\ ~ (Register!Ids(in.tasks) \subseteq Register!Ids(plan.tasks))
     /\ a = "unknown_task_id"
  \/ local[c].seen # plan /\ a = "plan_conflict"
  \/ Register!Faulty(in, local[c].seen) /\ a = "invalid_arguments"

LEMMA Refuses ==
  ASSUME NEW c \in Call, NEW a, UNCHANGED store,
         UNCHANGED <<Inputs, Seens, Sinces>>, Outcome(local[c]) = "none",
         Outcomes' = [Outcomes EXCEPT ![c] = a], Reason(c, a)
  PROVE  Register!Refuse(c)
<1>1. Outcomes[c] = "none" /\ Inputs[c] = local[c].input /\ Seens[c] = local[c].seen
  BY DEF Outcomes, Inputs, Seens
<1>2. UNCHANGED <<live, plan, incarnation>>
  BY DEF store
<1> QED
  BY <1>1, <1>2
     DEF Register!Refuse, Register!Answer, Reason, Inputs, Seens, Sinces, Outcomes

LEMMA Sees ==
  ASSUME NEW c \in Call, UNCHANGED store, UNCHANGED <<Inputs, Outcomes>>,
         Outcome(local[c]) = "none",
         Seens' = [Seens EXCEPT ![c] = plan],
         Sinces' = [Sinces EXCEPT ![c] = incarnation]
  PROVE  Register!See(c)
<1>1. Outcomes[c] = "none"
  BY DEF Outcomes
<1>2. UNCHANGED <<live, plan, incarnation>>
  BY DEF store
<1> QED BY <1>1, <1>2 DEF Register!See, Inputs, Seens, Sinces, Outcomes

\* A write takes effect if it makes of the plan, or of an outdated one, what
\* its action says.
LEMMA TakesEffect ==
  ASSUME NEW c \in Call, live, UNCHANGED <<live, Inputs, Seens>>,
         Outcome(local[c]) = "none",
         incarnation' = IF plan = NoPlan THEN incarnation + 1 ELSE incarnation,
         Sinces' = [Sinces EXCEPT ![c] = incarnation'],
         \/ Outcomes' = [Outcomes EXCEPT ![c] =
              IF local[c].input.action = "clear" THEN "cleared" ELSE "updated"]
         \/ Outcomes' = [Outcomes EXCEPT ![c] = "error"],
         Register!Becomes(local[c].input, local[c].seen, plan'),
         \/ local[c].seen = plan
         \/ /\ local[c].at # incarnation /\ plan # NoPlan /\ local[c].seen # NoPlan
            /\ local[c].seen.revision = plan.revision
  PROVE  Register!TakeEffect(c)
<1>1. /\ Outcomes[c] = "none" /\ Inputs[c] = local[c].input
      /\ Seens[c] = local[c].seen /\ Sinces[c] = local[c].at
  BY DEF Outcomes, Inputs, Seens, Sinces
<1>2. \/ Register!Becomes(Inputs[c], plan, plan')
      \/ Register!Outdated(c) /\ Register!Becomes(Inputs[c], Seens[c], plan')
  BY <1>1 DEF Register!Outdated, Seens, Sinces
<1>3. \/ Register!Answer(c, IF Inputs[c].action = "clear" THEN "cleared" ELSE "updated")
      \/ Register!Answer(c, "error")
  BY <1>1 DEF Register!Answer, Outcomes
<1> HIDE DEF Register!Becomes, Register!Outdated, Register!Answer
<1> QED
  BY <1>1, <1>2, <1>3
     DEF Register!TakeEffect, Inputs, Seens, Sinces, Outcomes

\* What a call comes to by an answer of the tool, a verdict or a write.
LEMMA AnswerComes ==
  ASSUME TypeOK, NEW c \in Call, NEW status, status # "none", Answer(c, status)
  PROVE  /\ UNCHANGED <<Inputs, Seens, Sinces>>
         /\ Outcomes' = [Outcomes EXCEPT ![c] = status]
<1> DEFINE l == [local[c] EXCEPT !.answer = status]
<1>1. local' = [local EXCEPT ![c] = l]
  BY AnswerSets
<1>2. /\ l.input = local[c].input /\ l.seen = local[c].seen /\ l.at = local[c].at
      /\ l.answer = status
  BY AnswerSets
<1>3. Outcome(l) = status
  BY <1>2 DEF Outcome
<1> HIDE DEF l
<1> QED BY <1>1, <1>2, <1>3, Comes

LEMMA VerdictComes ==
  ASSUME TypeOK, NEW c \in Call, NEW v, NEW a, Verdict(c, v),
         local[c].answer = "none",
         \/ v = "invalid" /\ a = "invalid_arguments"
         \/ v = "conflict" /\ a = "plan_conflict"
         \/ v \in {"not_found", "failed"} /\ a = "error"
  PROVE  /\ UNCHANGED store
         /\ UNCHANGED <<Inputs, Seens, Sinces>>
         /\ Outcomes' = [Outcomes EXCEPT ![c] = a]
<1> DEFINE l == [local[c] EXCEPT !.verdict = v]
<1>1. local' = [local EXCEPT ![c] = l]
  BY VerdictSets
<1>2. /\ l.input = local[c].input /\ l.seen = local[c].seen /\ l.at = local[c].at
      /\ l.answer = "none" /\ l.verdict = v
  BY VerdictSets
<1>3. Outcome(l) = a
  BY <1>2 DEF Outcome
<1>4. UNCHANGED store
  BY DEF Verdict
<1> HIDE DEF l
<1> QED BY <1>1, <1>2, <1>3, <1>4, Comes

LEMMA WriteComes ==
  ASSUME TypeOK, NEW c \in Call, NEW new, NEW v \in {"ok", "failed"},
         Write(c, new, v), local[c].answer = "none"
  PROVE  /\ UNCHANGED <<live, Inputs, Seens>>
         /\ Sinces' = [Sinces EXCEPT ![c] = incarnation']
         /\ \/ Outcomes' = [Outcomes EXCEPT ![c] =
                IF local[c].input.action = "clear" THEN "cleared" ELSE "updated"]
            \/ Outcomes' = [Outcomes EXCEPT ![c] = "error"]
<1> DEFINE l == Written(c, new, v)
<1>1. local' = [local EXCEPT ![c] = l]
  BY WriteSets
<1>2. /\ l.input = local[c].input /\ l.seen = local[c].seen
      /\ l.at = incarnation' /\ l.verdict = v /\ l.answer = "none"
  BY DEF Written
<1>3. Outcome(l) \in
        {IF local[c].input.action = "clear" THEN "cleared" ELSE "updated", "error"}
  BY <1>2 DEF Outcome
<1>4. UNCHANGED live
  BY DEF Write
<1> HIDE DEF l
<1>5. /\ UNCHANGED Inputs
      /\ Seens' = [Seens EXCEPT ![c] = local[c].seen]
      /\ Sinces' = [Sinces EXCEPT ![c] = incarnation']
      /\ Outcomes' = [Outcomes EXCEPT ![c] = Outcome(l)]
  <2>1. /\ Inputs' = Inputs
        /\ Seens' = [Seens EXCEPT ![c] = l.seen]
        /\ Sinces' = [Sinces EXCEPT ![c] = l.at]
        /\ Outcomes' = [Outcomes EXCEPT ![c] = Outcome(l)]
    BY <1>1, <1>2, Mapped
  <2> QED BY <1>2, <2>1
<1>6. [Seens EXCEPT ![c] = local[c].seen] = Seens
  BY DEF Seens
<1> QED BY <1>3, <1>4, <1>5, <1>6

\* An accepted write has read the stored plan, or one that passes for it.
LEMMA AcceptedIsCurrent ==
  ASSUME IInv, NEW c \in Call, pc[c] = "writing", Unchanged(c)
  PROVE  \/ local[c].seen = plan
         \/ /\ local[c].at # incarnation /\ plan # NoPlan /\ local[c].seen # NoPlan
            /\ local[c].seen.revision = plan.revision
<1>1. local[c] \in Locals /\ plan \in Plan \cup {NoPlan}
  BY DEF IInv, TypeOK
<1>2. CASE plan = NoPlan
  BY <1>1, <1>2 DEF Unchanged, Revision, Locals, Plan
<1>3. CASE plan # NoPlan
  <2>1. local[c].seen # NoPlan /\ local[c].seen.revision = plan.revision
    BY <1>1, <1>3 DEF Unchanged, Revision, Locals, Plan
  <2> QED BY <1>3, <2>1 DEF IInv, Behind
<1> QED BY <1>2, <1>3

\* A save takes effect.
LEMMA SaveTakesEffect ==
  ASSUME IInv, Progress, NEW c \in Call, Save(c)
  PROVE  Register!TakeEffect(c)
<1>0. TypeOK /\ local[c] \in Locals
  BY DEF IInv, TypeOK
<1>1. PICK v \in {"ok", "failed"} : Write(c, NewPlan(c), v)
  BY <1>0, SaveSets
<1>2. pc[c] = "writing" /\ local[c].input.action # "clear"
        /\ Valid(local[c].tasks) /\ live /\ Unchanged(c)
  BY DEF Save, Saving
<1>3. /\ local[c].answer = "none" /\ local[c].verdict = "none"
      /\ Refusal(local[c].input, local[c].seen) = "none"
      /\ local[c].tasks = Wanted(local[c].input, local[c].seen)
  BY <1>2 DEF Progress
<1>4. Register!Makes(local[c].input, local[c].seen, local[c].tasks)
  BY <1>0, <1>2, <1>3, WantedMakes DEF Locals
<1>5. Register!Becomes(local[c].input, local[c].seen, NewPlan(c))
  <2>1. NewPlan(c) # NoPlan
    BY <1>0, SaveSets
  <2>2. NewPlan(c).revision = IF local[c].seen = NoPlan THEN 1
                              ELSE local[c].seen.revision + 1
    BY <1>0 DEF NewPlan, NextRevision, Revision, Locals, Plan
  <2>3. NewPlan(c).tasks = local[c].tasks
    BY DEF NewPlan
  <2>4. Register!Proper(local[c].tasks)
    BY <1>2, ValidIsProper
  <2> HIDE DEF Register!Makes, Register!Proper
  <2> QED BY <1>2, <1>4, <2>1, <2>2, <2>3, <2>4 DEF Register!Becomes
<1>6. plan' = NewPlan(c)
        /\ incarnation' = IF plan = NoPlan THEN incarnation + 1 ELSE incarnation
  BY <1>1 DEF Write
<1>7. Outcome(local[c]) = "none"
  BY <1>3 DEF Outcome
<1>8. /\ UNCHANGED <<live, Inputs, Seens>>
      /\ Sinces' = [Sinces EXCEPT ![c] = incarnation']
      /\ \/ Outcomes' = [Outcomes EXCEPT ![c] =
             IF local[c].input.action = "clear" THEN "cleared" ELSE "updated"]
         \/ Outcomes' = [Outcomes EXCEPT ![c] = "error"]
  BY <1>0, <1>1, <1>3, WriteComes
<1>9. \/ local[c].seen = plan
      \/ /\ local[c].at # incarnation /\ plan # NoPlan /\ local[c].seen # NoPlan
         /\ local[c].seen.revision = plan.revision
  BY <1>2, AcceptedIsCurrent
<1>a. Register!Becomes(local[c].input, local[c].seen, plan')
  BY <1>5, <1>6
<1> HIDE DEF Register!Becomes
<1> QED BY <1>2, <1>6, <1>7, <1>8, <1>9, <1>a, TakesEffect

\* So does a clear.
LEMMA ClearTakesEffect ==
  ASSUME IInv, Progress, NEW c \in Call, Clear(c)
  PROVE  Register!TakeEffect(c)
<1>0. TypeOK /\ local[c] \in Locals
  BY DEF IInv, TypeOK
<1>1. PICK v \in {"ok", "failed"} : Write(c, NoPlan, v)
  BY DEF Clear
<1>2. pc[c] = "writing" /\ local[c].input.action = "clear" /\ live /\ Unchanged(c)
  BY DEF Clear, Clearing
<1>3. /\ local[c].answer = "none" /\ local[c].verdict = "none"
      /\ local[c].seen # NoPlan
  BY <1>2 DEF Progress, IInv, Stages
<1>4. Register!Becomes(local[c].input, local[c].seen, NoPlan)
  BY <1>2, <1>3 DEF Register!Becomes
<1>5. plan' = NoPlan
        /\ incarnation' = IF plan = NoPlan THEN incarnation + 1 ELSE incarnation
  BY <1>1 DEF Write
<1>6. Outcome(local[c]) = "none"
  BY <1>3 DEF Outcome
<1>7. /\ UNCHANGED <<live, Inputs, Seens>>
      /\ Sinces' = [Sinces EXCEPT ![c] = incarnation']
      /\ \/ Outcomes' = [Outcomes EXCEPT ![c] =
             IF local[c].input.action = "clear" THEN "cleared" ELSE "updated"]
         \/ Outcomes' = [Outcomes EXCEPT ![c] = "error"]
  BY <1>0, <1>1, <1>3, WriteComes
<1>8. \/ local[c].seen = plan
      \/ /\ local[c].at # incarnation /\ plan # NoPlan /\ local[c].seen # NoPlan
         /\ local[c].seen.revision = plan.revision
  BY <1>2, AcceptedIsCurrent
<1>a. Register!Becomes(local[c].input, local[c].seen, plan')
  BY <1>4, <1>5
<1> HIDE DEF Register!Becomes
<1> QED BY <1>2, <1>5, <1>6, <1>7, <1>8, <1>a, TakesEffect

-----------------------------------------------------------------------------
\* A read, a refusal and a failure are steps of the register.
LEMMA LoadIsStep ==
  ASSUME IInv, Progress, NEW c \in Call, Load(c)
  PROVE  Register!See(c) \/ Register!Refuse(c)
<1> DEFINE in == local[c].input
<1>0. TypeOK /\ in \in Input /\ in.action \in Action
  BY Arguments DEF IInv, TypeOK, Locals
<1>1. /\ UNCHANGED store /\ local[c].answer = "none"
      /\ local[c].verdict = "none" /\ local[c].seen = NoPlan
  BY DEF Load, Progress
<1>2. Outcome(local[c]) = "none"
  BY <1>1 DEF Outcome
<1>3. CASE Refusal(in, plan) = "none"
  <2> DEFINE l == Loaded(c)
  <2>1. local' = [local EXCEPT ![c] = l]
    BY <1>0, <1>3, LoadedSets
  <2>2. /\ l.input = local[c].input /\ l.seen = plan /\ l.at = incarnation
        /\ l.answer = "none" /\ l.verdict = "none"
    BY <1>1 DEF Loaded
  <2>3. Outcome(l) = "none"
    BY <2>2 DEF Outcome
  <2> HIDE DEF l
  <2>4. /\ Inputs' = Inputs
        /\ Seens' = [Seens EXCEPT ![c] = l.seen]
        /\ Sinces' = [Sinces EXCEPT ![c] = l.at]
        /\ Outcomes' = [Outcomes EXCEPT ![c] = Outcome(l)]
    BY <1>0, <2>1, <2>2, Mapped
  <2>5. /\ Seens' = [Seens EXCEPT ![c] = plan]
        /\ Sinces' = [Sinces EXCEPT ![c] = incarnation]
        /\ Outcomes' = [Outcomes EXCEPT ![c] = "none"]
    BY <2>2, <2>3, <2>4
  <2>6. [Outcomes EXCEPT ![c] = "none"] = Outcomes
    BY <1>2 DEF Outcomes
  <2> QED BY <1>1, <1>2, <2>4, <2>5, <2>6, Sees
<1>4. CASE Refusal(in, plan) # "none"
  <2> DEFINE a == Refusal(in, plan)
  <2>1. Answer(c, a)
    BY <1>4 DEF Load
  <2>2. \/ in.action = "create" /\ plan # NoPlan /\ a = "active_plan_exists"
        \/ in.action # "create" /\ plan = NoPlan /\ a = "no_active_plan"
        \/ /\ in.action = "update_status" /\ plan # NoPlan
           /\ ~ Distinct(in.tasks) /\ a = "invalid_arguments"
        \/ /\ in.action = "update_status" /\ plan # NoPlan
           /\ \E i \in DOMAIN in.tasks : in.tasks[i].id \notin KnownIds(plan.tasks)
           /\ a = "unknown_task_id"
    BY <1>4 DEF Refusal
  <2>3. (\E i \in DOMAIN in.tasks : in.tasks[i].id \notin KnownIds(plan.tasks))
          => ~ (Register!Ids(in.tasks) \subseteq Register!Ids(plan.tasks))
    BY DEF Register!Ids, KnownIds
  <2>4. ~ Distinct(in.tasks) => Register!Faulty(in, local[c].seen)
    BY DistinctIsUnique DEF Register!Faulty
  <2>5. Reason(c, a)
    <3> HIDE DEF a
    <3> QED BY <2>2, <2>3, <2>4 DEF Reason
  <2> HIDE DEF a
  <2>6. a # "none"
    BY <1>4 DEF a
  <2>7. /\ UNCHANGED <<Inputs, Seens, Sinces>>
        /\ Outcomes' = [Outcomes EXCEPT ![c] = a]
    BY <1>0, <2>1, <2>6, AnswerComes
  <2> QED BY <1>1, <1>2, <2>5, <2>7, Refuses
<1> QED BY <1>3, <1>4

\* An error ends a call that has come to nothing.
LEMMA ErrorIsFailure ==
  ASSUME IInv, NEW c \in Call, Answer(c, "error"), UNCHANGED store,
         Outcome(local[c]) \in {"none", "plan_conflict"}
  PROVE  Register!Fail(c)
<1>1. TypeOK
  BY DEF IInv
<1>2. /\ UNCHANGED <<Inputs, Seens, Sinces>>
      /\ Outcomes' = [Outcomes EXCEPT ![c] = "error"]
  BY <1>1, AnswerComes
<1> QED BY <1>2, Fails

\* A save the store refuses is refused, or fails when the session is gone.
LEMMA SaveRefusedIsStep ==
  ASSUME IInv, Progress, NEW c \in Call, SaveRefused(c)
  PROVE  Register!Refuse(c) \/ Register!Fail(c)
<1> DEFINE in == local[c].input
<1>0. TypeOK /\ local[c] \in Locals
  BY DEF IInv, TypeOK
<1>1. pc[c] = "writing" /\ in.action # "clear"
  BY DEF SaveRefused, Saving
<1>2. /\ local[c].answer = "none" /\ local[c].verdict = "none"
      /\ Refusal(in, local[c].seen) = "none"
      /\ local[c].tasks = Wanted(in, local[c].seen)
      /\ local[c].seen # NoPlan => Valid(local[c].seen.tasks)
  BY <1>1 DEF Progress
<1>3. Outcome(local[c]) = "none"
  BY <1>2 DEF Outcome
<1>4. CASE ~ Valid(local[c].tasks) /\ Verdict(c, "invalid")
  <2>1. Register!Faulty(in, local[c].seen)
    BY <1>0, <1>1, <1>2, <1>4, InvalidIsFaulty DEF Locals
  <2>2. Reason(c, "invalid_arguments")
    BY <2>1 DEF Reason
  <2>3. /\ UNCHANGED store
        /\ UNCHANGED <<Inputs, Seens, Sinces>>
        /\ Outcomes' = [Outcomes EXCEPT ![c] = "invalid_arguments"]
    BY <1>0, <1>2, <1>4, VerdictComes
  <2> QED BY <1>3, <2>2, <2>3, Refuses
<1>5. CASE Verdict(c, "not_found")
  <2>1. /\ UNCHANGED store
        /\ UNCHANGED <<Inputs, Seens, Sinces>>
        /\ Outcomes' = [Outcomes EXCEPT ![c] = "error"]
    BY <1>0, <1>2, <1>5, VerdictComes
  <2> QED BY <1>3, <2>1, Fails
<1>6. CASE ~ Unchanged(c) /\ Verdict(c, "conflict")
  <2>1. local[c].seen # plan
    BY <1>6 DEF Unchanged
  <2>2. Reason(c, "plan_conflict")
    BY <2>1 DEF Reason
  <2>3. /\ UNCHANGED store
        /\ UNCHANGED <<Inputs, Seens, Sinces>>
        /\ Outcomes' = [Outcomes EXCEPT ![c] = "plan_conflict"]
    BY <1>0, <1>2, <1>6, VerdictComes
  <2> QED BY <1>3, <2>2, <2>3, Refuses
<1> QED BY <1>4, <1>5, <1>6 DEF SaveRefused

\* A clear is refused, or fails, in the same way.
LEMMA ClearRefusedIsStep ==
  ASSUME IInv, Progress, NEW c \in Call, ClearRefused(c)
  PROVE  Register!Refuse(c) \/ Register!Fail(c)
<1>0. TypeOK
  BY DEF IInv
<1>1. local[c].answer = "none" /\ local[c].verdict = "none"
  BY DEF ClearRefused, Clearing, Progress
<1>2. Outcome(local[c]) = "none"
  BY <1>1 DEF Outcome
<1>3. CASE Verdict(c, "not_found")
  <2>1. /\ UNCHANGED store
        /\ UNCHANGED <<Inputs, Seens, Sinces>>
        /\ Outcomes' = [Outcomes EXCEPT ![c] = "error"]
    BY <1>0, <1>1, <1>3, VerdictComes
  <2> QED BY <1>2, <2>1, Fails
<1>4. CASE ~ Unchanged(c) /\ Verdict(c, "conflict")
  <2>1. local[c].seen # plan
    BY <1>4 DEF Unchanged
  <2>2. Reason(c, "plan_conflict")
    BY <2>1 DEF Reason
  <2>3. /\ UNCHANGED store
        /\ UNCHANGED <<Inputs, Seens, Sinces>>
        /\ Outcomes' = [Outcomes EXCEPT ![c] = "plan_conflict"]
    BY <1>0, <1>1, <1>4, VerdictComes
  <2> QED BY <1>2, <2>2, <2>3, Refuses
<1> QED BY <1>3, <1>4 DEF ClearRefused

LEMMA WriteFailsIsStep ==
  ASSUME IInv, Progress, NEW c \in Call, WriteFails(c)
  PROVE  Register!Fail(c)
<1>0. TypeOK
  BY DEF IInv
<1>1. local[c].answer = "none" /\ local[c].verdict = "none"
  BY DEF WriteFails, Progress
<1>2. Outcome(local[c]) = "none"
  BY <1>1 DEF Outcome
<1>3. /\ UNCHANGED store
      /\ UNCHANGED <<Inputs, Seens, Sinces>>
      /\ Outcomes' = [Outcomes EXCEPT ![c] = "error"]
  BY <1>0, <1>1, VerdictComes DEF WriteFails
<1> QED BY <1>2, <1>3, Fails

\* A reply repeats what the call has come to, but for a conflict that ends a
\* clear.
LEMMA SameAnswer ==
  ASSUME TypeOK, NEW c \in Call, NEW a, a # "none", Answer(c, a),
         UNCHANGED store, Outcome(local[c]) = a
  PROVE  UNCHANGED Register!vars
<1>1. /\ UNCHANGED <<Inputs, Seens, Sinces>>
      /\ Outcomes' = [Outcomes EXCEPT ![c] = a]
  BY AnswerComes
<1>2. [Outcomes EXCEPT ![c] = a] = Outcomes
  BY DEF Outcomes
<1> QED BY <1>1, <1>2, Stutters

LEMMA RepliesAreSteps ==
  ASSUME IInv, Progress, NEW c \in Call, SaveReplied(c) \/ ClearReplied(c)
  PROVE  UNCHANGED Register!vars \/ Register!Fail(c)
<1> DEFINE v == local[c].verdict
<1>0. TypeOK /\ v \in Verdicts
  BY DEF IInv, TypeOK, Locals
<1>1. /\ UNCHANGED store /\ local[c].answer = "none" /\ v # "none"
      /\ local[c].input.action = "clear" => v # "invalid"
  BY DEF SaveReplied, ClearReplied, Progress
<1>2. CASE SaveReplied(c)
  <2>1. local[c].input.action # "clear"
    BY <1>2 DEF SaveReplied
  <2>2. PICK a \in {"updated", "invalid_arguments", "plan_conflict", "error"} :
          Answer(c, a) /\ a = Outcome(local[c])
    BY <1>0, <1>1, <1>2, <2>1 DEF SaveReplied, Outcome, Verdicts
  <2> QED BY <1>0, <1>1, <2>2, SameAnswer
<1>3. CASE ClearReplied(c)
  <2>1. local[c].input.action = "clear"
    BY <1>3 DEF ClearReplied
  <2>2. CASE v = "ok"
    <3>1. Answer(c, "cleared") /\ Outcome(local[c]) = "cleared"
      BY <1>1, <1>3, <2>1, <2>2 DEF ClearReplied, Outcome
    <3> QED BY <1>0, <1>1, <3>1, SameAnswer
  <2>3. CASE v = "conflict"
    <3>1. Answer(c, "error") /\ Outcome(local[c]) = "plan_conflict"
      BY <1>1, <1>3, <2>1, <2>3 DEF ClearReplied, Outcome
    <3> QED BY <1>1, <3>1, ErrorIsFailure
  <2>4. CASE v \in {"not_found", "failed"}
    <3>1. Answer(c, "error") /\ Outcome(local[c]) = "error"
      BY <1>1, <1>3, <2>1, <2>4 DEF ClearReplied, Outcome
    <3> QED BY <1>0, <1>1, <3>1, SameAnswer
  <2> QED BY <1>0, <1>1, <2>1, <2>2, <2>3, <2>4 DEF Verdicts
<1> QED BY <1>2, <1>3

\* Before it writes, a call that goes on shows nothing, and one that ends is
\* refused or fails.
LEMMA MovesOn ==
  ASSUME TypeOK, UNCHANGED <<store, local>>
  PROVE  UNCHANGED Register!vars
  BY Stutters DEF Inputs, Seens, Sinces, Outcomes

LEMMA StartIsStep ==
  ASSUME IInv, Progress, NEW c \in Call, Start(c)
  PROVE  UNCHANGED Register!vars \/ Register!Refuse(c)
<1> DEFINE in == local[c].input
<1>0. TypeOK
  BY DEF IInv
<1>1. UNCHANGED store /\ local[c].answer = "none" /\ local[c].verdict = "none"
  BY DEF Start, Progress
<1>2. Outcome(local[c]) = "none"
  BY <1>1 DEF Outcome
<1>3. CASE UNCHANGED local
  BY <1>0, <1>1, <1>3, MovesOn
<1>4. CASE (in.action = "clear") # (in.tasks = <<>>)
             /\ Answer(c, "invalid_arguments")
  <2>1. Register!Faulty(in, local[c].seen)
    BY <1>4 DEF Register!Faulty
  <2>2. Reason(c, "invalid_arguments")
    BY <2>1 DEF Reason
  <2>3. /\ UNCHANGED <<Inputs, Seens, Sinces>>
        /\ Outcomes' = [Outcomes EXCEPT ![c] = "invalid_arguments"]
    BY <1>0, <1>4, AnswerComes
  <2> QED BY <1>1, <1>2, <2>2, <2>3, Refuses
<1> QED BY <1>3, <1>4 DEF Start

LEMMA ReadsAreSteps ==
  ASSUME IInv, Progress, NEW c \in Call, LookUp(c) \/ ReadFails(c)
  PROVE  UNCHANGED Register!vars \/ Register!Fail(c)
<1>0. TypeOK
  BY DEF IInv
<1>1. UNCHANGED store /\ local[c].answer = "none" /\ local[c].verdict = "none"
  BY DEF LookUp, ReadFails, Progress
<1>2. Outcome(local[c]) = "none"
  BY <1>1 DEF Outcome
<1>3. CASE UNCHANGED local
  BY <1>0, <1>1, <1>3, MovesOn
<1>4. CASE Answer(c, "error")
  BY <1>1, <1>2, <1>4, ErrorIsFailure
<1> QED BY <1>3, <1>4 DEF LookUp, ReadFails

\* Every step is one of the register, or none.
LEMMA StepIsRegisters ==
  IInv /\ Progress /\ [Next]_vars => [Register!Next]_Register!vars
<1> SUFFICES ASSUME IInv, Progress, [Next]_vars
             PROVE  UNCHANGED Register!vars \/ Register!Next
  OBVIOUS
<1>1. ASSUME NEW c \in Call,
             \/ Register!See(c) \/ Register!TakeEffect(c)
             \/ Register!Refuse(c) \/ Register!Fail(c)
      PROVE  Register!Next
  BY <1>1, Zenon DEF Register!Next
<1>2. ASSUME NEW c \in Call, Start(c)
      PROVE  UNCHANGED Register!vars \/ Register!Next
  BY <1>1, <1>2, StartIsStep
<1>3. ASSUME NEW c \in Call, LookUp(c) \/ ReadFails(c)
      PROVE  UNCHANGED Register!vars \/ Register!Next
  BY <1>1, <1>3, ReadsAreSteps
<1>4. ASSUME NEW c \in Call, Load(c) PROVE Register!Next
  BY <1>1, <1>4, LoadIsStep
<1>5. ASSUME NEW c \in Call, Save(c) \/ Clear(c) PROVE Register!Next
  BY <1>1, <1>5, SaveTakesEffect, ClearTakesEffect
<1>6. ASSUME NEW c \in Call, SaveRefused(c) \/ ClearRefused(c)
      PROVE  Register!Next
  BY <1>1, <1>6, SaveRefusedIsStep, ClearRefusedIsStep
<1>7. ASSUME NEW c \in Call, WriteFails(c) PROVE Register!Next
  BY <1>1, <1>7, WriteFailsIsStep
<1>8. ASSUME NEW c \in Call, SaveReplied(c) \/ ClearReplied(c)
      PROVE  UNCHANGED Register!vars \/ Register!Next
  BY <1>1, <1>8, RepliesAreSteps
<1>9. CASE SessionEnds
  <2>1. Register!End
    BY <1>9 DEF SessionEnds, Register!End
  <2> QED BY <2>1, Zenon DEF Register!Next
<1>10. CASE (\E r \in Run : FallSilent(r)) \/ UNCHANGED vars
  <2>1. TypeOK /\ UNCHANGED <<store, local>>
    BY <1>10 DEF FallSilent, vars, IInv
  <2> QED BY <2>1, MovesOn
<1> HIDE DEF Register!Next, Register!vars
<1> QED
  BY <1>2, <1>3, <1>4, <1>5, <1>6, <1>7, <1>8, <1>9, <1>10 DEF Next

\* The tool keeps the register: the calls, however they interleave, take
\* effect one at a time and whole, and answer truly.
THEOREM PlanKeepsRegister == Spec => KeepsRegister
<1>1. Init => Register!Init
  <2> SUFFICES ASSUME Init PROVE Register!Init
    OBVIOUS
  <2>1. ASSUME NEW c \in Call
        PROVE  \E i \in Input : local[c] = NotStarted(i)
    BY DEF Init
  <2>2. ASSUME NEW c \in Call
        PROVE  /\ local[c].input \in Input /\ local[c].seen = NoPlan
               /\ local[c].at = 0 /\ Outcome(local[c]) = "none"
    <3>1. PICK i \in Input : local[c] = NotStarted(i)
      BY <2>1
    <3>2. /\ local[c].input = i /\ local[c].seen = NoPlan /\ local[c].at = 0
          /\ local[c].answer = "none" /\ local[c].verdict = "none"
      BY <3>1 DEF NotStarted
    <3> QED BY <3>2 DEF Outcome
  <2>3. Inputs \in [Call -> Input] /\ Seens = [c \in Call |-> NoPlan]
          /\ Sinces = [c \in Call |-> 0] /\ Outcomes = [c \in Call |-> "none"]
    BY <2>2 DEF Inputs, Seens, Sinces, Outcomes
  <2> QED BY <2>3 DEF Init, Register!Init, Inputs, Seens, Sinces, Outcomes
<1>2. IInv /\ Progress /\ [Next]_vars => [Register!Next]_Register!vars
  BY StepIsRegisters
<1> QED
  BY <1>1, <1>2, Invariance, ProgressInvariance, PTL
     DEF Spec, KeepsRegister, Register!Spec
=============================================================================
