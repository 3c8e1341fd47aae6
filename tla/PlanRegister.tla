---------------------------- MODULE PlanRegister ----------------------------
(***************************************************************************)
(* What system.manage_task_plan promises of the plan of ONE session: calls *)
(* take effect one at a time and whole, each on the plan that is stored at *)
(* that moment, and an answer says what has happened.                      *)
(*                                                                         *)
(* The plan counts its changes from 1 for each creation, so a call that    *)
(* has seen the plan of an earlier round can take the plan of this one for *)
(* it (Outdated).                                                          *)
(***************************************************************************)
EXTENDS Integers, Sequences

CONSTANTS
  Call, Input,  \* calls and their arguments
  NoPlan,
  Status,       \* what a task may be
  MaxTasks,
  Earlier       \* the plans the session may begin with

VARIABLES
  live,    \* the session exists
  plan,    \* its plan
  round,   \* how many plans have been created
  input,   \* the arguments of each call
  seen,    \* the plan each call has seen
  since,   \* and the round it was in
  answer   \* what each call has come to

vars == <<live, plan, round, input, seen, since, answer>>

Init ==
  /\ live = TRUE
  /\ plan \in Earlier \cup {NoPlan}
  /\ round = 0
  /\ input \in [Call -> Input]
  /\ seen = [c \in Call |-> NoPlan]
  /\ since = [c \in Call |-> 0]
  /\ answer = [c \in Call |-> "none"]

-----------------------------------------------------------------------------
(***************************************************************************)
(* What a call makes of a plan                                             *)
(***************************************************************************)
Ids(tasks) == {tasks[i].id : i \in DOMAIN tasks}

Unique(tasks) == \A i, j \in DOMAIN tasks : i # j => tasks[i].id # tasks[j].id

Proper(tasks) ==
  /\ Len(tasks) \in 1 .. MaxTasks
  /\ Unique(tasks)
  /\ \A i \in DOMAIN tasks : tasks[i].status \in Status

\* The named tasks have their new status, and nothing else is different.
StatusesSet(named, old, new) ==
  /\ Ids(named) \subseteq Ids(old)
  /\ Len(new) = Len(old)
  /\ \A i \in DOMAIN old :
       /\ new[i].id = old[i].id
       /\ \A j \in DOMAIN named :
            named[j].id = old[i].id => new[i].status = named[j].status
       /\ old[i].id \notin Ids(named) => new[i].status = old[i].status

Makes(in, old, tasks) ==
  CASE in.action = "create" -> old = NoPlan /\ tasks = in.tasks
    [] in.action = "modify" -> old # NoPlan /\ tasks = in.tasks
    [] in.action = "append" -> old # NoPlan /\ tasks = old.tasks \o in.tasks
    [] OTHER -> old # NoPlan /\ StatusesSet(in.tasks, old.tasks, tasks)

Becomes(in, old, new) ==
  IF in.action = "clear" THEN old # NoPlan /\ new = NoPlan
  ELSE /\ new # NoPlan
       /\ new.revision = IF old = NoPlan THEN 1 ELSE old.revision + 1
       /\ Makes(in, old, new.tasks)
       /\ Proper(new.tasks)

\* Arguments that make no proper plan of this one.
Faulty(in, old) ==
  \/ (in.action = "clear") # (in.tasks = <<>>)
  \/ ~ Unique(in.tasks)
  \/ \E i \in DOMAIN in.tasks : in.tasks[i].status \notin Status
  \/ in.action # "update_status" /\ Len(in.tasks) > MaxTasks
  \/ /\ in.action = "append" /\ old # NoPlan
     /\ \/ Len(old.tasks) + Len(in.tasks) > MaxTasks
        \/ Ids(in.tasks) \cap Ids(old.tasks) # {}

-----------------------------------------------------------------------------
Answer(c, a) == answer' = [answer EXCEPT ![c] = a]

See(c) ==
  /\ answer[c] = "none"
  /\ seen' = [seen EXCEPT ![c] = plan]
  /\ since' = [since EXCEPT ![c] = round]
  /\ UNCHANGED <<live, plan, round, input, answer>>

\* The plan a call has seen belongs to an earlier round, and its revision
\* does not tell.
Outdated(c) ==
  /\ since[c] # round
  /\ plan # NoPlan /\ seen[c] # NoPlan
  /\ seen[c].revision = plan.revision

\* The caller may not hear of the effect, but does not hear of another.
TakeEffect(c) ==
  /\ live /\ answer[c] = "none"
  /\ \/ Becomes(input[c], plan, plan')
     \/ Outdated(c) /\ Becomes(input[c], seen[c], plan')
  /\ round' = IF plan = NoPlan THEN round + 1 ELSE round
  /\ since' = [since EXCEPT ![c] = round']
  /\ \/ Answer(c, IF input[c].action = "clear" THEN "cleared" ELSE "updated")
     \/ Answer(c, "error")
  /\ UNCHANGED <<live, input, seen>>

\* A call without effect has a reason that holds when it is refused.
Refuse(c) ==
  /\ answer[c] = "none"
  /\ \/ /\ input[c].action = "create" /\ plan # NoPlan
        /\ Answer(c, "active_plan_exists")
     \/ /\ input[c].action # "create" /\ plan = NoPlan
        /\ Answer(c, "no_active_plan")
     \/ /\ input[c].action = "update_status" /\ plan # NoPlan
        /\ ~ (Ids(input[c].tasks) \subseteq Ids(plan.tasks))
        /\ Answer(c, "unknown_task_id")
     \/ seen[c] # plan /\ Answer(c, "plan_conflict")
     \/ Faulty(input[c], seen[c]) /\ Answer(c, "invalid_arguments")
  /\ UNCHANGED <<live, plan, round, input, seen, since>>

\* A reason may be lost on its way to the caller.
Fail(c) ==
  /\ answer[c] \in {"none", "plan_conflict"}
  /\ Answer(c, "error")
  /\ UNCHANGED <<live, plan, round, input, seen, since>>

End ==
  /\ live
  /\ live' = FALSE
  /\ plan' = NoPlan
  /\ UNCHANGED <<round, input, seen, since, answer>>

Next ==
  \/ \E c \in Call : See(c) \/ TakeEffect(c) \/ Refuse(c) \/ Fail(c)
  \/ End

Spec == Init /\ [][Next]_vars
=============================================================================
