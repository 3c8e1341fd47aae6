----------------------------- MODULE MCTaskPlan -----------------------------
(* Three calls over tasks a, b and d, on a session with no plan or one     *)
(* that an earlier turn left: two of one run, and one of another, which    *)
(* may have lost the session's lock.                                       *)
EXTENDS TaskPlan, TLC

CONSTANTS a, b, d, x, c1, c2, c3, lost, next

MCCall == {c1, c2, c3}
MCRun == {lost, next}
MCRunOf == [c \in MCCall |-> IF c = c3 THEN lost ELSE next]

T(id, status) == [id |-> id, status |-> status]

\* One argument list for each outcome: a plan of one or of two tasks, an
\* append that repeats a task or exceeds the limit, an unknown task, a bad
\* status, and clear with and without tasks.
MCInput ==
  {[action |-> "create", tasks |-> <<T(a, "pending")>>],
   [action |-> "modify", tasks |-> <<T(d, "pending"), T(a, "pending")>>],
   [action |-> "update_status", tasks |-> <<T(a, "done")>>],
   [action |-> "update_status", tasks |-> <<T(b, x)>>],
   [action |-> "append", tasks |-> <<T(b, "pending")>>],
   [action |-> "clear", tasks |-> <<>>],
   [action |-> "clear", tasks |-> <<T(a, "done")>>]}

MCEarlier == {[revision |-> 1, tasks |-> <<T(b, "pending")>>]}

Symmetry == Permutations({c1, c2})
=============================================================================
