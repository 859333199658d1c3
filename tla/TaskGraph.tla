----------------------------- MODULE TaskGraph -----------------------------
(***************************************************************************)
(* The scheduling rules of a plan's tasks, without a database: which moves *)
(* the records may make (app/orchestration/transitions.py) and what one    *)
(* scheduling pass does to the tasks (app/orchestration/state.py).         *)
(*                                                                         *)
(* A plan is a function deps from each task to the set of its parents.     *)
(* The states of its tasks are a function st with the same domain.         *)
(***************************************************************************)
EXTENDS Integers, FiniteSets

TaskStates ==
    {"pending", "queued", "running", "completed", "failed", "blocked", "cancelled"}

RunStates == {"pending", "running", "completed", "failed", "cancelled"}

\* State.TERMINAL: a cancelled task is not in it.
TERMINAL == {"completed", "failed", "blocked"}

EndedRun == {"completed", "failed", "cancelled"}

TASK_EDGES ==
    [s \in TaskStates |->
        CASE s = "pending" -> {"queued", "blocked", "cancelled"}
          [] s = "queued"  -> {"running", "failed", "blocked", "cancelled"}
          [] s = "running" -> {"completed", "failed"}
          [] OTHER         -> {}]

\* transitions._check: writing the current state again is allowed.
Check(edges, current, target) == target = current \/ target \in edges[current]

-----------------------------------------------------------------------------
(* A cycle shows as a nonempty set of tasks each of which waits for another one of the set. *)
HasCycle(deps) ==
    \E S \in (SUBSET DOMAIN deps) \ {{}} : \A t \in S : deps[t] \cap S # {}

Pending(st) == {t \in DOMAIN st : st[t] = "pending"}

\* A pending task with a failed or blocked parent is blocked, and so are the
\* pending tasks below it.  S is closed when it has all of them ...
ClosedUnderFailure(deps, st, S) ==
    \A t \in Pending(st) :
        (\E p \in deps[t] : st[p] \in {"failed", "blocked"} \/ p \in S) => t \in S

\* ... and the tasks one pass blocks are those of every closed set.
Doomed(deps, st) ==
    {t \in Pending(st) :
        \A S \in SUBSET Pending(st) : ClosedUnderFailure(deps, st, S) => t \in S}

\* Variant with a bug: a parent that has started is enough.
ReadyStarted(deps, st) ==
    {t \in Pending(st) : \A p \in deps[t] : st[p] # "pending"}

Ready(deps, st) ==
    {t \in Pending(st) : \A p \in deps[t] : st[p] = "completed"}

\* state.advance: one pass over the tasks in execution order.
Advance(deps, st) ==
    [t \in DOMAIN st |->
        IF t \in Doomed(deps, st) THEN "blocked"
        ELSE IF t \in Ready(deps, st) THEN "queued"
        ELSE st[t]]
=============================================================================
