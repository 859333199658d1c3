------------------------------ MODULE PlanPass ------------------------------
(***************************************************************************)
(* How a scheduling pass computes what TaskGraph says it returns: the loop *)
(* of execution_order (app/services/plan_dependencies.py) on top of        *)
(* graphlib, then the loop of advance (app/orchestration/state.py).  One   *)
(* step per iteration.  A plan may be anything a caller can pass in: empty *)
(* parents, self references, unknown parents, cycles.                      *)
(***************************************************************************)
EXTENDS TaskGraph, Sequences, SequencesExt

CONSTANTS
    Size,       \* tasks are 1..Size, in the order of their keys
    Scope       \* the task states a pass may be given

ASSUME PassAssumption == Size \in Nat

Keys == 1..Size

Unknown == 0    \* a parent that is no task of the plan

VARIABLES
    deps,       \* the plan
    pc,         \* "check", "batch", "given", "loop", "done" or "refused"
    ordered,    \* execution_order's list
    given,      \* the states passed to advance
    updated,    \* advance's working copy
    at          \* how many tasks advance's loop has visited

passVars == <<deps, pc, ordered, given, updated, at>>

NoStates == [k \in Keys |-> "pending"]

PassInit ==
    /\ deps \in [Keys -> SUBSET (Keys \cup {Unknown})]
    /\ pc = "check"
    /\ ordered = <<>>
    /\ given = NoStates /\ updated = NoStates
    /\ at = 0

\* The loop that validates each list of parents.
WellFormed == \A k \in Keys : k \notin deps[k] /\ deps[k] \subseteq Keys

\* graphlib.TopologicalSorter.prepare raises CycleError.
CycleError == HasCycle(deps)

Refuse ==
    /\ pc = "check"
    /\ ~WellFormed \/ CycleError
    /\ pc' = "refused"
    /\ UNCHANGED <<deps, ordered, given, updated, at>>

Prepare ==
    /\ pc = "check"
    /\ WellFormed /\ ~CycleError
    /\ pc' = "batch"
    /\ UNCHANGED <<deps, ordered, given, updated, at>>

\* graphlib: the nodes not handed out yet whose parents are all done.
GetReady == {k \in Keys \ ToSet(ordered) : deps[k] \subseteq ToSet(ordered)}

\* sorted(): the numbers of a set, each once and in their order.
Sorted(S) ==
    CHOOSE q \in [1..Cardinality(S) -> S] : \A i, j \in DOMAIN q : i < j => q[i] < q[j]

Batch ==
    /\ pc = "batch"
    /\ ToSet(ordered) # Keys
    /\ ordered' = ordered \o Sorted(GetReady)
    /\ UNCHANGED <<deps, pc, given, updated, at>>

\* advance is called with the states the records have.
Call ==
    /\ pc = "batch"
    /\ ToSet(ordered) = Keys
    /\ pc' = "loop"
    /\ given' \in [Keys -> Scope]
    /\ updated' = given'
    /\ UNCHANGED <<deps, ordered, at>>

\* Variant with a bug: parents are looked up in the states passed in.
ReleasedStale(k) ==
    IF \E p \in deps[k] : given[p] \in {"failed", "blocked"} THEN "blocked"
    ELSE IF \A p \in deps[k] : given[p] = "completed" THEN "queued"
    ELSE updated[k]

Released(k) ==
    IF \E p \in deps[k] : updated[p] \in {"failed", "blocked"} THEN "blocked"
    ELSE IF \A p \in deps[k] : updated[p] = "completed" THEN "queued"
    ELSE updated[k]

Visit ==
    /\ pc = "loop" /\ at < Size
    /\ LET k == ordered[at + 1]
       IN  updated' = IF updated[k] = "pending"
                      THEN [updated EXCEPT ![k] = Released(k)] ELSE updated
    /\ at' = at + 1
    /\ UNCHANGED <<deps, pc, ordered, given>>

PassReturn ==
    /\ pc = "loop" /\ at = Size
    /\ pc' = "done"
    /\ UNCHANGED <<deps, ordered, given, updated, at>>

PassNext == Refuse \/ Prepare \/ Batch \/ Call \/ Visit \/ PassReturn

PassSpec == PassInit /\ [][PassNext]_passVars

-----------------------------------------------------------------------------
(* execution_order lists no task twice, and every task after all its parents. *)
ParentsFirst ==
    /\ IsInjective(ordered)
    /\ \A i \in 1..Len(ordered) : deps[ordered[i]] \subseteq {ordered[j] : j \in 1..(i - 1)}

(* The pass over the ordered tasks returns TaskGraph's Advance: every task
   below a failed one is blocked in one pass however long the chain, a task
   is queued exactly when all its parents are completed, nothing else moves. *)
ReturnsAdvance == ParentsFirst /\ (pc = "done" => updated = Advance(deps, given))
=============================================================================
