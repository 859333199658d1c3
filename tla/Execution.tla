----------------------------- MODULE Execution -----------------------------
(***************************************************************************)
(* Execution runs: the tasks of a plan, the agents that work on them, the  *)
(* worker that implements one task after the other, and the recovery and   *)
(* cancellation that may stop it at any moment.                            *)
(*                                                                         *)
(*   app/services/executions.py          the run and its transactions      *)
(*   app/services/recovery.py            code, test, debug until it passes *)
(*   app/services/recovery_records.py    the transactions of the above     *)
(*   app/services/coding.py, coding_records.py, testing.py,                *)
(*   app/services/test_records.py        the two other agents              *)
(*   app/services/code_patches.py        what a patch does to the tree     *)
(*   app/orchestration/workflow_stages.py    the stage "implement"         *)
(*   app/orchestration/executor.py       the dispatcher without workflows  *)
(*   app/workers/orchestration.py        Beat                              *)
(*                                                                         *)
(* Simplifications.                                                        *)
(*  - Every transaction locks the run's row first, so it is one step.      *)
(*  - The workflow row is reduced to what the stage "implement" needs of   *)
(*    module Workflow.  A claim is exclusive and an interrupted implement  *)
(*    stage is never claimed again (InterruptedSourceNeverReruns there),   *)
(*    so a run has at most one worker in its lifetime that is past the     *)
(*    choice of a task, and nobody else wants its workspace lock.          *)
(*  - A patch is one of a few values, a working tree the number of times   *)
(*    it has been changed.  Whether the model's answer is accepted, whether*)
(*    git applies it and whether the tests pass is any outcome they have.  *)
(*  - output_summary of a task is kept while it guards something.          *)
(*  - The recovery is always there when tests run, as in the stage.        *)
(***************************************************************************)
EXTENDS TaskGraph, Sequences

CONSTANTS
    Runs,           \* identifiers of ExecutionRun rows
    Tasks,          \* tasks of a plan
    Plans,          \* the plans a run may have, functions to sets of parents
    Patches,        \* what coding and debug agents may propose
    DebugLimit,     \* max_recovery_attempts
    BatchLimit,     \* rows one recovery pass takes (100 in the code)
    Heap,           \* the runs in the order in which a scan returns them
    Origins,        \* who may have made a run: "workflow", "client"
    Executor,       \* TRUE if some process dispatches the runs of clients
    Faults          \* TRUE if a transaction of a worker may fail by itself

ASSUME PlansAssumption ==
    /\ Plans \subseteq [Tasks -> SUBSET Tasks]
    /\ \A deps \in Plans : ~HasCycle(deps)
    /\ Tasks # {}

ASSUME BoundsAssumption ==
    /\ DebugLimit \in Nat
    /\ BatchLimit \in Nat \ {0}
    /\ Origins \subseteq {"workflow", "client"}
    /\ Executor \in BOOLEAN /\ Faults \in BOOLEAN
    /\ Heap \in Seq(Runs)
    /\ \A r \in Runs : \E i \in 1..Len(Heap) : Heap[i] = r

VARIABLES
    run,        \* ExecutionRun and its TaskExecution rows
    agents,     \* AgentRun rows of each run, in the order of started_at
    idle,       \* runs whose updated_at is before the cutoff
    flow,       \* status of the workflow row that owns the run
    tree,       \* the working tree of each run: how often it and how often a
                \* patch has changed it, and whether it holds a file under a
                \* name that current_diff refuses to look at
    worker      \* the worker inside the stage "implement"

vars == <<run, agents, idle, flow, tree, worker>>

-----------------------------------------------------------------------------
(* Records *)

NoAgent == 0

NoWorker ==
    [pc |-> "none", task |-> CHOOSE t \in Tasks : TRUE, recovery |-> NoAgent,
     kind |-> "coding", agent |-> NoAgent, patch |-> "none", debugs |-> 0,
     hard |-> FALSE, passed |-> FALSE, result |-> "blocked"]

NewAgent(type, t) ==
    [type |-> type, task |-> t, status |-> "running", old |-> FALSE,
     patch |-> "none", of |-> NoAgent, saw |-> -1, recovery |-> NoAgent]

\* Only the age of a running agent is ever looked at.
Ended(agent, status) == [agent EXCEPT !.status = status, !.old = FALSE]

Status(r, t) == run[r].task[t].status

AgentsOf(r) == 1..Len(agents[r])
Running(r) == {i \in AgentsOf(r) : agents[r][i].status = "running"}
OldRunning(r) == {i \in Running(r) : agents[r][i].old}

-----------------------------------------------------------------------------
(* The run row *)

\* _advance: one scheduling pass, then the status of the run.
Advanced(x) ==
    IF x.status \in {"failed", "cancelled"} THEN x
    ELSE LET st == Advance(x.deps, [t \in Tasks |-> x.task[t].status])
         IN  [x EXCEPT
                !.task = [t \in Tasks |-> [x.task[t] EXCEPT !.status = st[t]]],
                !.status = IF \A t \in Tasks : st[t] = "completed" THEN "completed"
                           ELSE IF \A t \in Tasks : st[t] \in TERMINAL THEN "failed"
                           ELSE "running"]

\* The run becomes x; its updated_at changes only if its own columns do.
Put(r, x) ==
    /\ run' = [run EXCEPT ![r] = x]
    /\ idle' = IF x.status # run[r].status THEN idle \ {r} ELSE idle

SetTask(x, t, status, note) ==
    [x EXCEPT !.task[t] = [status |-> status, note |-> note]]

SetNote(x, t, note) == [x EXCEPT !.task[t].note = note]

Busy(r) == Running(r) # {} \/ \E t \in Tasks : Status(r, t) = "running"

\* Variant with a bug: only the task that is running is stopped.
StoppedTaskRunning(s, cancelled) == IF s = "running" THEN "failed" ELSE s

\* What stop_locked leaves of a task.
StoppedTask(s, cancelled) ==
    CASE s \in TERMINAL \cup {"cancelled"} -> s
      [] s = "running" -> "failed"
      [] OTHER -> IF cancelled THEN "cancelled" ELSE "blocked"

\* stop_locked returns without writing anything.
NothingToStop(r, cancelled) ==
    run[r].status \in EndedRun /\ (cancelled \/ Running(r) = {})

StoppedRun(r, cancelled) ==
    IF NothingToStop(r, cancelled) THEN run[r]
    ELSE [run[r] EXCEPT
            !.task = [t \in Tasks |->
                        [run[r].task[t] EXCEPT !.status = StoppedTask(@, cancelled)]],
            !.status = IF @ \in EndedRun THEN @
                       ELSE IF cancelled THEN "cancelled" ELSE "failed"]

\* Variant with a bug: the agents that are running are left alone.
StoppedAgentsNone(r, cancelled) == agents[r]

StoppedAgents(r, cancelled) ==
    IF NothingToStop(r, cancelled) THEN agents[r]
    ELSE [i \in AgentsOf(r) |->
            IF i \in Running(r) THEN Ended(agents[r][i], "failed") ELSE agents[r][i]]

Stop(r, cancelled) ==
    /\ Put(r, StoppedRun(r, cancelled))
    /\ agents' = [agents EXCEPT ![r] = StoppedAgents(r, cancelled)]

-----------------------------------------------------------------------------
Init ==
    /\ \E plan \in [Runs -> Plans] :
          run = [r \in Runs |->
                    [status |-> "pending", deps |-> plan[r],
                     task |-> [t \in Tasks |-> [status |-> "pending", note |-> "none"]]]]
    /\ agents = [r \in Runs |-> <<>>]
    /\ idle = {}
    /\ \E origin \in [Runs -> Origins] :
          flow = [r \in Runs |-> IF origin[r] = "workflow" THEN "waiting" ELSE "none"]
    /\ tree = [r \in Runs |-> [version |-> 0, patches |-> 0, barred |-> FALSE]]
    /\ worker = [r \in Runs |-> NoWorker]

-----------------------------------------------------------------------------
(* Beat, the API and the dispatcher *)

\* execution.reconcile, sent when a client creates a run and by every Beat
\* pass for the runs that are pending or running.
Reconcile(r) ==
    /\ Put(r, Advanced(run[r]))
    /\ UNCHANGED <<agents, flow, tree, worker>>

Candidates ==
    {r \in Runs : \/ run[r].status \in {"pending", "running"} /\ r \in idle
                  \/ OldRunning(r) # {}}

\* LIMIT without ORDER BY: the first candidates a scan of the heap meets.
Limited(S) ==
    {r \in S : Cardinality({q \in S : \E i, j \in 1..Len(Heap) :
                    i < j /\ Heap[i] = q /\ Heap[j] = r}) < BatchLimit}

\* Variant with a bug: agents that outlived their task are not looked for.
StaleTasksOnly(r) ==
    /\ \E t \in Tasks : Status(r, t) = "running"
    /\ Running(r) \ OldRunning(r) = {}

Stale(r) ==
    /\ OldRunning(r) # {} \/ \E t \in Tasks : Status(r, t) = "running"
    /\ Running(r) \ OldRunning(r) = {}

\* recover_stale: one transaction for the whole batch.
RecoverStale ==
    LET S == {r \in Limited(Candidates) : Stale(r)}
    IN  /\ run' = [r \in Runs |-> IF r \in S THEN StoppedRun(r, FALSE) ELSE run[r]]
        /\ agents' = [r \in Runs |-> IF r \in S THEN StoppedAgents(r, FALSE) ELSE agents[r]]
        /\ idle' = {r \in idle : run'[r].status = run[r].status}
        /\ UNCHANGED <<flow, tree, worker>>

\* POST /executions/{id}/cancel.
CancelExecution(r) ==
    /\ ~Busy(r)
    /\ Stop(r, TRUE)
    /\ UNCHANGED <<flow, tree, worker>>

\* POST /workflows/{id}/cancel of a workflow that has an execution run.
CancelFlow(r) ==
    /\ flow[r] \in {"waiting", "failed", "blocked"}
    /\ ~Busy(r)
    /\ Stop(r, TRUE)
    /\ flow' = [flow EXCEPT ![r] = "cancelled"]
    /\ UNCHANGED <<tree, worker>>

ResumeFlow(r) ==
    /\ flow[r] = "failed"
    /\ flow' = [flow EXCEPT ![r] = "waiting"]
    /\ UNCHANGED <<run, agents, idle, tree, worker>>

\* The lease of the claim runs out and a pass of workflow.recover finds it.
\* The worker may be dead, or slow.
FenceFlow(r) ==
    /\ flow[r] = "active"
    /\ flow' = [flow EXCEPT ![r] = "blocked"]
    /\ Stop(r, FALSE)
    /\ UNCHANGED <<tree, worker>>

\* Time passes: what has started or changed is now older than the cutoff, what
\* started first before the rest.
AgentAges(r) ==
    /\ \E i \in Running(r) \ OldRunning(r) :
          /\ \A j \in Running(r) \ OldRunning(r) : i <= j
          /\ agents' = [agents EXCEPT ![r][i].old = TRUE]
    /\ UNCHANGED <<run, idle, flow, tree, worker>>

RunAges(r) ==
    /\ r \notin idle
    /\ idle' = idle \cup {r}
    /\ UNCHANGED <<run, agents, flow, tree, worker>>

\* transition(run, task, "running") of dispatch_ready; a task that is taken or
\* ended already is left alone.
DispatcherTakes(r, t) ==
    /\ Executor /\ flow[r] = "none"
    /\ Status(r, t) = "queued"
    /\ Put(r, Advanced(SetTask(run[r], t, "running", "none")))
    /\ UNCHANGED <<agents, flow, tree, worker>>

\* transition(run, task, "completed" or "failed"); a report that comes late
\* raises and changes nothing.
DispatcherReports(r, t, status) ==
    /\ Executor /\ flow[r] = "none"
    /\ Status(r, t) = "running"
    /\ Put(r, Advanced(SetTask(run[r], t, status, "none")))
    /\ UNCHANGED <<agents, flow, tree, worker>>

-----------------------------------------------------------------------------
(* The worker: the guard of each of its transactions, then the step *)

Me(r) == worker[r]
Mine(r) == run[r].task[worker[r].task]

Go(r, w) == worker' = [worker EXCEPT ![r] = w]

ActiveRecovery(r, t) ==
    {i \in Running(r) : agents[r][i].type = "recovery" /\ agents[r][i].task = t}

\* RecoveryRecords._locked raises when the recovery has been ended.
RecoveryOpen(r) == Me(r).recovery \in Running(r)

DebugsOf(r) ==
    {i \in AgentsOf(r) : agents[r][i].type = "debug" /\ agents[r][i].recovery = Me(r).recovery}

\* Completed coding and debug agents: the patches the task consists of.
Applied(r, t) ==
    {i \in AgentsOf(r) : /\ agents[r][i].type \in {"coding", "debug"}
                         /\ agents[r][i].task = t
                         /\ agents[r][i].status = "completed"}

\* Variant with a bug: only the first patch is looked for.
NewestOnlyCoding(r, t) ==
    CHOOSE i \in Applied(r, t) : agents[r][i].type = "coding"

NewestApplied(r, t) == CHOOSE i \in Applied(r, t) : \A j \in Applied(r, t) : j <= i

CanOpen(r) ==
    /\ ActiveRecovery(r, Me(r).task) = {}
    /\ \/ Mine(r).status = "queued"
       \/ Mine(r).status = "running" /\ Mine(r).note = "awaiting_validation"

\* coding_records.start
CanStartCoding(r) ==
    /\ Mine(r).status = "queued"
    /\ \A p \in run[r].deps[Me(r).task] : Status(r, p) = "completed"

\* test_records.start
CanStartTests(r) ==
    /\ ActiveRecovery(r, Me(r).task) = {Me(r).recovery}
    /\ Mine(r).status = "running" /\ Mine(r).note = "awaiting_validation"
    /\ Applied(r, Me(r).task) # {}

CanClaimDebug(r) ==
    /\ RecoveryOpen(r)
    /\ Cardinality(DebugsOf(r)) < DebugLimit
    /\ Mine(r).status = "running" /\ Mine(r).note = "recovery_pending"

CanStart(r) ==
    CASE Me(r).kind = "coding" -> CanStartCoding(r)
      [] Me(r).kind = "test" -> CanStartTests(r)
      [] Me(r).kind = "debug" -> CanClaimDebug(r)

\* current_diff: it raises if a file that is neither tracked nor ignored has a
\* name that no patch may have.
DiffReadable(r) == ~tree[r].barred

\* Variant with a bug: the model is asked without the diff of the tree.
InputsReadyBlind(r) == TRUE

\* What a debug agent is given holds the diff of the tree as it is now.
InputsReady(r) == DiffReadable(r)

CanReserve(r) == RecoveryOpen(r) /\ Me(r).agent \in Running(r)

\* coding_records.finish
CanFinishCoding(r) == Mine(r).status = "running" /\ Me(r).agent \in Running(r)

\* test_records.finish
CanFinishTests(r) ==
    /\ Mine(r).status = "running" /\ Mine(r).note = "tests_running"
    /\ Me(r).agent \in Running(r)
    /\ ActiveRecovery(r, Me(r).task) = {Me(r).recovery}

\* Variant with a bug: a repair is recorded however late it is.
CanFinishDebugLate(r) == Me(r).agent \in AgentsOf(r)

CanFinishDebug(r) == RecoveryOpen(r) /\ Me(r).agent \in Running(r)

CanFinish(r) ==
    CASE Me(r).kind = "coding" -> CanFinishCoding(r)
      [] Me(r).kind = "test" -> CanFinishTests(r)
      [] Me(r).kind = "debug" -> CanFinishDebug(r)

\* RecoveryRecords.finish
CanClose(r) ==
    /\ RecoveryOpen(r)
    /\ IF Me(r).passed THEN Mine(r).status = "running" /\ Mine(r).note = "tests_passed"
       ELSE Check(TASK_EDGES, Mine(r).status, "failed")

\* Workflow's claim.
Claim(r) ==
    /\ flow[r] = "waiting" /\ Me(r).pc = "none"
    /\ flow' = [flow EXCEPT ![r] = "active"]
    /\ Go(r, [NoWorker EXCEPT !.pc = "stage"])
    /\ UNCHANGED <<run, agents, idle, tree>>

\* The stage: bring the run up to date, then choose a task that is queued (the
\* code takes the first in execution order), unless there is none or no model
\* is configured.
Stage(r) ==
    /\ Me(r).pc = "stage"
    /\ LET x == Advanced(run[r])
           ready == {t \in Tasks : x.task[t].status = "queued"}
           leave(result) == Go(r, [Me(r) EXCEPT !.pc = "leave", !.result = result])
       IN  /\ Put(r, x)
           /\ IF x.status = "completed" THEN leave("done")
              ELSE IF \/ x.status = "failed" \/ ready = {}
                      \/ \E t \in Tasks : x.task[t].status = "running"
                   THEN leave("blocked")
                   ELSE \/ leave("failed")
                        \/ \E t \in ready : Go(r, [Me(r) EXCEPT !.pc = "open", !.task = t])
    /\ UNCHANGED <<agents, flow, tree>>

Open(r) ==
    /\ Me(r).pc = "open" /\ CanOpen(r)
    /\ agents' = [agents EXCEPT ![r] = Append(@, NewAgent("recovery", Me(r).task))]
    /\ Go(r, [Me(r) EXCEPT !.pc = "start", !.recovery = Len(agents[r]) + 1,
                           !.kind = IF Mine(r).status = "queued" THEN "coding" ELSE "test"])
    /\ UNCHANGED <<run, idle, flow, tree>>

\* A child agent is recorded as running and gets to work.
Begins(r, x, agent) ==
    /\ Put(r, x)
    /\ agents' = [agents EXCEPT ![r] = Append(@, agent)]
    /\ Go(r, [Me(r) EXCEPT !.pc = "work", !.agent = Len(agents[r]) + 1,
                           !.patch = "none", !.hard = FALSE,
                           !.debugs = IF Me(r).kind = "debug" THEN @ + 1 ELSE @])
    /\ UNCHANGED <<flow, tree>>

StartCoding(r) ==
    /\ Me(r).pc = "start" /\ Me(r).kind = "coding" /\ CanStartCoding(r)
    /\ Begins(r, Advanced(SetTask(run[r], Me(r).task, "running", "coding_in_progress")),
                 NewAgent("coding", Me(r).task))

\* The tests name the newest patch of the task as the one they validate.
StartTests(r) ==
    /\ Me(r).pc = "start" /\ Me(r).kind = "test" /\ CanStartTests(r)
    /\ Begins(r, SetNote(run[r], Me(r).task, "tests_running"),
                 [NewAgent("test", Me(r).task) EXCEPT !.of = NewestApplied(r, Me(r).task)])

ClaimDebug(r) ==
    /\ Me(r).pc = "start" /\ Me(r).kind = "debug" /\ CanClaimDebug(r)
    /\ Begins(r, SetNote(run[r], Me(r).task, "debug_running"),
                 [NewAgent("debug", Me(r).task) EXCEPT !.recovery = Me(r).recovery])

\* The tree is written: files come, go and are ignored no longer.
Touched(r, patches) ==
    \E barred \in BOOLEAN :
        tree' = [tree EXCEPT ![r] = [version |-> @.version + 1,
                                     patches |-> @.patches + patches,
                                     barred |-> barred]]

\* A patch, or a part of it, reaches the tree.
Patched(r) == Touched(r, 1)

\* The child fails with the workspace as it was.  A debug attempt may do so
\* before the model is asked, at the diff of the tree.
WorkFails(r) ==
    /\ Me(r).pc = "work"
    /\ \E hard \in BOOLEAN :
          Go(r, [Me(r) EXCEPT !.pc = "fail", !.hard = hard \/ Me(r).kind # "debug"])
    /\ UNCHANGED <<run, agents, idle, flow, tree>>

\* The coding agent's patch is applied; what follows apply may still fail, but
\* it looks at the files of the patch only.
CodingApplies(r) ==
    /\ Me(r).pc = "work" /\ Me(r).kind = "coding"
    /\ Patched(r)
    /\ \/ \E p \in Patches : Go(r, [Me(r) EXCEPT !.pc = "record", !.patch = p])
       \/ Go(r, [Me(r) EXCEPT !.pc = "fail", !.hard = TRUE])
    /\ UNCHANGED <<run, agents, idle, flow>>

\* The commands run in the workspace, which they may write; its diff is taken
\* when they are done, and a report needs it.
TestsRun(r) ==
    /\ Me(r).pc = "work" /\ Me(r).kind = "test"
    /\ UNCHANGED tree \/ Touched(r, 0)
    /\ \/ /\ DiffReadable(r)'
          /\ \E passed \in BOOLEAN : Go(r, [Me(r) EXCEPT !.pc = "record", !.passed = passed])
       \/ Go(r, [Me(r) EXCEPT !.pc = "fail", !.hard = TRUE])
    /\ UNCHANGED <<run, agents, idle, flow>>

\* Variant with a bug: the patch of the coding agent is not compared.
RepeatedDebugOnly(r, p) == \E i \in DebugsOf(r) : agents[r][i].patch = p

Repeated(r, p) ==
    \/ \E i \in DebugsOf(r) : agents[r][i].patch = p
    \/ \E i \in AgentsOf(r) : /\ agents[r][i].type = "coding"
                              /\ agents[r][i].task = Me(r).task
                              /\ agents[r][i].patch = p

\* The model is shown the diff of the tree and answers, reserve_patch keeps the
\* fingerprint of the answer even if it is refused.
Reserve(r) ==
    /\ Me(r).pc = "work" /\ Me(r).kind = "debug" /\ InputsReady(r) /\ CanReserve(r)
    /\ \E p \in Patches :
          /\ agents' = [agents EXCEPT ![r][Me(r).agent].patch = p]
          /\ Go(r, [Me(r) EXCEPT !.pc = IF Repeated(r, p) THEN "fail" ELSE "apply", !.patch = p])
    /\ UNCHANGED <<run, idle, flow, tree>>

\* The debug agent's patch.  It is in the tree and the diff of the whole is
\* taken; or something fails after git apply has begun, which ends the
\* recovery; or a name in that diff is refused, which does not: the attempt
\* counts as failed and the next may begin.  Or the patch never reaches the
\* tree; a refusal lets the next attempt begin, git or the workspace failing
\* ends the recovery.
DebugApplies(r) ==
    /\ Me(r).pc = "apply"
    /\ LET failed(hard) == Go(r, [Me(r) EXCEPT !.pc = "fail", !.hard = hard])
       IN  \/ /\ Patched(r)
              /\ \/ DiffReadable(r)' /\ Go(r, [Me(r) EXCEPT !.pc = "record"])
                 \/ ~DiffReadable(r)' /\ failed(FALSE)
                 \/ failed(TRUE)
           \/ UNCHANGED tree /\ \E hard \in BOOLEAN : failed(hard)
    /\ UNCHANGED <<run, agents, idle, flow>>

\* The recovery after a test report or a failed repair.
Repair(w) ==
    IF ~w.passed /\ w.debugs < DebugLimit
    THEN [w EXCEPT !.pc = "start", !.kind = "debug"]
    ELSE [w EXCEPT !.pc = "close"]

Validate(w) == [w EXCEPT !.pc = "start", !.kind = "test"]

GiveUp(w) == [w EXCEPT !.pc = "close", !.passed = FALSE]

\* The child of r returns a result ("record") or has raised ("fail"); its row
\* gets the status, the task and the recovery go on as x and w.
Returns(r, agent, x, w) ==
    /\ Put(r, x)
    /\ agents' = [agents EXCEPT ![r][Me(r).agent] = agent]
    /\ Go(r, w)
    /\ UNCHANGED <<flow, tree>>

Child(r) == agents[r][Me(r).agent]

FinishCoding(r) ==
    /\ Me(r).kind = "coding" /\ CanFinishCoding(r)
    /\ \/ /\ Me(r).pc = "record"
          /\ Returns(r, [Ended(Child(r), "completed") EXCEPT !.patch = Me(r).patch],
                Advanced(SetNote(run[r], Me(r).task, "awaiting_validation")), Validate(Me(r)))
       \/ /\ Me(r).pc = "fail"
          /\ Returns(r, Ended(Child(r), "failed"),
                Advanced(SetTask(run[r], Me(r).task, "failed", "ended")), GiveUp(Me(r)))

FinishTests(r) ==
    /\ Me(r).kind = "test" /\ CanFinishTests(r)
    /\ LET passed == Me(r).pc = "record" /\ Me(r).passed
           note == IF passed THEN "tests_passed" ELSE "recovery_pending"
       IN  /\ Me(r).pc \in {"record", "fail"}
           /\ Returns(r,
                [Ended(Child(r), IF passed THEN "completed" ELSE "failed") EXCEPT
                    !.saw = IF Me(r).pc = "record" THEN tree[r].version ELSE @],
                Advanced(SetNote(run[r], Me(r).task, note)),
                IF Me(r).pc = "record" THEN Repair(Me(r)) ELSE GiveUp(Me(r)))

FinishDebug(r) ==
    /\ Me(r).kind = "debug" /\ CanFinishDebug(r)
    /\ \/ /\ Me(r).pc = "record"
          /\ Returns(r, Ended(Child(r), "completed"),
                SetNote(run[r], Me(r).task, "awaiting_validation"), Validate(Me(r)))
       \/ /\ Me(r).pc = "fail"
          /\ Returns(r, Ended(Child(r), "failed"),
                SetNote(run[r], Me(r).task, "recovery_pending"),
                IF Me(r).hard THEN GiveUp(Me(r)) ELSE Repair(Me(r)))

\* RecoveryRecords.finish.
Close(r) ==
    /\ Me(r).pc = "close" /\ CanClose(r)
    /\ LET status == IF Me(r).passed THEN "completed" ELSE "failed"
       IN  /\ Put(r, Advanced(SetTask(run[r], Me(r).task, status, "ended")))
           /\ agents' = [agents EXCEPT ![r][Me(r).recovery] = Ended(@, status)]
           /\ Go(r, [Me(r) EXCEPT !.pc = "leave",
                        !.result = IF Me(r).passed THEN "repeat" ELSE "blocked"])
    /\ UNCHANGED <<flow, tree>>

\* A transaction is refused by its guard, or fails; the exception that follows
\* is handled one level up.
Refused(r) ==
    LET w == Me(r)
        refuse(guard, next) == (~guard \/ Faults) /\ Go(r, next)
    IN  /\ \/ w.pc = "stage" /\ refuse(TRUE, [w EXCEPT !.pc = "leave"])
           \/ w.pc = "open" /\ refuse(CanOpen(r), [w EXCEPT !.pc = "leave"])
           \/ w.pc = "start" /\ refuse(CanStart(r), GiveUp(w))
           \/ /\ w.pc = "work" /\ w.kind = "debug"
              /\ refuse(CanReserve(r), [w EXCEPT !.pc = "fail", !.hard = TRUE])
           \/ w.pc = "record" /\ refuse(CanFinish(r), [w EXCEPT !.pc = "fail", !.hard = TRUE])
           \/ w.pc = "fail" /\ refuse(CanFinish(r), GiveUp(w))
           \/ w.pc = "close" /\ w.passed /\ refuse(CanClose(r), [w EXCEPT !.passed = FALSE])
           \/ w.pc = "close" /\ ~w.passed /\ refuse(CanClose(r), [w EXCEPT !.pc = "leave"])
        /\ UNCHANGED <<run, agents, idle, flow, tree>>

\* Workflow's finish; a worker that has been fenced finds its claim lost.
Leave(r) ==
    /\ Me(r).pc = "leave"
    /\ flow' = [flow EXCEPT ![r] =
                    IF @ # "active" THEN @
                    ELSE IF Me(r).result = "repeat" THEN "waiting" ELSE Me(r).result]
    /\ Go(r, NoWorker)
    /\ UNCHANGED <<run, agents, idle, tree>>

\* The process is killed, by its time limit or otherwise.
Crash(r) ==
    /\ Me(r).pc # "none"
    /\ Go(r, NoWorker)
    /\ UNCHANGED <<run, agents, idle, flow, tree>>

WorkerStep(r) ==
    \/ Stage(r) \/ Open(r)
    \/ StartCoding(r) \/ CodingApplies(r) \/ FinishCoding(r)
    \/ StartTests(r) \/ TestsRun(r) \/ FinishTests(r)
    \/ ClaimDebug(r) \/ Reserve(r) \/ DebugApplies(r) \/ FinishDebug(r)
    \/ WorkFails(r) \/ Refused(r) \/ Close(r) \/ Leave(r) \/ Crash(r)

Next ==
    \/ RecoverStale
    \/ \E r \in Runs :
          \/ Claim(r) \/ WorkerStep(r)
          \/ Reconcile(r) \/ CancelExecution(r) \/ CancelFlow(r)
          \/ ResumeFlow(r) \/ FenceFlow(r) \/ AgentAges(r) \/ RunAges(r)
          \/ \E t \in Tasks :
                \/ DispatcherTakes(r, t)
                \/ \E s \in {"completed", "failed"} : DispatcherReports(r, t, s)

Spec == Init /\ [][Next]_vars

\* Celery runs or kills a worker, Beat repeats its passes, clocks move.
Fairness ==
    /\ WF_vars(RecoverStale)
    /\ \A r \in Runs :
          /\ WF_vars(Claim(r)) /\ WF_vars(WorkerStep(r))
          /\ WF_vars(Reconcile(r)) /\ WF_vars(FenceFlow(r))
          /\ WF_vars(AgentAges(r)) /\ WF_vars(RunAges(r))

FairSpec == Spec /\ Fairness

-----------------------------------------------------------------------------
(* Properties *)

Notes ==
    {"none", "coding_in_progress", "awaiting_validation", "tests_running",
     "recovery_pending", "debug_running", "tests_passed", "ended"}

RunRecords ==
    [status : RunStates, deps : Plans,
     task : [Tasks -> [status : TaskStates, note : Notes]]]

AgentRecords ==
    [type : {"recovery", "coding", "test", "debug"}, task : Tasks,
     status : {"running", "completed", "failed"}, old : BOOLEAN, patch : Patches \cup {"none"},
     of : Nat, saw : Nat \cup {-1}, recovery : Nat]

WorkerRecords ==
    [pc : {"none", "stage", "open", "start", "work", "apply", "record", "fail",
           "close", "leave"},
     task : Tasks, recovery : Nat, kind : {"coding", "test", "debug"},
     agent : Nat, patch : Patches \cup {"none"}, debugs : 0..DebugLimit,
     hard : BOOLEAN, passed : BOOLEAN, result : {"blocked", "failed", "done", "repeat"}]

(* Type invariant: the rows, the ages, the trees and the workers have their
   types; a recovery never starts more debug attempts than its limit. *)
TypeOK ==
    /\ run \in [Runs -> RunRecords]
    /\ agents \in [Runs -> Seq(AgentRecords)]
    /\ idle \subseteq Runs
    /\ flow \in [Runs -> {"none", "waiting", "active", "failed", "blocked", "done", "cancelled"}]
    /\ tree \in [Runs -> [version : Nat, patches : Nat, barred : BOOLEAN]]
    /\ worker \in [Runs -> WorkerRecords]

(* A task is queued, running or completed only if every task it depends on is
   completed: nothing is built on work that failed, was blocked or cancelled,
   whoever moves the tasks and in whatever order. *)
OnlyReadyTasksStart ==
    \A r \in Runs, t \in Tasks :
        Status(r, t) \in {"queued", "running", "completed"} =>
            \A p \in run[r].deps[t] : Status(r, p) = "completed"

(* The run's status tells the truth about its tasks: an ended run has nothing
   left to do, it is completed exactly when all its tasks are, and a run that
   has not ended has some task that can still move. *)
RunReflectsTasks ==
    \A r \in Runs :
        /\ run[r].status \in EndedRun <=>
              \A t \in Tasks : Status(r, t) \in TERMINAL \cup {"cancelled"}
        /\ run[r].status = "completed" <=> \A t \in Tasks : Status(r, t) = "completed"

(* Rows of each run have their types and agree with each other, after every mix of
   passes, recoveries, fences and cancellations. *)
WellFormed == TypeOK /\ RunReflectsTasks

(* A run has at most one recovery at work, on a task that is queued, running or
   was failed by its coding agent and not yet given up; a workflow's task that
   is running always has one, so no task is running with nobody to end it. *)
RecoveryOwnsTask ==
    \A r \in Runs :
        /\ Cardinality({i \in Running(r) : agents[r][i].type = "recovery"}) <= 1
        /\ \A i \in Running(r) :
              agents[r][i].type = "recovery" =>
                 Status(r, agents[r][i].task) \in {"queued", "running", "failed"}
        /\ \A t \in Tasks :
              Status(r, t) = "running" /\ flow[r] # "none" => ActiveRecovery(r, t) # {}

(* A workflow's task becomes completed only on evidence: its newest tests have
   passed, they were of its newest patch, they saw the working tree as it is
   now, and the workflow still holds the claim under which they ran. *)
CompletedOnEvidence ==
    [][\A r \in Runs, t \in Tasks :
          Status(r, t)' = "completed" /\ Status(r, t) # "completed" /\ flow[r] # "none" =>
             /\ flow[r] = "active"
             /\ \E i \in AgentsOf(r) :
                   /\ agents[r][i].type = "test" /\ agents[r][i].task = t
                   /\ agents[r][i].status = "completed"
                   /\ agents[r][i].of \in Applied(r, t)
                   /\ \A j \in Applied(r, t) : j <= agents[r][i].of
                   /\ agents[r][i].saw = tree[r].version
                   /\ \A j \in (i + 1)..Len(agents[r]) : agents[r][j].type = "recovery"
      ]_vars

(* No proposal is part of a task twice: a debug attempt never applies again
   what the coding agent or an earlier attempt has applied. *)
PatchesDistinct ==
    \A r \in Runs, t \in Tasks :
        \A i, j \in Applied(r, t) : agents[r][i].patch = agents[r][j].patch => i = j

(* A patch reaches a working tree only while every earlier patch in it is one
   that a completed agent accounts for: after an application that stopped half
   way, whose record was lost or whose diff was refused, the tree is left for
   inspection, also where the recovery goes on to its next attempt. *)
NoPatchOnUncertainTree ==
    [][\A r \in Runs :
          tree'[r].patches # tree[r].patches =>
             tree[r].patches =
                Cardinality({i \in AgentsOf(r) : /\ agents[r][i].type \in {"coding", "debug"}
                                                 /\ agents[r][i].status = "completed"})]_vars

(* What has ended stays as it is: no late worker, pass or request moves an ended
   task, agent or run again. *)
EndedStaysEnded ==
    [][\A r \in Runs :
          /\ run[r].status \in EndedRun => run'[r].status = run[r].status
          /\ \A t \in Tasks : Status(r, t) \in TERMINAL \cup {"cancelled"} =>
                Status(r, t)' = Status(r, t)
          /\ \A i \in AgentsOf(r) \ Running(r) :
                agents'[r][i].status = agents[r][i].status]_vars

(* An agent that is running is completed or failed some day, and a claim on the stage
   ends, also when the worker died or could not record its end: nothing stands in
   the way of a resumption or a cancellation for ever. *)
AgentsEnd ==
    \A r \in Runs :
        /\ Running(r) # {} ~> Running(r) = {}
        /\ flow[r] = "active" ~> flow[r] # "active"

(* Work that has exceeded its bound is stopped: "stale active tasks fail closed". *)
StaleWorkEnds == \A r \in Runs : Stale(r) ~> Running(r) = {}
=============================================================================
