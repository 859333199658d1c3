------------------------- MODULE ExecutionProofs -------------------------
(***************************************************************************)
(* Proofs about Execution.  The runs do not share anything, so that the    *)
(* invariant is one about the rows, agents, workflow, tree and worker of   *)
(* one run, and it is stated of their values x, A, f, T and w.             *)
(***************************************************************************)
EXTENDS Execution, FiniteSetTheorems, WellFoundedInduction, TLAPS

Done(s) == s \in TERMINAL \cup {"cancelled"}
Over(x) == x.status \in EndedRun

Live(A) == {i \in 1..Len(A) : A[i].status = "running"}
Made(A) == {i \in 1..Len(A) : A[i].type \in {"coding", "debug"} /\ A[i].status = "completed"}

\* What a pass needs of the run row, which a task of it has just left: a run that has
\* ended has no more work, only a cancelled run has cancelled tasks, and no task has
\* started before its parents were completed.
BeforePass(x) ==
    /\ x.status \in {"failed", "cancelled"} =>
          /\ \A t \in Tasks : Done(x.task[t].status)
          /\ \E t \in Tasks : x.task[t].status # "completed"
    /\ x.status = "completed" => \A t \in Tasks : x.task[t].status = "completed"
    /\ \A t \in Tasks : x.task[t].status = "cancelled" => x.status = "cancelled"
    /\ \A t \in Tasks : x.task[t].status \in {"queued", "running", "completed"} =>
          \A p \in x.deps[t] : x.task[p].status = "completed"

\* With the pass, the run has ended when its tasks have.
RowInv(x) ==
    /\ BeforePass(x)
    /\ (\A t \in Tasks : Done(x.task[t].status)) => Over(x)
    /\ (\A t \in Tasks : x.task[t].status = "completed") => x.status = "completed"

\* A recovery runs until its task has ended.  Only a task that was taken has other
\* agents; a task has one recovery, to which its repairs belong, and a run has one that
\* is running.  The patches of a task differ.
AgentInv(x, A) ==
    /\ \A i \in 1..Len(A) :
          /\ A[i].type = "recovery" /\ A[i].status = "running" =>
                x.task[A[i].task].status \in {"queued", "running", "failed"}
          /\ A[i].type = "recovery" /\ A[i].status # "running" =>
                Done(x.task[A[i].task].status)
          /\ A[i].type # "recovery" => x.task[A[i].task].status \notin {"pending", "queued"}
          /\ A[i].type = "debug" =>
                /\ A[i].recovery \in 1..Len(A)
                /\ A[A[i].recovery].type = "recovery"
                /\ A[A[i].recovery].task = A[i].task
    /\ \A i, j \in 1..Len(A) :
          A[i].type = "recovery" /\ A[j].type = "recovery" =>
             /\ A[i].task = A[j].task => i = j
             /\ A[i].status = "running" /\ A[j].status = "running" => i = j
    /\ \A i, j \in Made(A) : A[i].task = A[j].task /\ A[i].patch = A[j].patch => i = j

\* Every patch in the tree is that of a completed agent.
Certain(A, T) == T.patches = Cardinality(Made(A))

\* The tree is certain, or its diff is refused to the debug agent that would patch it.
Held(A, T, w) == Certain(A, T) \/ (w.kind = "debug" /\ T.barred)

\* What the workflow tells of its run: between two claims nothing is left running and
\* the tree is certain; a worker whose claim was taken away finds nothing to do.
FlowInv(x, A, f, T, w) ==
    /\ f = "none" => A = <<>> /\ w.pc = "none"
    /\ f # "none" => \A t \in Tasks : x.task[t].status = "running" =>
          \E i \in Live(A) : A[i].type = "recovery" /\ A[i].task = t
    /\ f \notin {"active", "blocked"} => Live(A) = {}
    /\ f \in {"waiting", "failed", "done"} => w.pc = "none"
    /\ f \in {"waiting", "failed"} => Certain(A, T)
    /\ w.pc # "none" /\ f # "active" => Over(x) /\ Live(A) = {}

Owning == {"start", "work", "apply", "record", "fail", "close"}
AtWork == {"work", "apply", "record", "fail"}

\* No completed agent has given task t the patch p.
New(A, t, p) == \A j \in Made(A) : A[j].task = t => A[j].patch # p

\* Agent i tests the newest patch of task t.
Tests(A, i, t) ==
    /\ A[i].type = "test" /\ A[i].task = t
    /\ A[i].of \in Made(A) /\ A[A[i].of].task = t
    /\ \A j \in Made(A) : A[j].task = t => j <= A[i].of

\* The worker owns the only recovery that runs, ...
OwnerInv(x, A, w) ==
    /\ w.pc \in {"stage", "open"} => Live(A) = {}
    /\ w.pc \in Owning =>
          /\ w.recovery \in 1..Len(A)
          /\ A[w.recovery].type = "recovery" /\ A[w.recovery].task = w.task
          /\ \A i \in Live(A) : A[i].type = "recovery" => i = w.recovery
          /\ ~Over(x) => A[w.recovery].status = "running"
    /\ w.pc = "start" => Live(A) \subseteq {w.recovery}
    /\ w.pc = "start" /\ w.kind = "debug" => w.debugs < DebugLimit
    /\ w.pc = "apply" => w.kind = "debug"
    /\ w.pc # "leave" => w.result = "blocked"
    /\ w.pc = "leave" /\ w.result # "blocked" => Live(A) = {}

\* ... its child is the newest agent, whose row agrees with what the worker knows, ...
ChildInv(A, T, w) ==
    /\ w.pc \in AtWork =>
          /\ w.agent = Len(A) /\ Len(A) # 0
          /\ A[w.agent].type = w.kind /\ A[w.agent].task = w.task
          /\ A[w.agent].status # "completed"
          /\ Live(A) \subseteq {w.recovery, w.agent}
          /\ w.kind = "coding" => \A j \in Made(A) : A[j].task # w.task
          /\ w.kind = "test" => Tests(A, w.agent, w.task)
    /\ w.pc \in {"apply", "record"} /\ w.kind = "debug" =>
          A[w.agent].patch = w.patch /\ New(A, w.task, w.patch)
    /\ w.passed => w.kind = "test" /\ w.pc \in {"record", "fail", "close", "leave"}
    /\ w.pc = "close" /\ w.passed =>
          /\ w.agent = Len(A) /\ Len(A) # 0
          /\ Tests(A, w.agent, w.task)
          /\ A[w.agent].status = "completed" /\ A[w.agent].saw = T.version
          /\ Live(A) \subseteq {w.recovery}

\* ... and it knows how certain the tree is.
TreeInv(A, T, w) ==
    /\ w.pc \in {"stage", "open", "apply"} => Certain(A, T)
    /\ w.pc \in {"start", "work"} => Held(A, T, w)
    /\ w.pc = "record" /\ w.kind = "test" => Certain(A, T)
    /\ w.pc = "record" /\ w.kind # "test" => T.patches = Cardinality(Made(A)) + 1
    /\ w.pc = "work" => ~w.hard
    /\ w.pc = "apply" => ~w.hard
    /\ w.pc = "fail" /\ ~w.hard => w.kind = "debug" /\ Held(A, T, w)
    /\ w.pc = "close" /\ w.passed => Certain(A, T)
    /\ w.pc = "leave" /\ w.result # "blocked" => Certain(A, T)

Rest(x, A, f, T, w) ==
    /\ AgentInv(x, A) /\ FlowInv(x, A, f, T, w)
    /\ OwnerInv(x, A, w) /\ ChildInv(A, T, w) /\ TreeInv(A, T, w)

Good(x, A, f, T, w) == RowInv(x) /\ Rest(x, A, f, T, w)

Inv == TypeOK /\ \A r \in Runs : Good(run[r], agents[r], flow[r], tree[r], worker[r])

-----------------------------------------------------------------------------
(* Passes, rows and lists of agents *)

\* A pass moves tasks that are pending, and queues one whose parents are completed.
LEMMA PassMoves ==
  ASSUME NEW deps \in [Tasks -> SUBSET Tasks], NEW st \in [Tasks -> TaskStates]
  PROVE  /\ Advance(deps, st) \in [Tasks -> TaskStates]
         /\ \A t \in Tasks :
               IF st[t] = "pending"
               THEN /\ Advance(deps, st)[t] \in {"pending", "queued", "blocked"}
                    /\ Advance(deps, st)[t] = "queued" =>
                          \A p \in deps[t] : st[p] = "completed"
               ELSE Advance(deps, st)[t] = st[t]
  BY DEF Advance, Ready, Doomed, Pending, TaskStates

\* The run's row after a pass, as the other rows see it.
Passed(x, y) ==
    /\ y \in RunRecords /\ RowInv(y)
    /\ Over(x) => y.status = x.status
    /\ \A t \in Tasks :
          IF x.task[t].status = "pending"
          THEN y.task[t].status \in {"pending", "queued", "blocked"}
          ELSE y.task[t].status = x.task[t].status

LEMMA PassRow ==
  ASSUME NEW x \in RunRecords, BeforePass(x) PROVE Passed(x, Advanced(x))
<1> DEFINE st == [t \in Tasks |-> x.task[t].status]
           new == Advance(x.deps, st)
           tasks == [t \in Tasks |-> [x.task[t] EXCEPT !.status = new[t]]]
           status == IF \A t \in Tasks : new[t] = "completed" THEN "completed"
                     ELSE IF \A t \in Tasks : new[t] \in TERMINAL THEN "failed"
                     ELSE "running"
           y == [x EXCEPT !.task = tasks, !.status = status]
<1>1. st \in [Tasks -> TaskStates] /\ x.deps \in [Tasks -> SUBSET Tasks]
  BY PlansAssumption DEF RunRecords
<1>2. /\ new \in [Tasks -> TaskStates]
      /\ \A t \in Tasks :
            IF x.task[t].status = "pending"
            THEN /\ new[t] \in {"pending", "queued", "blocked"}
                 /\ new[t] = "queued" => \A p \in x.deps[t] : x.task[p].status = "completed"
            ELSE new[t] = x.task[t].status
  <2> HIDE DEF st
  <2>1. /\ new \in [Tasks -> TaskStates]
        /\ \A t \in Tasks :
              IF st[t] = "pending"
              THEN /\ new[t] \in {"pending", "queued", "blocked"}
                   /\ new[t] = "queued" => \A p \in x.deps[t] : st[p] = "completed"
              ELSE new[t] = st[t]
    BY <1>1, PassMoves
  <2>2. \A t \in Tasks : st[t] = x.task[t].status
    BY DEF st
  <2> QED BY <1>1, <2>1, <2>2
<1>3. CASE x.status \in {"failed", "cancelled"}
  <2>1. Advanced(x) = x
    BY <1>3 DEF Advanced
  <2>2. RowInv(x)
    BY <1>3 DEF RowInv, BeforePass, Over, EndedRun
  <2> QED BY <2>1, <2>2 DEF Passed
<1>4. CASE x.status \notin {"failed", "cancelled"}
  <2>1. Advanced(x) = y
    BY <1>4 DEF Advanced
  <2> HIDE DEF new
  <2>2. /\ tasks \in [Tasks -> [status : TaskStates, note : Notes]]
        /\ \A t \in Tasks : tasks[t].status = new[t]
    BY <1>2 DEF RunRecords
  <2>3. status \in {"completed", "failed", "running"}
    OBVIOUS
  <2> HIDE DEF tasks
  <2>4. /\ y \in RunRecords /\ y.deps = x.deps /\ y.status = status
        /\ \A t \in Tasks : y.task[t].status = new[t]
    BY <2>2, <2>3 DEF RunRecords, RunStates
  <2>5. \A t \in Tasks : new[t] # "cancelled"
    BY <1>2, <1>4 DEF BeforePass
  <2>6. \A t \in Tasks : new[t] \in {"queued", "running", "completed"} =>
           \A p \in x.deps[t] : new[p] = "completed"
    BY <1>1, <1>2 DEF BeforePass
  <2>7. x.status = "completed" => status = "completed"
    BY <1>2 DEF BeforePass
  <2>8. BeforePass(y)
    <3>1. /\ status = "failed" => /\ \A t \in Tasks : new[t] \in TERMINAL
                                  /\ \E t \in Tasks : new[t] # "completed"
          /\ status = "completed" => \A t \in Tasks : new[t] = "completed"
          /\ status # "cancelled"
      OBVIOUS
    <3>2. \A t \in Tasks : x.deps[t] \subseteq Tasks
      BY <1>1
    <3> HIDE DEF status, y
    <3> QED BY <2>4, <2>5, <2>6, <3>1, <3>2 DEF BeforePass, Done
  <2>9. RowInv(y)
    BY <2>4, <2>5, <2>8 DEF RowInv, Done, Over, EndedRun
  <2> QED BY <1>2, <1>4, <2>1, <2>4, <2>7, <2>9 DEF Passed, Over, EndedRun
<1> QED BY <1>3, <1>4

\* A row of one task is written.
LEMMA TaskSet ==
  ASSUME NEW x \in RunRecords, NEW t \in Tasks, NEW s \in TaskStates, NEW n \in Notes
  PROVE  /\ SetTask(x, t, s, n) \in RunRecords
         /\ SetTask(x, t, s, n).status = x.status /\ SetTask(x, t, s, n).deps = x.deps
         /\ SetTask(x, t, s, n).task[t].status = s
         /\ \A u \in Tasks : u # t => SetTask(x, t, s, n).task[u] = x.task[u]
  BY DEF RunRecords, SetTask

LEMMA NoteSet ==
  ASSUME NEW x \in RunRecords, NEW t \in Tasks, NEW n \in Notes
  PROVE  /\ SetNote(x, t, n) \in RunRecords
         /\ SetNote(x, t, n).status = x.status /\ SetNote(x, t, n).deps = x.deps
         /\ \A u \in Tasks : SetNote(x, t, n).task[u].status = x.task[u].status
  BY DEF RunRecords, SetNote

LEMMA AgentTypes ==
  ASSUME NEW A \in Seq(AgentRecords)
  PROVE  /\ \A i \in 1..Len(A) : A[i].task \in Tasks
         /\ Made(A) \subseteq 1..Len(A) /\ Live(A) \subseteq 1..Len(A)
<1>1. \A i \in 1..Len(A) : A[i] \in AgentRecords
  OBVIOUS
<1>2. \A i \in 1..Len(A) : A[i].task \in Tasks
  BY <1>1 DEF AgentRecords
<1> QED BY <1>2 DEF Made, Live

\* The patches of a list of agents can be counted.
LEMMA MadeFinite ==
  ASSUME NEW A \in Seq(AgentRecords)
  PROVE  IsFiniteSet(Made(A)) /\ Cardinality(Made(A)) \in Nat
<1>1. IsFiniteSet(1..Len(A))
  BY FS_Interval
<1>2. Made(A) \subseteq 1..Len(A)
  BY DEF Made
<1> QED BY <1>1, <1>2, FS_Subset, FS_CardinalityType

\* A new agent, which is running,
LEMMA AgentAdded ==
  ASSUME NEW A \in Seq(AgentRecords), NEW a \in AgentRecords, a.status = "running"
  PROVE  /\ Append(A, a) \in Seq(AgentRecords) /\ Len(Append(A, a)) = Len(A) + 1
         /\ \A i \in 1..Len(A) : Append(A, a)[i] = A[i]
         /\ Append(A, a)[Len(A) + 1] = a
         /\ Live(Append(A, a)) = Live(A) \cup {Len(A) + 1}
         /\ Made(Append(A, a)) = Made(A)
<1> DEFINE B == Append(A, a)
<1>1. /\ B \in Seq(AgentRecords) /\ Len(B) = Len(A) + 1 /\ B[Len(A) + 1] = a
      /\ \A i \in 1..Len(A) : B[i] = A[i]
  OBVIOUS
<1> HIDE DEF B
<1>2. Live(B) = Live(A) \cup {Len(A) + 1} /\ Made(B) = Made(A)
  BY <1>1 DEF Live, Made
<1> QED BY <1>1, <1>2 DEF B

\* and one that changes.
LEMMA AgentSet ==
  ASSUME NEW A \in Seq(AgentRecords), NEW k \in 1..Len(A), NEW a \in AgentRecords
  PROVE  /\ [A EXCEPT ![k] = a] \in Seq(AgentRecords) /\ Len([A EXCEPT ![k] = a]) = Len(A)
         /\ [A EXCEPT ![k] = a][k] = a
         /\ \A i \in 1..Len(A) : i # k => [A EXCEPT ![k] = a][i] = A[i]
  OBVIOUS

\* An agent that was running ends; if it has given a patch, that is one more.
LEMMA AgentEnded ==
  ASSUME NEW A \in Seq(AgentRecords), NEW B \in Seq(AgentRecords), NEW k \in Live(A),
         Len(B) = Len(A), \A i \in 1..Len(A) : i # k => B[i] = A[i],
         B[k].type = A[k].type, B[k].status \in {"completed", "failed"}
  PROVE  /\ Live(B) = Live(A) \ {k}
         /\ k \notin Made(A)
         /\ A[k].type \in {"coding", "debug"} /\ B[k].status = "completed" =>
               /\ Made(B) = Made(A) \cup {k}
               /\ Cardinality(Made(B)) = Cardinality(Made(A)) + 1
         /\ A[k].type \notin {"coding", "debug"} \/ B[k].status = "failed" =>
               Made(B) = Made(A)
<1>1. /\ Live(B) = Live(A) \ {k} /\ k \notin Made(A)
      /\ A[k].type \in {"coding", "debug"} /\ B[k].status = "completed" =>
            Made(B) = Made(A) \cup {k}
      /\ A[k].type \notin {"coding", "debug"} \/ B[k].status = "failed" => Made(B) = Made(A)
  BY DEF Live, Made
<1>2. Cardinality(Made(A) \cup {k}) = Cardinality(Made(A)) + 1
  BY <1>1, MadeFinite, FS_AddElement
<1> QED BY <1>1, <1>2

LEMMA EndedAgent ==
  ASSUME NEW a \in AgentRecords, NEW s \in {"completed", "failed"}
  PROVE  /\ Ended(a, s) \in AgentRecords /\ Ended(a, s).status = s
         /\ Ended(a, s).type = a.type /\ Ended(a, s).task = a.task
         /\ Ended(a, s).patch = a.patch /\ Ended(a, s).of = a.of
         /\ Ended(a, s).saw = a.saw /\ Ended(a, s).recovery = a.recovery
  BY DEF Ended, AgentRecords

LEMMA FreshAgent ==
  ASSUME NEW type \in {"recovery", "coding", "test", "debug"}, NEW t \in Tasks
  PROVE  /\ NewAgent(type, t) \in AgentRecords /\ NewAgent(type, t).status = "running"
         /\ NewAgent(type, t).type = type /\ NewAgent(type, t).task = t
  BY DEF NewAgent, AgentRecords, NoAgent

-----------------------------------------------------------------------------
(* What the steps that are not a transaction of the worker do to one run *)

\* A pass.
LEMMA PassKeeps ==
  ASSUME NEW x \in RunRecords, NEW A \in Seq(AgentRecords), NEW f, NEW T,
         NEW w \in WorkerRecords, Rest(x, A, f, T, w), NEW y, Passed(x, y)
  PROVE  Good(y, A, f, T, w)
<1>1. \A i \in 1..Len(A) : A[i].task \in Tasks
  BY AgentTypes
<1>2. Over(x) => Over(y)
  BY DEF Passed, Over
<1>3. \A t \in Tasks :
         /\ Done(x.task[t].status) => y.task[t].status = x.task[t].status
         /\ x.task[t].status \in {"queued", "running", "failed"} =>
               y.task[t].status = x.task[t].status
         /\ x.task[t].status \notin {"pending", "queued"} =>
               y.task[t].status = x.task[t].status
         /\ y.task[t].status = "running" => x.task[t].status = "running"
  BY DEF Passed, Done, TERMINAL
<1>4. AgentInv(y, A)
  BY <1>1, <1>3 DEF Rest, AgentInv
<1>5. FlowInv(y, A, f, T, w)
  BY <1>2, <1>3 DEF Rest, FlowInv
<1>6. OwnerInv(y, A, w)
  BY <1>2 DEF Rest, OwnerInv
<1> QED BY <1>4, <1>5, <1>6 DEF Good, Rest, Passed

\* What stop_locked does.
Halted(x, A, y, B) ==
    /\ y \in RunRecords /\ B \in Seq(AgentRecords)
    /\ RowInv(y) /\ Over(y) /\ Live(B) = {} /\ Made(B) = Made(A) /\ Len(B) = Len(A)
    /\ Over(x) => y.status = x.status
    /\ \A t \in Tasks :
          /\ Done(y.task[t].status)
          /\ Done(x.task[t].status) => y.task[t].status = x.task[t].status
          /\ y.task[t].status = "completed" => x.task[t].status = "completed"
    /\ \A i \in 1..Len(A) :
          /\ B[i].type = A[i].type /\ B[i].task = A[i].task /\ B[i].patch = A[i].patch
          /\ B[i].of = A[i].of /\ B[i].saw = A[i].saw /\ B[i].recovery = A[i].recovery
          /\ IF A[i].status = "running" THEN B[i].status = "failed"
             ELSE B[i].status = A[i].status

LEMMA StopHalts ==
  ASSUME Inv, NEW r \in Runs, NEW cancelled \in BOOLEAN, ~cancelled \/ Running(r) = {}
  PROVE  Halted(run[r], agents[r], StoppedRun(r, cancelled), StoppedAgents(r, cancelled))
<1> DEFINE x == run[r]
           A == agents[r]
<1>1. x \in RunRecords /\ A \in Seq(AgentRecords) /\ RowInv(x) /\ Running(r) = Live(A)
  BY DEF Inv, TypeOK, Good, Running, AgentsOf, Live
<1>2. CASE NothingToStop(r, cancelled)
  <2>1. StoppedRun(r, cancelled) = x /\ StoppedAgents(r, cancelled) = A
    BY <1>2 DEF StoppedRun, StoppedAgents
  <2>2. Over(x) /\ Live(A) = {}
    BY <1>1, <1>2 DEF NothingToStop, Over
  <2>3. \A t \in Tasks : Done(x.task[t].status)
    BY <1>1, <2>2 DEF RowInv, BeforePass, Over, EndedRun, Done, TERMINAL
  <2> QED BY <1>1, <2>1, <2>2, <2>3 DEF Halted, Live
<1>3. CASE ~NothingToStop(r, cancelled)
  <2> DEFINE tasks == [t \in Tasks |->
                          [x.task[t] EXCEPT !.status = StoppedTask(@, cancelled)]]
             status == IF x.status \in EndedRun THEN x.status
                       ELSE IF cancelled THEN "cancelled" ELSE "failed"
             y == StoppedRun(r, cancelled)
             B == StoppedAgents(r, cancelled)
  <2>1. y = [x EXCEPT !.task = tasks, !.status = status]
    BY <1>3 DEF StoppedRun
  <2>2. B = [i \in 1..Len(A) |->
                IF i \in Live(A) THEN Ended(A[i], "failed") ELSE A[i]]
    BY <1>1, <1>3 DEF StoppedAgents, AgentsOf
  <2> HIDE DEF y, B
  <2>3. \A s \in TaskStates :
           /\ StoppedTask(s, cancelled) \in TaskStates /\ Done(StoppedTask(s, cancelled))
           /\ Done(s) => StoppedTask(s, cancelled) = s
           /\ StoppedTask(s, cancelled) = "completed" => s = "completed"
           /\ ~cancelled /\ s # "cancelled" => StoppedTask(s, cancelled) # "cancelled"
    BY DEF StoppedTask, TaskStates, TERMINAL, Done
  <2>4. /\ tasks \in [Tasks -> [status : TaskStates, note : Notes]]
        /\ \A t \in Tasks : tasks[t].status = StoppedTask(x.task[t].status, cancelled)
    BY <1>1, <2>3 DEF RunRecords
  <2> HIDE DEF tasks
  <2>5. status \in RunStates /\ status \in EndedRun
    BY <1>1 DEF RunRecords, RunStates, EndedRun
  <2>6. /\ y \in RunRecords /\ y.deps = x.deps /\ y.status = status
        /\ \A t \in Tasks : y.task[t].status = StoppedTask(x.task[t].status, cancelled)
    BY <1>1, <2>1, <2>4, <2>5 DEF RunRecords
  <2>7. \A t \in Tasks : x.task[t].status \in TaskStates
    BY <1>1 DEF RunRecords
  <2>8. \A t \in Tasks :
           /\ Done(y.task[t].status)
           /\ Done(x.task[t].status) => y.task[t].status = x.task[t].status
           /\ y.task[t].status = "completed" => x.task[t].status = "completed"
    BY <2>3, <2>6, <2>7
  <2>9. Over(y) /\ (Over(x) => y.status = x.status)
    BY <2>5, <2>6 DEF Over
  <2>10. RowInv(y)
    <3>1. \A t \in Tasks : x.deps[t] \subseteq Tasks
      BY <1>1, PlansAssumption DEF RunRecords
    <3>2. \A t \in Tasks : y.task[t].status \in {"queued", "running", "completed"} =>
             \A p \in y.deps[t] : y.task[p].status = "completed"
      <4> SUFFICES ASSUME NEW t \in Tasks,
                          y.task[t].status \in {"queued", "running", "completed"},
                          NEW p \in y.deps[t]
                   PROVE  y.task[p].status = "completed"
        OBVIOUS
      <4>1. y.task[t].status = "completed"
        BY <2>8 DEF Done, TERMINAL
      <4>2. x.task[p].status = "completed" /\ p \in Tasks
        BY <1>1, <2>6, <2>8, <3>1, <4>1 DEF RowInv, BeforePass
      <4> QED BY <2>8, <4>2 DEF Done, TERMINAL
    <3>3. CASE Over(x)
      <4>1. \A t \in Tasks : y.task[t].status = x.task[t].status
        BY <1>1, <2>8, <3>3 DEF RowInv, BeforePass, Over, EndedRun, Done, TERMINAL
      <4> QED BY <1>1, <2>9, <3>2, <3>3, <4>1 DEF RowInv, BeforePass
    <3>4. CASE ~Over(x)
      <4>1. y.status = IF cancelled THEN "cancelled" ELSE "failed"
        BY <2>6, <3>4 DEF Over
      <4>2. \E t \in Tasks : y.task[t].status # "completed"
        BY <1>1, <2>8, <3>4 DEF RowInv, Done, TERMINAL
      <4>3. \A t \in Tasks : x.task[t].status # "cancelled"
        BY <1>1, <3>4 DEF RowInv, BeforePass, Over, EndedRun
      <4>4. \A t \in Tasks : y.task[t].status = "cancelled" => y.status = "cancelled"
        BY <2>3, <2>6, <2>7, <4>1, <4>3
      <4> QED BY <2>8, <2>9, <3>2, <4>1, <4>2, <4>4 DEF RowInv, BeforePass
    <3> QED BY <3>3, <3>4
  <2>11. /\ B \in [1..Len(A) -> AgentRecords]
         /\ \A i \in 1..Len(A) :
               /\ B[i].type = A[i].type /\ B[i].task = A[i].task /\ B[i].patch = A[i].patch
               /\ B[i].of = A[i].of /\ B[i].saw = A[i].saw /\ B[i].recovery = A[i].recovery
               /\ IF A[i].status = "running" THEN B[i].status = "failed"
                  ELSE B[i].status = A[i].status
    BY <1>1, <2>2, EndedAgent DEF Live
  <2>12. B \in Seq(AgentRecords) /\ Len(B) = Len(A)
    BY <1>1, <2>11
  <2>13. Live(B) = {} /\ Made(B) = Made(A)
    BY <2>11, <2>12 DEF Live, Made
  <2> QED BY <2>6, <2>8, <2>9, <2>10, <2>11, <2>12, <2>13 DEF Halted, y, B
<1> QED BY <1>2, <1>3

\* A run that is halted, maybe with the workflow that owns it.
LEMMA HaltKeeps ==
  ASSUME NEW x \in RunRecords, NEW A \in Seq(AgentRecords), NEW f, NEW T,
         NEW w \in WorkerRecords, Rest(x, A, f, T, w), NEW y, NEW B, Halted(x, A, y, B),
         NEW g, g = f \/ (f # "none" /\ g \in {"blocked", "cancelled"})
  PROVE  Good(y, B, g, T, w)
<1>1. /\ y \in RunRecords /\ B \in Seq(AgentRecords) /\ RowInv(y) /\ Over(y) /\ Live(B) = {}
      /\ Made(B) = Made(A) /\ Len(B) = Len(A) /\ (Over(x) => y.status = x.status)
      /\ \A t \in Tasks :
            /\ Done(y.task[t].status)
            /\ Done(x.task[t].status) => y.task[t].status = x.task[t].status
      /\ \A i \in 1..Len(A) :
            /\ B[i].type = A[i].type /\ B[i].task = A[i].task /\ B[i].patch = A[i].patch
            /\ B[i].of = A[i].of /\ B[i].saw = A[i].saw /\ B[i].recovery = A[i].recovery
            /\ B[i].status # "running"
            /\ A[i].status # "running" => B[i].status = A[i].status
            /\ A[i].status # "completed" => B[i].status # "completed"
  BY DEF Halted
<1>2. \A i \in 1..Len(A) : A[i].task \in Tasks
  BY AgentTypes
<1>3. AgentInv(y, B)
  <2>1. \A i, j \in Made(B) : B[i].task = B[j].task /\ B[i].patch = B[j].patch => i = j
    BY <1>1 DEF Rest, AgentInv, Made
  <2>2. \A i, j \in 1..Len(B) :
           B[i].type = "recovery" /\ B[j].type = "recovery" =>
              /\ B[i].task = B[j].task => i = j
              /\ B[i].status = "running" /\ B[j].status = "running" => i = j
    BY <1>1 DEF Rest, AgentInv
  <2>3. \A i \in 1..Len(B) : B[i].status # "running" /\ Done(y.task[B[i].task].status)
    <3>1. \A i \in 1..Len(B) : B[i].status # "running"
      BY <1>1 DEF Live
    <3> QED BY <1>1, <1>2, <3>1
  <2>4. \A i \in 1..Len(B) :
           B[i].type = "debug" =>
              /\ B[i].recovery \in 1..Len(B)
              /\ B[B[i].recovery].type = "recovery"
              /\ B[B[i].recovery].task = B[i].task
    BY <1>1 DEF Rest, AgentInv
  <2> QED BY <2>1, <2>2, <2>3, <2>4 DEF AgentInv, Done, TERMINAL
<1>4. /\ Certain(B, T) = Certain(A, T)
      /\ \A t, p : New(A, t, p) => New(B, t, p)
  BY <1>1, AgentTypes DEF Certain, New
<1>5. FlowInv(y, B, g, T, w)
  <2>1. \A t \in Tasks : y.task[t].status # "running"
    BY <1>1 DEF Done, TERMINAL
  <2>2. A = <<>> => B = <<>>
    BY <1>1
  <2> QED BY <1>1, <1>4, <2>1, <2>2 DEF Rest, FlowInv
<1>6. OwnerInv(y, B, w)
  BY <1>1 DEF Rest, OwnerInv, Live
<1>7. \A i \in 1..Len(A), t \in Tasks : Tests(A, i, t) => Tests(B, i, t)
  BY <1>1 DEF Tests, Made
<1>8. ChildInv(B, T, w)
  <2>1. w.task \in Tasks
    BY DEF WorkerRecords
  <2>2. Made(A) \subseteq 1..Len(A)
    BY DEF Made
  <2>3. w.pc \in AtWork =>
           /\ w.agent = Len(B) /\ Len(B) # 0
           /\ B[w.agent].type = w.kind /\ B[w.agent].task = w.task
           /\ B[w.agent].status # "completed"
           /\ Live(B) \subseteq {w.recovery, w.agent}
           /\ w.kind = "coding" => \A j \in Made(B) : B[j].task # w.task
           /\ w.kind = "test" => Tests(B, w.agent, w.task)
    BY <1>1, <1>7, <2>1, <2>2 DEF Rest, ChildInv
  <2>4. w.pc \in {"apply", "record"} /\ w.kind = "debug" =>
           B[w.agent].patch = w.patch /\ New(B, w.task, w.patch)
    BY <1>1, <1>4 DEF Rest, ChildInv, AtWork
  <2>5. w.pc = "close" /\ w.passed =>
           /\ w.agent = Len(B) /\ Len(B) # 0 /\ Tests(B, w.agent, w.task)
           /\ B[w.agent].status = "completed" /\ B[w.agent].saw = T.version
           /\ Live(B) \subseteq {w.recovery}
    BY <1>1, <1>7, <2>1 DEF Rest, ChildInv
  <2> QED BY <2>3, <2>4, <2>5 DEF Rest, ChildInv
<1>9. TreeInv(B, T, w)
  BY <1>1, <1>4 DEF Rest, TreeInv, Held
<1> QED BY <1>1, <1>3, <1>5, <1>6, <1>8, <1>9 DEF Good, Rest

\* Agents that differ in their age only.
LEMMA AlikeKeeps ==
  ASSUME NEW x \in RunRecords, NEW A \in Seq(AgentRecords), NEW f, NEW T,
         NEW w \in WorkerRecords, Rest(x, A, f, T, w),
         NEW B \in Seq(AgentRecords), Len(B) = Len(A),
         \A i \in 1..Len(A) :
            /\ B[i].type = A[i].type /\ B[i].task = A[i].task /\ B[i].status = A[i].status
            /\ B[i].patch = A[i].patch /\ B[i].of = A[i].of /\ B[i].saw = A[i].saw
            /\ B[i].recovery = A[i].recovery
  PROVE  Rest(x, B, f, T, w)
<1>1. Live(B) = Live(A) /\ Made(B) = Made(A) /\ Made(A) \subseteq 1..Len(A)
  BY DEF Live, Made
<1>2. AgentInv(x, B)
  BY <1>1 DEF Rest, AgentInv
<1>3. /\ Certain(B, T) = Certain(A, T)
      /\ \A t, p : New(A, t, p) => New(B, t, p)
      /\ \A i \in 1..Len(A) : \A t : Tests(A, i, t) => Tests(B, i, t)
  BY <1>1 DEF Certain, New, Tests
<1>4. A = <<>> => B = <<>>
  OBVIOUS
<1>5. Live(A) \subseteq 1..Len(A)
  BY AgentTypes
<1>6. FlowInv(x, B, f, T, w)
  BY <1>1, <1>3, <1>4, <1>5 DEF Rest, FlowInv
<1>7. OwnerInv(x, B, w)
  BY <1>1, <1>5 DEF Rest, OwnerInv
<1>8. ChildInv(B, T, w)
  BY <1>1, <1>3 DEF Rest, ChildInv, AtWork
<1>9. TreeInv(B, T, w)
  BY <1>1, <1>3 DEF Rest, TreeInv, Held
<1> QED BY <1>2, <1>6, <1>7, <1>8, <1>9 DEF Rest

-----------------------------------------------------------------------------
(* One run at a time *)

\* The others are left alone.
Elsewhere(r) ==
    \A q \in Runs \ {r} :
        /\ run'[q] = run[q] /\ agents'[q] = agents[q] /\ flow'[q] = flow[q]
        /\ tree'[q] = tree[q] /\ worker'[q] = worker[q]

LEMMA OneRun ==
  ASSUME Inv, TypeOK', NEW r \in Runs, Elsewhere(r),
         Good(run'[r], agents'[r], flow'[r], tree'[r], worker'[r])
  PROVE  Inv'
  BY DEF Inv, Elsewhere

\* What the invariant says of one run.
LEMMA RunTypes ==
  ASSUME Inv, NEW r \in Runs
  PROVE  /\ run[r] \in RunRecords /\ agents[r] \in Seq(AgentRecords)
         /\ worker[r] \in WorkerRecords /\ tree[r] \in [version : Nat, patches : Nat, barred : BOOLEAN]
         /\ RowInv(run[r]) /\ BeforePass(run[r])
         /\ Rest(run[r], agents[r], flow[r], tree[r], worker[r])
         /\ Running(r) = Live(agents[r]) /\ AgentsOf(r) = 1..Len(agents[r])
  BY DEF Inv, TypeOK, Good, RowInv, Running, AgentsOf, Live

\* A row is written,
LEMMA RowPut ==
  ASSUME Inv, NEW r \in Runs, NEW x \in RunRecords, Put(r, x)
  PROVE  /\ run' \in [Runs -> RunRecords] /\ run'[r] = x /\ idle' \subseteq Runs
         /\ \A q \in Runs \ {r} : run'[q] = run[q]
  BY DEF Inv, TypeOK, Put

\* and its worker goes on.
LEMMA WorkerGoes ==
  ASSUME Inv, NEW r \in Runs, NEW w \in WorkerRecords, Go(r, w)
  PROVE  /\ worker' \in [Runs -> WorkerRecords] /\ worker'[r] = w
         /\ \A q \in Runs \ {r} : worker'[q] = worker[q]
  BY DEF Inv, TypeOK, Go

LEMMA NoWorkerType == NoWorker \in WorkerRecords
<1>1. (CHOOSE t \in Tasks : TRUE) \in Tasks
  BY PlansAssumption
<1> QED BY <1>1, BoundsAssumption DEF NoWorker, WorkerRecords, NoAgent

LEMMA InitInv == Init => Inv
<1> SUFFICES ASSUME Init PROVE Inv
  OBVIOUS
<1>1. PICK plan \in [Runs -> Plans] :
         run = [r \in Runs |->
                   [status |-> "pending", deps |-> plan[r],
                    task |-> [t \in Tasks |-> [status |-> "pending", note |-> "none"]]]]
  BY DEF Init
<1>2. /\ agents = [r \in Runs |-> <<>>] /\ idle = {}
      /\ tree = [r \in Runs |-> [version |-> 0, patches |-> 0, barred |-> FALSE]]
      /\ worker = [r \in Runs |-> NoWorker]
      /\ flow \in [Runs -> {"none", "waiting"}]
  BY DEF Init
<1>3. \A r \in Runs :
         /\ run[r] \in RunRecords /\ run[r].status = "pending"
         /\ \A t \in Tasks : run[r].task[t].status = "pending"
  BY <1>1 DEF RunRecords, RunStates, TaskStates, Notes
<1>4. TypeOK
  <2>1. run \in [Runs -> RunRecords]
    BY <1>1, <1>3
  <2>2. \A r \in Runs : agents[r] \in Seq(AgentRecords)
    BY <1>2
  <2> QED BY <1>2, <2>1, <2>2, NoWorkerType DEF TypeOK
<1>5. ASSUME NEW r \in Runs
      PROVE  Good(run[r], agents[r], flow[r], tree[r], worker[r])
  <2>1. RowInv(run[r])
    BY <1>3, PlansAssumption DEF RowInv, BeforePass, Over, EndedRun, Done, TERMINAL
  <2>2. agents[r] = <<>> /\ Len(agents[r]) = 0
    BY <1>2
  <2>3. Live(agents[r]) = {} /\ Made(agents[r]) = {}
    BY <2>2 DEF Live, Made
  <2>4. Certain(agents[r], tree[r])
    BY <1>2, <2>3, FS_EmptySet DEF Certain
  <2>5. /\ worker[r].pc = "none" /\ ~worker[r].passed /\ worker[r].result = "blocked"
        /\ flow[r] \in {"none", "waiting"}
    BY <1>2 DEF NoWorker
  <2>6. AgentInv(run[r], agents[r])
    BY <2>2, <2>3 DEF AgentInv
  <2>7. FlowInv(run[r], agents[r], flow[r], tree[r], worker[r])
    BY <1>3, <2>2, <2>3, <2>4, <2>5 DEF FlowInv
  <2>8. OwnerInv(run[r], agents[r], worker[r])
    BY <2>5 DEF OwnerInv, Owning
  <2>9. ChildInv(agents[r], tree[r], worker[r])
    BY <2>5 DEF ChildInv, AtWork
  <2>10. TreeInv(agents[r], tree[r], worker[r])
    BY <2>5 DEF TreeInv
  <2> QED BY <2>1, <2>6, <2>7, <2>8, <2>9, <2>10 DEF Good, Rest
<1> QED BY <1>4, <1>5 DEF Inv

-----------------------------------------------------------------------------
(* Beat, the API and the dispatcher *)

LEMMA ReconcileInv == ASSUME Inv, NEW r \in Runs, Reconcile(r) PROVE Inv'
<1> DEFINE y == Advanced(run[r])
<1>1. Passed(run[r], y) /\ y \in RunRecords
  BY RunTypes, PassRow DEF Passed
<1>2. Put(r, y) /\ UNCHANGED <<agents, flow, tree, worker>>
  BY DEF Reconcile
<1> HIDE DEF y
<1>3. /\ run' \in [Runs -> RunRecords] /\ run'[r] = y /\ idle' \subseteq Runs
      /\ \A q \in Runs \ {r} : run'[q] = run[q]
  BY <1>1, <1>2, RowPut
<1>4. TypeOK' /\ Elsewhere(r)
  BY <1>2, <1>3 DEF Inv, TypeOK, Elsewhere
<1>5. Good(y, agents[r], flow[r], tree[r], worker[r])
  BY <1>1, RunTypes, PassKeeps
<1> QED BY <1>2, <1>3, <1>4, <1>5, OneRun

LEMMA RecoverStaleInv == ASSUME Inv, RecoverStale PROVE Inv'
<1> DEFINE S == {r \in Limited(Candidates) : Stale(r)}
<1>1. /\ run' = [r \in Runs |-> IF r \in S THEN StoppedRun(r, FALSE) ELSE run[r]]
      /\ agents' = [r \in Runs |-> IF r \in S THEN StoppedAgents(r, FALSE) ELSE agents[r]]
      /\ idle' \subseteq idle /\ UNCHANGED <<flow, tree, worker>>
  BY DEF RecoverStale
<1> HIDE DEF S
<1>2. ASSUME NEW r \in Runs
      PROVE  /\ run'[r] \in RunRecords /\ agents'[r] \in Seq(AgentRecords)
             /\ Good(run'[r], agents'[r], flow[r], tree[r], worker[r])
  <2>1. CASE r \in S
    <3>1. Halted(run[r], agents[r], run'[r], agents'[r])
      BY <1>1, <2>1, StopHalts
    <3>2. run'[r] \in RunRecords /\ agents'[r] \in Seq(AgentRecords)
      BY <3>1 DEF Halted
    <3>3. /\ run[r] \in RunRecords /\ agents[r] \in Seq(AgentRecords)
          /\ worker[r] \in WorkerRecords
          /\ Rest(run[r], agents[r], flow[r], tree[r], worker[r])
      BY RunTypes
    <3>4. Good(run'[r], agents'[r], flow[r], tree[r], worker[r])
      BY <3>1, <3>3, HaltKeeps
    <3> QED BY <3>2, <3>4
  <2>2. CASE r \notin S
    BY <1>1, <2>2, RunTypes DEF Good
  <2> QED BY <2>1, <2>2
<1>3. TypeOK'
  BY <1>1, <1>2 DEF Inv, TypeOK
<1> QED BY <1>1, <1>2, <1>3 DEF Inv

\* A run is stopped by a request or a fence, which may write its workflow.
LEMMA StopInv ==
  ASSUME Inv, NEW r \in Runs, NEW cancelled \in BOOLEAN, ~cancelled \/ Running(r) = {},
         Stop(r, cancelled), UNCHANGED <<tree, worker>>,
         \/ flow' = flow
         \/ /\ flow[r] # "none"
            /\ \E g \in {"blocked", "cancelled"} : flow' = [flow EXCEPT ![r] = g]
  PROVE  Inv'
<1> DEFINE y == StoppedRun(r, cancelled)
           B == StoppedAgents(r, cancelled)
<1>1. Halted(run[r], agents[r], y, B)
  BY StopHalts
<1>2. Put(r, y) /\ agents' = [agents EXCEPT ![r] = B]
  BY DEF Stop
<1> HIDE DEF y, B
<1>3. y \in RunRecords /\ B \in Seq(AgentRecords)
  BY <1>1 DEF Halted
<1>4. /\ run' \in [Runs -> RunRecords] /\ run'[r] = y /\ idle' \subseteq Runs
      /\ \A q \in Runs \ {r} : run'[q] = run[q]
  BY <1>2, <1>3, RowPut
<1>5. /\ flow'[r] = flow[r] \/ (flow[r] # "none" /\ flow'[r] \in {"blocked", "cancelled"})
      /\ flow' \in [Runs -> {"none", "waiting", "active", "failed", "blocked", "done",
                             "cancelled"}]
      /\ \A q \in Runs \ {r} : flow'[q] = flow[q]
  BY DEF Inv, TypeOK
<1>6. /\ agents' \in [Runs -> Seq(AgentRecords)] /\ agents'[r] = B
      /\ \A q \in Runs \ {r} : agents'[q] = agents[q]
  BY <1>2, <1>3 DEF Inv, TypeOK
<1>7. TypeOK' /\ Elsewhere(r)
  BY <1>4, <1>5, <1>6 DEF Inv, TypeOK, Elsewhere
<1>8. Good(y, B, flow'[r], tree[r], worker[r])
  BY <1>1, <1>5, RunTypes, HaltKeeps
<1> QED BY <1>4, <1>6, <1>7, <1>8, OneRun

LEMMA CancelExecutionInv == ASSUME Inv, NEW r \in Runs, CancelExecution(r) PROVE Inv'
  BY StopInv DEF CancelExecution, Busy

LEMMA CancelFlowInv == ASSUME Inv, NEW r \in Runs, CancelFlow(r) PROVE Inv'
  BY StopInv DEF CancelFlow, Busy

LEMMA FenceFlowInv == ASSUME Inv, NEW r \in Runs, FenceFlow(r) PROVE Inv'
  BY StopInv DEF FenceFlow

LEMMA ResumeFlowInv == ASSUME Inv, NEW r \in Runs, ResumeFlow(r) PROVE Inv'
<1>1. flow[r] = "failed" /\ flow' = [flow EXCEPT ![r] = "waiting"]
  BY DEF ResumeFlow
<1>2. UNCHANGED <<run, agents, idle, tree, worker>>
  BY DEF ResumeFlow
<1>3. TypeOK' /\ Elsewhere(r) /\ flow'[r] = "waiting"
  BY <1>1, <1>2 DEF Inv, TypeOK, Elsewhere
<1>4. Good(run[r], agents[r], "waiting", tree[r], worker[r])
  BY <1>1, RunTypes DEF Good, Rest, FlowInv
<1> QED BY <1>2, <1>3, <1>4, OneRun

LEMMA RunAgesInv == ASSUME Inv, NEW r \in Runs, RunAges(r) PROVE Inv'
  BY DEF RunAges, Inv, TypeOK

\* Only the age of an agent changes.
LEMMA AgentAgesInv == ASSUME Inv, NEW r \in Runs, AgentAges(r) PROVE Inv'
<1> DEFINE A == agents[r]
           B == agents'[r]
<1>1. PICK i \in 1..Len(A) : agents' = [agents EXCEPT ![r][i].old = TRUE]
  BY DEF AgentAges, Running, AgentsOf
<1>2. UNCHANGED <<run, idle, flow, tree, worker>>
  BY DEF AgentAges
<1>3. A \in Seq(AgentRecords) /\ A[i] \in AgentRecords
  BY RunTypes
<1>4. B = [A EXCEPT ![i] = [A[i] EXCEPT !.old = TRUE]]
  BY <1>1 DEF Inv, TypeOK
<1>5. /\ [A[i] EXCEPT !.old = TRUE] \in AgentRecords
      /\ [A[i] EXCEPT !.old = TRUE].type = A[i].type
      /\ [A[i] EXCEPT !.old = TRUE].task = A[i].task
      /\ [A[i] EXCEPT !.old = TRUE].status = A[i].status
      /\ [A[i] EXCEPT !.old = TRUE].patch = A[i].patch
      /\ [A[i] EXCEPT !.old = TRUE].of = A[i].of
      /\ [A[i] EXCEPT !.old = TRUE].saw = A[i].saw
      /\ [A[i] EXCEPT !.old = TRUE].recovery = A[i].recovery
  BY <1>3 DEF AgentRecords
<1>6. /\ B \in Seq(AgentRecords) /\ Len(B) = Len(A)
      /\ \A j \in 1..Len(A) :
            /\ B[j].type = A[j].type /\ B[j].task = A[j].task /\ B[j].status = A[j].status
            /\ B[j].patch = A[j].patch /\ B[j].of = A[j].of /\ B[j].saw = A[j].saw
            /\ B[j].recovery = A[j].recovery
  <2> DEFINE a == [A[i] EXCEPT !.old = TRUE]
  <2> HIDE DEF a, A, B
  <2> QED BY <1>3, <1>4, <1>5 DEF a
<1>7. \A q \in Runs \ {r} : agents'[q] = agents[q]
  BY <1>1 DEF Inv, TypeOK
<1>8. agents' \in [Runs -> Seq(AgentRecords)]
  <2>1. agents' = [agents EXCEPT ![r] = B]
    BY <1>1, <1>4 DEF Inv, TypeOK
  <2> QED BY <1>6, <2>1 DEF Inv, TypeOK
<1>9. TypeOK' /\ Elsewhere(r)
  BY <1>2, <1>7, <1>8 DEF Inv, TypeOK, Elsewhere
<1>10. Good(run[r], B, flow[r], tree[r], worker[r])
  BY <1>6, RunTypes, AlikeKeeps DEF Good
<1> QED BY <1>2, <1>9, <1>10, OneRun

\* A task that is queued or running moves on.
LEMMA TaskMoves ==
  ASSUME NEW x \in RunRecords, RowInv(x), NEW t \in Tasks, NEW n \in Notes,
         NEW s \in {"running", "completed", "failed"},
         x.task[t].status \in {"queued", "running"}
  PROVE  /\ BeforePass(SetTask(x, t, s, n)) /\ SetTask(x, t, s, n) \in RunRecords
         /\ ~Over(x) /\ ~Over(SetTask(x, t, s, n))
<1> DEFINE y == SetTask(x, t, s, n)
<1>1. /\ y \in RunRecords /\ y.status = x.status /\ y.deps = x.deps
      /\ y.task[t].status = s /\ \A u \in Tasks : u # t => y.task[u] = x.task[u]
  <2>1. s \in TaskStates
    BY DEF TaskStates
  <2> QED BY <2>1, TaskSet
<1>2. ~Over(x)
  BY DEF RowInv, BeforePass, Over, EndedRun, Done, TERMINAL
<1>3. x.deps \in [Tasks -> SUBSET Tasks]
  BY PlansAssumption DEF RunRecords
<1> HIDE DEF y
<1>4. BeforePass(y)
  BY <1>1, <1>2, <1>3 DEF RowInv, BeforePass, Over, EndedRun
<1> QED BY <1>1, <1>2, <1>4 DEF y, Over

\* The dispatcher takes or ends a task of a run without workflow.
LEMMA DispatchInv ==
  ASSUME Inv, NEW r \in Runs, NEW t \in Tasks, NEW s \in {"running", "completed", "failed"},
         flow[r] = "none", Status(r, t) \in {"queued", "running"},
         Put(r, Advanced(SetTask(run[r], t, s, "none"))), UNCHANGED <<agents, flow, tree, worker>>
  PROVE  Inv'
<1> DEFINE x == SetTask(run[r], t, s, "none")
           y == Advanced(x)
<1>1. BeforePass(x) /\ x \in RunRecords
  BY RunTypes, TaskMoves DEF Status, Notes
<1>2. Passed(x, y) /\ y \in RunRecords
  BY <1>1, PassRow DEF Passed
<1>3. Rest(x, agents[r], flow[r], tree[r], worker[r])
  <2>1. agents[r] = <<>> /\ worker[r].pc = "none"
    BY RunTypes DEF Rest, FlowInv
  <2> HIDE DEF x
  <2>2. Len(agents[r]) = 0 /\ Made(agents[r]) = {} /\ Live(agents[r]) = {}
    BY <2>1 DEF Made, Live
  <2> QED BY <2>1, <2>2, RunTypes DEF Rest, AgentInv, FlowInv, OwnerInv, Owning
<1> HIDE DEF x, y
<1>4. /\ run' \in [Runs -> RunRecords] /\ run'[r] = y /\ idle' \subseteq Runs
      /\ \A q \in Runs \ {r} : run'[q] = run[q]
  BY <1>2, RowPut DEF x, y
<1>5. TypeOK' /\ Elsewhere(r)
  BY <1>4 DEF Inv, TypeOK, Elsewhere
<1>6. Good(y, agents[r], flow[r], tree[r], worker[r])
  BY <1>1, <1>2, <1>3, RunTypes, PassKeeps
<1> QED BY <1>4, <1>5, <1>6, OneRun

LEMMA DispatcherInv ==
  ASSUME Inv, NEW r \in Runs, NEW t \in Tasks,
         \/ DispatcherTakes(r, t)
         \/ \E s \in {"completed", "failed"} : DispatcherReports(r, t, s)
  PROVE  Inv'
  BY DispatchInv DEF DispatcherTakes, DispatcherReports

-----------------------------------------------------------------------------
(* The worker outside of transactions *)

\* Only the worker and its tree move.
LEMMA OwnStep ==
  ASSUME Inv, NEW r \in Runs, NEW w \in WorkerRecords, Go(r, w),
         UNCHANGED <<run, agents, idle, flow>>,
         tree' \in [Runs -> [version : Nat, patches : Nat, barred : BOOLEAN]],
         \A q \in Runs \ {r} : tree'[q] = tree[q],
         Rest(run[r], agents[r], flow[r], tree'[r], w)
  PROVE  Inv'
<1>1. /\ worker' \in [Runs -> WorkerRecords] /\ worker'[r] = w
      /\ \A q \in Runs \ {r} : worker'[q] = worker[q]
  BY WorkerGoes
<1>2. TypeOK' /\ Elsewhere(r)
  BY <1>1 DEF Inv, TypeOK, Elsewhere
<1>3. Good(run'[r], agents'[r], flow'[r], tree'[r], worker'[r])
  BY <1>1, RunTypes DEF Good
<1> QED BY <1>2, <1>3, OneRun

\* Without its claim a worker has no child and leaves nothing behind.
LEMMA Moves ==
  ASSUME NEW x, NEW A, NEW f, NEW T, NEW w, FlowInv(x, A, f, T, w), NEW U, NEW v,
         w.pc # "none", v.pc # "none"
  PROVE  FlowInv(x, A, f, U, v)
  BY DEF FlowInv

\* The worker leaves, and something may be left running.
LEMMA LeavesKeeps ==
  ASSUME NEW x \in RunRecords, NEW A \in Seq(AgentRecords), NEW f, NEW T,
         NEW w \in WorkerRecords, Rest(x, A, f, T, w),
         w.pc \in {"stage", "open"} \/ (w.pc = "close" /\ ~w.passed)
  PROVE  /\ [w EXCEPT !.pc = "leave"] \in WorkerRecords
         /\ Rest(x, A, f, T, [w EXCEPT !.pc = "leave"])
<1> DEFINE v == [w EXCEPT !.pc = "leave"]
<1>1. /\ v \in WorkerRecords /\ v.pc = "leave" /\ v.passed = w.passed /\ v.result = w.result
      /\ v.kind = w.kind
  BY DEF WorkerRecords
<1> HIDE DEF v
<1>2. FlowInv(x, A, f, T, v)
  BY <1>1, Moves DEF Rest
<1>3. ~v.passed /\ v.result = "blocked"
  BY <1>1 DEF Rest, ChildInv, OwnerInv
<1>4. OwnerInv(x, A, v) /\ ChildInv(A, T, v) /\ TreeInv(A, T, v)
  BY <1>1, <1>3 DEF OwnerInv, ChildInv, TreeInv, Owning, AtWork
<1> QED BY <1>1, <1>2, <1>4 DEF Rest, v

\* It has nothing to show, and closes the recovery.
LEMMA GivesUpKeeps ==
  ASSUME NEW x \in RunRecords, NEW A \in Seq(AgentRecords), NEW f, NEW T,
         NEW w \in WorkerRecords, Rest(x, A, f, T, w), w.pc \in {"start", "fail", "close"}
  PROVE  /\ GiveUp(w) \in WorkerRecords /\ GiveUp(w).pc = "close" /\ ~GiveUp(w).passed
         /\ Rest(x, A, f, T, GiveUp(w))
<1> DEFINE v == GiveUp(w)
<1>1. /\ v \in WorkerRecords /\ v.pc = "close" /\ v.passed = FALSE /\ v.result = w.result
      /\ v.kind = w.kind /\ v.recovery = w.recovery /\ v.task = w.task
  BY DEF WorkerRecords, GiveUp
<1> HIDE DEF v
<1>2. FlowInv(x, A, f, T, v)
  BY <1>1, Moves DEF Rest
<1>3. OwnerInv(x, A, v)
  BY <1>1 DEF Rest, OwnerInv, Owning
<1>4. ChildInv(A, T, v) /\ TreeInv(A, T, v)
  BY <1>1 DEF ChildInv, TreeInv, AtWork
<1> QED BY <1>1, <1>2, <1>3, <1>4 DEF Rest, v

\* The child raises.
LEMMA FailsKeeps ==
  ASSUME NEW x \in RunRecords, NEW A \in Seq(AgentRecords), NEW f, NEW T,
         NEW w \in WorkerRecords, Rest(x, A, f, T, w), NEW hard \in BOOLEAN,
         NEW U, U = T \/ hard \/ U.barred,
         w.pc \in {"work", "apply", "record"},
         hard \/ (w.pc \in {"work", "apply"} /\ w.kind = "debug")
  PROVE  /\ [w EXCEPT !.pc = "fail", !.hard = hard] \in WorkerRecords
         /\ Rest(x, A, f, U, [w EXCEPT !.pc = "fail", !.hard = hard])
<1> DEFINE v == [w EXCEPT !.pc = "fail", !.hard = hard]
<1>1. /\ v \in WorkerRecords /\ v.pc = "fail" /\ v.hard = hard /\ v.result = w.result
      /\ v.kind = w.kind /\ v.recovery = w.recovery /\ v.task = w.task /\ v.agent = w.agent
      /\ v.passed = w.passed
  BY DEF WorkerRecords
<1> HIDE DEF v
<1>2. FlowInv(x, A, f, U, v)
  BY <1>1, Moves DEF Rest
<1>3. OwnerInv(x, A, v)
  BY <1>1 DEF Rest, OwnerInv, Owning
<1>4. ChildInv(A, U, v)
  BY <1>1 DEF Rest, ChildInv, AtWork
<1>5. TreeInv(A, U, v)
  BY <1>1 DEF Rest, TreeInv, Certain, Held
<1> QED BY <1>1, <1>2, <1>3, <1>4, <1>5 DEF Rest, v

\* The child has a patch or a report to record.
LEMMA RecordsKeeps ==
  ASSUME NEW x \in RunRecords, NEW A \in Seq(AgentRecords), NEW f, NEW T,
         NEW w \in WorkerRecords, Rest(x, A, f, T, w), NEW U, NEW v \in WorkerRecords,
         \/ /\ w.pc = "work" /\ w.kind \in {"coding", "test"}
            /\ v.passed => w.kind = "test"
         \/ w.pc = "apply" /\ v.patch = w.patch /\ v.passed = w.passed,
         U.patches = IF w.kind = "test" THEN T.patches ELSE T.patches + 1,
         v.pc = "record", v.result = w.result, v.kind = w.kind, v.recovery = w.recovery,
         v.task = w.task, v.agent = w.agent
  PROVE  Rest(x, A, f, U, v)
<1>1. FlowInv(x, A, f, U, v)
  BY Moves DEF Rest
<1>2. OwnerInv(x, A, v)
  BY DEF Rest, OwnerInv, Owning
<1>3. ChildInv(A, U, v)
  BY DEF Rest, ChildInv, AtWork, OwnerInv
<1>4. TreeInv(A, U, v)
  BY DEF Rest, TreeInv, Certain, Held, OwnerInv, WorkerRecords
<1> QED BY <1>1, <1>2, <1>3, <1>4 DEF Rest

LEMMA TreeWritten ==
  ASSUME Inv, NEW r \in Runs, NEW n \in Nat, Touched(r, n)
  PROVE  /\ tree' \in [Runs -> [version : Nat, patches : Nat, barred : BOOLEAN]]
         /\ tree'[r].patches = tree[r].patches + n
         /\ \A q \in Runs \ {r} : tree'[q] = tree[q]
<1>1. \A q \in Runs : tree[q].version \in Nat /\ tree[q].patches \in Nat
  BY DEF Inv, TypeOK
<1> QED BY <1>1 DEF Inv, TypeOK, Touched

LEMMA TreePatched ==
  ASSUME Inv, NEW r \in Runs, Patched(r)
  PROVE  /\ tree' \in [Runs -> [version : Nat, patches : Nat, barred : BOOLEAN]]
         /\ tree'[r].patches = tree[r].patches + 1
         /\ \A q \in Runs \ {r} : tree'[q] = tree[q]
  BY TreeWritten DEF Patched

LEMMA TreeTypes ==
  ASSUME Inv PROVE tree \in [Runs -> [version : Nat, patches : Nat, barred : BOOLEAN]]
  BY DEF Inv, TypeOK

LEMMA WorkFailsInv == ASSUME Inv, NEW r \in Runs, WorkFails(r) PROVE Inv'
<1>1. PICK hard \in BOOLEAN : Go(r, [worker[r] EXCEPT !.pc = "fail", !.hard = hard])
                              /\ (hard \/ worker[r].kind = "debug")
  BY DEF WorkFails, Me
<1>2. worker[r].pc = "work" /\ UNCHANGED <<run, agents, idle, flow, tree>>
  BY DEF WorkFails, Me
<1>3. /\ [worker[r] EXCEPT !.pc = "fail", !.hard = hard] \in WorkerRecords
      /\ Rest(run[r], agents[r], flow[r], tree[r],
              [worker[r] EXCEPT !.pc = "fail", !.hard = hard])
  BY <1>1, <1>2, RunTypes, FailsKeeps
<1> QED BY <1>1, <1>2, <1>3, TreeTypes, OwnStep

LEMMA CrashInv == ASSUME Inv, NEW r \in Runs, Crash(r) PROVE Inv'
<1> DEFINE x == run[r]
           A == agents[r]
           f == flow[r]
           T == tree[r]
<1>1. /\ NoWorker.pc = "none" /\ ~NoWorker.passed /\ NoWorker.result = "blocked"
  BY DEF NoWorker
<1>2. FlowInv(x, A, f, T, NoWorker)
  BY <1>1, RunTypes DEF Rest, FlowInv, Crash, Me
<1>3. OwnerInv(x, A, NoWorker) /\ ChildInv(A, T, NoWorker) /\ TreeInv(A, T, NoWorker)
  BY <1>1 DEF OwnerInv, ChildInv, TreeInv, Owning, AtWork
<1>4. Rest(x, A, f, T, NoWorker)
  BY <1>2, <1>3, RunTypes DEF Rest
<1> QED BY <1>4, NoWorkerType, TreeTypes, OwnStep DEF Crash

LEMMA CodingAppliesInv == ASSUME Inv, NEW r \in Runs, CodingApplies(r) PROVE Inv'
<1> DEFINE w == worker[r]
<1>1. w.pc = "work" /\ w.kind = "coding" /\ UNCHANGED <<run, agents, idle, flow>> /\ Patched(r)
  BY DEF CodingApplies, Me
<1>2. ASSUME NEW p \in Patches, Go(r, [w EXCEPT !.pc = "record", !.patch = p]) PROVE Inv'
  <2> DEFINE v == [w EXCEPT !.pc = "record", !.patch = p]
  <2>1. /\ v \in WorkerRecords /\ v.pc = "record" /\ v.result = w.result /\ v.kind = w.kind
        /\ v.recovery = w.recovery /\ v.task = w.task /\ v.agent = w.agent
        /\ v.passed = w.passed
    BY RunTypes DEF WorkerRecords
  <2> HIDE DEF v
  <2>2. w.passed => w.kind = "test"
    BY RunTypes DEF Rest, ChildInv
  <2>3. /\ w.pc = "work" /\ w.kind \in {"coding", "test"} /\ (v.passed => w.kind = "test")
        /\ tree'[r].patches = IF w.kind = "test" THEN tree[r].patches ELSE tree[r].patches + 1
    BY <1>1, <2>1, <2>2, TreePatched
  <2>4. Rest(run[r], agents[r], flow[r], tree'[r], v)
    BY <2>1, <2>3, RunTypes, RecordsKeeps
  <2> QED BY <1>1, <1>2, <2>1, <2>4, TreePatched, OwnStep DEF v
<1>3. CASE Go(r, [w EXCEPT !.pc = "fail", !.hard = TRUE])
  <2>1. /\ [w EXCEPT !.pc = "fail", !.hard = TRUE] \in WorkerRecords
        /\ Rest(run[r], agents[r], flow[r], tree'[r],
                [w EXCEPT !.pc = "fail", !.hard = TRUE])
    BY <1>1, RunTypes, FailsKeeps
  <2> QED BY <1>1, <1>3, <2>1, TreePatched, OwnStep
<1> QED BY <1>2, <1>3 DEF CodingApplies, Me

LEMMA TestsRunInv == ASSUME Inv, NEW r \in Runs, TestsRun(r) PROVE Inv'
<1> DEFINE w == worker[r]
<1>1. w.pc = "work" /\ w.kind = "test" /\ UNCHANGED <<run, agents, idle, flow>>
  BY DEF TestsRun, Me
<1>2. /\ tree' \in [Runs -> [version : Nat, patches : Nat, barred : BOOLEAN]]
      /\ tree'[r].patches = tree[r].patches
      /\ \A q \in Runs \ {r} : tree'[q] = tree[q]
  <2>1. CASE UNCHANGED tree
    BY <2>1, TreeTypes
  <2>2. CASE Touched(r, 0)
    BY <2>2, RunTypes, TreeWritten
  <2> QED BY <2>1, <2>2 DEF TestsRun
<1>3. ASSUME NEW passed \in BOOLEAN, Go(r, [w EXCEPT !.pc = "record", !.passed = passed])
      PROVE  Inv'
  <2> DEFINE v == [w EXCEPT !.pc = "record", !.passed = passed]
  <2>1. /\ v \in WorkerRecords /\ v.pc = "record" /\ v.result = w.result /\ v.kind = w.kind
        /\ v.recovery = w.recovery /\ v.task = w.task /\ v.agent = w.agent
    BY RunTypes DEF WorkerRecords
  <2> HIDE DEF v
  <2>2. /\ w.pc = "work" /\ w.kind \in {"coding", "test"} /\ (v.passed => w.kind = "test")
        /\ tree'[r].patches = IF w.kind = "test" THEN tree[r].patches ELSE tree[r].patches + 1
    BY <1>1, <1>2
  <2>3. Rest(run[r], agents[r], flow[r], tree'[r], v)
    BY <2>1, <2>2, RunTypes, RecordsKeeps
  <2> QED BY <1>1, <1>2, <1>3, <2>1, <2>3, OwnStep DEF v
<1>4. CASE Go(r, [w EXCEPT !.pc = "fail", !.hard = TRUE])
  <2>1. /\ [w EXCEPT !.pc = "fail", !.hard = TRUE] \in WorkerRecords
        /\ Rest(run[r], agents[r], flow[r], tree'[r],
                [w EXCEPT !.pc = "fail", !.hard = TRUE])
    BY <1>1, RunTypes, FailsKeeps
  <2> QED BY <1>1, <1>2, <1>4, <2>1, OwnStep
<1> QED BY <1>3, <1>4 DEF TestsRun, Me

LEMMA DebugAppliesInv == ASSUME Inv, NEW r \in Runs, DebugApplies(r) PROVE Inv'
<1> DEFINE w == worker[r]
<1>1. w.pc = "apply" /\ w.kind = "debug" /\ UNCHANGED <<run, agents, idle, flow>>
  BY RunTypes DEF DebugApplies, Me, Rest, OwnerInv
<1>2. CASE Patched(r) /\ Go(r, [w EXCEPT !.pc = "record"])
  <2> DEFINE v == [w EXCEPT !.pc = "record"]
  <2>1. /\ v \in WorkerRecords /\ v.pc = "record" /\ v.result = w.result /\ v.kind = w.kind
        /\ v.recovery = w.recovery /\ v.task = w.task /\ v.agent = w.agent
        /\ v.passed = w.passed /\ v.patch = w.patch
    BY RunTypes DEF WorkerRecords
  <2> HIDE DEF v
  <2>2. tree'[r].patches = tree[r].patches + 1
    BY <1>2, TreePatched
  <2>3. Rest(run[r], agents[r], flow[r], tree'[r], v)
    BY <1>1, <2>1, <2>2, RunTypes, RecordsKeeps
  <2> QED BY <1>1, <1>2, <2>1, <2>3, TreePatched, OwnStep DEF v
<1>3. ASSUME NEW hard \in BOOLEAN,
             UNCHANGED tree \/ (Patched(r) /\ (hard \/ tree'[r].barred)),
             Go(r, [w EXCEPT !.pc = "fail", !.hard = hard])
      PROVE  Inv'
  <2>1. /\ [w EXCEPT !.pc = "fail", !.hard = hard] \in WorkerRecords
        /\ Rest(run[r], agents[r], flow[r], tree'[r],
                [w EXCEPT !.pc = "fail", !.hard = hard])
    <3>1. tree'[r] = tree[r] \/ hard \/ tree'[r].barred
      BY <1>3
    <3> QED BY <1>1, <3>1, RunTypes, FailsKeeps
  <2>2. /\ tree' \in [Runs -> [version : Nat, patches : Nat, barred : BOOLEAN]]
        /\ \A q \in Runs \ {r} : tree'[q] = tree[q]
    BY <1>3, TreeTypes, TreePatched
  <2> QED BY <1>1, <1>3, <2>1, <2>2, OwnStep
<1> QED BY <1>2, <1>3 DEF DebugApplies, DiffReadable, Me

LEMMA RefusedInv == ASSUME Inv, NEW r \in Runs, Refused(r) PROVE Inv'
<1> DEFINE w == worker[r]
<1>1. UNCHANGED <<run, agents, idle, flow, tree>>
  BY DEF Refused
<1>2. PICK v : /\ Go(r, v)
               /\ \/ /\ w.pc \in {"stage", "open"} \/ (w.pc = "close" /\ ~w.passed)
                     /\ v = [w EXCEPT !.pc = "leave"]
                  \/ w.pc \in {"start", "fail"} /\ v = GiveUp(w)
                  \/ w.pc = "close" /\ v = [w EXCEPT !.passed = FALSE]
                  \/ w.pc \in {"work", "record"} /\ v = [w EXCEPT !.pc = "fail", !.hard = TRUE]
  BY DEF Refused, Me
<1>3. w.pc = "close" /\ v = [w EXCEPT !.passed = FALSE] => v = GiveUp(w)
  <2>1. w.pc = "close" => [w EXCEPT !.pc = "close"] = w
    BY RunTypes DEF WorkerRecords
  <2> QED BY <2>1 DEF GiveUp
<1>4. v \in WorkerRecords /\ Rest(run[r], agents[r], flow[r], tree[r], v)
  <2>1. CASE /\ w.pc \in {"stage", "open"} \/ (w.pc = "close" /\ ~w.passed)
             /\ v = [w EXCEPT !.pc = "leave"]
    BY <2>1, RunTypes, LeavesKeeps
  <2>2. CASE w.pc \in {"start", "fail", "close"} /\ v = GiveUp(w)
    BY <2>2, RunTypes, GivesUpKeeps
  <2>3. CASE w.pc \in {"work", "record"} /\ v = [w EXCEPT !.pc = "fail", !.hard = TRUE]
    BY <2>3, RunTypes, FailsKeeps
  <2> QED BY <1>2, <1>3, <2>1, <2>2, <2>3
<1> QED BY <1>1, <1>2, <1>4, TreeTypes, OwnStep

-----------------------------------------------------------------------------
(* Transactions of the worker, on the values of one run *)

\* A recovery is opened for a task that is queued.
LEMMA OpensKeeps ==
  ASSUME NEW x \in RunRecords, NEW A \in Seq(AgentRecords), NEW f, NEW T,
         NEW w \in WorkerRecords, Rest(x, A, f, T, w), w.pc = "open",
         ~Over(x), x.task[w.task].status \in {"queued", "running"},
         NEW a \in AgentRecords, a.type = "recovery", a.task = w.task, a.status = "running",
         NEW v, v.pc = "start", v.recovery = Len(A) + 1, v.task = w.task,
         v.kind \in {"coding", "test"}, v.passed = w.passed, v.result = w.result
  PROVE  Rest(x, Append(A, a), f, T, v)
<1> DEFINE B == Append(A, a)
           n == Len(A) + 1
<1>1. /\ B \in Seq(AgentRecords) /\ Len(B) = n /\ n \in Nat /\ n \notin 1..Len(A)
      /\ 1..Len(B) = 1..Len(A) \cup {n} /\ v.recovery = n
      /\ \A i \in 1..Len(A) : B[i] = A[i]
      /\ B[n] = a /\ Live(B) = Live(A) \cup {n} /\ Made(B) = Made(A)
  BY AgentAdded
<1> HIDE DEF B, n
<1>2. Live(A) = {} /\ ~w.passed /\ w.result = "blocked" /\ Certain(A, T)
  BY DEF Rest, OwnerInv, ChildInv, TreeInv
<1>3. f # "none" /\ w.task \in Tasks
  BY DEF Rest, FlowInv, WorkerRecords
<1>4. \A t \in Tasks : x.task[t].status # "running"
  BY <1>2, <1>3 DEF Rest, FlowInv
<1>5. \A i \in 1..Len(A) : A[i].type = "recovery" => A[i].task # w.task
  BY <1>2, <1>3, <1>4 DEF Rest, AgentInv, Live, Done, TERMINAL
<1>6. Made(A) \subseteq 1..Len(A)
  BY AgentTypes
<1>7. AgentInv(x, B)
  <2>1. ASSUME NEW i \in 1..Len(B)
        PROVE  /\ B[i].type = "recovery" /\ B[i].status = "running" =>
                     x.task[B[i].task].status \in {"queued", "running", "failed"}
               /\ B[i].type = "recovery" /\ B[i].status # "running" =>
                     Done(x.task[B[i].task].status)
               /\ B[i].type # "recovery" =>
                     x.task[B[i].task].status \notin {"pending", "queued"}
               /\ B[i].type = "debug" =>
                     /\ B[i].recovery \in 1..Len(B)
                     /\ B[B[i].recovery].type = "recovery"
                     /\ B[B[i].recovery].task = B[i].task
    <3>1. CASE i \in 1..Len(A)
      BY <1>1, <3>1 DEF Rest, AgentInv
    <3>2. CASE i = n
      BY <1>1, <1>4, <3>2
    <3> QED BY <1>1, <3>1, <3>2
  <2>2. ASSUME NEW i \in 1..Len(B), NEW j \in 1..Len(B),
               B[i].type = "recovery", B[j].type = "recovery"
        PROVE  /\ B[i].task = B[j].task => i = j
               /\ B[i].status = "running" /\ B[j].status = "running" => i = j
    <3>1. CASE i \in 1..Len(A) /\ j \in 1..Len(A)
      BY <1>1, <2>2, <3>1 DEF Rest, AgentInv
    <3>2. CASE i = n /\ j \in 1..Len(A)
      BY <1>1, <1>2, <1>5, <2>2, <3>2 DEF Live
    <3>3. CASE j = n /\ i \in 1..Len(A)
      BY <1>1, <1>2, <1>5, <2>2, <3>3 DEF Live
    <3> QED BY <1>1, <3>1, <3>2, <3>3
  <2>3. \A i, j \in Made(B) : B[i].task = B[j].task /\ B[i].patch = B[j].patch => i = j
    BY <1>1, <1>6 DEF Rest, AgentInv
  <2> QED BY <2>1, <2>2, <2>3 DEF AgentInv
<1>8. FlowInv(x, B, f, T, v)
  <2>1. f = "active"
    BY DEF Rest, FlowInv
  <2> QED BY <1>2, <1>4, <2>1 DEF FlowInv
<1>9. OwnerInv(x, B, v)
  BY <1>1, <1>2, <1>3 DEF OwnerInv, Owning
<1>10. ChildInv(B, T, v)
  BY <1>2 DEF ChildInv, AtWork
<1>11. TreeInv(B, T, v)
  BY <1>1, <1>2 DEF TreeInv, Certain, Held
<1> QED BY <1>7, <1>8, <1>9, <1>10, <1>11 DEF Rest, B

\* A child of the recovery starts: the one that the worker is to start next.
LEMMA BeginsKeeps ==
  ASSUME NEW x \in RunRecords, NEW A \in Seq(AgentRecords), NEW f, NEW T,
         NEW w \in WorkerRecords, Rest(x, A, f, T, w), w.pc = "start",
         ~Over(x), x.task[w.task].status \in {"queued", "running"},
         w.kind = "coding" => x.task[w.task].status = "queued",
         NEW a \in AgentRecords, a.type = w.kind, a.task = w.task, a.status = "running",
         w.kind = "debug" => a.recovery = w.recovery,
         w.kind = "test" => /\ a.of \in Made(A) /\ A[a.of].task = w.task
                            /\ \A j \in Made(A) : A[j].task = w.task => j <= a.of,
         NEW y \in RunRecords, y.status = x.status, y.task[w.task].status = "running",
         \A u \in Tasks : u # w.task => y.task[u].status = x.task[u].status,
         NEW v \in WorkerRecords, v.pc = "work", v.agent = Len(A) + 1, ~v.hard,
         v.task = w.task, v.kind = w.kind, v.recovery = w.recovery, v.passed = w.passed,
         v.result = w.result
  PROVE  Rest(y, Append(A, a), f, T, v)
<1> DEFINE B == Append(A, a)
           n == Len(A) + 1
<1>1. /\ B \in Seq(AgentRecords) /\ Len(B) = n /\ n \in Nat /\ n \notin 1..Len(A) /\ n # 0
      /\ 1..Len(B) = 1..Len(A) \cup {n} /\ v.agent = n
      /\ \A i \in 1..Len(A) : B[i] = A[i]
      /\ B[n] = a /\ Live(B) = Live(A) \cup {n} /\ Made(B) = Made(A)
  BY AgentAdded
<1> HIDE DEF B, n
<1>2. /\ ~w.passed /\ w.result = "blocked" /\ Held(A, T, w) /\ Live(A) \subseteq {w.recovery}
      /\ w.recovery \in 1..Len(A) /\ A[w.recovery].type = "recovery"
      /\ A[w.recovery].task = w.task /\ A[w.recovery].status = "running"
  BY DEF Rest, OwnerInv, ChildInv, TreeInv, Owning
<1>3. /\ f = "active" /\ w.task \in Tasks /\ w.kind \in {"coding", "test", "debug"}
      /\ \A i \in 1..Len(A) : A[i].task \in Tasks
  BY AgentTypes DEF Rest, FlowInv, WorkerRecords
<1>4. Made(A) \subseteq 1..Len(A) /\ Live(A) \subseteq 1..Len(A)
  BY AgentTypes
<1>5. AgentInv(y, B)
  <2>1. ASSUME NEW i \in 1..Len(B)
        PROVE  /\ B[i].type = "recovery" /\ B[i].status = "running" =>
                     y.task[B[i].task].status \in {"queued", "running", "failed"}
               /\ B[i].type = "recovery" /\ B[i].status # "running" =>
                     Done(y.task[B[i].task].status)
               /\ B[i].type # "recovery" =>
                     y.task[B[i].task].status \notin {"pending", "queued"}
               /\ B[i].type = "debug" =>
                     /\ B[i].recovery \in 1..Len(B)
                     /\ B[B[i].recovery].type = "recovery"
                     /\ B[B[i].recovery].task = B[i].task
    <3>1. CASE i \in 1..Len(A)
      <4>1. CASE A[i].task = w.task
        BY <1>1, <1>3, <3>1, <4>1 DEF Rest, AgentInv, Done, TERMINAL
      <4>2. CASE A[i].task # w.task
        BY <1>1, <1>3, <3>1, <4>2 DEF Rest, AgentInv
      <4> QED BY <4>1, <4>2
    <3>2. CASE i = n
      BY <1>1, <1>2, <1>3, <3>2
    <3> QED BY <1>1, <3>1, <3>2
  <2>2. \A i, j \in 1..Len(B) :
           B[i].type = "recovery" /\ B[j].type = "recovery" =>
              /\ B[i].task = B[j].task => i = j
              /\ B[i].status = "running" /\ B[j].status = "running" => i = j
    BY <1>1, <1>3 DEF Rest, AgentInv
  <2>3. \A i, j \in Made(B) : B[i].task = B[j].task /\ B[i].patch = B[j].patch => i = j
    BY <1>1, <1>4 DEF Rest, AgentInv
  <2> QED BY <2>1, <2>2, <2>3 DEF AgentInv
<1>6. FlowInv(y, B, f, T, v)
  <2>1. ASSUME NEW t \in Tasks, y.task[t].status = "running"
        PROVE  \E i \in Live(B) : B[i].type = "recovery" /\ B[i].task = t
    <3>1. CASE t = w.task
      <4>1. w.recovery \in Live(B) /\ B[w.recovery] = A[w.recovery]
        BY <1>1, <1>2 DEF Live
      <4> QED BY <1>2, <3>1, <4>1
    <3>2. CASE t # w.task
      <4>1. PICK i \in Live(A) : A[i].type = "recovery" /\ A[i].task = t
        BY <1>3, <2>1, <3>2 DEF Rest, FlowInv
      <4> QED BY <1>1, <1>4, <4>1
    <3> QED BY <3>1, <3>2
  <2> QED BY <1>3, <2>1 DEF FlowInv
<1>7. OwnerInv(y, B, v)
  BY <1>1, <1>2, <1>3 DEF OwnerInv, Owning
<1>8. ChildInv(B, T, v)
  <2>1. w.kind = "coding" => \A j \in Made(A) : A[j].task # w.task
    BY <1>4 DEF Rest, AgentInv, Made
  <2>2. w.kind = "test" => Tests(B, n, w.task)
    BY <1>1, <1>4 DEF Tests
  <2>3. w.kind = "coding" => \A j \in Made(B) : B[j].task # w.task
    BY <1>1, <1>4, <2>1
  <2> QED BY <1>1, <1>2, <2>2, <2>3 DEF ChildInv, AtWork
<1>9. TreeInv(B, T, v)
  BY <1>1, <1>2 DEF TreeInv, Certain, Held
<1> QED BY <1>5, <1>6, <1>7, <1>8, <1>9 DEF Rest, B

\* The child's row ends, with its patch if it has one, and the worker validates it, repairs
\* it or closes the recovery.
LEMMA ReturnsKeeps ==
  ASSUME NEW x \in RunRecords, NEW A \in Seq(AgentRecords), NEW f, NEW T,
         NEW w \in WorkerRecords, Rest(x, A, f, T, w), w.pc \in {"record", "fail"},
         w.agent \in Live(A),
         NEW b \in AgentRecords, b.type = A[w.agent].type, b.task = A[w.agent].task,
         b.status \in {"completed", "failed"}, b.of = A[w.agent].of,
         b.recovery = A[w.agent].recovery,
         b.status = "completed" /\ w.kind = "debug" => b.patch = w.patch /\ w.pc = "record",
         NEW y \in RunRecords, y.status = x.status,
         \A u \in Tasks : \/ y.task[u].status = x.task[u].status
                          \/ /\ u = w.task /\ x.task[u].status = "running"
                             /\ y.task[u].status = "failed",
         NEW v \in WorkerRecords, v.task = w.task, v.recovery = w.recovery, v.result = w.result,
         v.agent = w.agent, v.passed => v.kind = w.kind,
         \/ /\ v.pc = "start" /\ ~v.passed /\ (v.kind = "debug" => v.debugs < DebugLimit)
            /\ Held([A EXCEPT ![w.agent] = b], T, v)
         \/ v.pc = "close" /\ ~v.passed
         \/ /\ v.pc = "close" /\ v.passed /\ w.kind = "test" /\ w.pc = "record"
            /\ b.status = "completed" /\ b.saw = T.version
  PROVE  Rest(y, [A EXCEPT ![w.agent] = b], f, T, v)
<1> DEFINE k == w.agent
           B == [A EXCEPT ![k] = b]
<1>1. k \in 1..Len(A) /\ Live(A) \subseteq 1..Len(A) /\ Made(A) \subseteq 1..Len(A)
  BY AgentTypes
<1>2. /\ B \in Seq(AgentRecords) /\ Len(B) = Len(A) /\ B[k] = b
      /\ \A i \in 1..Len(A) : i # k => B[i] = A[i]
  BY <1>1, AgentSet
<1>3. /\ A[k].type = w.kind /\ A[k].task = w.task /\ k = Len(A) /\ Len(A) # 0
      /\ Live(A) \subseteq {w.recovery, k}
      /\ w.kind = "coding" => \A j \in Made(A) : A[j].task # w.task
      /\ w.kind = "test" => Tests(A, k, w.task)
      /\ w.pc = "record" /\ w.kind = "debug" =>
            A[k].patch = w.patch /\ New(A, w.task, w.patch)
  BY DEF Rest, ChildInv, AtWork
<1>4. /\ w.kind \in {"coding", "test", "debug"} /\ w.task \in Tasks /\ w.pc # "none"
      /\ \A i \in 1..Len(A) : A[i].task \in Tasks
  BY AgentTypes DEF WorkerRecords
<1> HIDE DEF B, k
<1>5. /\ Live(B) = Live(A) \ {k} /\ k \notin Made(A)
      /\ w.kind \in {"coding", "debug"} /\ b.status = "completed" => Made(B) = Made(A) \cup {k}
      /\ w.kind = "test" \/ b.status = "failed" => Made(B) = Made(A)
  <2>1. k \in Live(A) /\ B[k].type = A[k].type /\ B[k].status \in {"completed", "failed"}
    BY <1>2 DEF k
  <2> QED BY <1>2, <1>3, <2>1, AgentEnded
<1>6. /\ b.type = w.kind /\ b.task = w.task /\ b.of = A[k].of /\ b.recovery = A[k].recovery
      /\ v.agent = k
  BY <1>3 DEF k
<1>7. A[k].status = "running"
  BY DEF k, Live
<1>8. AgentInv(y, B)
  <2>1. ASSUME NEW i \in 1..Len(B)
        PROVE  /\ B[i].type = "recovery" /\ B[i].status = "running" =>
                     y.task[B[i].task].status \in {"queued", "running", "failed"}
               /\ B[i].type = "recovery" /\ B[i].status # "running" =>
                     Done(y.task[B[i].task].status)
               /\ B[i].type # "recovery" =>
                     y.task[B[i].task].status \notin {"pending", "queued"}
               /\ B[i].type = "debug" =>
                     /\ B[i].recovery \in 1..Len(B)
                     /\ B[B[i].recovery].type = "recovery"
                     /\ B[B[i].recovery].task = B[i].task
    <3>1. B[i].type = A[i].type /\ B[i].task = A[i].task /\ B[i].recovery = A[i].recovery
      BY <1>2, <1>3, <1>6, <2>1
    <3>2. i # k => B[i].status = A[i].status
      BY <1>2, <2>1
    <3>3. B[i].type = "recovery" => i # k
      BY <1>2, <1>4, <1>6, <2>1
    <3>4. B[i].type = "recovery" /\ B[i].status = "running" =>
             y.task[B[i].task].status \in {"queued", "running", "failed"}
      BY <1>2, <1>4, <2>1, <3>1, <3>2, <3>3 DEF Rest, AgentInv
    <3>5. B[i].type = "recovery" /\ B[i].status # "running" => Done(y.task[B[i].task].status)
      BY <1>2, <1>4, <2>1, <3>1, <3>2, <3>3 DEF Rest, AgentInv, Done, TERMINAL
    <3>6. B[i].type # "recovery" => y.task[B[i].task].status \notin {"pending", "queued"}
      BY <1>2, <1>4, <2>1, <3>1 DEF Rest, AgentInv
    <3>7. ASSUME B[i].type = "debug"
          PROVE  /\ B[i].recovery \in 1..Len(B)
                 /\ B[B[i].recovery].type = "recovery"
                 /\ B[B[i].recovery].task = B[i].task
      <4>1. i \in 1..Len(A) /\ A[i].type = "debug"
        BY <1>2, <3>1, <3>7
      <4>2. /\ A[i].recovery \in 1..Len(A) /\ A[A[i].recovery].type = "recovery"
            /\ A[A[i].recovery].task = A[i].task
        BY <4>1 DEF Rest, AgentInv
      <4>3. A[i].recovery # k
        BY <1>3, <1>4, <4>2
      <4> QED BY <1>2, <3>1, <4>2, <4>3
    <3> QED BY <3>4, <3>5, <3>6, <3>7
  <2>2. \A i \in 1..Len(A) : B[i].type = "recovery" => i # k /\ B[i] = A[i]
    BY <1>2, <1>4, <1>6
  <2>3. \A i, j \in 1..Len(B) :
           B[i].type = "recovery" /\ B[j].type = "recovery" =>
              /\ B[i].task = B[j].task => i = j
              /\ B[i].status = "running" /\ B[j].status = "running" => i = j
    BY <1>2, <2>2 DEF Rest, AgentInv
  <2>4. ASSUME NEW i \in Made(B), NEW j \in Made(B), B[i].task = B[j].task,
               B[i].patch = B[j].patch, i # j
        PROVE  FALSE
    <3>1. \A p, q \in Made(A) : A[p].task = A[q].task /\ A[p].patch = A[q].patch => p = q
      BY DEF Rest, AgentInv
    <3>2. CASE Made(B) = Made(A)
      BY <1>1, <1>2, <1>5, <2>4, <3>1, <3>2
    <3>3. CASE /\ w.kind \in {"coding", "debug"} /\ b.status = "completed"
               /\ Made(B) = Made(A) \cup {k}
      <4>1. ASSUME NEW q \in Made(A), B[q].task = b.task, B[q].patch = b.patch PROVE FALSE
        <5>1. q # k /\ B[q] = A[q] /\ A[q].task = w.task
          BY <1>1, <1>2, <1>5, <1>6, <4>1
        <5>2. w.kind = "debug" /\ b.patch = w.patch /\ w.pc = "record"
          BY <1>3, <3>3, <5>1
        <5> QED BY <1>3, <4>1, <5>1, <5>2 DEF New
      <4> QED BY <1>1, <1>2, <1>5, <2>4, <3>1, <3>3, <4>1
    <3> QED BY <1>4, <1>5, <3>2, <3>3
  <2> QED BY <2>1, <2>3, <2>4 DEF AgentInv
<1>9. FlowInv(y, B, f, T, v)
  <2>1. ASSUME NEW t \in Tasks, y.task[t].status = "running", f # "none"
        PROVE  \E i \in Live(B) : B[i].type = "recovery" /\ B[i].task = t
    <3>1. x.task[t].status = "running"
      BY <2>1
    <3>2. PICK i \in Live(A) : A[i].type = "recovery" /\ A[i].task = t
      BY <2>1, <3>1 DEF Rest, FlowInv
    <3>3. i # k
      BY <1>3, <1>4, <3>2
    <3> QED BY <1>1, <1>2, <1>5, <3>2, <3>3
  <2>2. Live(A) = {} => Live(B) = {}
    BY <1>5
  <2>3. Over(x) => Over(y)
    BY DEF Over
  <2> QED BY <1>4, <2>1, <2>2, <2>3 DEF Rest, FlowInv
<1>10. OwnerInv(y, B, v)
  <2>1. /\ w.recovery \in 1..Len(A)
        /\ A[w.recovery].type = "recovery" /\ A[w.recovery].task = w.task
        /\ \A i \in Live(A) : A[i].type = "recovery" => i = w.recovery
        /\ ~Over(x) => A[w.recovery].status = "running"
        /\ w.result = "blocked"
    BY DEF Rest, OwnerInv, Owning
  <2>2. w.recovery # k
    BY <1>3, <1>4, <2>1
  <2>3. B[w.recovery] = A[w.recovery]
    BY <1>2, <2>1, <2>2
  <2>4. \A i \in Live(B) : B[i].type = "recovery" => i = w.recovery
    BY <1>1, <1>2, <1>5, <2>1
  <2>5. Over(y) <=> Over(x)
    BY DEF Over
  <2>6. Live(B) \subseteq {w.recovery}
    BY <1>3, <1>5
  <2> QED BY <1>2, <2>1, <2>3, <2>4, <2>5, <2>6 DEF OwnerInv, Owning
<1>11. ChildInv(B, T, v)
  <2>1. ASSUME v.passed
        PROVE  /\ Tests(B, k, w.task) /\ B[k].status = "completed" /\ B[k].saw = T.version
               /\ Live(B) \subseteq {w.recovery} /\ w.kind = "test" /\ v.pc = "close"
    <3>1. w.kind = "test" /\ b.status = "completed" /\ b.saw = T.version /\ v.pc = "close"
      BY <2>1
    <3>2. Tests(A, k, w.task) /\ Made(B) = Made(A)
      BY <1>3, <1>5, <3>1
    <3>3. \A j \in Made(A) : B[j] = A[j]
      BY <1>1, <1>2, <1>5
    <3>4. Tests(B, k, w.task)
      BY <1>2, <1>6, <3>1, <3>2, <3>3 DEF Tests
    <3> QED BY <1>2, <1>3, <1>5, <3>1, <3>4
  <2> QED BY <1>2, <1>3, <1>6, <2>1 DEF ChildInv, AtWork
<1>12. TreeInv(B, T, v)
  <2>1. v.passed => Certain(B, T)
    <3>1. v.passed => Certain(A, T) /\ Made(B) = Made(A)
      BY <1>5 DEF Rest, TreeInv
    <3> QED BY <3>1 DEF Certain
  <2>2. v.pc = "start" => Held(B, T, v)
    BY DEF B, k
  <2> QED BY <2>1, <2>2 DEF TreeInv
<1> QED BY <1>8, <1>9, <1>10, <1>11, <1>12 DEF Rest, B, k

\* The recovery is closed with its task.
LEMMA ClosesKeeps ==
  ASSUME NEW x \in RunRecords, NEW A \in Seq(AgentRecords), NEW f, NEW T,
         NEW w \in WorkerRecords, Rest(x, A, f, T, w), w.pc = "close",
         w.recovery \in Live(A),
         NEW b \in AgentRecords, b.type = "recovery", b.task = w.task,
         b.status = IF w.passed THEN "completed" ELSE "failed",
         NEW y \in RunRecords, y.status = x.status, y.task[w.task].status = b.status,
         \A u \in Tasks : u # w.task => y.task[u].status = x.task[u].status,
         NEW v \in WorkerRecords, v.pc = "leave", v.kind = w.kind, v.passed = w.passed,
         v.result = IF w.passed THEN "repeat" ELSE "blocked"
  PROVE  Rest(y, [A EXCEPT ![w.recovery] = b], f, T, v)
<1> DEFINE k == w.recovery
           B == [A EXCEPT ![k] = b]
<1>1. k \in 1..Len(A) /\ Live(A) \subseteq 1..Len(A) /\ Made(A) \subseteq 1..Len(A)
  BY AgentTypes
<1>2. /\ B \in Seq(AgentRecords) /\ Len(B) = Len(A) /\ B[k] = b
      /\ \A i \in 1..Len(A) : i # k => B[i] = A[i]
  BY <1>1, AgentSet
<1>3. /\ A[k].type = "recovery" /\ A[k].task = w.task
      /\ \A i \in Live(A) : A[i].type = "recovery" => i = k
      /\ w.passed => Live(A) \subseteq {k} /\ Certain(A, T) /\ w.kind = "test"
  BY DEF Rest, OwnerInv, ChildInv, TreeInv, Owning
<1>4. /\ w.task \in Tasks /\ w.passed \in BOOLEAN /\ w.pc # "none"
      /\ \A i \in 1..Len(A) : A[i].task \in Tasks
  BY AgentTypes DEF WorkerRecords
<1> HIDE DEF B, k
<1>5. Live(B) = Live(A) \ {k} /\ k \notin Made(A) /\ Made(B) = Made(A)
  <2>1. /\ k \in Live(A) /\ B[k].type = A[k].type /\ A[k].type \notin {"coding", "debug"}
        /\ B[k].status \in {"completed", "failed"}
    BY <1>2, <1>3 DEF k
  <2> QED BY <1>2, <2>1, AgentEnded
<1>6. AgentInv(y, B)
  <2>1. ASSUME NEW i \in 1..Len(B)
        PROVE  /\ B[i].type = "recovery" /\ B[i].status = "running" =>
                     y.task[B[i].task].status \in {"queued", "running", "failed"}
               /\ B[i].type = "recovery" /\ B[i].status # "running" =>
                     Done(y.task[B[i].task].status)
               /\ B[i].type # "recovery" =>
                     y.task[B[i].task].status \notin {"pending", "queued"}
               /\ B[i].type = "debug" =>
                     /\ B[i].recovery \in 1..Len(B)
                     /\ B[B[i].recovery].type = "recovery"
                     /\ B[B[i].recovery].task = B[i].task
    <3>1. CASE i = k
      BY <1>2, <3>1 DEF Done, TERMINAL
    <3>2. CASE i # k
      <4>1. B[i] = A[i] /\ i \in 1..Len(A) /\ A[i].task \in Tasks
        BY <1>2, <1>4, <2>1, <3>2
      <4>2. A[i].type = "recovery" => A[i].task # w.task
        BY <1>1, <1>3, <3>2, <4>1 DEF Rest, AgentInv
      <4>3. A[i].type = "debug" =>
               /\ A[i].recovery \in 1..Len(A) /\ A[A[i].recovery].type = "recovery"
               /\ A[A[i].recovery].task = A[i].task
        BY <4>1 DEF Rest, AgentInv
      <4>4. \A j \in 1..Len(A) : B[j].type = A[j].type /\ B[j].task = A[j].task
        BY <1>2, <1>3
      <4>5. A[i].type # "recovery" =>
               y.task[A[i].task].status \notin {"pending", "queued"}
        BY <4>1 DEF Rest, AgentInv
      <4>6. /\ A[i].type = "recovery" /\ A[i].status = "running" =>
                  y.task[A[i].task].status \in {"queued", "running", "failed"}
            /\ A[i].type = "recovery" /\ A[i].status # "running" =>
                  Done(y.task[A[i].task].status)
        BY <4>1, <4>2 DEF Rest, AgentInv
      <4> QED BY <1>2, <4>1, <4>3, <4>4, <4>5, <4>6
    <3> QED BY <3>1, <3>2
  <2>2. \A i \in 1..Len(A) : /\ B[i].type = A[i].type /\ B[i].task = A[i].task
                             /\ B[i].status = "running" => A[i].status = "running"
    BY <1>2, <1>3
  <2>3. \A i, j \in 1..Len(B) :
           B[i].type = "recovery" /\ B[j].type = "recovery" =>
              /\ B[i].task = B[j].task => i = j
              /\ B[i].status = "running" /\ B[j].status = "running" => i = j
    BY <1>2, <2>2 DEF Rest, AgentInv
  <2>4. \A i, j \in Made(B) : B[i].task = B[j].task /\ B[i].patch = B[j].patch => i = j
    BY <1>1, <1>2, <1>5 DEF Rest, AgentInv
  <2> QED BY <2>1, <2>3, <2>4 DEF AgentInv
<1>7. FlowInv(y, B, f, T, v)
  <2>1. \A t \in Tasks : f # "none" => y.task[t].status # "running"
    <3> SUFFICES ASSUME NEW t \in Tasks, f # "none", y.task[t].status = "running"
                 PROVE  FALSE
      OBVIOUS
    <3>1. t # w.task /\ x.task[t].status = "running"
      OBVIOUS
    <3>2. PICK i \in Live(A) : A[i].type = "recovery" /\ A[i].task = t
      BY <3>1 DEF Rest, FlowInv
    <3> QED BY <1>3, <3>1, <3>2
  <2>2. Live(A) = {} => Live(B) = {}
    BY <1>5
  <2>3. Over(x) => Over(y)
    BY DEF Over
  <2> QED BY <1>4, <2>1, <2>2, <2>3 DEF Rest, FlowInv
<1>8. w.passed => Live(B) = {} /\ Certain(B, T)
  BY <1>3, <1>5 DEF Certain
<1>9. OwnerInv(y, B, v) /\ ChildInv(B, T, v) /\ TreeInv(B, T, v)
  BY <1>3, <1>4, <1>8 DEF OwnerInv, ChildInv, TreeInv, Owning, AtWork
<1> QED BY <1>6, <1>7, <1>9 DEF Rest, B, k

\* A repair keeps its proposal, and applies it if nothing like it was applied.
LEMMA ReservesKeeps ==
  ASSUME NEW x \in RunRecords, NEW A \in Seq(AgentRecords), NEW f, NEW T,
         NEW w \in WorkerRecords, Rest(x, A, f, T, w), w.pc = "work", w.kind = "debug",
         ~T.barred, NEW p, NEW b \in AgentRecords, b.type = A[w.agent].type, b.task = A[w.agent].task,
         b.status = A[w.agent].status, b.recovery = A[w.agent].recovery, b.patch = p,
         NEW v \in WorkerRecords, v.pc \in {"fail", "apply"}, v.pc = "apply" => New(A, w.task, p),
         v.patch = p, v.task = w.task, v.recovery = w.recovery, v.result = w.result,
         v.agent = w.agent, v.passed = w.passed, v.kind = w.kind, v.hard = w.hard
  PROVE  Rest(x, [A EXCEPT ![w.agent] = b], f, T, v)
<1> DEFINE k == w.agent
           B == [A EXCEPT ![k] = b]
<1>1. /\ A[k].type = w.kind /\ A[k].task = w.task /\ k = Len(A) /\ Len(A) # 0
      /\ Live(A) \subseteq {w.recovery, k} /\ A[k].status # "completed"
      /\ Certain(A, T) /\ ~w.hard /\ ~w.passed
  BY DEF Rest, ChildInv, TreeInv, Held, AtWork
<1>2. k \in 1..Len(A) /\ Live(A) \subseteq 1..Len(A) /\ Made(A) \subseteq 1..Len(A)
  BY <1>1, AgentTypes
<1>3. /\ B \in Seq(AgentRecords) /\ Len(B) = Len(A) /\ B[k] = b
      /\ \A i \in 1..Len(A) : i # k => B[i] = A[i]
  BY <1>2, AgentSet
<1> HIDE DEF B
<1>4. \A i \in 1..Len(A) : /\ B[i].type = A[i].type /\ B[i].task = A[i].task
                           /\ B[i].status = A[i].status /\ B[i].recovery = A[i].recovery
  BY <1>3
<1>5. Live(B) = Live(A) /\ Made(B) = Made(A) /\ k \notin Made(A)
  BY <1>1, <1>3, <1>4 DEF Live, Made
<1>6. \A i \in Made(A) : B[i] = A[i]
  BY <1>2, <1>3, <1>5
<1>7. AgentInv(x, B)
  <2>1. \A i, j \in Made(B) : B[i].task = B[j].task /\ B[i].patch = B[j].patch => i = j
    BY <1>5, <1>6 DEF Rest, AgentInv
  <2> QED BY <1>3, <1>4, <2>1 DEF Rest, AgentInv
<1>8. FlowInv(x, B, f, T, v)
  <2>1. \A t \in Tasks : f # "none" /\ x.task[t].status = "running" =>
           \E i \in Live(B) : B[i].type = "recovery" /\ B[i].task = t
    BY <1>2, <1>4, <1>5 DEF Rest, FlowInv
  <2> QED BY <1>5, <2>1 DEF Rest, FlowInv
<1>9. OwnerInv(x, B, v)
  BY <1>2, <1>3, <1>4, <1>5 DEF Rest, OwnerInv, Owning
<1>10. ChildInv(B, T, v)
  <2>1. v.pc = "apply" => New(B, w.task, p)
    BY <1>5, <1>6 DEF New
  <2> QED BY <1>1, <1>3, <1>4, <1>5, <2>1 DEF ChildInv, AtWork
<1>11. TreeInv(B, T, v)
  BY <1>1, <1>5 DEF TreeInv, Certain, Held
<1> QED BY <1>7, <1>8, <1>9, <1>10, <1>11 DEF Rest, B

-----------------------------------------------------------------------------
(* The worker's transactions *)

LEMMA Transaction ==
  ASSUME Inv, NEW r \in Runs, NEW x \in RunRecords, NEW A \in Seq(AgentRecords),
         NEW w \in WorkerRecords, Put(r, x), agents' = [agents EXCEPT ![r] = A], Go(r, w),
         UNCHANGED <<flow, tree>>, Good(x, A, flow[r], tree[r], w)
  PROVE  Inv'
<1>1. /\ run' \in [Runs -> RunRecords] /\ run'[r] = x /\ idle' \subseteq Runs
      /\ \A q \in Runs \ {r} : run'[q] = run[q]
  BY RowPut
<1>2. /\ worker' \in [Runs -> WorkerRecords] /\ worker'[r] = w
      /\ \A q \in Runs \ {r} : worker'[q] = worker[q]
  BY WorkerGoes
<1>3. /\ agents' \in [Runs -> Seq(AgentRecords)] /\ agents'[r] = A
      /\ \A q \in Runs \ {r} : agents'[q] = agents[q]
  BY DEF Inv, TypeOK
<1>4. TypeOK' /\ Elsewhere(r)
  BY <1>1, <1>2, <1>3 DEF Inv, TypeOK, Elsewhere
<1> QED BY <1>1, <1>2, <1>3, <1>4, OneRun

\* A transaction that writes one agent, or none.
LEMMA AgentWritten ==
  ASSUME Inv, NEW r \in Runs, NEW k, NEW a, agents' = [agents EXCEPT ![r][k] = a]
  PROVE  agents' = [agents EXCEPT ![r] = [agents[r] EXCEPT ![k] = a]]
  OBVIOUS

LEMMA AgentsKept ==
  ASSUME Inv, NEW r \in Runs, UNCHANGED agents
  PROVE  agents' = [agents EXCEPT ![r] = agents[r]]
  BY DEF Inv, TypeOK

LEMMA RowKept ==
  ASSUME Inv, NEW r \in Runs, UNCHANGED <<run, idle>> PROVE Put(r, run[r])
  BY DEF Inv, TypeOK, Put

\* The workflow and the worker move, by a claim or its end.
LEMMA FlowMoves ==
  ASSUME Inv, NEW r \in Runs, NEW w \in WorkerRecords, Go(r, w),
         NEW g \in {"none", "waiting", "active", "failed", "blocked", "done", "cancelled"},
         flow' = [flow EXCEPT ![r] = g], UNCHANGED <<run, agents, idle, tree>>,
         Rest(run[r], agents[r], g, tree[r], w)
  PROVE  Inv'
<1>1. /\ worker' \in [Runs -> WorkerRecords] /\ worker'[r] = w
      /\ \A q \in Runs \ {r} : worker'[q] = worker[q]
  BY WorkerGoes
<1>2. /\ flow' \in [Runs -> {"none", "waiting", "active", "failed", "blocked", "done",
                             "cancelled"}]
      /\ flow'[r] = g /\ \A q \in Runs \ {r} : flow'[q] = flow[q]
  BY DEF Inv, TypeOK
<1>3. TypeOK' /\ Elsewhere(r)
  BY <1>1, <1>2 DEF Inv, TypeOK, Elsewhere
<1>4. Good(run'[r], agents'[r], flow'[r], tree'[r], worker'[r])
  BY <1>1, <1>2, RunTypes DEF Good
<1> QED BY <1>3, <1>4, OneRun

LEMMA ClaimInv == ASSUME Inv, NEW r \in Runs, Claim(r) PROVE Inv'
<1> DEFINE v == [NoWorker EXCEPT !.pc = "stage"]
           x == run[r]
           A == agents[r]
           T == tree[r]
<1>1. /\ flow[r] = "waiting" /\ flow' = [flow EXCEPT ![r] = "active"] /\ Go(r, v)
      /\ UNCHANGED <<run, agents, idle, tree>>
  BY DEF Claim
<1>2. v \in WorkerRecords
  BY NoWorkerType DEF WorkerRecords
<1>3. v.pc = "stage" /\ v.passed = FALSE /\ v.result = "blocked" /\ v.hard = FALSE
  BY DEF NoWorker
<1> HIDE DEF v
<1>4. Live(A) = {} /\ Certain(A, T)
  BY <1>1, RunTypes DEF Rest, FlowInv
<1>5. FlowInv(x, A, "active", T, v)
  BY <1>1, RunTypes DEF Rest, FlowInv
<1>6. OwnerInv(x, A, v) /\ ChildInv(A, T, v) /\ TreeInv(A, T, v)
  BY <1>3, <1>4 DEF OwnerInv, ChildInv, TreeInv, Owning, AtWork
<1>7. Rest(x, A, "active", T, v)
  BY <1>5, <1>6, RunTypes DEF Rest
<1> QED BY <1>1, <1>2, <1>7, FlowMoves

LEMMA LeaveInv == ASSUME Inv, NEW r \in Runs, Leave(r) PROVE Inv'
<1> DEFINE w == worker[r]
           x == run[r]
           A == agents[r]
           T == tree[r]
           f == flow[r]
           g == IF f # "active" THEN f
                ELSE IF w.result = "repeat" THEN "waiting" ELSE w.result
<1>1. /\ w.pc = "leave" /\ flow' = [flow EXCEPT ![r] = g] /\ Go(r, NoWorker)
      /\ UNCHANGED <<run, agents, idle, tree>>
  BY DEF Leave, Me
<1>2. /\ w.result \in {"blocked", "failed", "done", "repeat"}
      /\ f \in {"none", "waiting", "active", "failed", "blocked", "done", "cancelled"}
  BY RunTypes DEF WorkerRecords, Inv, TypeOK
<1>3. g \in {"none", "waiting", "active", "failed", "blocked", "done", "cancelled"}
  BY <1>2
<1>4. NoWorker.pc = "none" /\ NoWorker.passed = FALSE /\ NoWorker.result = "blocked"
  BY DEF NoWorker
<1>5. w.result # "blocked" => Live(A) = {} /\ Certain(A, T)
  BY <1>1, RunTypes DEF Rest, OwnerInv, TreeInv
<1>6. FlowInv(x, A, g, T, NoWorker)
  <2>1. CASE f # "active"
    BY <1>4, <2>1, RunTypes DEF Rest, FlowInv
  <2>2. CASE f = "active"
    <3>1. /\ g \in {"waiting", "blocked", "failed", "done"}
          /\ g # "blocked" => w.result # "blocked"
      BY <1>2, <2>2
    <3> HIDE DEF g
    <3> QED BY <1>4, <1>5, <2>2, <3>1, RunTypes DEF Rest, FlowInv
  <2> QED BY <2>1, <2>2
<1>7. OwnerInv(x, A, NoWorker) /\ ChildInv(A, T, NoWorker) /\ TreeInv(A, T, NoWorker)
  BY <1>4 DEF OwnerInv, ChildInv, TreeInv, Owning, AtWork
<1>8. Rest(x, A, g, T, NoWorker)
  BY <1>6, <1>7, RunTypes DEF Rest
<1> HIDE DEF g
<1> QED BY <1>1, <1>3, <1>8, NoWorkerType, FlowMoves

LEMMA StageInv == ASSUME Inv, NEW r \in Runs, Stage(r) PROVE Inv'
<1> DEFINE w == worker[r]
           y == Advanced(run[r])
           A == agents[r]
           T == tree[r]
           f == flow[r]
<1>1. w.pc = "stage" /\ Put(r, y) /\ UNCHANGED <<agents, flow, tree>>
  BY DEF Stage, Me
<1>2. PICK v : /\ Go(r, v)
               /\ \/ \E result \in {"done", "blocked", "failed"} :
                        v = [w EXCEPT !.pc = "leave", !.result = result]
                  \/ \E t \in Tasks : v = [w EXCEPT !.pc = "open", !.task = t]
  BY DEF Stage, Me
<1>3. /\ v \in WorkerRecords /\ v.pc \in {"leave", "open"} /\ v.passed = w.passed
      /\ v.pc = "open" => v.result = w.result
  BY <1>2, RunTypes DEF WorkerRecords
<1>4. y \in RunRecords /\ Good(y, A, f, T, w)
  <2>1. Passed(run[r], y)
    BY RunTypes, PassRow
  <2>2. y \in RunRecords
    BY <2>1 DEF Passed
  <2> HIDE DEF y
  <2> QED BY <2>1, <2>2, RunTypes, PassKeeps
<1> HIDE DEF y
<1>5. Live(A) = {} /\ Certain(A, T) /\ w.passed = FALSE /\ w.result = "blocked"
  BY <1>1, <1>4, RunTypes DEF Good, Rest, OwnerInv, ChildInv, TreeInv, WorkerRecords
<1>6. FlowInv(y, A, f, T, v)
  BY <1>1, <1>3, <1>4, Moves DEF Good, Rest
<1>7. OwnerInv(y, A, v) /\ ChildInv(A, T, v) /\ TreeInv(A, T, v)
  BY <1>3, <1>5 DEF OwnerInv, ChildInv, TreeInv, Owning, AtWork
<1>8. Good(y, A, f, T, v)
  BY <1>4, <1>6, <1>7 DEF Good, Rest
<1> QED BY <1>1, <1>2, <1>3, <1>4, <1>8, AgentsKept, RunTypes, Transaction

LEMMA OpenInv == ASSUME Inv, NEW r \in Runs, Open(r) PROVE Inv'
<1> DEFINE w == worker[r]
           x == run[r]
           A == agents[r]
           a == NewAgent("recovery", w.task)
           v == [w EXCEPT !.pc = "start", !.recovery = Len(A) + 1,
                          !.kind = IF x.task[w.task].status = "queued" THEN "coding"
                                   ELSE "test"]
<1>1. /\ w.pc = "open" /\ agents' = [agents EXCEPT ![r] = Append(A, a)] /\ Go(r, v)
      /\ UNCHANGED <<run, idle, flow, tree>>
      /\ x.task[w.task].status \in {"queued", "running"}
  BY DEF Open, CanOpen, Me, Mine, Inv, TypeOK
<1>2. /\ x \in RunRecords /\ A \in Seq(AgentRecords) /\ w \in WorkerRecords
      /\ Rest(x, A, flow[r], tree[r], w) /\ w.task \in Tasks /\ RowInv(x)
  BY RunTypes DEF WorkerRecords
<1>3. ~Over(x)
  BY <1>1, <1>2 DEF RowInv, BeforePass, Over, EndedRun, Done, TERMINAL
<1>4. a \in AgentRecords /\ a.type = "recovery" /\ a.task = w.task /\ a.status = "running"
  BY <1>2, FreshAgent
<1>5. Len(A) + 1 \in Nat
  BY <1>2
<1>6. /\ v \in WorkerRecords /\ v.pc = "start" /\ v.recovery = Len(A) + 1 /\ v.task = w.task
      /\ v.kind \in {"coding", "test"} /\ v.passed = w.passed /\ v.result = w.result
  BY <1>2, <1>5 DEF WorkerRecords
<1> HIDE DEF a, v
<1>7. Good(x, Append(A, a), flow[r], tree[r], v)
  <2>1. Rest(x, Append(A, a), flow[r], tree[r], v)
    BY <1>1, <1>2, <1>3, <1>4, <1>6, OpensKeeps
  <2> QED BY <1>2, <2>1 DEF Good
<1>8. Append(A, a) \in Seq(AgentRecords)
  BY <1>2, <1>4
<1> QED BY <1>1, <1>2, <1>6, <1>7, <1>8, RowKept, Transaction

\* A set of agents has a newest one.
LEMMA NewestExists ==
  ASSUME NEW n \in Nat, NEW S \in SUBSET (1..n), S # {}
  PROVE  \E m \in S : \A j \in S : j <= m
<1> DEFINE R == {p \in Nat \X Nat : p[1] < p[2]}
           D == {n - j : j \in S}
<1>1. IsWellFoundedOn(R, Nat)
  <2>1. OpToRel(<, Nat) = R
    BY DEF OpToRel
  <2> QED BY <2>1, NatLessThanWellFounded
<1>2. D \subseteq Nat /\ D # {}
  <2>1. \A j \in S : n - j \in Nat
    OBVIOUS
  <2> QED BY <2>1
<1>3. PICK d \in D : \A e \in D : <<e, d>> \notin R
  <2> HIDE DEF R, D
  <2> QED BY <1>1, <1>2, WFMin
<1>4. PICK m \in S : d = n - m
  BY <1>3
<1>5. ASSUME NEW j \in S PROVE j <= m
  <2>1. n - j \in D /\ n - j \in Nat /\ d \in Nat
    BY <1>2, <1>3
  <2>2. ~(n - j < d)
    BY <2>1, <1>3
  <2> QED BY <1>4, <2>1, <2>2
<1> QED BY <1>5

LEMMA NewestOfTask ==
  ASSUME Inv, NEW r \in Runs, NEW t, Applied(r, t) # {}
  PROVE  /\ NewestApplied(r, t) \in Made(agents[r])
         /\ agents[r][NewestApplied(r, t)].task = t
         /\ \A j \in Made(agents[r]) : agents[r][j].task = t => j <= NewestApplied(r, t)
<1> DEFINE S == Applied(r, t)
           n == Len(agents[r])
<1>1. n \in Nat /\ S \subseteq 1..n
  BY RunTypes DEF Applied
<1>2. S = {i \in Made(agents[r]) : agents[r][i].task = t}
  BY RunTypes DEF Applied, Made
<1> HIDE DEF S, n
<1>3. \E m \in S : \A j \in S : j <= m
  BY <1>1, NewestExists DEF S
<1>4. NewestApplied(r, t) \in S /\ \A j \in S : j <= NewestApplied(r, t)
  BY <1>3 DEF NewestApplied, S
<1> QED BY <1>2, <1>4

\* What a child that starts is told.
LEMMA BeginsInv ==
  ASSUME Inv, NEW r \in Runs, worker[r].pc = "start",
         NEW x \in RunRecords, x.status = run[r].status,
         x.task[worker[r].task].status = "running",
         \A u \in Tasks : u # worker[r].task => x.task[u].status = run[r].task[u].status,
         run[r].task[worker[r].task].status \in {"queued", "running"},
         worker[r].kind = "coding" => run[r].task[worker[r].task].status = "queued",
         NEW y, Passed(x, y) \/ (y = x /\ RowInv(x)),
         NEW a \in AgentRecords, a.type = worker[r].kind, a.task = worker[r].task,
         a.status = "running",
         worker[r].kind = "debug" => a.recovery = worker[r].recovery,
         worker[r].kind = "test" =>
            /\ a.of \in Made(agents[r]) /\ agents[r][a.of].task = worker[r].task
            /\ \A j \in Made(agents[r]) : agents[r][j].task = worker[r].task => j <= a.of,
         Begins(r, y, a)
  PROVE  Inv'
<1> DEFINE w == worker[r]
           A == agents[r]
           f == flow[r]
           T == tree[r]
           v == [w EXCEPT !.pc = "work", !.agent = Len(A) + 1, !.patch = "none",
                          !.hard = FALSE,
                          !.debugs = IF w.kind = "debug" THEN w.debugs + 1 ELSE w.debugs]
<1>1. /\ Put(r, y) /\ agents' = [agents EXCEPT ![r] = Append(A, a)] /\ Go(r, v)
      /\ UNCHANGED <<flow, tree>>
  <2>1. agents' = [agents EXCEPT ![r] = Append(A, a)]
    BY DEF Begins, Inv, TypeOK
  <2>2. Go(r, v)
    BY DEF Begins, Me
  <2> QED BY <2>1, <2>2 DEF Begins
<1>2. /\ run[r] \in RunRecords /\ A \in Seq(AgentRecords) /\ w \in WorkerRecords
      /\ Rest(run[r], A, f, T, w) /\ w.task \in Tasks /\ RowInv(run[r])
  BY RunTypes DEF WorkerRecords
<1>3. ~Over(run[r])
  BY <1>2 DEF RowInv, BeforePass, Over, EndedRun, Done, TERMINAL
<1>4. w.kind = "debug" => w.debugs + 1 \in 0..DebugLimit
  <2>1. w.debugs \in 0..DebugLimit /\ DebugLimit \in Nat
    BY <1>2, BoundsAssumption DEF WorkerRecords
  <2>2. w.kind = "debug" => w.debugs < DebugLimit
    BY <1>2 DEF Rest, OwnerInv
  <2> QED BY <2>1, <2>2
<1>5. Len(A) + 1 \in Nat
  BY <1>2
<1>6. /\ v \in WorkerRecords /\ v.pc = "work" /\ v.agent = Len(A) + 1 /\ ~v.hard
      /\ v.task = w.task /\ v.kind = w.kind /\ v.recovery = w.recovery
      /\ v.passed = w.passed /\ v.result = w.result
  BY <1>2, <1>4, <1>5 DEF WorkerRecords
<1> HIDE DEF v
<1>7. Rest(x, Append(A, a), f, T, v)
  BY <1>2, <1>3, <1>6, BeginsKeeps
<1>8. Append(A, a) \in Seq(AgentRecords)
  BY <1>2
<1>9. y \in RunRecords /\ Good(y, Append(A, a), f, T, v)
  <2>1. CASE Passed(x, y)
    BY <1>6, <1>7, <1>8, <2>1, PassKeeps DEF Passed
  <2>2. CASE y = x /\ RowInv(x)
    BY <1>7, <2>2 DEF Good
  <2> QED BY <2>1, <2>2
<1> QED BY <1>1, <1>6, <1>8, <1>9, Transaction

\* The note of a task tells nothing of its run.
LEMMA NoteKeeps ==
  ASSUME NEW x \in RunRecords, NEW t \in Tasks, NEW n \in Notes
  PROVE  /\ RowInv(x) => RowInv(SetNote(x, t, n))
         /\ BeforePass(x) => BeforePass(SetNote(x, t, n))
<1> DEFINE y == SetNote(x, t, n)
<1>1. /\ y.status = x.status /\ y.deps = x.deps
      /\ \A u \in Tasks : y.task[u].status = x.task[u].status
  BY NoteSet
<1>2. \A u \in Tasks : x.deps[u] \subseteq Tasks
  BY PlansAssumption DEF RunRecords
<1> HIDE DEF y
<1>3. BeforePass(x) => BeforePass(y)
  BY <1>1, <1>2 DEF BeforePass
<1>4. RowInv(x) => RowInv(y)
  BY <1>1, <1>3 DEF RowInv, Over
<1> QED BY <1>3, <1>4 DEF y

LEMMA StartCodingInv == ASSUME Inv, NEW r \in Runs, StartCoding(r) PROVE Inv'
<1> DEFINE w == worker[r]
           t == w.task
           x == SetTask(run[r], t, "running", "coding_in_progress")
           a == NewAgent("coding", t)
<1>1. /\ w.pc = "start" /\ w.kind = "coding" /\ run[r].task[t].status = "queued"
      /\ Begins(r, Advanced(x), a)
  BY DEF StartCoding, CanStartCoding, Me, Mine
<1>2. t \in Tasks /\ run[r] \in RunRecords /\ RowInv(run[r])
  BY RunTypes DEF WorkerRecords
<1>3. "coding_in_progress" \in Notes /\ "running" \in TaskStates
  BY DEF Notes, TaskStates
<1>4. /\ x \in RunRecords /\ x.status = run[r].status /\ x.task[t].status = "running"
      /\ \A u \in Tasks : u # t => x.task[u].status = run[r].task[u].status
  BY <1>2, <1>3, TaskSet
<1>5. BeforePass(x)
  BY <1>1, <1>2, <1>3, TaskMoves
<1>6. a \in AgentRecords /\ a.type = "coding" /\ a.task = t /\ a.status = "running"
  BY <1>2, FreshAgent
<1> HIDE DEF a, x
<1>7. Passed(x, Advanced(x))
  BY <1>4, <1>5, PassRow
<1> QED BY <1>1, <1>4, <1>6, <1>7, BeginsInv

LEMMA StartTestsInv == ASSUME Inv, NEW r \in Runs, StartTests(r) PROVE Inv'
<1> DEFINE w == worker[r]
           t == w.task
           x == SetNote(run[r], t, "tests_running")
           o == NewestApplied(r, t)
           a == [NewAgent("test", t) EXCEPT !.of = o]
<1>1. /\ w.pc = "start" /\ w.kind = "test" /\ run[r].task[t].status = "running"
      /\ Applied(r, t) # {} /\ Begins(r, x, a)
  BY DEF StartTests, CanStartTests, Me, Mine
<1>2. t \in Tasks /\ run[r] \in RunRecords /\ RowInv(run[r]) /\ agents[r] \in Seq(AgentRecords)
  BY RunTypes DEF WorkerRecords
<1>3. "tests_running" \in Notes
  BY DEF Notes
<1>4. /\ x \in RunRecords /\ x.status = run[r].status /\ RowInv(x)
      /\ \A u \in Tasks : x.task[u].status = run[r].task[u].status
  BY <1>2, <1>3, NoteSet, NoteKeeps
<1>5. /\ o \in Made(agents[r]) /\ agents[r][o].task = t
      /\ \A j \in Made(agents[r]) : agents[r][j].task = t => j <= o
  BY <1>1, NewestOfTask
<1>6. o \in Nat
  BY <1>2, <1>5, AgentTypes
<1> HIDE DEF o
<1>7. /\ a \in AgentRecords /\ a.type = "test" /\ a.task = t /\ a.status = "running"
      /\ a.of = o
  BY <1>2, <1>6 DEF NewAgent, AgentRecords, NoAgent
<1> HIDE DEF a, x
<1> QED BY <1>1, <1>2, <1>4, <1>5, <1>7, BeginsInv

LEMMA ClaimDebugInv == ASSUME Inv, NEW r \in Runs, ClaimDebug(r) PROVE Inv'
<1> DEFINE w == worker[r]
           t == w.task
           x == SetNote(run[r], t, "debug_running")
           a == [NewAgent("debug", t) EXCEPT !.recovery = w.recovery]
<1>1. /\ w.pc = "start" /\ w.kind = "debug" /\ run[r].task[t].status = "running"
      /\ Begins(r, x, a)
  BY DEF ClaimDebug, CanClaimDebug, Me, Mine
<1>2. /\ t \in Tasks /\ run[r] \in RunRecords /\ RowInv(run[r])
      /\ agents[r] \in Seq(AgentRecords) /\ w.recovery \in Nat
  BY RunTypes DEF WorkerRecords
<1>3. "debug_running" \in Notes
  BY DEF Notes
<1>4. /\ x \in RunRecords /\ x.status = run[r].status /\ RowInv(x)
      /\ \A u \in Tasks : x.task[u].status = run[r].task[u].status
  BY <1>2, <1>3, NoteSet, NoteKeeps
<1>5. /\ a \in AgentRecords /\ a.type = "debug" /\ a.task = t /\ a.status = "running"
      /\ a.recovery = w.recovery
  BY <1>2 DEF NewAgent, AgentRecords, NoAgent
<1> HIDE DEF a, x
<1> QED BY <1>1, <1>2, <1>4, <1>5, BeginsInv

LEMMA ReserveInv == ASSUME Inv, NEW r \in Runs, Reserve(r) PROVE Inv'
<1> DEFINE w == worker[r]
           A == agents[r]
           k == w.agent
<1>1. PICK p \in Patches :
         /\ agents' = [agents EXCEPT ![r][k].patch = p]
         /\ Go(r, [w EXCEPT !.pc = IF Repeated(r, p) THEN "fail" ELSE "apply", !.patch = p])
  BY DEF Reserve, Me
<1> DEFINE b == [A[k] EXCEPT !.patch = p]
           v == [w EXCEPT !.pc = IF Repeated(r, p) THEN "fail" ELSE "apply", !.patch = p]
<1>2. /\ w.pc = "work" /\ w.kind = "debug" /\ k \in Live(A) /\ w.recovery \in Live(A)
      /\ UNCHANGED <<run, idle, flow, tree>> /\ ~tree[r].barred
  BY RunTypes DEF Reserve, InputsReady, DiffReadable, CanReserve, RecoveryOpen, Me
<1>3. /\ run[r] \in RunRecords /\ A \in Seq(AgentRecords) /\ w \in WorkerRecords
      /\ Rest(run[r], A, flow[r], tree[r], w) /\ w.task \in Tasks /\ RowInv(run[r])
  BY RunTypes DEF WorkerRecords
<1>4. k \in 1..Len(A) /\ A[k] \in AgentRecords
  BY <1>2, <1>3, AgentTypes
<1>5. /\ b \in AgentRecords /\ b.type = A[k].type /\ b.task = A[k].task
      /\ b.status = A[k].status /\ b.recovery = A[k].recovery /\ b.patch = p
  BY <1>4 DEF AgentRecords
<1>6. /\ v \in WorkerRecords /\ v.pc = IF Repeated(r, p) THEN "fail" ELSE "apply"
      /\ v.patch = p /\ v.task = w.task /\ v.recovery = w.recovery /\ v.result = w.result
      /\ v.agent = w.agent /\ v.passed = w.passed /\ v.kind = w.kind /\ v.hard = w.hard
  BY <1>3 DEF WorkerRecords
<1>7. agents' = [agents EXCEPT ![r] = [A EXCEPT ![k] = b]]
  BY <1>1
<1> HIDE DEF b, v
<1>8. ~Repeated(r, p) => New(A, w.task, p)
  <2> SUFFICES ASSUME ~Repeated(r, p), NEW j \in Made(A), A[j].task = w.task
               PROVE  A[j].patch # p
    BY DEF New
  <2>1. j \in 1..Len(A) /\ A[j].type \in {"coding", "debug"}
    BY DEF Made
  <2>2. CASE A[j].type = "coding"
    BY <2>1, <2>2, RunTypes DEF Repeated, Me
  <2>3. CASE A[j].type = "debug"
    <3>1. /\ A[j].recovery \in 1..Len(A) /\ A[A[j].recovery].type = "recovery"
          /\ A[A[j].recovery].task = w.task
      BY <1>3, <2>1, <2>3 DEF Rest, AgentInv
    <3>2. /\ w.recovery \in 1..Len(A) /\ A[w.recovery].type = "recovery"
          /\ A[w.recovery].task = w.task
      BY <1>2, <1>3 DEF Rest, OwnerInv, Owning
    <3>3. A[j].recovery = w.recovery
      <4>1. \A m, n \in 1..Len(A) :
               A[m].type = "recovery" /\ A[n].type = "recovery" =>
                  (A[m].task = A[n].task => m = n)
        BY <1>3 DEF Rest, AgentInv
      <4> QED BY <3>1, <3>2, <4>1
    <3>4. j \in DebugsOf(r)
      BY <2>1, <2>3, <3>3, RunTypes DEF DebugsOf, Me
    <3> QED BY <3>4 DEF Repeated
  <2> QED BY <2>1, <2>2, <2>3
<1>9. Rest(run[r], [A EXCEPT ![k] = b], flow[r], tree[r], v)
  <2>1. v.pc \in {"fail", "apply"} /\ (v.pc = "apply" => New(A, w.task, p))
    BY <1>6, <1>8
  <2> QED BY <1>2, <1>3, <1>5, <1>6, <2>1, ReservesKeeps
<1>10. Good(run[r], [A EXCEPT ![k] = b], flow[r], tree[r], v)
  BY <1>3, <1>9 DEF Good
<1>11. [A EXCEPT ![k] = b] \in Seq(AgentRecords)
  BY <1>3, <1>4, <1>5, AgentSet
<1>12. Go(r, v) /\ UNCHANGED <<flow, tree>>
  BY <1>1, <1>2 DEF v
<1>13. Put(r, run[r])
  BY <1>2, RowKept
<1> QED BY <1>3, <1>6, <1>7, <1>10, <1>11, <1>12, <1>13, Transaction

\* After the row of a child, the tree is as certain as the worker took it to be, or its
\* diff is refused.
LEMMA ReturnCertain ==
  ASSUME NEW x, NEW A \in Seq(AgentRecords), NEW f, NEW T, NEW w \in WorkerRecords,
         Rest(x, A, f, T, w), w.agent \in Live(A), NEW b \in AgentRecords,
         b.type = A[w.agent].type,
         \/ w.pc = "record" /\ (w.kind = "test" \/ b.status = "completed")
            /\ b.status \in {"completed", "failed"}
         \/ w.pc = "fail" /\ ~w.hard /\ b.status = "failed"
  PROVE  Certain([A EXCEPT ![w.agent] = b], T) \/ (w.pc = "fail" /\ T.barred)
<1> DEFINE k == w.agent
           B == [A EXCEPT ![k] = b]
<1>1. k \in 1..Len(A)
  BY AgentTypes
<1>2. /\ B \in Seq(AgentRecords) /\ Len(B) = Len(A) /\ B[k] = b
      /\ \A i \in 1..Len(A) : i # k => B[i] = A[i]
  BY <1>1, AgentSet
<1>3. A[k].type = w.kind /\ w.kind \in {"coding", "test", "debug"}
  BY DEF Rest, ChildInv, AtWork, WorkerRecords
<1> HIDE DEF B, k
<1>4. k \in Live(A) /\ B[k].type = A[k].type /\ B[k].status \in {"completed", "failed"}
  BY <1>2 DEF k
<1>5. /\ w.kind \in {"coding", "debug"} /\ b.status = "completed" =>
            Cardinality(Made(B)) = Cardinality(Made(A)) + 1
      /\ w.kind = "test" \/ b.status = "failed" => Made(B) = Made(A)
  BY <1>2, <1>3, <1>4, AgentEnded
<1>6. CASE w.kind = "test"
  BY <1>5, <1>6 DEF Rest, TreeInv, Certain, Held, B, k
<1>7. CASE w.kind # "test"
  BY <1>3, <1>5, <1>7 DEF Rest, TreeInv, Certain, Held, B, k
<1> QED BY <1>6, <1>7

LEMMA ReturnsInv ==
  ASSUME Inv, NEW r \in Runs, worker[r].pc \in {"record", "fail"},
         worker[r].agent \in Running(r),
         NEW b \in AgentRecords, b.type = agents[r][worker[r].agent].type,
         b.task = agents[r][worker[r].agent].task, b.status \in {"completed", "failed"},
         b.of = agents[r][worker[r].agent].of,
         b.recovery = agents[r][worker[r].agent].recovery,
         b.status = "completed" /\ worker[r].kind = "debug" =>
            b.patch = worker[r].patch /\ worker[r].pc = "record",
         NEW x \in RunRecords, x.status = run[r].status,
         \A u \in Tasks : \/ x.task[u].status = run[r].task[u].status
                          \/ /\ u = worker[r].task /\ run[r].task[u].status = "running"
                             /\ x.task[u].status = "failed",
         NEW y, Passed(x, y) \/ (y = x /\ RowInv(x)),
         NEW v \in WorkerRecords, v.task = worker[r].task,
         v.recovery = worker[r].recovery, v.result = worker[r].result,
         v.agent = worker[r].agent, v.passed => v.kind = worker[r].kind,
         \/ /\ v.pc = "start" /\ ~v.passed /\ (v.kind = "debug" => v.debugs < DebugLimit)
            /\ \/ worker[r].pc = "record" /\ (worker[r].kind = "test" \/ b.status = "completed")
               \/ /\ worker[r].pc = "fail" /\ ~worker[r].hard /\ b.status = "failed"
                  /\ v.kind = "debug"
         \/ v.pc = "close" /\ ~v.passed
         \/ /\ v.pc = "close" /\ v.passed /\ worker[r].kind = "test"
            /\ worker[r].pc = "record" /\ b.status = "completed" /\ b.saw = tree[r].version,
         Returns(r, b, y, v)
  PROVE  Inv'
<1> DEFINE w == worker[r]
           A == agents[r]
           f == flow[r]
           T == tree[r]
           B == [A EXCEPT ![w.agent] = b]
<1>1. /\ Put(r, y) /\ agents' = [agents EXCEPT ![r] = B] /\ Go(r, v)
      /\ UNCHANGED <<flow, tree>>
  BY DEF Returns, Me
<1>2. /\ run[r] \in RunRecords /\ A \in Seq(AgentRecords) /\ w \in WorkerRecords
      /\ Rest(run[r], A, f, T, w) /\ w.agent \in Live(A)
  BY RunTypes
<1>3. B \in Seq(AgentRecords)
  BY <1>2, AgentTypes, AgentSet
<1>4. v.pc = "start" => Held(B, T, v)
  <2>1. v.pc = "start" => Certain(B, T) \/ (w.pc = "fail" /\ T.barred)
    BY <1>2, ReturnCertain
  <2> QED BY <2>1 DEF Held
<1> HIDE DEF B
<1>5. Rest(x, B, f, T, v)
  <2>1. \/ /\ v.pc = "start" /\ ~v.passed /\ (v.kind = "debug" => v.debugs < DebugLimit)
           /\ Held([A EXCEPT ![w.agent] = b], T, v)
        \/ v.pc = "close" /\ ~v.passed
        \/ /\ v.pc = "close" /\ v.passed /\ w.kind = "test" /\ w.pc = "record"
           /\ b.status = "completed" /\ b.saw = T.version
    BY <1>4 DEF B
  <2> QED BY <1>2, <2>1, ReturnsKeeps DEF B
<1>6. y \in RunRecords /\ Good(y, B, f, T, v)
  <2>1. CASE Passed(x, y)
    BY <1>3, <1>5, <2>1, PassKeeps DEF Passed
  <2>2. CASE y = x /\ RowInv(x)
    BY <1>5, <2>2 DEF Good
  <2> QED BY <2>1, <2>2
<1> QED BY <1>1, <1>3, <1>6, Transaction

\* Where the worker goes from there.
LEMMA NextOfWorker ==
  ASSUME NEW w \in WorkerRecords
  PROVE  /\ \A v \in {Validate(w), GiveUp(w), Repair(w)} :
               /\ v \in WorkerRecords /\ v.task = w.task /\ v.recovery = w.recovery
               /\ v.result = w.result /\ v.agent = w.agent
         /\ Validate(w).pc = "start" /\ Validate(w).kind = "test"
         /\ Validate(w).passed = w.passed
         /\ GiveUp(w).pc = "close" /\ GiveUp(w).passed = FALSE
         /\ Repair(w).passed = w.passed
         /\ \/ /\ Repair(w).pc = "start" /\ Repair(w).kind = "debug" /\ ~w.passed
               /\ Repair(w).debugs < DebugLimit
            \/ Repair(w).pc = "close" /\ Repair(w).kind = w.kind
<1>1. /\ Validate(w) \in WorkerRecords /\ Validate(w).task = w.task
      /\ Validate(w).recovery = w.recovery /\ Validate(w).result = w.result
      /\ Validate(w).agent = w.agent /\ Validate(w).pc = "start"
      /\ Validate(w).kind = "test" /\ Validate(w).passed = w.passed
  BY DEF Validate, WorkerRecords
<1>2. /\ GiveUp(w) \in WorkerRecords /\ GiveUp(w).task = w.task
      /\ GiveUp(w).recovery = w.recovery /\ GiveUp(w).result = w.result
      /\ GiveUp(w).agent = w.agent /\ GiveUp(w).pc = "close" /\ GiveUp(w).passed = FALSE
  BY DEF GiveUp, WorkerRecords
<1>3. /\ Repair(w) \in WorkerRecords /\ Repair(w).task = w.task
      /\ Repair(w).recovery = w.recovery /\ Repair(w).result = w.result
      /\ Repair(w).agent = w.agent /\ Repair(w).passed = w.passed
      /\ \/ /\ Repair(w).pc = "start" /\ Repair(w).kind = "debug" /\ ~w.passed
            /\ Repair(w).debugs < DebugLimit
         \/ Repair(w).pc = "close" /\ Repair(w).kind = w.kind
  BY DEF Repair, WorkerRecords
<1> QED BY <1>1, <1>2, <1>3

\* What the transactions that end a child start from.
LEMMA ChildFacts ==
  ASSUME Inv, NEW r \in Runs, worker[r].pc \in {"record", "fail"},
         worker[r].agent \in Running(r)
  PROVE  /\ worker[r] \in WorkerRecords /\ worker[r].task \in Tasks
         /\ worker[r].patch \in Patches \cup {"none"}
         /\ run[r] \in RunRecords /\ RowInv(run[r]) /\ BeforePass(run[r])
         /\ Child(r) = agents[r][worker[r].agent] /\ Child(r) \in AgentRecords
         /\ worker[r].passed => worker[r].kind = "test"
         /\ worker[r].pc = "record" /\ worker[r].kind = "debug" =>
               Child(r).patch = worker[r].patch
<1>1. /\ worker[r].agent \in 1..Len(agents[r])
      /\ Rest(run[r], agents[r], flow[r], tree[r], worker[r])
  BY RunTypes DEF Running, AgentsOf
<1>2. Child(r) = agents[r][worker[r].agent] /\ Child(r) \in AgentRecords
  BY <1>1, RunTypes DEF Child, Me
<1> QED BY <1>1, <1>2, RunTypes DEF Rest, ChildInv, WorkerRecords

LEMMA FinishCodingInv == ASSUME Inv, NEW r \in Runs, FinishCoding(r) PROVE Inv'
<1> DEFINE w == worker[r]
           t == w.task
           c == Child(r)
<1>1. /\ w.kind = "coding" /\ w.pc \in {"record", "fail"} /\ w.agent \in Running(r)
      /\ run[r].task[t].status = "running"
  BY DEF FinishCoding, CanFinishCoding, Me, Mine
<1>2. /\ w \in WorkerRecords /\ t \in Tasks /\ w.patch \in Patches \cup {"none"}
      /\ run[r] \in RunRecords /\ RowInv(run[r]) /\ BeforePass(run[r])
      /\ c = agents[r][w.agent] /\ c \in AgentRecords /\ ~w.passed
  BY <1>1, ChildFacts
<1>3. CASE w.pc = "record"
  <2> DEFINE b == [Ended(c, "completed") EXCEPT !.patch = w.patch]
             x == SetNote(run[r], t, "awaiting_validation")
             v == Validate(w)
  <2>1. Returns(r, b, Advanced(x), v)
    BY <1>3 DEF FinishCoding, Me
  <2>2. "awaiting_validation" \in Notes
    BY DEF Notes
  <2>3. /\ x \in RunRecords /\ x.status = run[r].status /\ BeforePass(x)
        /\ \A u \in Tasks : x.task[u].status = run[r].task[u].status
    BY <1>2, <2>2, NoteSet, NoteKeeps
  <2>4. /\ Ended(c, "completed") \in AgentRecords
        /\ Ended(c, "completed").status = "completed"
        /\ Ended(c, "completed").type = c.type /\ Ended(c, "completed").task = c.task
        /\ Ended(c, "completed").of = c.of /\ Ended(c, "completed").recovery = c.recovery
    BY <1>2, EndedAgent
  <2>5. /\ b \in AgentRecords /\ b.type = c.type /\ b.task = c.task
        /\ b.status = "completed" /\ b.of = c.of /\ b.recovery = c.recovery
    <3> DEFINE e == Ended(c, "completed")
    <3> HIDE DEF e
    <3> QED BY <1>2, <2>4 DEF AgentRecords, e
  <2>6. /\ v \in WorkerRecords /\ v.task = w.task /\ v.recovery = w.recovery
        /\ v.result = w.result /\ v.agent = w.agent /\ v.pc = "start" /\ v.kind = "test"
        /\ ~v.passed
    BY <1>2, NextOfWorker
  <2> HIDE DEF b, x, v
  <2>7. Passed(x, Advanced(x))
    BY <2>3, PassRow
  <2> QED BY <1>1, <1>2, <1>3, <2>1, <2>3, <2>5, <2>6, <2>7, ReturnsInv
<1>4. CASE w.pc = "fail"
  <2> DEFINE b == Ended(c, "failed")
             x == SetTask(run[r], t, "failed", "ended")
             v == GiveUp(w)
  <2>1. Returns(r, b, Advanced(x), v)
    BY <1>4 DEF FinishCoding, Me
  <2>2. "ended" \in Notes /\ "failed" \in TaskStates
    BY DEF Notes, TaskStates
  <2>3. /\ x \in RunRecords /\ x.status = run[r].status /\ x.task[t].status = "failed"
        /\ \A u \in Tasks : u # t => x.task[u].status = run[r].task[u].status
    BY <1>2, <2>2, TaskSet
  <2>4. BeforePass(x)
    BY <1>1, <1>2, <2>2, TaskMoves
  <2>5. /\ b \in AgentRecords /\ b.type = c.type /\ b.task = c.task /\ b.status = "failed"
        /\ b.of = c.of /\ b.recovery = c.recovery
    BY <1>2, EndedAgent
  <2>6. /\ v \in WorkerRecords /\ v.task = w.task /\ v.recovery = w.recovery
        /\ v.result = w.result /\ v.agent = w.agent /\ v.pc = "close" /\ ~v.passed
    BY <1>2, NextOfWorker
  <2> HIDE DEF b, x, v
  <2>7. Passed(x, Advanced(x))
    BY <2>3, <2>4, PassRow
  <2> QED BY <1>1, <1>2, <1>4, <2>1, <2>3, <2>5, <2>6, <2>7, ReturnsInv
<1> QED BY <1>1, <1>3, <1>4

LEMMA FinishTestsInv == ASSUME Inv, NEW r \in Runs, FinishTests(r) PROVE Inv'
<1> DEFINE w == worker[r]
           t == w.task
           c == Child(r)
           passed == w.pc = "record" /\ w.passed
           status == IF passed THEN "completed" ELSE "failed"
           saw == IF w.pc = "record" THEN tree[r].version ELSE c.saw
           note == IF passed THEN "tests_passed" ELSE "recovery_pending"
           b == [Ended(c, status) EXCEPT !.saw = saw]
           x == SetNote(run[r], t, note)
           v == IF w.pc = "record" THEN Repair(w) ELSE GiveUp(w)
<1>1. /\ w.kind = "test" /\ w.pc \in {"record", "fail"} /\ w.agent \in Running(r)
  BY DEF FinishTests, CanFinishTests, Me
<1>2. /\ w \in WorkerRecords /\ t \in Tasks /\ run[r] \in RunRecords /\ RowInv(run[r])
      /\ BeforePass(run[r]) /\ c = agents[r][w.agent] /\ c \in AgentRecords
      /\ tree[r].version \in Nat
  BY <1>1, ChildFacts, RunTypes
<1>3. status \in {"completed", "failed"} /\ note \in Notes
  BY DEF Notes
<1>4. /\ Ended(c, status) \in AgentRecords /\ Ended(c, status).status = status
      /\ Ended(c, status).type = c.type /\ Ended(c, status).task = c.task
      /\ Ended(c, status).of = c.of /\ Ended(c, status).recovery = c.recovery
      /\ Ended(c, status).saw = c.saw
  BY <1>2, <1>3, EndedAgent
<1>5. Returns(r, b, Advanced(x), v)
  <2>1. b = [Ended(c, status) EXCEPT !.saw = IF w.pc = "record" THEN tree[r].version ELSE @]
    BY <1>4
  <2> QED BY <2>1 DEF FinishTests, Me
<1>6. saw \in Nat \cup {-1}
  BY <1>2 DEF AgentRecords
<1>7. /\ x \in RunRecords /\ x.status = run[r].status /\ BeforePass(x)
      /\ \A u \in Tasks : x.task[u].status = run[r].task[u].status
  BY <1>2, <1>3, NoteSet, NoteKeeps
<1>8. /\ b \in AgentRecords /\ b.type = c.type /\ b.task = c.task
      /\ b.status = status /\ b.of = c.of /\ b.recovery = c.recovery /\ b.saw = saw
  <2> DEFINE e == Ended(c, status)
  <2> HIDE DEF e, status, saw
  <2> QED BY <1>4, <1>6 DEF AgentRecords, e
<1>9. /\ v \in WorkerRecords /\ v.task = w.task /\ v.recovery = w.recovery
      /\ v.result = w.result /\ v.agent = w.agent
      /\ \/ w.pc = "fail" /\ v.pc = "close" /\ ~v.passed
         \/ /\ w.pc = "record" /\ v.passed = w.passed
            /\ \/ v.pc = "start" /\ v.kind = "debug" /\ ~w.passed /\ v.debugs < DebugLimit
               \/ v.pc = "close" /\ v.kind = w.kind
  <2>1. CASE w.pc = "record"
    <3>1. v = Repair(w)
      BY <2>1
    <3> HIDE DEF v
    <3> QED BY <1>2, <2>1, <3>1, NextOfWorker
  <2>2. CASE w.pc = "fail"
    <3>1. v = GiveUp(w)
      BY <2>2
    <3> HIDE DEF v
    <3> QED BY <1>2, <2>2, <3>1, NextOfWorker
  <2> QED BY <1>1, <2>1, <2>2
<1>10. w.pc = "record" /\ w.passed => b.status = "completed" /\ b.saw = tree[r].version
  BY <1>8
<1> HIDE DEF b, x, v
<1>11. Passed(x, Advanced(x))
  BY <1>7, PassRow
<1>12. b.status \in {"completed", "failed"}
  BY <1>3, <1>8
<1>13. /\ v.passed => v.kind = w.kind
       /\ \/ v.pc = "start" /\ ~v.passed /\ v.debugs < DebugLimit /\ w.pc = "record"
          \/ v.pc = "close" /\ ~v.passed
          \/ /\ v.pc = "close" /\ v.passed /\ w.pc = "record"
             /\ b.status = "completed" /\ b.saw = tree[r].version
  BY <1>9, <1>10
<1> HIDE DEF status, saw, note, passed
<1> QED BY <1>1, <1>2, <1>5, <1>7, <1>8, <1>9, <1>11, <1>12, <1>13, ReturnsInv

LEMMA FinishDebugInv == ASSUME Inv, NEW r \in Runs, FinishDebug(r) PROVE Inv'
<1> DEFINE w == worker[r]
           t == w.task
           c == Child(r)
<1>1. /\ w.kind = "debug" /\ w.pc \in {"record", "fail"} /\ w.agent \in Running(r)
  BY DEF FinishDebug, CanFinishDebug, Me
<1>2. /\ w \in WorkerRecords /\ t \in Tasks /\ run[r] \in RunRecords /\ RowInv(run[r])
      /\ c = agents[r][w.agent] /\ c \in AgentRecords /\ ~w.passed
      /\ w.pc = "record" => c.patch = w.patch
  BY <1>1, ChildFacts
<1>3. CASE w.pc = "record"
  <2> DEFINE b == Ended(c, "completed")
             x == SetNote(run[r], t, "awaiting_validation")
             v == Validate(w)
  <2>1. Returns(r, b, x, v)
    BY <1>3 DEF FinishDebug, Me
  <2>2. "awaiting_validation" \in Notes
    BY DEF Notes
  <2>3. /\ x \in RunRecords /\ x.status = run[r].status /\ RowInv(x)
        /\ \A u \in Tasks : x.task[u].status = run[r].task[u].status
    BY <1>2, <2>2, NoteSet, NoteKeeps
  <2>4. /\ b \in AgentRecords /\ b.type = c.type /\ b.task = c.task
        /\ b.status = "completed" /\ b.of = c.of /\ b.recovery = c.recovery
        /\ b.patch = w.patch
    BY <1>2, <1>3, EndedAgent
  <2>5. /\ v \in WorkerRecords /\ v.task = w.task /\ v.recovery = w.recovery
        /\ v.result = w.result /\ v.agent = w.agent /\ v.pc = "start" /\ v.kind = "test"
        /\ ~v.passed
    BY <1>2, NextOfWorker
  <2> HIDE DEF b, x, v
  <2> QED BY <1>1, <1>2, <1>3, <2>1, <2>3, <2>4, <2>5, ReturnsInv
<1>4. CASE w.pc = "fail"
  <2> DEFINE b == Ended(c, "failed")
             x == SetNote(run[r], t, "recovery_pending")
             v == IF w.hard THEN GiveUp(w) ELSE Repair(w)
  <2>1. Returns(r, b, x, v)
    BY <1>4 DEF FinishDebug, Me
  <2>2. "recovery_pending" \in Notes
    BY DEF Notes
  <2>3. /\ x \in RunRecords /\ x.status = run[r].status /\ RowInv(x)
        /\ \A u \in Tasks : x.task[u].status = run[r].task[u].status
    BY <1>2, <2>2, NoteSet, NoteKeeps
  <2>4. /\ b \in AgentRecords /\ b.type = c.type /\ b.task = c.task
        /\ b.status = "failed" /\ b.of = c.of /\ b.recovery = c.recovery
    BY <1>2, EndedAgent
  <2>5. /\ v \in WorkerRecords /\ v.task = w.task /\ v.recovery = w.recovery
        /\ v.result = w.result /\ v.agent = w.agent /\ ~v.passed
        /\ \/ v.pc = "start" /\ v.kind = "debug" /\ v.debugs < DebugLimit /\ ~w.hard
           \/ v.pc = "close"
    BY <1>2, NextOfWorker
  <2> HIDE DEF b, x, v
  <2> QED BY <1>1, <1>2, <1>4, <2>1, <2>3, <2>4, <2>5, ReturnsInv
<1> QED BY <1>1, <1>3, <1>4

LEMMA CloseInv == ASSUME Inv, NEW r \in Runs, Close(r) PROVE Inv'
<1> DEFINE w == worker[r]
           A == agents[r]
           t == w.task
           k == w.recovery
           status == IF w.passed THEN "completed" ELSE "failed"
           x == SetTask(run[r], t, status, "ended")
           b == Ended(A[k], status)
           v == [w EXCEPT !.pc = "leave", !.result = IF w.passed THEN "repeat" ELSE "blocked"]
<1>1. /\ w.pc = "close" /\ Put(r, Advanced(x)) /\ Go(r, v) /\ UNCHANGED <<flow, tree>>
  BY DEF Close, Me
<1>2. /\ run[r] \in RunRecords /\ A \in Seq(AgentRecords) /\ w \in WorkerRecords
      /\ Rest(run[r], A, flow[r], tree[r], w) /\ t \in Tasks /\ RowInv(run[r])
      /\ BeforePass(run[r]) /\ w.passed \in BOOLEAN
  BY RunTypes DEF WorkerRecords
<1>3. k \in Live(A) /\ k \in 1..Len(A) /\ A[k] \in AgentRecords
  BY <1>2, RunTypes, AgentTypes DEF Close, CanClose, RecoveryOpen, Me
<1>4. agents' = [agents EXCEPT ![r] = [A EXCEPT ![k] = b]]
  BY <1>2, <1>3 DEF Close, Me
<1>5. A[k].type = "recovery" /\ A[k].task = t
  BY <1>1, <1>2 DEF Rest, OwnerInv, Owning
<1>6. status \in TaskStates /\ status \in {"completed", "failed"} /\ "ended" \in Notes
  BY DEF TaskStates, Notes
<1>7. /\ x \in RunRecords /\ x.status = run[r].status /\ x.task[t].status = status
      /\ x.deps = run[r].deps
      /\ \A u \in Tasks : u # t => x.task[u].status = run[r].task[u].status
  BY <1>2, <1>6, TaskSet
<1>8. b \in AgentRecords /\ b.type = "recovery" /\ b.task = t /\ b.status = status
  BY <1>3, <1>5, <1>6, EndedAgent
<1>9. /\ v \in WorkerRecords /\ v.pc = "leave" /\ v.kind = w.kind /\ v.passed = w.passed
      /\ v.result = IF w.passed THEN "repeat" ELSE "blocked"
  BY <1>2 DEF WorkerRecords
<1>10. BeforePass(x)
  <2>1. CASE run[r].task[t].status \in {"queued", "running"}
    BY <1>2, <1>6, <2>1, TaskMoves
  <2>2. CASE run[r].task[t].status \notin {"queued", "running"}
    <3>1. ~w.passed /\ Check(TASK_EDGES, run[r].task[t].status, "failed")
      BY <2>2 DEF Close, CanClose, Me, Mine
    <3>2. run[r].task[t].status \in TaskStates
      BY <1>2 DEF RunRecords
    <3>3. run[r].task[t].status = "failed"
      BY <2>2, <3>1, <3>2 DEF Check, TASK_EDGES, TaskStates
    <3>4. \A u \in Tasks : x.task[u].status = run[r].task[u].status
      BY <1>7, <3>1, <3>3
    <3>5. \A u \in Tasks : run[r].deps[u] \subseteq Tasks
      BY <1>2, PlansAssumption DEF RunRecords
    <3> HIDE DEF x
    <3> QED BY <1>2, <1>7, <3>4, <3>5 DEF BeforePass
  <2> QED BY <2>1, <2>2
<1> HIDE DEF x, b, v
<1>11. Rest(x, [A EXCEPT ![k] = b], flow[r], tree[r], v)
  BY <1>1, <1>2, <1>3, <1>7, <1>8, <1>9, ClosesKeeps
<1>12. [A EXCEPT ![k] = b] \in Seq(AgentRecords)
  BY <1>2, <1>3, <1>8, AgentSet
<1>13. Passed(x, Advanced(x)) /\ Advanced(x) \in RunRecords
  BY <1>7, <1>10, PassRow DEF Passed
<1>14. Good(Advanced(x), [A EXCEPT ![k] = b], flow[r], tree[r], v)
  BY <1>7, <1>9, <1>11, <1>12, <1>13, PassKeeps
<1> QED BY <1>1, <1>4, <1>9, <1>12, <1>13, <1>14, Transaction

-----------------------------------------------------------------------------
(* The invariant holds *)

LEMMA WorkerStepInv == ASSUME Inv, NEW r \in Runs, WorkerStep(r) PROVE Inv'
<1>1. CASE Stage(r) \/ Open(r) \/ Leave(r) \/ Crash(r)
  BY <1>1, StageInv, OpenInv, LeaveInv, CrashInv
<1>2. CASE StartCoding(r) \/ CodingApplies(r) \/ FinishCoding(r)
  BY <1>2, StartCodingInv, CodingAppliesInv, FinishCodingInv
<1>3. CASE StartTests(r) \/ TestsRun(r) \/ FinishTests(r)
  BY <1>3, StartTestsInv, TestsRunInv, FinishTestsInv
<1>4. CASE ClaimDebug(r) \/ Reserve(r) \/ DebugApplies(r) \/ FinishDebug(r)
  BY <1>4, ClaimDebugInv, ReserveInv, DebugAppliesInv, FinishDebugInv
<1>5. CASE WorkFails(r) \/ Refused(r) \/ Close(r)
  BY <1>5, WorkFailsInv, RefusedInv, CloseInv
<1> QED BY <1>1, <1>2, <1>3, <1>4, <1>5 DEF WorkerStep

LEMMA NextInv == ASSUME Inv, [Next]_vars PROVE Inv'
<1>1. CASE RecoverStale
  BY <1>1, RecoverStaleInv
<1>2. ASSUME NEW r \in Runs, Claim(r) \/ WorkerStep(r) PROVE Inv'
  BY <1>2, ClaimInv, WorkerStepInv
<1>3. ASSUME NEW r \in Runs,
             \/ Reconcile(r) \/ CancelExecution(r) \/ CancelFlow(r)
             \/ ResumeFlow(r) \/ FenceFlow(r) \/ AgentAges(r) \/ RunAges(r)
      PROVE  Inv'
  BY <1>3, ReconcileInv, CancelExecutionInv, CancelFlowInv, ResumeFlowInv, FenceFlowInv,
     AgentAgesInv, RunAgesInv
<1>4. ASSUME NEW r \in Runs, NEW t \in Tasks,
             \/ DispatcherTakes(r, t)
             \/ \E s \in {"completed", "failed"} : DispatcherReports(r, t, s)
      PROVE  Inv'
  BY <1>4, DispatcherInv
<1>5. CASE UNCHANGED vars
  BY <1>5 DEF vars, Inv, TypeOK
<1> QED BY <1>1, <1>2, <1>3, <1>4, <1>5 DEF Next

LEMMA InvCorrect == Spec => []Inv
<1>1. Inv /\ [Next]_vars => Inv'
  BY NextInv
<1> QED BY <1>1, InitInv, PTL DEF Spec

\* The rows, the ages, the trees and the workers have their types, and the status of a run
\* tells the truth about its tasks, whoever writes the rows last (_advance, stop_locked).
THEOREM WellFormedCorrect == Spec => []WellFormed
<1>1. Inv => WellFormed
  <2> SUFFICES ASSUME Inv, NEW r \in Runs
               PROVE  /\ run[r].status \in EndedRun <=>
                            \A t \in Tasks : Status(r, t) \in TERMINAL \cup {"cancelled"}
                      /\ run[r].status = "completed" <=>
                            \A t \in Tasks : Status(r, t) = "completed"
    BY DEF WellFormed, RunReflectsTasks, Inv
  <2>1. RowInv(run[r])
    BY RunTypes
  <2> QED BY <2>1 DEF RowInv, BeforePass, Over, EndedRun, Done, TERMINAL, Status
<1> QED BY <1>1, InvCorrect, PTL

\* Nothing is built on work that failed, was blocked or cancelled (state.advance,
\* coding_records.start, stop_locked).
THEOREM OnlyReadyTasksStartCorrect == Spec => []OnlyReadyTasksStart
<1>1. Inv => OnlyReadyTasksStart
  BY RunTypes DEF BeforePass, OnlyReadyTasksStart, Status
<1> QED BY <1>1, InvCorrect, PTL

\* A run has one recovery at most, its task has not been given up, and a workflow's task
\* that is running has one (RecoveryRecords.start, stop_locked).
THEOREM RecoveryOwnsTaskCorrect == Spec => []RecoveryOwnsTask
<1>1. Inv => RecoveryOwnsTask
  <2> SUFFICES ASSUME Inv, NEW r \in Runs
               PROVE  /\ Cardinality({i \in Running(r) : agents[r][i].type = "recovery"}) <= 1
                      /\ \A i \in Running(r) :
                            agents[r][i].type = "recovery" =>
                               Status(r, agents[r][i].task) \in {"queued", "running", "failed"}
                      /\ \A t \in Tasks : Status(r, t) = "running" /\ flow[r] # "none" =>
                            ActiveRecovery(r, t) # {}
    BY DEF RecoveryOwnsTask
  <2> DEFINE A == agents[r]
             S == {i \in Running(r) : A[i].type = "recovery"}
  <2>1. AgentInv(run[r], A) /\ FlowInv(run[r], A, flow[r], tree[r], worker[r])
    BY RunTypes DEF Rest
  <2>2. Running(r) = Live(A) /\ Running(r) \subseteq 1..Len(A)
    BY RunTypes, AgentTypes
  <2>3. \A i, j \in S : i = j
    BY <2>1, <2>2 DEF AgentInv, Live
  <2>4. Cardinality(S) <= 1
    <3>1. CASE S = {}
      BY <3>1, FS_EmptySet
    <3>2. CASE S # {}
      <4>1. PICK i \in S : S = {i}
        BY <2>3, <3>2
      <4> HIDE DEF S
      <4> QED BY <4>1, FS_Singleton
    <3> QED BY <3>1, <3>2
  <2>5. \A i \in Running(r) : A[i].type = "recovery" =>
           Status(r, A[i].task) \in {"queued", "running", "failed"}
    BY <2>1, <2>2 DEF AgentInv, Live, Status
  <2>6. \A t \in Tasks : Status(r, t) = "running" /\ flow[r] # "none" =>
           ActiveRecovery(r, t) # {}
    BY <2>1, <2>2 DEF FlowInv, Status, ActiveRecovery
  <2> QED BY <2>4, <2>5, <2>6
<1> QED BY <1>1, InvCorrect, PTL

\* No proposal is part of a task twice (reserve_patch, TestRecords.start).
THEOREM PatchesDistinctCorrect == Spec => []PatchesDistinct
<1>1. Inv => PatchesDistinct
  <2> SUFFICES ASSUME Inv, NEW r \in Runs, NEW t \in Tasks, NEW i \in Applied(r, t),
                      NEW j \in Applied(r, t), agents[r][i].patch = agents[r][j].patch
               PROVE  i = j
    BY DEF PatchesDistinct
  <2>1. /\ i \in Made(agents[r]) /\ j \in Made(agents[r])
        /\ agents[r][i].task = agents[r][j].task
    BY RunTypes DEF Applied, Made
  <2> QED BY <2>1, RunTypes DEF Rest, AgentInv
<1> QED BY <1>1, InvCorrect, PTL

-----------------------------------------------------------------------------
(* What a step may do *)

RowStands(x, y) ==
    /\ Over(x) => y.status = x.status
    /\ \A t \in Tasks : Done(x.task[t].status) => y.task[t].status = x.task[t].status

AgentsStand(A, B) ==
    \A i \in 1..Len(A) : A[i].status # "running" => B[i].status = A[i].status

\* No task but those of S is completed.
Finished(x, y, S) ==
    \A t \in Tasks \ S : y.task[t].status = "completed" => x.task[t].status = "completed"

LEMMA PassStands ==
  ASSUME NEW x, NEW y, Passed(x, y) PROVE RowStands(x, y) /\ Finished(x, y, {})
  BY DEF Passed, RowStands, Finished, Done, TERMINAL

LEMMA SetStands ==
  ASSUME NEW x \in RunRecords, RowInv(x), NEW t \in Tasks, NEW n \in Notes,
         NEW s \in {"running", "completed", "failed"},
         x.task[t].status \in {"queued", "running"}
  PROVE  /\ RowStands(x, Advanced(SetTask(x, t, s, n)))
         /\ Finished(x, Advanced(SetTask(x, t, s, n)), IF s = "completed" THEN {t} ELSE {})
<1> DEFINE z == SetTask(x, t, s, n)
           y == Advanced(z)
<1>1. s \in TaskStates
  BY DEF TaskStates
<1>2. BeforePass(z) /\ z \in RunRecords /\ ~Over(x)
  BY TaskMoves
<1>3. /\ z.task[t].status = s
      /\ \A u \in Tasks : u # t => z.task[u].status = x.task[u].status
  BY <1>1, TaskSet
<1> HIDE DEF z
<1>4. Passed(z, y)
  BY <1>2, PassRow
<1> HIDE DEF y
<1>5. Finished(z, y, {}) /\ RowStands(z, y)
  BY <1>4, PassStands
<1>6. RowStands(x, y)
  BY <1>2, <1>3, <1>5 DEF RowStands, Done, TERMINAL
<1>7. Finished(x, y, IF s = "completed" THEN {t} ELSE {})
  BY <1>3, <1>5 DEF Finished
<1> QED BY <1>6, <1>7 DEF y, z

LEMMA NoteStands ==
  ASSUME NEW x \in RunRecords, RowInv(x), NEW t \in Tasks, NEW n \in Notes
  PROVE  \A y \in {SetNote(x, t, n), Advanced(SetNote(x, t, n))} :
            RowStands(x, y) /\ Finished(x, y, {})
<1> DEFINE z == SetNote(x, t, n)
<1>1. /\ z \in RunRecords /\ z.status = x.status
      /\ \A u \in Tasks : z.task[u].status = x.task[u].status
  BY NoteSet
<1>2. BeforePass(z)
  BY NoteKeeps DEF RowInv
<1> HIDE DEF z
<1>3. Passed(z, Advanced(z))
  BY <1>1, <1>2, PassRow
<1> DEFINE y == Advanced(z)
<1> HIDE DEF y
<1>4. RowStands(z, y) /\ Finished(z, y, {})
  BY <1>3, PassStands DEF y
<1>5. RowStands(x, y) /\ Finished(x, y, {})
  BY <1>1, <1>4 DEF RowStands, Finished, Over
<1>6. RowStands(x, z) /\ Finished(x, z, {})
  BY <1>1 DEF RowStands, Finished
<1> QED BY <1>5, <1>6 DEF y, z

\* A step of run r completes no task but those of S.
Onward(r, S) ==
    /\ \A q \in Runs \ {r} : run'[q] = run[q] /\ agents'[q] = agents[q]
    /\ RowStands(run[r], run'[r]) /\ Finished(run[r], run'[r], S)
    /\ AgentsStand(agents[r], agents'[r])

LEMMA Written ==
  ASSUME Inv, NEW r \in Runs, NEW y, Put(r, y), NEW S, RowStands(run[r], y),
         Finished(run[r], y, S), NEW B, agents' = [agents EXCEPT ![r] = B],
         AgentsStand(agents[r], B)
  PROVE  Onward(r, S)
<1>1. /\ run'[r] = y /\ agents'[r] = B
      /\ \A q \in Runs \ {r} : run'[q] = run[q] /\ agents'[q] = agents[q]
  BY DEF Put, Inv, TypeOK
<1> QED BY <1>1 DEF Onward

LEMMA KeptStands ==
  ASSUME NEW x, NEW A PROVE RowStands(x, x) /\ Finished(x, x, {}) /\ AgentsStand(A, A)
  BY DEF RowStands, Finished, AgentsStand

LEMMA AddedStands ==
  ASSUME NEW A \in Seq(AgentRecords), NEW a PROVE AgentsStand(A, Append(A, a))
  BY DEF AgentsStand

LEMMA ChangedStands ==
  ASSUME NEW A \in Seq(AgentRecords), NEW k \in Live(A), NEW a
  PROVE  AgentsStand(A, [A EXCEPT ![k] = a])
<1>1. \A i \in 1..Len(A) : i # k => [A EXCEPT ![k] = a][i] = A[i]
  OBVIOUS
<1> QED BY <1>1 DEF AgentsStand, Live

\* Beat, the API and the dispatcher.
LEMMA StopOnward ==
  ASSUME Inv, NEW r \in Runs, NEW cancelled \in BOOLEAN, ~cancelled \/ Running(r) = {},
         Stop(r, cancelled)
  PROVE  Onward(r, {})
<1> DEFINE y == StoppedRun(r, cancelled)
           B == StoppedAgents(r, cancelled)
<1>1. Halted(run[r], agents[r], y, B)
  BY StopHalts
<1>2. Put(r, y) /\ agents' = [agents EXCEPT ![r] = B]
  BY DEF Stop
<1> HIDE DEF y, B
<1>3. RowStands(run[r], y) /\ Finished(run[r], y, {}) /\ AgentsStand(agents[r], B)
  BY <1>1 DEF Halted, RowStands, Finished, AgentsStand
<1> QED BY <1>2, <1>3, Written

LEMMA RequestsOnward ==
  ASSUME Inv, NEW r \in Runs,
         \/ Reconcile(r) \/ CancelExecution(r) \/ CancelFlow(r)
         \/ ResumeFlow(r) \/ FenceFlow(r) \/ AgentAges(r) \/ RunAges(r)
  PROVE  Onward(r, {})
<1>1. CASE Reconcile(r)
  <2>1. Put(r, Advanced(run[r])) /\ agents' = [agents EXCEPT ![r] = agents[r]]
    BY <1>1, AgentsKept DEF Reconcile
  <2>2. /\ RowStands(run[r], Advanced(run[r])) /\ Finished(run[r], Advanced(run[r]), {})
    BY RunTypes, PassRow, PassStands
  <2> QED BY <2>1, <2>2, KeptStands, Written
<1>2. CASE CancelExecution(r) \/ CancelFlow(r) \/ FenceFlow(r)
  BY <1>2, StopOnward DEF CancelExecution, CancelFlow, FenceFlow, Busy
<1>3. CASE ResumeFlow(r) \/ RunAges(r)
  BY <1>3, KeptStands DEF ResumeFlow, RunAges, Onward
<1>4. CASE AgentAges(r)
  <2>1. PICK i \in Live(agents[r]) :
           agents' = [agents EXCEPT ![r][i] = [agents[r][i] EXCEPT !.old = TRUE]]
    BY <1>4, RunTypes DEF AgentAges, Inv, TypeOK
  <2>2. agents' = [agents EXCEPT ![r] =
                      [agents[r] EXCEPT ![i] = [agents[r][i] EXCEPT !.old = TRUE]]]
    BY <2>1, AgentWritten
  <2>3. Put(r, run[r])
    BY <1>4, RowKept DEF AgentAges
  <2> QED BY <2>2, <2>3, RunTypes, KeptStands, ChangedStands, Written
<1> QED BY <1>1, <1>2, <1>3, <1>4

LEMMA DispatcherOnward ==
  ASSUME Inv, NEW r \in Runs, NEW t \in Tasks,
         \/ DispatcherTakes(r, t)
         \/ \E s \in {"completed", "failed"} : DispatcherReports(r, t, s)
  PROVE  flow[r] = "none" /\ \E S : Onward(r, S)
<1>1. PICK s \in {"running", "completed", "failed"} :
         /\ Status(r, t) \in {"queued", "running"} /\ flow[r] = "none"
         /\ Put(r, Advanced(SetTask(run[r], t, s, "none"))) /\ UNCHANGED agents
  BY DEF DispatcherTakes, DispatcherReports
<1> DEFINE y == Advanced(SetTask(run[r], t, s, "none"))
<1>2. \E S : RowStands(run[r], y) /\ Finished(run[r], y, S)
  BY <1>1, RunTypes, SetStands DEF Status, Notes
<1>3. agents' = [agents EXCEPT ![r] = agents[r]]
  BY <1>1, AgentsKept
<1>4. Put(r, y)
  BY <1>1
<1> HIDE DEF y
<1> QED BY <1>1, <1>2, <1>3, <1>4, KeptStands, Written

\* The worker.
LEMMA BeginOnward ==
  ASSUME Inv, NEW r \in Runs, StartCoding(r) \/ StartTests(r) \/ ClaimDebug(r)
  PROVE  Onward(r, {})
<1> DEFINE t == worker[r].task
<1>1. t \in Tasks /\ run[r] \in RunRecords /\ RowInv(run[r]) /\ agents[r] \in Seq(AgentRecords)
  BY RunTypes DEF WorkerRecords
<1>2. PICK y, a : Begins(r, y, a) /\ RowStands(run[r], y) /\ Finished(run[r], y, {})
  <2>1. CASE StartCoding(r)
    <3> DEFINE y == Advanced(SetTask(run[r], t, "running", "coding_in_progress"))
    <3>1. Begins(r, y, NewAgent("coding", t)) /\ run[r].task[t].status = "queued"
      BY <2>1 DEF StartCoding, CanStartCoding, Mine, Me
    <3>2. RowStands(run[r], y) /\ Finished(run[r], y, {})
      BY <1>1, <3>1, SetStands DEF Notes
    <3> QED BY <3>1, <3>2
  <2>2. CASE StartTests(r)
    BY <1>1, <2>2, NoteStands DEF StartTests, Me, Notes
  <2>3. CASE ClaimDebug(r)
    BY <1>1, <2>3, NoteStands DEF ClaimDebug, Me, Notes
  <2> QED BY <2>1, <2>2, <2>3
<1>3. Put(r, y) /\ agents' = [agents EXCEPT ![r] = Append(agents[r], a)]
  BY <1>2 DEF Begins, Inv, TypeOK
<1> QED BY <1>1, <1>2, <1>3, AddedStands, Written

LEMMA FinishOnward ==
  ASSUME Inv, NEW r \in Runs, FinishCoding(r) \/ FinishTests(r) \/ FinishDebug(r)
  PROVE  Onward(r, {})
<1> DEFINE t == worker[r].task
           k == worker[r].agent
<1>1. /\ t \in Tasks /\ run[r] \in RunRecords /\ RowInv(run[r])
      /\ agents[r] \in Seq(AgentRecords) /\ Running(r) = Live(agents[r])
  BY RunTypes DEF WorkerRecords
<1>2. /\ k \in Live(agents[r])
      /\ \E y, b, v : Returns(r, b, y, v) /\ RowStands(run[r], y) /\ Finished(run[r], y, {})
  <2>1. CASE FinishCoding(r)
    <3>1. k \in Live(agents[r]) /\ run[r].task[t].status = "running"
      BY <1>1, <2>1 DEF FinishCoding, CanFinishCoding, Me, Mine
    <3>2. PICK y, b, v :
             /\ Returns(r, b, y, v)
             /\ \/ y = Advanced(SetNote(run[r], t, "awaiting_validation"))
                \/ y = Advanced(SetTask(run[r], t, "failed", "ended"))
      BY <2>1 DEF FinishCoding, Me
    <3>3. RowStands(run[r], y) /\ Finished(run[r], y, {})
      BY <1>1, <3>1, <3>2, NoteStands, SetStands DEF Notes
    <3> QED BY <3>1, <3>2, <3>3
  <2>2. CASE FinishTests(r)
    <3>1. k \in Live(agents[r])
      BY <1>1, <2>2 DEF FinishTests, CanFinishTests, Me
    <3>2. PICK n, b, v : n \in Notes /\ Returns(r, b, Advanced(SetNote(run[r], t, n)), v)
      BY <2>2 DEF FinishTests, Me, Notes
    <3> QED BY <1>1, <3>1, <3>2, NoteStands
  <2>3. CASE FinishDebug(r)
    <3>1. k \in Live(agents[r])
      BY <1>1, <2>3 DEF FinishDebug, CanFinishDebug, Me
    <3>2. PICK n, b, v : n \in Notes /\ Returns(r, b, SetNote(run[r], t, n), v)
      BY <2>3 DEF FinishDebug, Me, Notes
    <3> QED BY <1>1, <3>1, <3>2, NoteStands
  <2> QED BY <2>1, <2>2, <2>3
<1>3. PICK y, b, v : Returns(r, b, y, v) /\ RowStands(run[r], y) /\ Finished(run[r], y, {})
  BY <1>2
<1>4. Put(r, y) /\ agents' = [agents EXCEPT ![r] = [agents[r] EXCEPT ![k] = b]]
  BY <1>3 DEF Returns, Me
<1>5. AgentsStand(agents[r], [agents[r] EXCEPT ![k] = b])
  BY <1>1, <1>2, ChangedStands
<1> QED BY <1>3, <1>4, <1>5, Written

LEMMA CloseOnward ==
  ASSUME Inv, NEW r \in Runs, Close(r)
  PROVE  Onward(r, IF worker[r].passed THEN {worker[r].task} ELSE {})
<1> DEFINE w == worker[r]
           t == w.task
           k == w.recovery
           s == IF w.passed THEN "completed" ELSE "failed"
           y == Advanced(SetTask(run[r], t, s, "ended"))
<1>1. /\ t \in Tasks /\ run[r] \in RunRecords /\ RowInv(run[r]) /\ BeforePass(run[r])
      /\ agents[r] \in Seq(AgentRecords) /\ Running(r) = Live(agents[r])
  BY RunTypes DEF WorkerRecords
<1>2. k \in Live(agents[r]) /\ Put(r, y)
  BY <1>1 DEF Close, CanClose, RecoveryOpen, Me
<1>3. PICK b : agents' = [agents EXCEPT ![r] = [agents[r] EXCEPT ![k] = b]]
  BY <1>1, <1>2 DEF Close, Me
<1>4. AgentsStand(agents[r], [agents[r] EXCEPT ![k] = b])
  BY <1>1, <1>2, ChangedStands
<1>5. RowStands(run[r], y) /\ Finished(run[r], y, IF w.passed THEN {t} ELSE {})
  <2>1. CASE run[r].task[t].status \in {"queued", "running"}
    <3>1. s \in {"running", "completed", "failed"} /\ "ended" \in Notes
      BY DEF Notes
    <3>2. (s = "completed") <=> w.passed
      OBVIOUS
    <3> HIDE DEF s
    <3> QED BY <1>1, <2>1, <3>1, <3>2, SetStands
  <2>2. CASE run[r].task[t].status \notin {"queued", "running"}
    <3> DEFINE z == SetTask(run[r], t, "failed", "ended")
    <3>1. ~w.passed /\ Check(TASK_EDGES, run[r].task[t].status, "failed")
      BY <2>2 DEF Close, CanClose, Me, Mine
    <3>2. run[r].task[t].status = "failed"
      BY <1>1, <2>2, <3>1 DEF RunRecords, Check, TASK_EDGES, TaskStates
    <3>3. /\ z \in RunRecords /\ z.status = run[r].status /\ z.deps = run[r].deps
          /\ \A u \in Tasks : z.task[u].status = run[r].task[u].status
      <4>1. "failed" \in TaskStates /\ "ended" \in Notes
        BY DEF TaskStates, Notes
      <4> QED BY <1>1, <3>2, <4>1, TaskSet
    <3>4. \A u \in Tasks : run[r].deps[u] \subseteq Tasks
      BY <1>1, PlansAssumption DEF RunRecords
    <3> HIDE DEF z
    <3>5. BeforePass(z)
      BY <1>1, <3>3, <3>4 DEF BeforePass
    <3>6. RowStands(z, Advanced(z)) /\ Finished(z, Advanced(z), {})
      BY <3>3, <3>5, PassRow, PassStands
    <3>7. RowStands(run[r], Advanced(z)) /\ Finished(run[r], Advanced(z), {})
      BY <3>3, <3>6 DEF RowStands, Finished, Over
    <3> QED BY <3>1, <3>7 DEF z
  <2> QED BY <2>1, <2>2
<1> HIDE DEF y
<1> QED BY <1>2, <1>3, <1>4, <1>5, Written

LEMMA WorkerOnward ==
  ASSUME Inv, NEW r \in Runs, Claim(r) \/ WorkerStep(r)
  PROVE  Onward(r, {}) \/ (Close(r) /\ worker[r].passed /\ Onward(r, {worker[r].task}))
<1>1. CASE \/ Claim(r) \/ CodingApplies(r) \/ TestsRun(r) \/ DebugApplies(r) \/ WorkFails(r)
           \/ Refused(r) \/ Leave(r) \/ Crash(r)
  <2>1. UNCHANGED <<run, agents>>
    BY <1>1 DEF Claim, CodingApplies, TestsRun, DebugApplies, WorkFails, Refused, Leave, Crash
  <2> QED BY <2>1, KeptStands DEF Onward
<1>2. CASE Stage(r)
  <2>1. Put(r, Advanced(run[r])) /\ agents' = [agents EXCEPT ![r] = agents[r]]
    BY <1>2, AgentsKept DEF Stage
  <2>2. /\ RowStands(run[r], Advanced(run[r])) /\ Finished(run[r], Advanced(run[r]), {})
    BY RunTypes, PassRow, PassStands
  <2> QED BY <2>1, <2>2, KeptStands, Written
<1>3. CASE Open(r)
  <2>1. PICK a : agents' = [agents EXCEPT ![r] = Append(agents[r], a)]
    BY <1>3 DEF Open, Inv, TypeOK
  <2>2. Put(r, run[r])
    BY <1>3, RowKept DEF Open
  <2> QED BY <2>1, <2>2, RunTypes, KeptStands, AddedStands, Written
<1>4. CASE Reserve(r)
  <2> DEFINE k == worker[r].agent
  <2>1. k \in Live(agents[r])
    BY <1>4, RunTypes DEF Reserve, CanReserve, Me
  <2>2. PICK p : agents' = [agents EXCEPT ![r][k].patch = p]
    BY <1>4 DEF Reserve, Me
  <2>3. agents' = [agents EXCEPT ![r] =
                      [agents[r] EXCEPT ![k] = [agents[r][k] EXCEPT !.patch = p]]]
    BY <2>2
  <2>4. Put(r, run[r])
    BY <1>4, RowKept DEF Reserve
  <2> QED BY <2>1, <2>3, <2>4, RunTypes, KeptStands, ChangedStands, Written
<1>5. CASE StartCoding(r) \/ StartTests(r) \/ ClaimDebug(r)
  BY <1>5, BeginOnward
<1>6. CASE FinishCoding(r) \/ FinishTests(r) \/ FinishDebug(r)
  BY <1>6, FinishOnward
<1>7. CASE Close(r)
  <2>1. worker[r].passed \in BOOLEAN
    BY RunTypes DEF WorkerRecords
  <2> QED BY <1>7, <2>1, CloseOnward
<1> QED BY <1>1, <1>2, <1>3, <1>4, <1>5, <1>6, <1>7 DEF WorkerStep

\* What any step does to any run.
LEMMA StepOnward ==
  ASSUME Inv, [Next]_vars, NEW r \in Runs
  PROVE  /\ RowStands(run[r], run'[r]) /\ AgentsStand(agents[r], agents'[r])
         /\ \/ Finished(run[r], run'[r], {}) \/ flow[r] = "none"
            \/ Close(r) /\ worker[r].passed /\ Finished(run[r], run'[r], {worker[r].task})
<1>1. ASSUME NEW q \in Runs, NEW S, Onward(q, S),
             q = r => \/ S = {} \/ flow[q] = "none"
                      \/ Close(q) /\ worker[q].passed /\ S = {worker[q].task}
      PROVE  /\ RowStands(run[r], run'[r]) /\ AgentsStand(agents[r], agents'[r])
             /\ \/ Finished(run[r], run'[r], {}) \/ flow[r] = "none"
                \/ Close(r) /\ worker[r].passed
                   /\ Finished(run[r], run'[r], {worker[r].task})
  <2>1. CASE q = r
    BY <1>1, <2>1 DEF Onward
  <2>2. CASE q # r
    BY <1>1, <2>2, KeptStands DEF Onward
  <2> QED BY <2>1, <2>2
<1>2. CASE RecoverStale
  <2>1. CASE run'[r] = run[r] /\ agents'[r] = agents[r]
    BY <2>1, KeptStands
  <2>2. CASE run'[r] = StoppedRun(r, FALSE) /\ agents'[r] = StoppedAgents(r, FALSE)
    <3>1. Halted(run[r], agents[r], run'[r], agents'[r])
      BY <2>2, StopHalts
    <3> QED BY <3>1 DEF Halted, RowStands, Finished, AgentsStand
  <2> QED BY <1>2, <2>1, <2>2 DEF RecoverStale
<1>3. CASE \E q \in Runs : Claim(q) \/ WorkerStep(q)
  BY <1>1, <1>3, WorkerOnward
<1>4. CASE \E q \in Runs : \/ Reconcile(q) \/ CancelExecution(q) \/ CancelFlow(q)
                           \/ ResumeFlow(q) \/ FenceFlow(q) \/ AgentAges(q) \/ RunAges(q)
  BY <1>1, <1>4, RequestsOnward
<1>5. CASE \E q \in Runs, t \in Tasks :
              \/ DispatcherTakes(q, t)
              \/ \E s \in {"completed", "failed"} : DispatcherReports(q, t, s)
  BY <1>1, <1>5, DispatcherOnward
<1>6. CASE UNCHANGED vars
  BY <1>6, KeptStands DEF vars
<1> QED BY <1>2, <1>3, <1>4, <1>5, <1>6 DEF Next

\* No late worker, pass or request moves what has ended (transitions._check, stop_locked,
\* RecoveryRecords._locked).
THEOREM EndedStaysEndedCorrect == Spec => EndedStaysEnded
<1> DEFINE Stays ==
      \A r \in Runs :
          /\ run[r].status \in EndedRun => run'[r].status = run[r].status
          /\ \A t \in Tasks : Status(r, t) \in TERMINAL \cup {"cancelled"} =>
                Status(r, t)' = Status(r, t)
          /\ \A i \in AgentsOf(r) \ Running(r) :
                agents'[r][i].status = agents[r][i].status
<1>1. Inv /\ [Next]_vars => Stays
  <2> SUFFICES ASSUME Inv, [Next]_vars, NEW r \in Runs
               PROVE  /\ run[r].status \in EndedRun => run'[r].status = run[r].status
                      /\ \A t \in Tasks : Status(r, t) \in TERMINAL \cup {"cancelled"} =>
                            Status(r, t)' = Status(r, t)
                      /\ \A i \in AgentsOf(r) \ Running(r) :
                            agents'[r][i].status = agents[r][i].status
    OBVIOUS
  <2>1. RowStands(run[r], run'[r]) /\ AgentsStand(agents[r], agents'[r])
    BY StepOnward
  <2> QED BY <2>1 DEF RowStands, AgentsStand, Over, Done, Status, AgentsOf, Running
<1> HIDE DEF Stays
<1>2. Inv /\ [Next]_vars => [Stays]_vars
  BY <1>1
<1>3. [][Stays]_vars => EndedStaysEnded
  BY PTL DEF Stays, EndedStaysEnded
<1> QED BY <1>2, <1>3, InvCorrect, PTL DEF Spec

\* A workflow's task is completed on tests that passed, of its newest patch and of the tree
\* as it is, by the worker that holds the claim (TestRecords.finish, RecoveryRecords.finish).
THEOREM CompletedOnEvidenceCorrect == Spec => CompletedOnEvidence
<1> DEFINE Evidence(r, t) ==
      /\ flow[r] = "active"
      /\ \E i \in AgentsOf(r) :
            /\ agents[r][i].type = "test" /\ agents[r][i].task = t
            /\ agents[r][i].status = "completed"
            /\ agents[r][i].of \in Applied(r, t)
            /\ \A j \in Applied(r, t) : j <= agents[r][i].of
            /\ agents[r][i].saw = tree[r].version
            /\ \A j \in (i + 1)..Len(agents[r]) : agents[r][j].type = "recovery"
   Completes ==
      \A r \in Runs, t \in Tasks :
         Status(r, t)' = "completed" /\ Status(r, t) # "completed" /\ flow[r] # "none" =>
            Evidence(r, t)
<1>1. ASSUME Inv, NEW r \in Runs, Close(r), worker[r].passed PROVE Evidence(r, worker[r].task)
  <2> DEFINE w == worker[r]
             A == agents[r]
             i == w.agent
  <2>1. /\ w.pc = "close" /\ w.recovery \in Live(A) /\ Running(r) = Live(A)
        /\ AgentsOf(r) = 1..Len(A) /\ A \in Seq(AgentRecords)
        /\ FlowInv(run[r], A, flow[r], tree[r], w) /\ ChildInv(A, tree[r], w)
    BY <1>1, RunTypes DEF Close, CanClose, RecoveryOpen, Me, Rest
  <2>2. flow[r] = "active"
    BY <2>1 DEF FlowInv
  <2>3. /\ i = Len(A) /\ Len(A) # 0 /\ Tests(A, i, w.task) /\ A[i].status = "completed"
        /\ A[i].saw = tree[r].version
    BY <1>1, <2>1 DEF ChildInv
  <2>4. Applied(r, w.task) = {j \in Made(A) : A[j].task = w.task}
    BY <2>1 DEF Applied, Made
  <2>5. i \in 1..Len(A) /\ (i + 1)..Len(A) = {}
    BY <2>1, <2>3
  <2> QED BY <2>1, <2>2, <2>3, <2>4, <2>5 DEF Tests
<1> HIDE DEF Evidence
<1>2. Inv /\ [Next]_vars => Completes
  <2> SUFFICES ASSUME Inv, [Next]_vars, NEW r \in Runs, NEW t \in Tasks,
                      Status(r, t)' = "completed", Status(r, t) # "completed",
                      flow[r] # "none"
               PROVE  Evidence(r, t)
    OBVIOUS
  <2>1. Close(r) /\ worker[r].passed /\ t = worker[r].task
    BY StepOnward DEF Finished, Status
  <2> QED BY <1>1, <2>1
<1>3. Inv /\ [Next]_vars => [Completes]_vars
  BY <1>2
<1>4. [][Completes]_vars => CompletedOnEvidence
  BY PTL DEF Completes, Evidence, CompletedOnEvidence
<1> HIDE DEF Completes
<1> QED BY <1>3, <1>4, InvCorrect, PTL DEF Spec

\* A patch reaches the tree only while completed agents account for all that is in it
\* (RecoveryService._debug ends the recovery when an application stops half way, and takes
\* the diff of the tree before it asks for another patch).
THEOREM NoPatchOnUncertainTreeCorrect == Spec => NoPatchOnUncertainTree
<1> DEFINE Sure ==
      \A r \in Runs :
          tree'[r].patches # tree[r].patches =>
             tree[r].patches =
                Cardinality({i \in AgentsOf(r) : /\ agents[r][i].type \in {"coding", "debug"}
                                                 /\ agents[r][i].status = "completed"})
<1>1. ASSUME Inv, NEW r \in Runs, NEW q \in Runs, CodingApplies(q) \/ DebugApplies(q),
             tree'[r].patches # tree[r].patches
      PROVE  Certain(agents[r], tree[r])
  <2>1. Patched(q) \/ UNCHANGED tree
    BY <1>1 DEF CodingApplies, DebugApplies
  <2>2. q = r
    BY <1>1, <2>1, TreePatched
  <2> QED BY <1>1, <2>2, RunTypes DEF CodingApplies, DebugApplies, Me, Rest, TreeInv, Held
<1>2. ASSUME Inv, NEW r \in Runs, [Next]_vars, tree'[r].patches # tree[r].patches
      PROVE  Certain(agents[r], tree[r])
  <2>1. ASSUME NEW q \in Runs, TestsRun(q) PROVE FALSE
    <3>1. Touched(q, 0) \/ UNCHANGED tree
      BY <2>1 DEF TestsRun
    <3>2. ASSUME Touched(q, 0) PROVE tree'[r].patches = tree[r].patches
      <4>1. CASE q = r
        <5>1. tree'[r].patches = tree[r].patches + 0 /\ tree[r].patches \in Nat
          BY <1>2, <3>2, <4>1, RunTypes, TreeWritten
        <5> QED BY <5>1
      <4>2. CASE q # r
        BY <1>2, <3>2, <4>2, TreeWritten
      <4> QED BY <4>1, <4>2
    <3> QED BY <1>2, <3>1, <3>2
  <2>2. ASSUME NEW q \in Runs, Claim(q) \/ WorkerStep(q)
        PROVE  UNCHANGED tree \/ CodingApplies(q) \/ DebugApplies(q)
    BY <2>1, <2>2 DEF Claim, WorkerStep, Stage, Open, StartCoding, FinishCoding, StartTests,
       FinishTests, ClaimDebug, Reserve, FinishDebug, WorkFails, Refused, Close, Leave, Crash,
       Begins, Returns
  <2>3. \/ UNCHANGED tree
        \/ \E q \in Runs : CodingApplies(q) \/ DebugApplies(q)
    BY <1>2, <2>2 DEF Next, vars, RecoverStale, Reconcile, CancelExecution, CancelFlow,
       ResumeFlow, FenceFlow, AgentAges, RunAges, DispatcherTakes, DispatcherReports
  <2> QED BY <1>1, <1>2, <2>3
<1>3. Inv /\ [Next]_vars => Sure
  BY <1>2, RunTypes DEF Certain, Made
<1> HIDE DEF Sure
<1>4. Inv /\ [Next]_vars => [Sure]_vars
  BY <1>3
<1>5. [][Sure]_vars => NoPatchOnUncertainTree
  BY PTL DEF Sure, NoPatchOnUncertainTree
<1> QED BY <1>4, <1>5, InvCorrect, PTL DEF Spec
=============================================================================
