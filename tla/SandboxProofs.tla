--------------------------- MODULE SandboxProofs ---------------------------
(***************************************************************************)
(* Proofs about Sandbox: a passed verdict rests on containers that began   *)
(* over a clean workspace, ended well and are gone, and a container that   *)
(* runs has the workspace to itself, for every list of required commands   *)
(* and any number of runs, deaths, stopped runs, tests that spoil the      *)
(* workspace and late or failed answers of the daemon.  And about          *)
(* CommandRunner, for any number of streams, any output and any sizes of   *)
(* blocks and pipes.                                                       *)
(*                                                                         *)
(* ResultFaithful is not inductive: what a result says of a stream follows *)
(* from an account of every byte on its way from the child to the buffer.  *)
(***************************************************************************)
EXTENDS Sandbox, CommandRunner, SequenceTheorems, TLAPS

\* Where the worker has a container that is not accounted for yet.
WithBox == {"create", "attached", "inspect", "remove", "removed"}

\* Where it executes commands, or has executed them all.
Testing == WithBox \cup {"check", "finish"}

Steps == Testing \cup {"idle", "select", "lock", "leave", "unlock", "fail"}

BoxRecords ==
    [agent : Nat, test : Nat, state : {"asked", "made", "up", "exited", "gone"},
     started : BOOLEAN, code : {"none", "zero", "other"}, clean : BOOLEAN]

AgentRecords ==
    [status : {"running", "completed", "failed"}, config : Required, results : Seq(Reported)]

Lists == Required \cup {Distinct(config) : config \in Required} \cup {<<>>}

Outcomes == Reported \cup {"none", "error"}

Jobs ==
    [pc : Steps, agent : Nat, tests : Lists, box : Nat, outcome : Outcomes,
     results : Seq(Reported)]

\* The worker of agent worker.agent, at pc.
Job(pc, tests, box, outcome, results) ==
    [pc |-> pc, agent |-> worker.agent, tests |-> tests, box |-> box,
     outcome |-> outcome, results |-> results]

\* Rows, containers and the worker have their types; a container runs only if it
\* has been started, which is done to containers that exist.
TypeInv ==
    /\ task \in {"awaiting", "running", "passed", "failed", "raised", "stopped"}
    /\ agents \in Seq(AgentRecords)
    /\ boxes \in Seq(BoxRecords)
    /\ worker \in Jobs
    /\ \A b \in DOMAIN boxes :
          /\ boxes[b].agent \in DOMAIN agents
          /\ boxes[b].state \in {"up", "exited"} => boxes[b].started
          /\ boxes[b].state = "asked" => ~boxes[b].started

\* The containers S are one for each result, in their order, and those of a command
\* that passed began over a clean workspace, ended by themselves with code zero and
\* are gone.
Accounts(S, results) ==
    /\ \A i \in 1..Len(results) : \E b \in S : boxes[b].test = i
    /\ \A b \in S :
          /\ boxes[b].test \in 1..Len(results)
          /\ results[boxes[b].test] = "zero" =>
                boxes[b].clean /\ boxes[b].code = "zero" /\ boxes[b].state = "gone"
          /\ \A c \in S : b < c => boxes[b].test < boxes[c].test

\* What the worker knows of its rows and of its containers.
WorkerInv ==
    LET a == worker.agent
        b == worker.box
        S == BoxesOf(a)
        results == worker.results
    IN  /\ worker.pc # "idle" => a = Len(agents) /\ a \in DOMAIN agents
        /\ worker.pc \notin {"idle", "leave"} =>
              task \in {"running", "stopped"} /\ agents[a].status # "completed"
        /\ worker.pc = "select" => worker.tests = agents[a].config
        /\ worker.pc \in Testing \cup {"lock"} =>
              /\ worker.tests = Distinct(agents[a].config)
              /\ ToSet(agents[a].config) \subseteq Allowed \cap Images
        /\ worker.pc \in {"select", "lock"} => S = {} /\ results = <<>>
        /\ worker.pc \in {"check", "finish"} => Accounts(S, results)
        /\ worker.pc = "finish" => Len(results) = Len(worker.tests)
        /\ worker.pc \in WithBox =>
              /\ b = Len(boxes) /\ b \in S /\ boxes[b].test = Len(results) + 1
              /\ Accounts(S \ {b}, results)
        /\ worker.pc \in WithBox \ {"removed"} =>
              /\ boxes[b].state \in {"asked", "made"} => ~tainted
              /\ boxes[b].state \in {"up", "exited"} => boxes[b].clean
        /\ worker.pc = "create" => ~boxes[b].started
        /\ worker.pc = "remove" /\ worker.outcome = "zero" =>
              boxes[b].state = "exited" /\ boxes[b].code = "zero"
        /\ worker.pc = "removed" /\ worker.outcome = "zero" =>
              boxes[b].state = "gone" /\ boxes[b].code = "zero" /\ boxes[b].clean

\* A container that was started and is there: it may run.
Loose(b) == boxes[b].started /\ boxes[b].state # "gone"

\* There is one at most.  It is the worker's; or its removal has failed, and the call
\* is on its way out; or its worker is gone, and no more is done for its task.
TenantInv ==
    \A b \in DOMAIN boxes : Loose(b) =>
        /\ \A c \in DOMAIN boxes : Loose(c) => b = c
        /\ \/ worker.pc \in {"attached", "inspect", "remove"} /\ worker.box = b
           \/ worker.pc = "removed" /\ worker.box = b /\ worker.outcome = "error"
           \/ worker.pc \in {"unlock", "fail"}
           \/ worker.pc = "idle" /\ task \in {"running", "raised", "stopped"}

Inv == TypeInv /\ WorkerInv /\ TenantInv /\ VerdictOnEvidence


-----------------------------------------------------------------------------
(* Containers and what is said of them *)

\* A container that changes stays where it is, and the others are not touched.
LEMMA BoxChange ==
  ASSUME NEW s \in Seq(BoxRecords), NEW b \in DOMAIN s, NEW box \in BoxRecords,
         NEW t, t = [s EXCEPT ![b] = box]
  PROVE  /\ t \in Seq(BoxRecords) /\ Len(t) = Len(s) /\ DOMAIN t = DOMAIN s
         /\ t[b] = box
         /\ \A c \in DOMAIN s : c # b => t[c] = s[c]
  OBVIOUS

\* A container that is started is the same container,
LEMMA BoxStarted ==
  ASSUME boxes \in Seq(BoxRecords), NEW b \in DOMAIN boxes,
         boxes' = [boxes EXCEPT ![b].started = TRUE]
  PROVE  \E box \in BoxRecords :
            /\ boxes' = [boxes EXCEPT ![b] = box]
            /\ box.agent = boxes[b].agent /\ box.test = boxes[b].test
            /\ box.started /\ box.state = boxes[b].state /\ box.code = boxes[b].code
            /\ box.clean = boxes[b].clean
<1> DEFINE box == [boxes[b] EXCEPT !.started = TRUE]
<1>1. boxes[b] \in BoxRecords
  OBVIOUS
<1>2. /\ box \in BoxRecords
      /\ box.agent = boxes[b].agent /\ box.test = boxes[b].test
      /\ box.started /\ box.state = boxes[b].state /\ box.code = boxes[b].code
            /\ box.clean = boxes[b].clean
  BY <1>1 DEF BoxRecords
<1>3. boxes' = [boxes EXCEPT ![b] = box]
  OBVIOUS
<1> HIDE DEF box
<1> QED BY <1>2, <1>3

\* and so is one whose state changes,
LEMMA BoxMoved ==
  ASSUME boxes \in Seq(BoxRecords), NEW b \in DOMAIN boxes,
         NEW state \in {"asked", "made", "up", "exited", "gone"},
         boxes' = [boxes EXCEPT ![b].state = state]
  PROVE  \E box \in BoxRecords :
            /\ boxes' = [boxes EXCEPT ![b] = box]
            /\ box.agent = boxes[b].agent /\ box.test = boxes[b].test
            /\ box.started = boxes[b].started /\ box.state = state
            /\ box.code = boxes[b].code /\ box.clean = boxes[b].clean
<1> DEFINE box == [boxes[b] EXCEPT !.state = state]
<1>1. boxes[b] \in BoxRecords
  OBVIOUS
<1>2. /\ box \in BoxRecords
      /\ box.agent = boxes[b].agent /\ box.test = boxes[b].test
      /\ box.started = boxes[b].started /\ box.state = state
            /\ box.code = boxes[b].code /\ box.clean = boxes[b].clean
  BY <1>1 DEF BoxRecords
<1>3. boxes' = [boxes EXCEPT ![b] = box]
  OBVIOUS
<1> HIDE DEF box
<1> QED BY <1>2, <1>3

\* one whose program is run,
LEMMA BoxRun ==
  ASSUME boxes \in Seq(BoxRecords), NEW b \in DOMAIN boxes, NEW clean \in BOOLEAN,
         boxes' = [boxes EXCEPT ![b].state = "up", ![b].clean = clean]
  PROVE  \E box \in BoxRecords :
            /\ boxes' = [boxes EXCEPT ![b] = box]
            /\ box.agent = boxes[b].agent /\ box.test = boxes[b].test
            /\ box.started = boxes[b].started /\ box.state = "up"
            /\ box.code = boxes[b].code /\ box.clean = clean
<1> DEFINE moved == [boxes[b] EXCEPT !.state = "up"]
           s == [boxes EXCEPT ![b] = moved]
           box == [moved EXCEPT !.clean = clean]
<1>1. boxes[b] \in BoxRecords
  OBVIOUS
<1>2. /\ moved \in BoxRecords
      /\ moved.started = boxes[b].started /\ moved.agent = boxes[b].agent
      /\ moved.test = boxes[b].test /\ moved.state = "up" /\ moved.code = boxes[b].code
  BY <1>1 DEF BoxRecords
<1>3. boxes' = [s EXCEPT ![b].clean = clean]
  OBVIOUS
<1> HIDE DEF moved
<1>4. s[b] = moved
  OBVIOUS
<1>5. /\ box \in BoxRecords
      /\ box.agent = boxes[b].agent /\ box.test = boxes[b].test
      /\ box.started = boxes[b].started /\ box.state = "up"
      /\ box.code = boxes[b].code /\ box.clean = clean
  BY <1>2 DEF BoxRecords
<1>6. [s EXCEPT ![b].clean = clean] = [s EXCEPT ![b] = box]
  BY <1>4
<1> HIDE DEF box
<1>7. [s EXCEPT ![b] = box] = [boxes EXCEPT ![b] = box]
  OBVIOUS
<1>8. boxes' = [boxes EXCEPT ![b] = box]
  BY <1>3, <1>6, <1>7
<1> HIDE DEF s
<1> QED BY <1>5, <1>8

\* or one that exits.
LEMMA BoxExited ==
  ASSUME boxes \in Seq(BoxRecords), NEW b \in DOMAIN boxes, NEW code \in {"zero", "other"},
         boxes' = [boxes EXCEPT ![b].state = "exited", ![b].code = code]
  PROVE  \E box \in BoxRecords :
            /\ boxes' = [boxes EXCEPT ![b] = box]
            /\ box.agent = boxes[b].agent /\ box.test = boxes[b].test
            /\ box.started = boxes[b].started /\ box.state = "exited"
            /\ box.code = code /\ box.clean = boxes[b].clean
<1> DEFINE moved == [boxes[b] EXCEPT !.state = "exited"]
           s == [boxes EXCEPT ![b] = moved]
           box == [moved EXCEPT !.code = code]
<1>1. boxes[b] \in BoxRecords
  OBVIOUS
<1>2. /\ moved \in BoxRecords
      /\ moved.started = boxes[b].started /\ moved.agent = boxes[b].agent
      /\ moved.test = boxes[b].test /\ moved.state = "exited" /\ moved.code = boxes[b].code
      /\ moved.clean = boxes[b].clean
  BY <1>1 DEF BoxRecords
<1>3. boxes' = [s EXCEPT ![b].code = code]
  OBVIOUS
<1> HIDE DEF moved
<1>4. s[b] = moved
  OBVIOUS
<1>5. /\ box \in BoxRecords
      /\ box.agent = boxes[b].agent /\ box.test = boxes[b].test
      /\ box.started = boxes[b].started /\ box.state = "exited"
            /\ box.code = code /\ box.clean = boxes[b].clean
  BY <1>2 DEF BoxRecords
<1>6. [s EXCEPT ![b].code = code] = [s EXCEPT ![b] = box]
  BY <1>4
<1> HIDE DEF box
<1>7. [s EXCEPT ![b] = box] = [boxes EXCEPT ![b] = box]
  OBVIOUS
<1>8. boxes' = [boxes EXCEPT ![b] = box]
  BY <1>3, <1>6, <1>7
<1> HIDE DEF s
<1> QED BY <1>5, <1>8

\* A verdict stands while the rows and the containers it is about stay.
LEMMA VerdictKept ==
  ASSUME VerdictOnEvidence, DOMAIN agents' = DOMAIN agents,
         \A a \in DOMAIN agents : agents'[a].status = "completed" =>
            /\ agents'[a].status = agents[a].status /\ agents'[a].config = agents[a].config
            /\ BoxesOf(a)' = BoxesOf(a)
            /\ \A b \in BoxesOf(a) : boxes'[b] = boxes[b]
  PROVE  VerdictOnEvidence'
  BY DEF VerdictOnEvidence

\* What an assignment to some fields of the worker makes of it.
LEMMA JobForms ==
  ASSUME worker \in Jobs, NEW pc
  PROVE  /\ [worker EXCEPT !.pc = pc] =
               Job(pc, worker.tests, worker.box, worker.outcome, worker.results)
         /\ \A tests : [worker EXCEPT !.pc = pc, !.tests = tests] =
               Job(pc, tests, worker.box, worker.outcome, worker.results)
         /\ \A outcome : [worker EXCEPT !.pc = pc, !.outcome = outcome] =
               Job(pc, worker.tests, worker.box, outcome, worker.results)
         /\ \A results : [worker EXCEPT !.pc = pc, !.results = results] =
               Job(pc, worker.tests, worker.box, worker.outcome, results)
         /\ \A box, outcome : [worker EXCEPT !.pc = pc, !.box = box, !.outcome = outcome] =
               Job(pc, worker.tests, box, outcome, worker.results)
<1> DEFINE x == [worker EXCEPT !.pc = pc]
<1>1. x = Job(pc, worker.tests, worker.box, worker.outcome, worker.results)
  BY DEF Job, Jobs
<1>2. \A tests : [worker EXCEPT !.pc = pc, !.tests = tests] = [x EXCEPT !.tests = tests]
  OBVIOUS
<1>3. \A outcome : [worker EXCEPT !.pc = pc, !.outcome = outcome] = [x EXCEPT !.outcome = outcome]
  OBVIOUS
<1>4. \A results : [worker EXCEPT !.pc = pc, !.results = results] = [x EXCEPT !.results = results]
  OBVIOUS
<1>5. \A box, outcome : [worker EXCEPT !.pc = pc, !.box = box, !.outcome = outcome] =
                           [[x EXCEPT !.box = box] EXCEPT !.outcome = outcome]
  OBVIOUS
<1>6. ASSUME NEW box
      PROVE  [x EXCEPT !.box = box] =
                Job(pc, worker.tests, box, worker.outcome, worker.results)
  <2> HIDE DEF x
  <2> QED BY <1>1 DEF Job
<1>7. ASSUME NEW box, NEW outcome
      PROVE  [[x EXCEPT !.box = box] EXCEPT !.outcome = outcome] =
                Job(pc, worker.tests, box, outcome, worker.results)
  <2> DEFINE y == [x EXCEPT !.box = box]
  <2>1. y = Job(pc, worker.tests, box, worker.outcome, worker.results)
    BY <1>6
  <2> HIDE DEF y
  <2>2. [y EXCEPT !.outcome = outcome] = Job(pc, worker.tests, box, outcome, worker.results)
    BY <2>1 DEF Job
  <2> QED BY <2>2 DEF y
<1> HIDE DEF x
<1>8. /\ \A tests : [x EXCEPT !.tests = tests] =
                       Job(pc, tests, worker.box, worker.outcome, worker.results)
      /\ \A outcome : [x EXCEPT !.outcome = outcome] =
                         Job(pc, worker.tests, worker.box, outcome, worker.results)
      /\ \A results : [x EXCEPT !.results = results] =
                         Job(pc, worker.tests, worker.box, worker.outcome, results)
  BY <1>1 DEF Job
<1>9. [worker EXCEPT !.pc = pc] = x
  BY DEF x
<1>10. \A tests : [worker EXCEPT !.pc = pc, !.tests = tests] =
                      Job(pc, tests, worker.box, worker.outcome, worker.results)
  BY <1>2, <1>8
<1>11. \A outcome : [worker EXCEPT !.pc = pc, !.outcome = outcome] =
                        Job(pc, worker.tests, worker.box, outcome, worker.results)
  BY <1>3, <1>8
<1>12. \A results : [worker EXCEPT !.pc = pc, !.results = results] =
                        Job(pc, worker.tests, worker.box, worker.outcome, results)
  BY <1>4, <1>8
<1>13. \A box, outcome : [worker EXCEPT !.pc = pc, !.box = box, !.outcome = outcome] =
                             Job(pc, worker.tests, box, outcome, worker.results)
  BY <1>5, <1>7
<1> QED BY <1>1, <1>9, <1>10, <1>11, <1>12, <1>13

\* The worker has nothing to do.
LEMMA IdleInv ==
  ASSUME Inv, worker' = Idle, UNCHANGED <<agents, boxes>>, task' = task
  PROVE  TypeInv' /\ WorkerInv' /\ VerdictOnEvidence'
  BY DEF Inv, TypeInv, WorkerInv, VerdictOnEvidence, BoxesOf, Idle, Jobs, Lists, Outcomes, Steps,
         Testing, WithBox

\* A step of the worker that leaves rows and containers alone.
LEMMA WorkerOnly ==
  ASSUME Inv, UNCHANGED <<task, agents, boxes>>,
         NEW pc \in Steps, NEW tests \in Lists, NEW box \in Nat, NEW outcome \in Outcomes,
         NEW results \in Seq(Reported),
         worker' = Job(pc, tests, box, outcome, results)
  PROVE  TypeInv' /\ VerdictOnEvidence'
<1>1. /\ worker'.pc = pc /\ worker'.agent = worker.agent /\ worker'.tests = tests
      /\ worker'.box = box /\ worker'.outcome = outcome /\ worker'.results = results
  BY DEF Job
<1>2. worker' \in Jobs
  <2>1. worker.agent \in Nat
    BY DEF Inv, TypeInv, Jobs
  <2> QED BY <2>1 DEF Job, Jobs
<1>3. TypeInv'
  BY <1>1, <1>2 DEF Inv, TypeInv
<1> QED BY <1>3 DEF Inv, VerdictOnEvidence, BoxesOf

\* Types of what the worker holds.
LEMMA JobTypes ==
  ASSUME TypeInv
  PROVE  /\ worker \in Jobs /\ worker.pc \in Steps /\ worker.agent \in Nat
         /\ worker.tests \in Lists /\ worker.box \in Nat /\ worker.outcome \in Outcomes
         /\ worker.results \in Seq(Reported) /\ Len(worker.results) \in Nat
         /\ Len(agents) \in Nat /\ DOMAIN agents = 1..Len(agents)
         /\ Len(boxes) \in Nat /\ DOMAIN boxes = 1..Len(boxes)
         /\ \A a \in DOMAIN agents : agents[a] \in AgentRecords
         /\ \A b \in DOMAIN boxes : boxes[b] \in BoxRecords
<1>1. worker.results \in Seq(Reported)
  BY DEF TypeInv, Jobs
<1> QED BY <1>1 DEF TypeInv, Jobs

\* The worker goes on to another step with what it has.
LEMMA GotoType ==
  ASSUME Inv, UNCHANGED <<task, agents, boxes>>, NEW pc \in Steps,
         worker' = Job(pc, worker.tests, worker.box, worker.outcome, worker.results)
  PROVE  /\ TypeInv' /\ VerdictOnEvidence'
         /\ worker'.pc = pc /\ worker'.agent = worker.agent /\ worker'.tests = worker.tests
         /\ worker'.box = worker.box /\ worker'.outcome = worker.outcome
         /\ worker'.results = worker.results
<1>1. TypeInv' /\ VerdictOnEvidence'
  BY JobTypes, WorkerOnly DEF Inv
<1> QED BY <1>1 DEF Job

-----------------------------------------------------------------------------
(* One lemma for each action *)

\* Nothing has happened.
LEMMA InitInv == Init => Inv
  BY DEF Init, Inv, TypeInv, WorkerInv, TenantInv, VerdictOnEvidence, Idle, Jobs, Lists,
         Outcomes, Steps, Testing, WithBox,
         BoxesOf, Accounts

\* TestRecords.start: a new agent, which has no container yet.
LEMMA StartInv == ASSUME Inv, Start PROVE Inv'
<1>1. PICK config \in Required :
         /\ agents' = Append(agents, [status |-> "running", config |-> config, results |-> <<>>])
         /\ worker' = [Idle EXCEPT !.pc = "select", !.agent = Len(agents) + 1, !.tests = config]
  BY DEF Start
<1>2. /\ worker.pc = "idle" /\ task = "awaiting" /\ task' = "running" /\ UNCHANGED boxes
      /\ worker'.pc = "select" /\ worker'.agent = Len(agents) + 1 /\ worker'.tests = config
      /\ worker'.results = <<>> /\ worker'.box = 0 /\ worker'.outcome = "none"
      /\ worker' = [pc |-> "select", agent |-> Len(agents) + 1, tests |-> config,
                    box |-> 0, outcome |-> "none", results |-> <<>>]
  BY <1>1 DEF Start, Idle
<1>3. /\ Len(agents') = Len(agents) + 1 /\ DOMAIN agents' = 1..(Len(agents) + 1)
      /\ \A a \in DOMAIN agents : agents'[a] = agents[a]
      /\ agents'[Len(agents) + 1] = [status |-> "running", config |-> config, results |-> <<>>]
  BY <1>1 DEF Inv, TypeInv
<1>4. TypeInv'
  <2>1. [status |-> "running", config |-> config, results |-> <<>>] \in AgentRecords
    BY DEF AgentRecords
  <2>2. agents' \in Seq(AgentRecords)
    BY <1>1, <2>1 DEF Inv, TypeInv
  <2>3. worker' \in Jobs
    BY <1>2, JobTypes DEF Inv, Jobs, Steps, Lists, Outcomes
  <2>4. DOMAIN agents \subseteq DOMAIN agents'
    BY <1>3, JobTypes DEF Inv
  <2> QED BY <1>2, <2>2, <2>3, <2>4 DEF Inv, TypeInv
<1>5. BoxesOf(worker.agent)' = {}
  BY <1>2 DEF Inv, TypeInv, BoxesOf
<1>6. WorkerInv'
  BY <1>2, <1>3, <1>5, JobTypes DEF WorkerInv, Inv, Testing, WithBox
<1>7. TenantInv'
  BY <1>2 DEF Inv, TenantInv, Loose
<1>8. VerdictOnEvidence'
  <2>1. \A a \in DOMAIN agents' : agents'[a].status = "completed" =>
           a \in DOMAIN agents /\ agents'[a] = agents[a]
    BY <1>3, JobTypes DEF Inv
  <2>2. \A a : BoxesOf(a)' = BoxesOf(a)
    BY <1>2 DEF BoxesOf
  <2> QED BY <1>2, <2>1, <2>2 DEF Inv, VerdictOnEvidence
<1> QED BY <1>4, <1>6, <1>7, <1>8 DEF Inv

\* TestAgent.select and the images: what is refused has no container.
LEMMA SelectInv == ASSUME Inv, Select PROVE Inv'
<1>1. worker.pc = "select" /\ UNCHANGED <<task, agents, boxes>>
  BY DEF Select
<1>2. TenantInv' /\ (ToSet(worker.tests) \subseteq Allowed \cap Images \/ worker'.pc = "fail")
  BY <1>1, JobForms, JobTypes DEF Select, Goto, Job, Inv, TenantInv, Loose
<1>3. CASE ToSet(worker.tests) \subseteq Allowed \cap Images
  <2> DEFINE tests == Distinct(worker.tests)
  <2>1. worker' = Job("lock", tests, worker.box, worker.outcome, worker.results)
    BY <1>3, JobForms, JobTypes DEF Select, Inv
  <2>2. worker.tests = agents[worker.agent].config /\ worker.agent \in DOMAIN agents
    BY <1>1 DEF Inv, WorkerInv
  <2>3. tests \in Lists
    BY <2>2, JobTypes DEF Lists, Inv, AgentRecords
  <2>4. TypeInv' /\ VerdictOnEvidence'
    BY <1>1, <2>1, <2>3, WorkerOnly, JobTypes DEF Inv, Steps
  <2>5. WorkerInv'
    BY <1>1, <1>3, <2>1, <2>2 DEF Job, WorkerInv, Inv, Testing, WithBox, BoxesOf
  <2> QED BY <1>2, <2>4, <2>5 DEF Inv
<1>4. CASE ~(ToSet(worker.tests) \subseteq Allowed \cap Images)
  <2>1. worker' = Job("fail", worker.tests, worker.box, worker.outcome, worker.results)
    BY <1>4, JobForms, JobTypes DEF Select, Goto, Inv
  <2>2. TypeInv' /\ VerdictOnEvidence' /\ worker'.pc = "fail" /\ worker'.agent = worker.agent
    BY <1>1, <2>1, GotoType DEF Steps
  <2>3. WorkerInv'
    BY <1>1, <2>2 DEF WorkerInv, Inv, Testing, WithBox
  <2> QED BY <1>2, <2>2, <2>3 DEF Inv
<1> QED BY <1>3, <1>4

\* The lock is taken, or is refused.
LEMMA LockInv == ASSUME Inv, Lock PROVE Inv'
<1>1. worker.pc = "lock" /\ UNCHANGED <<task, agents, boxes>>
  BY DEF Lock
<1>2. PICK pc \in {"check", "fail"} :
         worker' = Job(pc, worker.tests, worker.box, worker.outcome, worker.results)
  BY JobForms, JobTypes DEF Lock, Goto, Inv
<1>3. /\ TypeInv' /\ VerdictOnEvidence' /\ worker'.pc = pc /\ worker'.agent = worker.agent
      /\ worker'.tests = worker.tests /\ worker'.results = worker.results
  BY <1>1, <1>2, GotoType DEF Steps, Testing
<1>4. Accounts(BoxesOf(worker.agent), worker.results)'
  BY <1>1, <1>3 DEF Inv, WorkerInv, Accounts, BoxesOf
<1>5. WorkerInv'
  BY <1>1, <1>3, <1>4 DEF WorkerInv, Inv, Testing, WithBox
<1>6. TenantInv'
  BY <1>1, <1>3 DEF Inv, TenantInv, Loose
<1> QED BY <1>3, <1>5, <1>6 DEF Inv

\* The with statement is left.
LEMMA UnlockInv == ASSUME Inv, Unlock PROVE Inv'
<1>1. /\ worker.pc \in {"leave", "unlock"} /\ UNCHANGED <<task, agents, boxes>>
      /\ \/ worker.pc = "leave" /\ worker' = Idle
         \/ /\ worker.pc = "unlock"
            /\ worker' = Job("fail", worker.tests, worker.box, worker.outcome, worker.results)
  BY JobForms DEF Unlock, Goto, Inv, TypeInv
<1>2. CASE worker.pc = "leave" /\ worker' = Idle
  <2>1. TenantInv'
    BY <1>1, <1>2 DEF Inv, TenantInv, Loose
  <2> QED BY <1>1, <1>2, <2>1, IdleInv DEF Inv
<1>3. CASE /\ worker.pc = "unlock"
           /\ worker' = Job("fail", worker.tests, worker.box, worker.outcome, worker.results)
  <2>1. TypeInv' /\ VerdictOnEvidence'
    BY <1>1, <1>3, WorkerOnly DEF Inv, TypeInv, Jobs, Outcomes, Reported, Steps
  <2>2. WorkerInv'
    BY <1>1, <1>3 DEF Job, WorkerInv, Inv, TypeInv, Testing, WithBox
  <2>3. TenantInv'
    BY <1>1, <1>3 DEF Job, Inv, TenantInv, Loose
  <2> QED BY <2>1, <2>2, <2>3 DEF Inv
<1> QED BY <1>1, <1>2, <1>3

\* The worker dies: a container it had may run on, and so may its task.
LEMMA DieInv == ASSUME Inv, Die PROVE Inv'
<1>1. worker.pc # "idle" /\ worker' = Idle /\ UNCHANGED <<task, agents, boxes>>
  BY DEF Die
<1>2. TenantInv'
  BY <1>1 DEF Inv, TenantInv, WorkerInv, Loose, Idle, WithBox
<1> QED BY <1>1, <1>2, IdleInv DEF Inv

\* start --attach returns, or the call ends otherwise.
LEMMA AttachInv == ASSUME Inv, Attached \/ AttachEnds PROVE Inv'
<1>1. worker.pc = "attached" /\ UNCHANGED <<task, agents, boxes, tainted>>
  BY DEF Attached, AttachEnds
<1>2. \/ worker' = Job("inspect", worker.tests, worker.box, worker.outcome, worker.results)
      \/ \E outcome \in {"timeout", "error"} :
            worker' = Job("remove", worker.tests, worker.box, outcome, worker.results)
  <2>1. CASE Attached
    BY <2>1, JobForms, JobTypes DEF Attached, Goto, Inv
  <2>2. CASE AttachEnds
    <3>1. PICK outcome \in {"timeout", "error"} :
             worker' = [worker EXCEPT !.pc = "remove", !.outcome = outcome]
      BY <2>2 DEF AttachEnds
    <3> QED BY <3>1, JobForms, JobTypes DEF Inv
  <2> QED BY <2>1, <2>2
<1>3. TypeInv' /\ VerdictOnEvidence'
  BY <1>1, <1>2, WorkerOnly, GotoType, JobTypes DEF Inv, Steps, Testing, WithBox,
     Outcomes, Reported
<1>4. /\ worker'.pc \in {"inspect", "remove"} /\ worker'.agent = worker.agent
      /\ worker'.tests = worker.tests
      /\ worker'.box = worker.box /\ worker'.results = worker.results
      /\ worker'.pc = "remove" => worker'.outcome # "zero"
  BY <1>2 DEF Job
<1>5. WorkerInv'
  BY <1>1, <1>4 DEF WorkerInv, Inv, Testing, WithBox, BoxesOf, Accounts
<1>6. TenantInv'
  BY <1>1, <1>4 DEF Inv, TenantInv, Loose
<1> QED BY <1>3, <1>5, <1>6 DEF Inv

\* inspect: zero is the code of a container that has exited.
LEMMA InspectInv == ASSUME Inv, Inspect PROVE Inv'
<1>1. PICK outcome \in {CodeOf(boxes[worker.box]), "error"} :
         worker' = Job("remove", worker.tests, worker.box, outcome, worker.results)
  BY JobForms, JobTypes DEF Inspect, Box, Inv, TypeInv
<1>2. worker.pc = "inspect" /\ UNCHANGED <<task, agents, boxes, tainted>>
  BY DEF Inspect
<1>3. outcome = "zero" => boxes[worker.box].state = "exited" /\ boxes[worker.box].code = "zero"
  BY <1>1 DEF CodeOf
<1>7. outcome \in Outcomes
  <2>1. worker.box \in DOMAIN boxes
    BY <1>2 DEF Inv, WorkerInv, WithBox, BoxesOf
  <2>2. boxes[worker.box].code \in {"none", "zero", "other"}
    BY <2>1, JobTypes DEF Inv, BoxRecords
  <2> QED BY <1>1, <2>2 DEF CodeOf, Outcomes, Reported
<1>4. TypeInv' /\ VerdictOnEvidence'
  BY <1>1, <1>2, <1>7, WorkerOnly, JobTypes DEF Inv, Steps, Testing, WithBox
<1>5. WorkerInv'
  BY <1>1, <1>2, <1>3 DEF Job, WorkerInv, Inv, TypeInv, Testing, WithBox, BoxesOf, Accounts
<1>6. TenantInv'
  BY <1>1, <1>2 DEF Job, Inv, TenantInv, Loose
<1> QED BY <1>4, <1>5, <1>6 DEF Inv

\* The result of a command is appended; its container accounts for it.
LEMMA CollectInv == ASSUME Inv, Collect PROVE Inv'
<1> DEFINE b == worker.box
           S == BoxesOf(worker.agent)
           results == worker.results
<1>1. worker.pc = "removed" /\ UNCHANGED <<task, agents, boxes>>
  BY DEF Collect
<1>2. CASE worker.outcome \notin Reported
  <2>1. worker' = Job("unlock", worker.tests, worker.box, worker.outcome, worker.results)
    BY <1>2, JobForms DEF Collect, Goto, Inv, TypeInv
  <2>2. TypeInv' /\ VerdictOnEvidence'
    BY <1>1, <2>1, WorkerOnly DEF Inv, TypeInv, Jobs, Outcomes, Reported, Steps
  <2>3. WorkerInv'
    BY <1>1, <2>1 DEF Job, WorkerInv, Inv, TypeInv, Testing, WithBox
  <2>4. TenantInv'
    BY <1>1, <2>1 DEF Job, Inv, TenantInv, Loose
  <2> QED BY <2>2, <2>3, <2>4 DEF Inv
<1>3. CASE worker.outcome \in Reported
  <2> DEFINE more == Append(results, worker.outcome)
  <2>1. PICK pc \in {"unlock", "check", "finish"} :
           /\ worker' = Job(pc, worker.tests, worker.box, worker.outcome, more)
           /\ pc = "finish" => Len(more) = Len(worker.tests)
    <3> DEFINE last == Len(more) = Len(worker.tests)
    <3>1. PICK pc \in IF last THEN {"unlock", "finish"} ELSE {"check"} :
             worker' = [worker EXCEPT !.pc = pc, !.results = more]
      BY <1>3 DEF Collect
    <3>2. pc \in {"unlock", "check", "finish"} /\ (pc = "finish" => last)
      BY <3>1
    <3>3. worker' = Job(pc, worker.tests, worker.box, worker.outcome, more)
      BY <3>1, JobForms, JobTypes DEF Inv
    <3> QED BY <3>2, <3>3
  <2>2. /\ more \in Seq(Reported) /\ Len(more) = Len(results) + 1 /\ Len(results) \in Nat
        /\ more[Len(more)] = worker.outcome
        /\ \A i \in 1..Len(results) : more[i] = results[i]
    BY <1>3, JobTypes DEF Inv
  <2>3. TypeInv' /\ VerdictOnEvidence'
    BY <1>1, <2>1, <2>2, WorkerOnly, JobTypes DEF Inv, Steps, Testing, WithBox
  <2>4. /\ b = Len(boxes) /\ b \in S /\ boxes[b].test = Len(more)
        /\ Accounts(S \ {b}, results)
        /\ worker.outcome = "zero" =>
              boxes[b].state = "gone" /\ boxes[b].code = "zero" /\ boxes[b].clean
    BY <1>1, <2>2 DEF Inv, WorkerInv, WithBox
  <2>5. Accounts(S, more)
    <3>1. \A i \in 1..Len(more) : \E c \in S : boxes[c].test = i
      <4>1. \A i \in 1..Len(results) : \E c \in S : boxes[c].test = i
        BY <2>4 DEF Accounts
      <4> QED BY <4>1, <2>2, <2>4
    <3>2. ASSUME NEW c \in S
          PROVE  /\ boxes[c].test \in 1..Len(more)
                 /\ more[boxes[c].test] = "zero" =>
                       boxes[c].clean /\ boxes[c].code = "zero" /\ boxes[c].state = "gone"
                 /\ \A e \in S : c < e => boxes[c].test < boxes[e].test
      <4>1. c \in 1..Len(boxes)
        BY DEF Inv, TypeInv, BoxesOf
      <4>2. \A e \in S : e \in 1..Len(boxes)
        BY DEF Inv, TypeInv, BoxesOf
      <4>3. CASE c = b
        BY <4>2, <4>3, <2>2, <2>4 DEF Inv, TypeInv
      <4>4. CASE c # b
        <5>1. /\ boxes[c].test \in 1..Len(results)
              /\ results[boxes[c].test] = "zero" =>
                    boxes[c].clean /\ boxes[c].code = "zero" /\ boxes[c].state = "gone"
              /\ \A e \in S \ {b} : c < e => boxes[c].test < boxes[e].test
          BY <2>4, <4>4 DEF Accounts
        <5> QED BY <5>1, <2>2, <2>4
      <4> QED BY <4>3, <4>4
    <3> HIDE DEF S, more
    <3> QED BY <3>1, <3>2 DEF Accounts
  <2>6. Accounts(BoxesOf(worker.agent), worker.results)'
    BY <1>1, <2>1, <2>5 DEF Job, Accounts, BoxesOf
  <2>7. WorkerInv'
    BY <1>1, <2>1, <2>6 DEF Job, WorkerInv, Inv, TypeInv, Testing, WithBox
  <2>8. TenantInv'
    BY <1>1, <1>3 DEF Reported, Inv, TenantInv, Loose
  <2> QED BY <2>3, <2>7, <2>8 DEF Inv
<1> QED BY <1>2, <1>3

\* create is sent for the next command: one more container, not made yet.
LEMMA CheckInv == ASSUME Inv, Check PROVE Inv'
<1> DEFINE box == [agent |-> worker.agent, test |-> Len(worker.results) + 1, state |-> "asked",
                   started |-> FALSE, code |-> "none", clean |-> FALSE]
           S == BoxesOf(worker.agent)
<1>1. worker.pc = "check" /\ UNCHANGED <<task, agents, tainted>> /\ worker.agent \in DOMAIN agents
  BY DEF Check, Inv, WorkerInv
<1>2. CASE /\ ~tainted
           /\ boxes' = Append(boxes, box)
           /\ worker' = [worker EXCEPT !.pc = "create", !.box = Len(boxes) + 1,
                                       !.outcome = "none"]
  <2>1. worker' = Job("create", worker.tests, Len(boxes) + 1, "none", worker.results)
    BY <1>2, JobForms, JobTypes DEF Inv
  <2>2. box \in BoxRecords
    BY JobTypes DEF BoxRecords, Inv
  <2>3. /\ boxes' \in Seq(BoxRecords) /\ Len(boxes') = Len(boxes) + 1
        /\ DOMAIN boxes' = 1..Len(boxes) + 1 /\ boxes'[Len(boxes) + 1] = box
        /\ \A b \in DOMAIN boxes :
              b # Len(boxes) + 1 /\ b \in DOMAIN boxes' /\ boxes'[b] = boxes[b]
    <3> HIDE DEF box
    <3>1. boxes \in Seq(BoxRecords)
      BY DEF Inv, TypeInv
    <3> QED BY <1>2, <2>2, <3>1
  <2>4. /\ worker'.pc = "create" /\ worker'.agent = worker.agent /\ worker'.tests = worker.tests
        /\ worker'.box = Len(boxes) + 1 /\ worker'.results = worker.results
    BY <2>1 DEF Job
  <2>5. worker' \in Jobs
    BY <2>1, JobTypes DEF Inv, Job, Jobs, Steps, Testing, WithBox, Outcomes
  <2>6. DOMAIN boxes' = DOMAIN boxes \cup {Len(boxes) + 1}
    BY <2>3, JobTypes DEF Inv
  <2>7. TypeInv'
    <3>1. ASSUME NEW b \in DOMAIN boxes'
          PROVE  /\ boxes'[b].agent \in DOMAIN agents
                 /\ boxes'[b].state \in {"up", "exited"} => boxes'[b].started
                 /\ boxes'[b].state = "asked" => ~boxes'[b].started
      BY <1>1, <2>3, <2>6 DEF Inv, TypeInv
    <3> QED BY <1>1, <2>3, <2>5, <3>1 DEF Inv, TypeInv
  <2> DEFINE new == Len(boxes) + 1
  <2>8. /\ boxes'[new].agent = worker.agent /\ new \notin DOMAIN boxes
        /\ DOMAIN boxes' = DOMAIN boxes \cup {new}
        /\ \A b \in DOMAIN boxes : boxes'[b].agent = boxes[b].agent
    BY <2>3, <2>6
  <2>9. \A a \in DOMAIN agents : a # worker.agent => BoxesOf(a)' = BoxesOf(a)
    <3> HIDE DEF new
    <3> QED BY <2>8 DEF BoxesOf
  <2>10. BoxesOf(worker.agent)' = S \cup {Len(boxes) + 1} /\ Len(boxes) + 1 \notin S
    <3>1. BoxesOf(worker.agent)' = S \cup {new} /\ new \notin S
      <4> HIDE DEF new
      <4> QED BY <2>4, <2>8 DEF BoxesOf
    <3> QED BY <3>1
  <2>11. (Accounts(BoxesOf(worker.agent) \ {worker.box}, worker.results))'
    <3>1. (BoxesOf(worker.agent) \ {worker.box})' = S
      BY <2>4, <2>10
    <3>2. Accounts(S, worker.results)
      BY <1>1 DEF Inv, WorkerInv
    <3>3. \A b \in S : boxes'[b] = boxes[b]
      BY <2>3 DEF BoxesOf
    <3> QED BY <2>4, <3>1, <3>2, <3>3 DEF Accounts
  <2>12. WorkerInv'
    BY <1>1, <1>2, <2>3, <2>4, <2>10, <2>11 DEF WorkerInv, Inv, Testing, WithBox
  <2>13. TenantInv'
    <3>1. ASSUME NEW b \in DOMAIN boxes'
          PROVE  ~Loose(b)'
      <4>1. CASE b = Len(boxes) + 1
        BY <2>3, <4>1 DEF Loose
      <4>2. CASE b \in DOMAIN boxes
        BY <1>1, <2>3, <4>2 DEF Inv, TenantInv, Loose
      <4> QED BY <2>6, <4>1, <4>2
    <3> QED BY <3>1 DEF TenantInv
  <2>14. VerdictOnEvidence'
    <3>1. ASSUME NEW a \in DOMAIN agents, agents[a].status = "completed"
          PROVE  a # worker.agent /\ \A b \in BoxesOf(a) : boxes'[b] = boxes[b]
      BY <1>1, <2>3, <3>1 DEF Inv, WorkerInv, BoxesOf
    <3> QED BY <1>1, <2>9, <3>1, VerdictKept DEF Inv
  <2> QED BY <2>7, <2>12, <2>13, <2>14 DEF Inv
<1>3. CASE worker' = [worker EXCEPT !.pc = "unlock"] /\ UNCHANGED boxes
  <2>1. worker' = Job("unlock", worker.tests, worker.box, worker.outcome, worker.results)
    BY <1>3, JobForms, JobTypes DEF Inv
  <2>2. TypeInv' /\ VerdictOnEvidence' /\ worker'.pc = "unlock" /\ worker'.agent = worker.agent
    BY <1>1, <1>3, <2>1, GotoType DEF Steps
  <2>3. WorkerInv'
    BY <1>1, <2>2 DEF WorkerInv, Inv, Testing, WithBox
  <2>4. TenantInv'
    BY <1>1, <1>3, <2>2 DEF Inv, TenantInv, Loose
  <2> QED BY <2>2, <2>3, <2>4 DEF Inv
<1> QED BY <1>2, <1>3 DEF Check, Mountable, Goto

\* A container changes that is neither gone nor of a completed agent: types and
\* verdicts are not touched.
LEMMA ContainerType ==
  ASSUME Inv, NEW b \in DOMAIN boxes, NEW box \in BoxRecords,
         UNCHANGED <<task, agents>>, worker' \in Jobs,
         boxes' = [boxes EXCEPT ![b] = box], box.agent = boxes[b].agent,
         box.test = boxes[b].test,
         boxes[b].state = "gone" =>
            box.state = "gone" /\ box.code = boxes[b].code /\ box.clean = boxes[b].clean,
         box.state \in {"up", "exited"} => box.started, box.state = "asked" => ~box.started
  PROVE  /\ TypeInv' /\ VerdictOnEvidence'
         /\ \A a : BoxesOf(a)' = BoxesOf(a)
         /\ Len(boxes') = Len(boxes) /\ DOMAIN boxes' = DOMAIN boxes /\ boxes'[b] = box
         /\ \A c \in DOMAIN boxes : c # b => boxes'[c] = boxes[c]
         /\ \A S \in SUBSET DOMAIN boxes : \A results :
               Accounts(S, results) => Accounts(S, results)'
<1>1. /\ boxes' \in Seq(BoxRecords) /\ Len(boxes') = Len(boxes) /\ DOMAIN boxes' = DOMAIN boxes
      /\ boxes'[b] = box /\ \A c \in DOMAIN boxes : c # b => boxes'[c] = boxes[c]
  BY BoxChange DEF Inv, TypeInv
<1>2. TypeInv'
  BY <1>1 DEF Inv, TypeInv
<1>3. \A a : BoxesOf(a)' = BoxesOf(a)
  BY <1>1 DEF BoxesOf
<1>4. \A c \in DOMAIN boxes :
         /\ boxes'[c].test = boxes[c].test
         /\ boxes[c].state = "gone" =>
               /\ boxes'[c].state = "gone" /\ boxes'[c].code = boxes[c].code
               /\ boxes'[c].clean = boxes[c].clean
  BY <1>1
<1>5. ASSUME NEW S \in SUBSET DOMAIN boxes, NEW results, Accounts(S, results)
      PROVE  Accounts(S, results)'
  BY <1>4, <1>5 DEF Accounts
<1>6. VerdictOnEvidence'
  <2> SUFFICES ASSUME NEW a \in DOMAIN agents, agents[a].status = "completed"
               PROVE  LET count == Len(Distinct(agents[a].config))
                      IN  /\ ToSet(agents[a].config) \subseteq Allowed \cap Images
                          /\ \A i \in 1..count : \E c \in BoxesOf(a) : boxes'[c].test = i
                          /\ \A c \in BoxesOf(a) :
                                /\ boxes'[c].test \in 1..count
                                /\ boxes'[c].clean
                                /\ boxes'[c].code = "zero"
                                /\ boxes'[c].state = "gone"
                                /\ \A e \in BoxesOf(a) : c < e => boxes'[c].test < boxes'[e].test
    BY <1>3 DEF VerdictOnEvidence
  <2>1. BoxesOf(a) \subseteq DOMAIN boxes
    BY DEF BoxesOf
  <2> QED BY <1>4, <2>1 DEF Inv, VerdictOnEvidence
<1> QED BY <1>1, <1>2, <1>3, <1>5, <1>6

\* create returns and the container is started, or create fails.
LEMMA CreateInv == ASSUME Inv, Create PROVE Inv'
<1> DEFINE b == worker.box
           S == BoxesOf(worker.agent)
<1>1. /\ worker.pc = "create" /\ UNCHANGED <<task, agents, tainted>>
      /\ b = Len(boxes) /\ b \in S /\ b \in DOMAIN boxes /\ ~boxes[b].started
  BY DEF Create, Inv, WorkerInv, WithBox, BoxesOf
<1>2. \A c \in DOMAIN boxes : ~Loose(c)
  BY <1>1 DEF Inv, TenantInv, Loose
<1>3. CASE /\ boxes[b].state = "made"
           /\ boxes' = [boxes EXCEPT ![b].started = TRUE]
           /\ worker' = [worker EXCEPT !.pc = "attached"]
  <2>1. worker' = Job("attached", worker.tests, worker.box, worker.outcome, worker.results)
    BY <1>3, JobForms, JobTypes DEF Inv
  <2>2. /\ worker'.pc = "attached" /\ worker'.agent = worker.agent /\ worker'.tests = worker.tests
        /\ worker'.box = b /\ worker'.results = worker.results
    BY <2>1 DEF Job
  <2>3. worker' \in Jobs
    BY <2>1, JobTypes DEF Inv, Job, Jobs, Steps, Testing, WithBox
  <2>4. PICK box \in BoxRecords :
           /\ boxes' = [boxes EXCEPT ![b] = box]
           /\ box.agent = boxes[b].agent /\ box.test = boxes[b].test
           /\ box.started /\ box.state = boxes[b].state /\ box.code = boxes[b].code
           /\ box.clean = boxes[b].clean
    <3>1. boxes \in Seq(BoxRecords)
      BY DEF Inv, TypeInv
    <3>2. b \in DOMAIN boxes /\ boxes' = [boxes EXCEPT ![b].started = TRUE]
      BY <1>1, <1>3
    <3> HIDE DEF b
    <3> QED BY <3>1, <3>2, BoxStarted, Zenon
  <2>5. /\ TypeInv' /\ VerdictOnEvidence'
        /\ \A a : BoxesOf(a)' = BoxesOf(a)
        /\ Len(boxes') = Len(boxes) /\ DOMAIN boxes' = DOMAIN boxes /\ boxes'[b] = box
        /\ \A c \in DOMAIN boxes : c # b => boxes'[c] = boxes[c]
        /\ \A T \in SUBSET DOMAIN boxes : \A results :
              Accounts(T, results) => Accounts(T, results)'
    BY <1>1, <1>3, <2>3, <2>4, ContainerType
  <2>6. Accounts(BoxesOf(worker.agent) \ {worker.box}, worker.results)'
    BY <1>1, <2>2, <2>5 DEF Inv, WorkerInv, WithBox, BoxesOf
  <2>7. WorkerInv'
    BY <1>1, <2>2, <2>4, <2>5, <2>6 DEF Inv, WorkerInv, Testing, WithBox
  <2>8. TenantInv'
    BY <1>2, <2>2, <2>5 DEF TenantInv, Loose
  <2> QED BY <2>5, <2>7, <2>8 DEF Inv
<1>4. CASE worker' = [worker EXCEPT !.pc = "remove", !.outcome = "error"] /\ UNCHANGED boxes
  <2>1. worker' = Job("remove", worker.tests, worker.box, "error", worker.results)
    BY <1>4, JobForms, JobTypes DEF Inv
  <2>2. TypeInv' /\ VerdictOnEvidence'
    <3>1. "remove" \in Steps /\ "error" \in Outcomes
      BY DEF Steps, Testing, WithBox, Outcomes
    <3> QED BY <1>1, <1>4, <2>1, <3>1, WorkerOnly, JobTypes DEF Inv
  <2>3. WorkerInv'
    BY <1>1, <1>4, <2>1 DEF Job, WorkerInv, Inv, Testing, WithBox, BoxesOf, Accounts
  <2>4. TenantInv'
    BY <1>2, <1>4 DEF TenantInv, Loose
  <2> QED BY <2>2, <2>3, <2>4 DEF Inv
<1> QED BY <1>3, <1>4 DEF Create, Goto, Box

\* rm --force: the container is gone, or was not there yet, or the call raises.
LEMMA ForceRemoveInv == ASSUME Inv, ForceRemove PROVE Inv'
<1> DEFINE b == worker.box
           S == BoxesOf(worker.agent)
           present == boxes[b].state \notin {"asked", "gone"}
<1>1. /\ worker.pc = "remove" /\ UNCHANGED <<task, agents, tainted>>
      /\ b = Len(boxes) /\ b \in S /\ b \in DOMAIN boxes /\ boxes[b] \in BoxRecords
      /\ worker.outcome = "zero" =>
            boxes[b].state = "exited" /\ boxes[b].code = "zero" /\ boxes[b].clean
      /\ \A c \in DOMAIN boxes : Loose(c) => c = b
  BY JobTypes DEF ForceRemove, Inv, WorkerInv, WithBox, BoxesOf, TenantInv
<1>2. PICK box \in BoxRecords, outcome \in {worker.outcome, "error"} :
         /\ boxes' = [boxes EXCEPT ![b] = box]
         /\ worker' = [worker EXCEPT !.pc = "removed", !.outcome = outcome]
         /\ box.agent = boxes[b].agent /\ box.test = boxes[b].test /\ box.code = boxes[b].code
         /\ box.started = boxes[b].started /\ box.clean = boxes[b].clean
         /\ box.state \in {boxes[b].state, "gone"}
         /\ outcome = "error" \/ box.state \in {"asked", "gone"}
  <2>1. PICK outcome \in {worker.outcome, "error"} :
           /\ worker' = [worker EXCEPT !.pc = "removed", !.outcome = outcome]
           /\ \/ present /\ boxes' = [boxes EXCEPT ![b].state = "gone"]
              \/ boxes' = boxes /\ (outcome = "error" \/ ~present)
    <3>1. [worker EXCEPT !.pc = "removed"] =
             [worker EXCEPT !.pc = "removed", !.outcome = worker.outcome]
      BY JobForms, JobTypes DEF Inv
    <3> QED BY <3>1 DEF ForceRemove, SetBox, Goto, Box, AfterFailedCleanup
  <2>2. CASE present /\ boxes' = [boxes EXCEPT ![b].state = "gone"]
    <3>1. PICK box \in BoxRecords :
             /\ boxes' = [boxes EXCEPT ![b] = box]
             /\ box.agent = boxes[b].agent /\ box.test = boxes[b].test
             /\ box.code = boxes[b].code /\ box.started = boxes[b].started
             /\ box.state = "gone" /\ box.clean = boxes[b].clean
      BY <1>1, <2>2, BoxMoved DEF Inv, TypeInv
    <3> QED BY <2>1, <3>1
  <2>3. CASE boxes' = boxes /\ (outcome = "error" \/ ~present)
    <3>1. boxes' = [boxes EXCEPT ![b] = boxes[b]]
      BY <1>1, <2>3 DEF Inv, TypeInv
    <3> QED BY <1>1, <2>1, <2>3, <3>1
  <2> QED BY <2>1, <2>2, <2>3
<1>3. worker' = Job("removed", worker.tests, worker.box, outcome, worker.results)
  BY <1>2, JobForms, JobTypes DEF Inv
<1>4. /\ worker'.pc = "removed" /\ worker'.agent = worker.agent /\ worker'.tests = worker.tests
      /\ worker'.box = b /\ worker'.results = worker.results /\ worker'.outcome = outcome
  BY <1>3 DEF Job
<1>5. worker' \in Jobs
  BY <1>2, <1>3, JobTypes DEF Inv, Job, Jobs, Steps, Testing, WithBox, Outcomes
<1>6. /\ boxes[b].state \in {"up", "exited"} => boxes[b].started
      /\ boxes[b].state = "asked" => ~boxes[b].started
  BY <1>1 DEF Inv, TypeInv
<1>7. /\ TypeInv' /\ VerdictOnEvidence'
      /\ \A a : BoxesOf(a)' = BoxesOf(a)
      /\ Len(boxes') = Len(boxes) /\ DOMAIN boxes' = DOMAIN boxes /\ boxes'[b] = box
      /\ \A c \in DOMAIN boxes : c # b => boxes'[c] = boxes[c]
      /\ \A T \in SUBSET DOMAIN boxes : \A results :
            Accounts(T, results) => Accounts(T, results)'
  BY <1>1, <1>2, <1>5, <1>6, ContainerType
<1>8. Accounts(BoxesOf(worker.agent) \ {worker.box}, worker.results)'
  BY <1>1, <1>4, <1>7 DEF Inv, WorkerInv, WithBox, BoxesOf
<1>9. WorkerInv'
  BY <1>1, <1>2, <1>4, <1>7, <1>8 DEF Inv, WorkerInv, Testing, WithBox
<1>10. \A c \in DOMAIN boxes : Loose(c)' => c = b /\ outcome = "error"
  BY <1>1, <1>2, <1>6, <1>7 DEF Loose
<1>11. TenantInv'
  BY <1>4, <1>7, <1>10 DEF TenantInv
<1> QED BY <1>7, <1>9, <1>11 DEF Inv

\* Rows change, the containers do not: a verdict is added with its evidence.
LEMMA RowsType ==
  ASSUME Inv, UNCHANGED boxes, worker' \in Jobs,
         task' \in {"awaiting", "running", "passed", "failed", "raised", "stopped"},
         agents' \in Seq(AgentRecords), DOMAIN agents' = DOMAIN agents
  PROVE  TypeInv'
  BY DEF Inv, TypeInv

\* TestRecords.finish, with results that are the worker's.
LEMMA RecordInv ==
  ASSUME Inv, worker.pc \in {"finish", "fail"}, NEW passed \in BOOLEAN,
         NEW after \in {"passed", "failed", "raised"}, Record(passed, after),
         UNCHANGED boxes, worker' \in Jobs, worker'.pc \in {"idle", "leave"},
         worker'.pc = "leave" => worker'.agent = worker.agent,
         passed => worker.pc = "finish" /\ Passed(worker.results),
         worker.pc = "fail" => worker'.pc = "idle" /\ after = "raised"
  PROVE  Inv'
<1> DEFINE a == worker.agent
           S == BoxesOf(worker.agent)
           results == worker.results
<1>1. /\ a \in DOMAIN agents /\ a = Len(agents) /\ agents[a].status # "completed"
      /\ results \in Seq(Reported)
  BY JobTypes DEF Inv, WorkerInv
<1>2. PICK status \in {"completed", "failed"} :
         /\ (status = "completed") <=> passed
         /\ agents' = [agents EXCEPT ![a].status = status, ![a].results = results]
  BY DEF Record
<1>3. PICK row \in AgentRecords :
         /\ agents' = [agents EXCEPT ![a] = row]
         /\ row.status = status /\ row.config = agents[a].config
  <2>1. agents[a] \in AgentRecords
    BY <1>1, JobTypes DEF Inv
  <2> DEFINE s == [agents[a] EXCEPT !.status = status]
             t == [agents EXCEPT ![a] = s]
             row == [s EXCEPT !.results = results]
  <2>2. s \in AgentRecords /\ s.status = status /\ s.config = agents[a].config
    BY <2>1 DEF AgentRecords
  <2>3. [agents EXCEPT ![a].status = status, ![a].results = results] =
           [t EXCEPT ![a].results = results]
    OBVIOUS
  <2> HIDE DEF s
  <2>4. t[a] = s
    BY <1>1, JobTypes DEF Inv
  <2>5. row \in AgentRecords /\ row.status = status /\ row.config = agents[a].config
    BY <1>1, <2>2 DEF AgentRecords
  <2>6. [t EXCEPT ![a].results = results] =
           [t EXCEPT ![a] = row]
    BY <2>4
  <2> HIDE DEF row
  <2>7. [t EXCEPT ![a] = row] = [agents EXCEPT ![a] = row]
    OBVIOUS
  <2> QED BY <1>2, <2>3, <2>5, <2>6, <2>7
<1>4. /\ agents' \in Seq(AgentRecords) /\ DOMAIN agents' = DOMAIN agents
      /\ Len(agents') = Len(agents) /\ agents'[a] = row
      /\ \A c \in DOMAIN agents : c # a => agents'[c] = agents[c]
  BY <1>1, <1>3 DEF Inv, TypeInv
<1>5. task' = after
  BY DEF Record
<1>6. TypeInv'
  BY <1>4, <1>5, RowsType
<1>7. WorkerInv'
  BY <1>1, <1>4 DEF WorkerInv, Testing, WithBox
<1>8. TenantInv'
  BY <1>5 DEF Inv, TenantInv, Loose
<1>9. VerdictOnEvidence'
  <2> SUFFICES ASSUME NEW c \in DOMAIN agents, agents'[c].status = "completed"
               PROVE  LET count == Len(Distinct(agents'[c].config))
                      IN  /\ ToSet(agents'[c].config) \subseteq Allowed \cap Images
                          /\ \A i \in 1..count : \E b \in BoxesOf(c) : boxes[b].test = i
                          /\ \A b \in BoxesOf(c) :
                                /\ boxes[b].test \in 1..count
                                /\ boxes[b].clean
                                /\ boxes[b].code = "zero"
                                /\ boxes[b].state = "gone"
                                /\ \A e \in BoxesOf(c) : b < e => boxes[b].test < boxes[e].test
    BY <1>4 DEF VerdictOnEvidence, BoxesOf
  <2>1. CASE c # a
    BY <1>4, <2>1 DEF Inv, VerdictOnEvidence
  <2>2. CASE c = a
    <3>1. passed /\ worker.pc = "finish" /\ \A i \in 1..Len(results) : results[i] = "zero"
      BY <1>2, <1>3, <1>4, <2>2 DEF Passed
    <3>2. /\ Accounts(S, results) /\ Len(results) = Len(Distinct(agents[a].config))
          /\ ToSet(agents[a].config) \subseteq Allowed \cap Images
      BY <3>1 DEF Inv, WorkerInv, Testing
    <3> QED BY <1>3, <1>4, <2>2, <3>1, <3>2 DEF Accounts
  <2> QED BY <2>1, <2>2
<1> QED BY <1>6, <1>7, <1>8, <1>9 DEF Inv

\* The finish inside the lock.
LEMMA FinishInv == ASSUME Inv, Finish PROVE Inv'
<1> DEFINE passed == Passed(worker.results)
           after == IF passed THEN "passed" ELSE "failed"
<1>1. worker.pc = "finish" /\ UNCHANGED boxes
  BY DEF Finish
<1>2. \A b \in DOMAIN boxes : ~Loose(b)
  BY <1>1 DEF Inv, TenantInv
<1>3. CASE Record(passed, after) /\ worker' = [worker EXCEPT !.pc = "leave"]
  <2>1. worker' = Job("leave", worker.tests, worker.box, worker.outcome, worker.results)
    BY <1>3, JobForms, JobTypes DEF Inv
  <2>2. worker' \in Jobs /\ worker'.pc = "leave" /\ worker'.agent = worker.agent
    BY <2>1, JobTypes DEF Inv, Job, Jobs, Steps
  <2>3. after \in {"passed", "failed", "raised"} /\ passed \in BOOLEAN
    BY DEF Passed
  <2> HIDE DEF after
  <2> QED BY <1>1, <1>3, <2>2, <2>3, RecordInv
<1>4. CASE worker' = [worker EXCEPT !.pc = "unlock"] /\ UNCHANGED <<task, agents>>
  <2>1. worker' = Job("unlock", worker.tests, worker.box, worker.outcome, worker.results)
    BY <1>4, JobForms, JobTypes DEF Inv
  <2>2. TypeInv' /\ VerdictOnEvidence' /\ worker'.pc = "unlock" /\ worker'.agent = worker.agent
    BY <1>1, <1>4, <2>1, GotoType DEF Steps
  <2>3. WorkerInv'
    BY <1>1, <1>4, <2>2 DEF WorkerInv, Inv, Testing, WithBox
  <2>4. TenantInv'
    BY <1>1, <1>2 DEF TenantInv, Loose
  <2> QED BY <2>2, <2>3, <2>4 DEF Inv
<1> QED BY <1>3, <1>4 DEF Finish, Goto

\* The finish of the exception handler.
LEMMA FailInv == ASSUME Inv, Fail PROVE Inv'
<1>1. worker.pc = "fail" /\ UNCHANGED boxes /\ worker' = Idle
  BY DEF Fail
<1>2. task \in {"running", "stopped"}
  BY <1>1 DEF Inv, WorkerInv
<1>3. CASE Record(FALSE, "raised")
  <2>1. worker' \in Jobs /\ worker'.pc = "idle"
    BY <1>1 DEF Idle, Jobs, Steps, Lists, Outcomes
  <2> QED BY <1>1, <1>3, <2>1, RecordInv
<1>4. CASE UNCHANGED <<task, agents>>
  <2>1. TenantInv'
    BY <1>1, <1>2, <1>4 DEF Inv, TenantInv, Loose, Idle
  <2> QED BY <1>1, <1>4, <2>1, IdleInv DEF Inv
<1> QED BY <1>3, <1>4 DEF Fail

\* A container does something by itself: it stays the same container, is not gone,
\* and was started if it runs.
LEMMA ContainerInv ==
  ASSUME Inv, NEW b \in DOMAIN boxes, NEW box \in BoxRecords,
         UNCHANGED <<task, agents, tainted, worker>>, boxes' = [boxes EXCEPT ![b] = box],
         boxes[b].state \in {"asked", "made", "up"}, box.state \notin {"asked", "gone"},
         box.agent = boxes[b].agent, box.test = boxes[b].test,
         box.started = boxes[b].started,
         box.state \in {"up", "exited"} => box.started,
         boxes[b].state = "up" => box.state = "exited" /\ box.clean = boxes[b].clean,
         boxes[b].state # "up" =>
            box.state # "exited" /\ (box.state = "up" => box.clean = ~tainted)
  PROVE  Inv'
<1>1. /\ TypeInv' /\ VerdictOnEvidence'
      /\ \A a : BoxesOf(a)' = BoxesOf(a)
      /\ Len(boxes') = Len(boxes) /\ DOMAIN boxes' = DOMAIN boxes /\ boxes'[b] = box
      /\ \A c \in DOMAIN boxes : c # b => boxes'[c] = boxes[c]
      /\ \A T \in SUBSET DOMAIN boxes : \A results :
            Accounts(T, results) => Accounts(T, results)'
  BY ContainerType DEF Inv, TypeInv
<1>2. \A c \in DOMAIN boxes : Loose(c)' => Loose(c)
  BY <1>1 DEF Loose
<1>3. TenantInv'
  BY <1>1, <1>2 DEF Inv, TenantInv
<1>4. BoxesOf(worker.agent) \subseteq DOMAIN boxes
  BY DEF BoxesOf
<1>5. /\ worker.pc \in {"check", "finish"} =>
            Accounts(BoxesOf(worker.agent), worker.results)'
      /\ worker.pc \in WithBox =>
            Accounts(BoxesOf(worker.agent) \ {worker.box}, worker.results)'
  BY <1>1, <1>4 DEF Inv, WorkerInv
<1>6. /\ worker.pc \in WithBox => worker.box \in DOMAIN boxes
      /\ worker.pc = "create" => ~boxes'[worker.box].started
      /\ \A c \in DOMAIN boxes : /\ boxes'[c].test = boxes[c].test
                                 /\ boxes[c].state \in {"exited", "gone"} => boxes'[c] = boxes[c]
  BY <1>1, <1>4 DEF Inv, WorkerInv, WithBox
<1>7. ASSUME worker.pc \in WithBox \ {"removed"}
      PROVE  /\ boxes'[worker.box].state \in {"asked", "made"} => ~tainted
             /\ boxes'[worker.box].state \in {"up", "exited"} => boxes'[worker.box].clean
  BY <1>1, <1>6, <1>7 DEF Inv, WorkerInv
<1>8. WorkerInv'
  BY <1>1, <1>5, <1>6, <1>7 DEF Inv, WorkerInv, WithBox, Testing
<1> QED BY <1>1, <1>3, <1>8 DEF Inv

\* The daemon carries out a create.
LEMMA MakeInv == ASSUME Inv, NEW b \in DOMAIN boxes, Make(b) PROVE Inv'
<1>1. PICK box \in BoxRecords :
         /\ boxes' = [boxes EXCEPT ![b] = box]
         /\ box.agent = boxes[b].agent /\ box.test = boxes[b].test
         /\ box.started = boxes[b].started /\ box.state = "made"
         /\ box.code = boxes[b].code /\ box.clean = boxes[b].clean
  <2>1. boxes \in Seq(BoxRecords) /\ boxes' = [boxes EXCEPT ![b].state = "made"]
    BY DEF Make, SetBox, Inv, TypeInv
  <2>2. "made" \in {"asked", "made", "up", "exited", "gone"}
    OBVIOUS
  <2> QED BY <2>1, <2>2, BoxMoved, Zenon
<1>2. boxes[b].state = "asked" /\ UNCHANGED <<task, agents, tainted, worker>>
  BY DEF Make
<1> QED BY <1>1, <1>2, ContainerInv

\* The program in a container runs.
LEMMA RunInv == ASSUME Inv, NEW b \in DOMAIN boxes, Run(b) PROVE Inv'
<1>1. PICK box \in BoxRecords :
         /\ boxes' = [boxes EXCEPT ![b] = box]
         /\ box.agent = boxes[b].agent /\ box.test = boxes[b].test
         /\ box.started = boxes[b].started /\ box.state = "up"
         /\ box.code = boxes[b].code /\ box.clean = ~tainted
  <2> DEFINE clean == ~tainted
  <2>1. boxes' = [boxes EXCEPT ![b].state = "up", ![b].clean = clean]
    BY DEF Run
  <2>2. boxes \in Seq(BoxRecords)
    BY DEF Inv, TypeInv
  <2>3. clean \in BOOLEAN
    OBVIOUS
  <2>4. \E box \in BoxRecords :
           /\ boxes' = [boxes EXCEPT ![b] = box]
           /\ box.agent = boxes[b].agent /\ box.test = boxes[b].test
           /\ box.started = boxes[b].started /\ box.state = "up"
           /\ box.code = boxes[b].code /\ box.clean = clean
    <3> HIDE DEF clean
    <3> QED BY <2>1, <2>2, <2>3, BoxRun, Zenon
  <2> QED BY <2>4
<1>2. /\ boxes[b].state = "made" /\ boxes[b].started
      /\ UNCHANGED <<task, agents, tainted, worker>>
  BY DEF Run
<1> QED BY <1>1, <1>2, ContainerInv

\* The program in a container ends.
LEMMA ExitInv == ASSUME Inv, NEW b \in DOMAIN boxes, Exit(b) PROVE Inv'
<1>1. PICK code \in {"zero", "other"} :
         boxes' = [boxes EXCEPT ![b].state = "exited", ![b].code = code]
  BY DEF Exit
<1>2. boxes[b].state = "up" /\ UNCHANGED <<task, agents, tainted, worker>> /\ boxes[b].started
  BY DEF Exit, Inv, TypeInv
<1>3. PICK box \in BoxRecords :
         /\ boxes' = [boxes EXCEPT ![b] = box]
         /\ box.agent = boxes[b].agent /\ box.test = boxes[b].test
         /\ box.started = boxes[b].started /\ box.state = "exited"
         /\ box.code = code /\ box.clean = boxes[b].clean
  <2>1. boxes \in Seq(BoxRecords)
    BY DEF Inv, TypeInv
  <2> QED BY <1>1, <2>1, BoxExited, Zenon
<1> QED BY <1>2, <1>3, ContainerInv

\* A test leaves a file in the workspace.
LEMMA TaintInv == ASSUME Inv, NEW b \in DOMAIN boxes, Taint(b) PROVE Inv'
<1>1. boxes[b].state = "up" /\ Loose(b) /\ UNCHANGED <<task, agents, boxes, worker>>
  BY DEF Taint, Inv, TypeInv, Loose
<1>2. worker.pc \in WithBox \ {"removed"} => worker.box = b
  BY <1>1 DEF Inv, TenantInv, WithBox
<1>3. WorkerInv'
  BY <1>1, <1>2 DEF Inv, WorkerInv, BoxesOf, Accounts
<1>4. TypeInv' /\ TenantInv' /\ VerdictOnEvidence'
  BY <1>1 DEF Inv, TypeInv, TenantInv, VerdictOnEvidence, BoxesOf, Loose
<1> QED BY <1>3, <1>4 DEF Inv

\* A fence, a recovery pass or a cancellation: what was running has failed.
LEMMA StopInv == ASSUME Inv, Stop PROVE Inv'
<1>1. /\ task' = "stopped" /\ UNCHANGED <<boxes, tainted, worker>>
      /\ agents' = [a \in DOMAIN agents |->
                      [agents[a] EXCEPT !.status = IF @ = "running" THEN "failed" ELSE @]]
  BY DEF Stop
<1>2. ASSUME NEW a \in DOMAIN agents
      PROVE  /\ agents'[a] \in AgentRecords /\ agents'[a].config = agents[a].config
             /\ agents'[a].status = "completed" <=> agents[a].status = "completed"
  BY <1>1, JobTypes DEF Inv, AgentRecords
<1>3. /\ agents' \in Seq(AgentRecords) /\ Len(agents') = Len(agents)
      /\ DOMAIN agents' = DOMAIN agents
  <2>1. DOMAIN agents' = 1..Len(agents) /\ Len(agents) \in Nat
    BY <1>1, JobTypes DEF Inv
  <2>2. agents' \in [1..Len(agents) -> AgentRecords]
    BY <1>1, <1>2, <2>1
  <2> QED BY <2>1, <2>2
<1>4. TypeInv'
  BY <1>1, <1>3, JobTypes, RowsType DEF Inv
<1>5. WorkerInv'
  <2>1. \A a : BoxesOf(a)' = BoxesOf(a)
    BY <1>1 DEF BoxesOf
  <2>2. \A S, results : Accounts(S, results)' <=> Accounts(S, results)
    BY <1>1 DEF Accounts
  <2>3. worker.pc # "idle" => worker.agent = Len(agents) /\ worker.agent \in DOMAIN agents
    BY DEF Inv, WorkerInv
  <2>4. worker.pc \notin {"idle", "leave"} => agents'[worker.agent].status # "completed"
    BY <1>2, <2>3 DEF Inv, WorkerInv
  <2>5. worker.pc # "idle" => agents'[worker.agent].config = agents[worker.agent].config
    BY <1>2, <2>3
  <2>6. task' \in {"running", "stopped"}
    BY <1>1
  <2> QED BY <1>1, <1>3, <2>1, <2>2, <2>3, <2>4, <2>5, <2>6 DEF Inv, WorkerInv, WithBox, Testing
<1>6. TenantInv'
  BY <1>1 DEF Inv, TenantInv, Loose
<1>7. VerdictOnEvidence'
  BY <1>1, <1>2, <1>3, VerdictKept DEF Inv, BoxesOf
<1> QED BY <1>4, <1>5, <1>6, <1>7 DEF Inv

\* The next patch: nothing of the run before is left running.
LEMMA NextPatchInv == ASSUME Inv, NextPatch PROVE Inv'
<1>1. /\ task \in {"failed", "passed"} /\ task' = "awaiting"
      /\ UNCHANGED <<agents, boxes, tainted, worker>>
  BY DEF NextPatch
<1>2. TypeInv'
  BY <1>1 DEF Inv, TypeInv
<1>3. WorkerInv'
  BY <1>1 DEF Inv, WorkerInv, BoxesOf, Accounts, Testing, WithBox
<1>4. TenantInv'
  BY <1>1 DEF Inv, TenantInv, WorkerInv, Loose
<1>5. VerdictOnEvidence'
  BY <1>1, VerdictKept DEF Inv, BoxesOf
<1> QED BY <1>2, <1>3, <1>4, <1>5 DEF Inv

\* Every step keeps the invariant.
LEMMA NextInv == ASSUME Inv, [Next]_vars PROVE Inv'
<1>1. CASE UNCHANGED vars
  BY <1>1 DEF vars, Inv, TypeInv, WorkerInv, TenantInv, VerdictOnEvidence, BoxesOf,
         Accounts, Loose
<1>2. CASE WorkerStep
  BY <1>2, SelectInv, LockInv, CheckInv, CreateInv, AttachInv, InspectInv, ForceRemoveInv,
     CollectInv, FinishInv, UnlockInv, FailInv DEF WorkerStep
<1>3. ASSUME NEW b \in 1..Len(boxes), BoxStep(b)
      PROVE  Inv'
  BY <1>3, JobTypes, MakeInv, RunInv, ExitInv, TaintInv DEF BoxStep, Inv
<1> QED BY <1>1, <1>2, <1>3, StartInv, DieInv, StopInv, NextPatchInv DEF Next

-----------------------------------------------------------------------------
(* Theorems *)

(* However often the worker dies, the run is stopped, a container is made late, its
   client is lost or its removal fails, and whatever the tests write: an agent is
   recorded as completed only if every required command has had a container of its own
   that began over a workspace the policy accepts, ended with code zero and is gone,
   and none is left. *)
THEOREM VerdictOnEvidenceCorrect == Spec => []VerdictOnEvidence
<1>1. Inv => VerdictOnEvidence
  BY DEF Inv
<1> QED BY <1>1, InitInv, NextInv, PTL DEF Spec

(* Two containers never run at once, and none runs while tests are due or a patch may be
   applied: what a death or a failed removal leaves running has the workspace to itself. *)
THEOREM OneTenantCorrect == Spec => []OneTenant
<1>1. Inv => OneTenant
  <2> SUFFICES ASSUME Inv PROVE OneTenant
    OBVIOUS
  <2>1. \A b \in DOMAIN boxes : boxes[b].state = "up" => Loose(b)
    BY DEF Inv, TypeInv, Loose
  <2>2. \A b, c \in DOMAIN boxes : boxes[b].state = "up" /\ boxes[c].state = "up" => b = c
    BY <2>1 DEF Inv, TenantInv
  <2>3. ASSUME task \in {"awaiting", "passed", "failed"}, NEW b \in DOMAIN boxes
        PROVE  ~Loose(b)
    <3>1. worker.pc \in {"idle", "leave"}
      BY <2>3 DEF Inv, WorkerInv
    <3> QED BY <2>3, <3>1 DEF Inv, TenantInv
  <2> QED BY <2>1, <2>2, <2>3 DEF OneTenant
<1> QED BY <1>1, InitInv, NextInv, PTL DEF Spec

-----------------------------------------------------------------------------
(* One Docker command *)

\* The bytes that the loop of a thread has seen.
Seen(s) == wrote[s] - pipe[s] - held[s]

\* Bytes are in the pipe, with the pending read, or were seen; of those seen, the
\* first are kept, and the mark says whether some were not; an ended thread has
\* left none behind.
StreamInv(s) ==
    /\ pipe[s] + held[s] <= wrote[s]
    /\ buffers[s] = Least(Seen(s), Limit)
    /\ truncated[s] <=> Seen(s) > Limit
    /\ threads[s] = "ended" => process # "running" /\ pipe[s] = 0 /\ held[s] = 0

\* How the child and the caller have come to where they are.
CallInv ==
    /\ caller \in {"joining", "returned", "raised"} => process # "running"
    /\ caller = "returned" => ~broken /\ \A s \in Streams : threads[s] = "ended"
    /\ caller = "killing" \/ process = "killed" => expired \/ broken
    /\ process = "exited" => script = <<>>

RunnerInv == TypeOK /\ (\A s \in Streams : StreamInv(s)) /\ CallInv

\* A call begins with nothing written, and ends with what it claims.
LEMMA RunnerInitInv == RunnerInit => RunnerInv
<1> SUFFICES ASSUME RunnerInit PROVE RunnerInv
    OBVIOUS
<1> USE RunnerAssumption
<1>1. script \in Seq(Streams)
  <2>1. PICK n \in 0..MaxOutput : script \in [1..n -> Streams]
      BY DEF RunnerInit
  <2>2. n \in Nat
      BY <2>1
  <2> QED BY <2>1, <2>2, SeqDef
<1>2. TypeOK
    BY <1>1 DEF RunnerInit, TypeOK, None
<1>3. ASSUME NEW s \in Streams PROVE StreamInv(s)
  <2>1. /\ wrote[s] = 0 /\ pipe[s] = 0 /\ held[s] = 0 /\ buffers[s] = 0
        /\ threads[s] = "draining" /\ ~truncated[s]
      BY DEF RunnerInit, None
  <2>2. Seen(s) = 0 /\ Least(0, Limit) = 0 /\ ~(0 > Limit)
      BY <2>1 DEF Seen, Least
  <2> QED BY <2>1, <2>2 DEF StreamInv
<1>4. CallInv
    BY DEF RunnerInit, CallInv
<1> QED BY <1>2, <1>3, <1>4 DEF RunnerInv

\* Every action on the child or its pipes keeps the account of the bytes.
LEMMA WriteInv == RunnerInv /\ Write => RunnerInv'
<1> SUFFICES ASSUME RunnerInv, Write PROVE RunnerInv'
    OBVIOUS
<1> USE RunnerAssumption
<1> DEFINE t == Head(script)
<1>1. /\ script \in Seq(Streams) /\ script # <<>>
      /\ t \in Streams /\ Tail(script) \in Seq(Streams)
    BY HeadTailProperties DEF RunnerInv, TypeOK, Write
<1>2. /\ wrote' = [wrote EXCEPT ![t] = @ + 1] /\ pipe' = [pipe EXCEPT ![t] = @ + 1]
      /\ process = "running" /\ script' = Tail(script)
      /\ UNCHANGED <<hangs, process, held, buffers, truncated, threads, caller, expired, broken>>
    BY DEF Write, callVars
<1> HIDE DEF t
<1>3. TypeOK'
  <2>1. wrote \in [Streams -> Nat] /\ pipe \in [Streams -> Nat] /\ TypeOK
      BY DEF RunnerInv, TypeOK
  <2>2. wrote' \in [Streams -> Nat] /\ pipe' \in [Streams -> Nat]
      BY <1>1, <1>2, <2>1
  <2> QED BY <1>1, <1>2, <2>1, <2>2 DEF TypeOK
<1>4. ASSUME NEW s \in Streams PROVE StreamInv(s)'
  <2>1. StreamInv(s) /\ TypeOK
      BY DEF RunnerInv
  <2>2. CASE s = t
      BY <2>1, <2>2, <1>2 DEF StreamInv, TypeOK, Seen, Least
  <2>3. CASE s # t
      BY <2>1, <2>3, <1>2 DEF StreamInv, TypeOK, Seen, Least
  <2> QED BY <2>2, <2>3
<1>5. CallInv'
    BY <1>2 DEF RunnerInv, CallInv
<1> QED BY <1>3, <1>4, <1>5 DEF RunnerInv

\* The end of the child, by itself.
LEMMA ChildExitsInv == RunnerInv /\ ChildExits => RunnerInv'
<1> SUFFICES ASSUME RunnerInv, ChildExits PROVE RunnerInv'
    OBVIOUS
<1>1. TypeOK'
    BY DEF RunnerInv, TypeOK, ChildExits, readVars, callVars
<1>2. \A s \in Streams : StreamInv(s)'
    BY DEF RunnerInv, StreamInv, Seen, ChildExits, readVars
<1>3. CallInv'
    BY DEF RunnerInv, CallInv, ChildExits, readVars, callVars
<1> QED BY <1>1, <1>2, <1>3 DEF RunnerInv

\* A thread moves bytes on, and drops those beyond the limit only.
LEMMA GatherInv == ASSUME NEW t \in Streams PROVE RunnerInv /\ Gather(t) => RunnerInv'
<1> SUFFICES ASSUME RunnerInv, Gather(t) PROVE RunnerInv'
    OBVIOUS
<1> USE RunnerAssumption
<1>1. TypeOK'
    BY DEF RunnerInv, TypeOK, Gather, childVars, callVars
<1>2. ASSUME NEW s \in Streams PROVE StreamInv(s)'
  <2>1. StreamInv(s) /\ TypeOK
      BY DEF RunnerInv
  <2>2. CASE s = t
      BY <2>1, <2>2 DEF StreamInv, TypeOK, Seen, Least, Gather, childVars
  <2>3. CASE s # t
      BY <2>1, <2>3 DEF StreamInv, TypeOK, Seen, Least, Gather, childVars
  <2> QED BY <2>2, <2>3
<1>3. CallInv'
    BY DEF RunnerInv, CallInv, Gather, childVars, callVars
<1> QED BY <1>1, <1>2, <1>3 DEF RunnerInv

\* What is kept of a block is the part that fits, so that the buffer is what has
\* been seen, cut at the limit.
LEMMA KeepInv == ASSUME NEW t \in Streams PROVE RunnerInv /\ Keep(t) => RunnerInv'
<1> SUFFICES ASSUME RunnerInv, Keep(t) PROVE RunnerInv'
    OBVIOUS
<1> USE RunnerAssumption
<1>1. TypeOK /\ StreamInv(t)
    BY DEF RunnerInv
<1>2. Least(held[t], Remaining(t)) \in Nat
    BY <1>1 DEF TypeOK, Least, Remaining
<1>3. TypeOK'
    BY <1>1, <1>2 DEF TypeOK, Keep, childVars, callVars
<1>4. ASSUME NEW s \in Streams PROVE StreamInv(s)'
  <2>1. StreamInv(s)
      BY DEF RunnerInv
  <2>2. CASE s = t
    <3>1. /\ held[t] \in Nat /\ buffers[t] \in Nat /\ pipe[t] \in Nat /\ wrote[t] \in Nat
          /\ Limit \in Nat
        BY <1>1 DEF TypeOK
    <3>2. /\ held'[t] = 0 /\ pipe' = pipe /\ wrote' = wrote /\ process' = process
          /\ threads' = threads /\ threads[t] = "draining"
          /\ buffers'[t] = buffers[t] + Least(held[t], Remaining(t))
          /\ truncated'[t] = (truncated[t] \/ held[t] > Remaining(t))
        BY <1>1 DEF TypeOK, Keep, childVars
    <3>3. Seen(t)' = Seen(t) + held[t] /\ Seen(t) \in Nat
        BY <3>1, <3>2, <1>1 DEF Seen, StreamInv
    <3>4. buffers'[t] = Least(Seen(t) + held[t], Limit)
        BY <3>1, <3>2, <3>3, <1>1 DEF StreamInv, Least, Remaining
    <3>5. truncated'[t] <=> Seen(t) + held[t] > Limit
      <4>1. (Seen(t) > Limit \/ held[t] > Remaining(t)) <=> Seen(t) + held[t] > Limit
          BY <3>1, <3>3, <1>1 DEF StreamInv, Least, Remaining
      <4>2. truncated[t] <=> Seen(t) > Limit
          BY <1>1 DEF StreamInv
      <4> QED BY <3>2, <4>1, <4>2, Zenon
    <3> QED BY <2>2, <3>1, <3>2, <3>3, <3>4, <3>5, <1>1 DEF StreamInv
  <2>3. CASE s # t
      BY <2>1, <2>3, <1>1 DEF StreamInv, TypeOK, Seen, Least, Keep, childVars
  <2> QED BY <2>2, <2>3
<1>5. CallInv'
    BY DEF RunnerInv, CallInv, Keep, childVars, callVars
<1> QED BY <1>3, <1>4, <1>5 DEF RunnerInv

\* A thread ends at the end of the file only.
LEMMA EndThreadInv == ASSUME NEW t \in Streams PROVE RunnerInv /\ EndThread(t) => RunnerInv'
<1> SUFFICES ASSUME RunnerInv, EndThread(t) PROVE RunnerInv'
    OBVIOUS
<1>1. TypeOK'
    BY DEF RunnerInv, TypeOK, EndThread, childVars, callVars
<1>2. ASSUME NEW s \in Streams PROVE StreamInv(s)'
  <2>1. StreamInv(s) /\ TypeOK
      BY DEF RunnerInv
  <2>2. CASE s = t
      BY <2>1, <2>2 DEF StreamInv, TypeOK, Seen, Least, EndThread, EndOfFile, childVars
  <2>3. CASE s # t
      BY <2>1, <2>3 DEF StreamInv, TypeOK, Seen, Least, EndThread, childVars
  <2> QED BY <2>2, <2>3
<1>3. CallInv'
    BY DEF RunnerInv, CallInv, TypeOK, EndThread, childVars, callVars
<1> QED BY <1>1, <1>2, <1>3 DEF RunnerInv

\* What the caller does leaves the bytes alone; it kills before it joins, and
\* returns after every thread.
LEMMA CallerInv == RunnerInv /\ (Reap \/ Timeout \/ Interrupt \/ Kill \/ Return) => RunnerInv'
<1> SUFFICES ASSUME RunnerInv, Reap \/ Timeout \/ Interrupt \/ Kill \/ Return PROVE RunnerInv'
    OBVIOUS
<1>1. /\ UNCHANGED <<script, hangs, wrote, pipe, held, buffers, truncated, threads>>
      /\ process' = process \/ process' = "killed"
      /\ process # "running" => process' = process
    BY DEF Reap, Timeout, Interrupt, Kill, Return, childVars, readVars
<1>2. TypeOK'
    BY <1>1 DEF RunnerInv, TypeOK, Reap, Timeout, Interrupt, Kill, Return
<1>3. \A s \in Streams : StreamInv(s)'
    BY <1>1 DEF RunnerInv, StreamInv, Seen
<1>4. CallInv'
    BY <1>1 DEF RunnerInv, CallInv, TypeOK, Reap, Timeout, Interrupt, Kill, Return, Joined
<1> QED BY <1>2, <1>3, <1>4 DEF RunnerInv

\* A step that changes nothing keeps everything.
LEMMA RunnerStutterInv == RunnerInv /\ UNCHANGED runnerVars => RunnerInv'
<1> SUFFICES ASSUME RunnerInv, UNCHANGED runnerVars PROVE RunnerInv'
    OBVIOUS
<1>1. UNCHANGED <<script, hangs, process, wrote, pipe, held, buffers, truncated, threads,
                  caller, expired, broken>>
    BY DEF runnerVars, childVars, readVars, callVars
<1>2. TypeOK'
    BY <1>1 DEF RunnerInv, TypeOK
<1>3. \A s \in Streams : StreamInv(s)'
    BY <1>1 DEF RunnerInv, StreamInv, Seen
<1>4. CallInv'
    BY <1>1 DEF RunnerInv, CallInv
<1> QED BY <1>2, <1>3, <1>4 DEF RunnerInv

\* Every step keeps the invariant.
LEMMA RunnerNextInv == RunnerInv /\ [RunnerNext]_runnerVars => RunnerInv'
<1> SUFFICES ASSUME RunnerInv, [RunnerNext]_runnerVars PROVE RunnerInv'
    OBVIOUS
<1>1. CASE Write
    BY <1>1, WriteInv
<1>2. CASE ChildExits
    BY <1>2, ChildExitsInv
<1>3. CASE \E s \in Streams : ThreadStep(s)
    BY <1>3, GatherInv, KeepInv, EndThreadInv DEF ThreadStep
<1>4. CASE Reap \/ Timeout \/ Interrupt \/ Kill \/ Return
    BY <1>4, CallerInv
<1>5. CASE UNCHANGED runnerVars
    BY <1>5, RunnerStutterInv
<1> QED BY <1>1, <1>2, <1>3, <1>4, <1>5 DEF RunnerNext

\* The account of the bytes says what a result says.
LEMMA RunnerInvImplies == RunnerInv => ResultFaithful
<1> SUFFICES ASSUME RunnerInv PROVE ResultFaithful
    OBVIOUS
<1> USE RunnerAssumption
<1>1. ASSUME caller = "returned", NEW s \in Streams
      PROVE buffers[s] = Least(wrote[s], Limit) /\ (truncated[s] <=> wrote[s] > Limit)
  <2>1. pipe[s] = 0 /\ held[s] = 0 /\ wrote[s] \in Nat
      BY <1>1 DEF RunnerInv, CallInv, StreamInv, TypeOK
  <2>2. Seen(s) = wrote[s]
      BY <2>1 DEF Seen
  <2> QED BY <2>2 DEF RunnerInv, StreamInv
<1>2. caller = "returned" /\ ~expired => process = "exited" /\ script = <<>>
    BY DEF RunnerInv, CallInv, TypeOK
<1>3. NoOrphan
    BY DEF RunnerInv, CallInv, NoOrphan
<1> QED BY <1>1, <1>2, <1>3 DEF ResultFaithful, OutputFaithful

(* A result is of the whole run, and the child has ended before the call does: the
   buffers are what the child wrote, cut at the limit and marked exactly if cut. *)
THEOREM ResultFaithfulCorrect == RunnerSpec => []ResultFaithful
<1>1. RunnerInit => RunnerInv
    BY RunnerInitInv
<1>2. RunnerInv /\ [RunnerNext]_runnerVars => RunnerInv'
    BY RunnerNextInv
<1>3. RunnerInv => ResultFaithful
    BY RunnerInvImplies
<1> QED BY <1>1, <1>2, <1>3, PTL DEF RunnerSpec

(* Rows, counters, pipes and states have their types for every size. *)
THEOREM RunnerTypeCorrect == RunnerSpec => []TypeOK
<1>1. RunnerInit => RunnerInv
    BY RunnerInitInv
<1>2. RunnerInv /\ [RunnerNext]_runnerVars => RunnerInv'
    BY RunnerNextInv
<1>3. RunnerInv => TypeOK
    BY DEF RunnerInv
<1> QED BY <1>1, <1>2, <1>3, PTL DEF RunnerSpec
=============================================================================
