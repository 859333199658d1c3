------------------------------ MODULE Sandbox ------------------------------
(***************************************************************************)
(* The required tests of a task, run in containers.                        *)
(*                                                                         *)
(*   app/services/testing.py         TestService.run                       *)
(*   app/services/test_records.py    the transactions around it            *)
(*   app/agents/testing.py           which commands are run                *)
(*   app/sandbox/docker.py           one container per command             *)
(*   app/sandbox/policy.py           what a workspace must look like       *)
(*   app/services/code_patches.py    the workspace lock                    *)
(*                                                                         *)
(* Simplifications.                                                        *)
(*  - One workspace.  That the calls for it follow one another is a matter *)
(*    of the rows, and with the coding and debug agents that work between  *)
(*    them (here NextPatch) in module Execution.                           *)
(*  - A Docker command that only asks is one step.  start --attach and the *)
(*    daemon are concurrent.  What a command returns is any outcome that   *)
(*    DockerCLI.run (module CommandRunner) has, the exception that a soft  *)
(*    time limit raises inside it included.                                *)
(*  - The daemon may carry out a create after its client has been killed.  *)
(***************************************************************************)
EXTENDS Naturals, Sequences, SequencesExt

CONSTANTS
    Required,   \* the configurations: lists of required commands
    Allowed,    \* test_allowed_commands
    Images,     \* commands whose image is configured
    MaxRuns     \* bound: how often the tests are run

VARIABLES
    task,       \* where the recovery of a task is: "awaiting" tests, "running" them,
                \* they have "passed" or "failed", TestService.run has "raised",
                \* which ends the recovery, or the run was "stopped"
    agents,     \* test AgentRun rows, in the order in which they were made
    locked,     \* the workspace's lock file exists
    tainted,    \* the workspace holds a file that workspace_path refuses
    boxes,      \* the containers, in the order in which they were asked for; clean
                \* is history: whether one began over a workspace without such files
    worker      \* what the process that runs the tests holds

vars == <<task, agents, locked, tainted, boxes, worker>>

Idle ==
    [pc |-> "idle", agent |-> 0, tests |-> <<>>, box |-> 0,
     outcome |-> "none", results |-> <<>>]

\* Outcomes of a command.  Only the first makes its TestResult a passed one.
Reported == {"zero", "other", "timeout"}

Init ==
    /\ task = "awaiting"
    /\ agents = <<>>
    /\ locked = FALSE
    /\ tainted = FALSE
    /\ boxes = <<>>
    /\ worker = Idle

Goto(pc) == worker' = [worker EXCEPT !.pc = pc]

-----------------------------------------------------------------------------
(* Transactions *)

\* TestRecords.start.
Start ==
    /\ worker.pc = "idle"
    /\ task = "awaiting"
    /\ Len(agents) < MaxRuns
    /\ \E config \in Required :
          /\ agents' = Append(agents, [status |-> "running", config |-> config,
                                       results |-> <<>>])
          /\ worker' = [Idle EXCEPT !.pc = "select", !.agent = Len(agents) + 1,
                                 !.tests = config]
    /\ task' = "running"
    /\ UNCHANGED <<locked, tainted, boxes>>

\* dict.fromkeys(required).
Distinct(list) ==
    FoldLeft(LAMBDA seen, name : IF name \in ToSet(seen) THEN seen ELSE Append(seen, name),
             <<>>, list)

\* TestAgent.select and the check of the images.
Select ==
    /\ worker.pc = "select"
    /\ IF ToSet(worker.tests) \subseteq Allowed \cap Images
       THEN worker' = [worker EXCEPT !.pc = "lock", !.tests = Distinct(@)]
       ELSE Goto("fail")
    /\ UNCHANGED <<task, agents, locked, tainted, boxes>>

\* Both calls of TestRecords.finish look first whether the rows are still theirs.
StillRunning(a) == task = "running" /\ agents[a].status = "running"

\* all([]) is true, hence bool(results): an empty report has not passed.
Passed(results) == results # <<>> /\ \A i \in 1..Len(results) : results[i] = "zero"

Record(passed, after) ==
    LET a == worker.agent
    IN  /\ agents' = [agents EXCEPT ![a].status = IF passed THEN "completed" ELSE "failed",
                                    ![a].results = worker.results]
        /\ task' = after

\* The finish inside the lock.  It commits, or raises: the rows have been taken
\* away or the transaction fails.
Finish ==
    /\ worker.pc = "finish"
    /\ \/ /\ StillRunning(worker.agent)
          /\ LET passed == Passed(worker.results)
             IN  Record(passed, IF passed THEN "passed" ELSE "failed")
          /\ Goto("leave")
       \/ /\ Goto("unlock")
          /\ UNCHANGED <<task, agents>>
    /\ UNCHANGED <<locked, tainted, boxes>>

\* The finish of the exception handler: what was run is kept, nothing has passed.
\* Whether it commits or not, the exception goes on to RecoveryService.run.
Fail ==
    /\ worker.pc = "fail"
    /\ \/ /\ StillRunning(worker.agent)
          /\ Record(FALSE, "raised")
       \/ UNCHANGED <<task, agents>>
    /\ worker' = Idle
    /\ UNCHANGED <<locked, tainted, boxes>>

-----------------------------------------------------------------------------
(* The workspace lock *)

\* workspace_path, then O_EXCL, then verify, which may fail with the lock held.
Lock ==
    /\ worker.pc = "lock"
    /\ \/ ~tainted /\ ~locked /\ locked' = TRUE /\ Goto("check")
       \/ Goto("fail") /\ UNCHANGED locked
    /\ UNCHANGED <<task, agents, tainted, boxes>>

\* The with statement is left, normally or by an exception.
Unlock ==
    /\ worker.pc \in {"leave", "unlock"}
    /\ locked' = FALSE
    /\ IF worker.pc = "leave" THEN worker' = Idle ELSE Goto("fail")
    /\ UNCHANGED <<task, agents, tainted, boxes>>

-----------------------------------------------------------------------------
(* DockerSandbox.execute for the next command *)

Box == worker.box

SetBox(b, state) == boxes' = [boxes EXCEPT ![b].state = state]

\* Variant with a bug: the workspace is looked at only when the lock is taken.
MountableOnceLocked == TRUE

\* workspace_path in execute: an earlier test may have written what it refuses.
Mountable == ~tainted

\* The checks of workspace, request and image, and the questions to the daemon;
\* then create is sent, under a name chosen before.
Check ==
    /\ worker.pc = "check"
    /\ \/ /\ Mountable
          /\ boxes' = Append(boxes, [agent |-> worker.agent,
                                     test |-> Len(worker.results) + 1,
                                     state |-> "asked", started |-> FALSE,
                                     code |-> "none", clean |-> FALSE])
          /\ worker' = [worker EXCEPT !.pc = "create", !.box = Len(boxes) + 1,
                                      !.outcome = "none"]
       \/ Goto("unlock") /\ UNCHANGED boxes
    /\ UNCHANGED <<task, agents, locked, tainted>>

\* create returns, and start --attach is sent; or it fails or times out.
Create ==
    /\ worker.pc = "create"
    /\ \/ /\ boxes[Box].state = "made"
          /\ boxes' = [boxes EXCEPT ![Box].started = TRUE]
          /\ Goto("attached")
       \/ /\ worker' = [worker EXCEPT !.pc = "remove", !.outcome = "error"]
          /\ UNCHANGED boxes
    /\ UNCHANGED <<task, agents, locked, tainted>>

\* start --attach returns: the container has ended, or the client has lost it.
\* Its exit code is not looked at.
Attached ==
    /\ worker.pc = "attached"
    /\ Goto("inspect")
    /\ UNCHANGED <<task, agents, locked, tainted, boxes>>

\* It times out, and no state is asked for; or the call raises.
AttachEnds ==
    /\ worker.pc = "attached"
    /\ \E outcome \in {"timeout", "error"} :
          worker' = [worker EXCEPT !.pc = "remove", !.outcome = outcome]
    /\ UNCHANGED <<task, agents, locked, tainted, boxes>>

\* inspect: the exit code of a container that has exited.
CodeOf(box) == IF box.state = "exited" THEN box.code ELSE "error"

Inspect ==
    /\ worker.pc = "inspect"
    /\ \E outcome \in {CodeOf(boxes[Box]), "error"} :
          worker' = [worker EXCEPT !.pc = "remove", !.outcome = outcome]
    /\ UNCHANGED <<task, agents, locked, tainted, boxes>>

\* Variant with a bug: the result stands although the container does.
AfterFailedCleanupIgnored(outcome) == outcome

\* raise in the finally clause replaces the result.
AfterFailedCleanup(outcome) == "error"

\* rm --force.  A container not made yet is not there to be removed, which some
\* daemons call a success.  A removal that fails or raises may have been done.
ForceRemove ==
    /\ worker.pc = "remove"
    /\ LET b == Box
           present == boxes[b].state \notin {"asked", "gone"}
       IN  \/ /\ IF present THEN SetBox(b, "gone") ELSE UNCHANGED boxes
              /\ Goto("removed")
           \/ /\ UNCHANGED boxes \/ (present /\ SetBox(b, "gone"))
              /\ worker' = [worker EXCEPT !.pc = "removed",
                                          !.outcome = AfterFailedCleanup(@)]
    /\ UNCHANGED <<task, agents, locked, tainted>>

\* execute returns a result, or raises.  After the last one the diff of the
\* workspace is taken, which may fail.  It looks at names and contents, not at
\* what workspace_path asks of a workspace: a tainted one passes.
Collect ==
    /\ worker.pc = "removed"
    /\ IF worker.outcome \notin Reported
       THEN Goto("unlock")
       ELSE LET results == Append(worker.results, worker.outcome)
                last == Len(results) = Len(worker.tests)
            IN  \E pc \in IF last THEN {"unlock", "finish"} ELSE {"check"} :
                   worker' = [worker EXCEPT !.pc = pc, !.results = results]
    /\ UNCHANGED <<task, agents, locked, tainted, boxes>>

-----------------------------------------------------------------------------
(* The daemon and the containers *)

Make(b) ==
    /\ boxes[b].state = "asked"
    /\ SetBox(b, "made")
    /\ UNCHANGED <<task, agents, locked, tainted, worker>>

Run(b) ==
    /\ boxes[b].state = "made" /\ boxes[b].started
    /\ boxes' = [boxes EXCEPT ![b].state = "up", ![b].clean = ~tainted]
    /\ UNCHANGED <<task, agents, locked, tainted, worker>>

Exit(b) ==
    /\ boxes[b].state = "up"
    /\ \E code \in {"zero", "other"} :
          boxes' = [boxes EXCEPT ![b].state = "exited", ![b].code = code]
    /\ UNCHANGED <<task, agents, locked, tainted, worker>>

\* The workspace is mounted read-write.
Taint(b) ==
    /\ boxes[b].state = "up" /\ ~tainted
    /\ tainted' = TRUE
    /\ UNCHANGED <<task, agents, locked, boxes, worker>>

-----------------------------------------------------------------------------
(* Everybody else *)

\* The process dies: hard time limit, out of memory, restart.
Die ==
    /\ worker.pc # "idle"
    /\ worker' = Idle
    /\ UNCHANGED <<task, agents, locked, tainted, boxes>>

\* stop_locked: a fence, a recovery pass or a cancellation stops the run.
Stop ==
    /\ task # "stopped"
    /\ task' = "stopped"
    /\ agents' = [a \in DOMAIN agents |->
                    [agents[a] EXCEPT !.status = IF @ = "running" THEN "failed" ELSE @]]
    /\ UNCHANGED <<locked, tainted, boxes, worker>>

\* The debug agent, or the coding agent of the next task of the run, has applied a
\* patch, for which it needs the lock, and workspace_path with it.  There is none
\* after an exception.
NextPatch ==
    /\ task \in {"failed", "passed"} /\ ~locked /\ ~tainted
    /\ task' = "awaiting"
    /\ UNCHANGED <<agents, locked, tainted, boxes, worker>>

-----------------------------------------------------------------------------

WorkerStep ==
    \/ Select
    \/ Lock
    \/ Check
    \/ Create
    \/ Attached
    \/ AttachEnds
    \/ Inspect
    \/ ForceRemove
    \/ Collect
    \/ Finish
    \/ Unlock
    \/ Fail

BoxStep(b) == Make(b) \/ Run(b) \/ Exit(b) \/ Taint(b)

Next ==
    \/ Start
    \/ WorkerStep
    \/ Die
    \/ \E b \in 1..Len(boxes) : BoxStep(b)
    \/ Stop
    \/ NextPatch

Spec == Init /\ [][Next]_vars

-----------------------------------------------------------------------------
(* Properties *)

\* The containers of a test agent.
BoxesOf(a) == {b \in DOMAIN boxes : boxes[b].agent = a}

(* Whatever died, was stopped, timed out, came late, could not be removed or wrote
   what it should not: the tests of a completed test agent are a container each for
   the distinct required commands, in their order, that began over a workspace as
   policy.py demands it, ended by itself with code zero and is gone, and the agent
   leaves no other behind.  Of what its last container wrote it says nothing. *)
VerdictOnEvidence ==
    \A a \in DOMAIN agents :
        agents[a].status = "completed" =>
            LET count == Len(Distinct(agents[a].config))
            IN  /\ ToSet(agents[a].config) \subseteq Allowed \cap Images
                /\ \A i \in 1..count : \E b \in BoxesOf(a) : boxes[b].test = i
                /\ \A b \in BoxesOf(a) :
                      /\ boxes[b].test \in 1..count
                      /\ boxes[b].clean
                      /\ boxes[b].code = "zero"
                      /\ boxes[b].state = "gone"
                      /\ \A c \in BoxesOf(a) : b < c => boxes[b].test < boxes[c].test

(* Two containers never run over one workspace, and none runs while an agent may
   patch it or tests are due: a container that a worker's death, a timeout or a
   failed removal has left running stays alone, as its recovery or its run has
   ended. *)
OneTenant ==
    /\ \A b, c \in DOMAIN boxes : boxes[b].state = "up" /\ boxes[c].state = "up" => b = c
    /\ task \in {"awaiting", "passed", "failed"} =>
          \A b \in DOMAIN boxes : boxes[b].state # "up"
=============================================================================
