------------------------------ MODULE Workflow ------------------------------
(***************************************************************************)
(* The durable workflow: the WorkflowRun row and the processes that move   *)
(* it, one action per transaction.                                         *)
(*                                                                         *)
(*   app/orchestration/workflow_records.py   the row and its transactions  *)
(*   app/orchestration/workflow.py           a worker advancing one stage  *)
(*   app/workers/workflow.py                 Celery task and Beat recovery *)
(*   app/services/workflow_resources.py      the message a producer sends  *)
(*   app/api/workflows.py                    start, resume, cancel, wake   *)
(*                                                                         *)
(* Simplifications.                                                        *)
(*  - Every transaction takes the row lock (SELECT ... FOR UPDATE) before  *)
(*    it reads, so it is one step.  What happens between two transactions  *)
(*    of one process is a step of its own, and the process may stop there. *)
(*  - Redis is a set of messages: unordered, redelivered any number of     *)
(*    times, lossy.  Reading the row and sending the message it describes  *)
(*    is therefore one step: a message sent late, or not at all, is a      *)
(*    message delivered late, or lost.                                     *)
(*  - Time is two facts of the environment: a lease that runs out and a    *)
(*    retry deadline that passes.                                          *)
(*  - A claim token (uuid4) is the ordinal of the claim within its         *)
(*    workflow, which is all that being fresh means.                       *)
(*  - updated_at is kept as the order it puts on the rows.                 *)
(*  - What a stage does is in other modules; here it returns, fails in one *)
(*    of the ways the engine tells apart, or never returns.                *)
(***************************************************************************)
EXTENDS Integers, Sequences, FiniteSets

CONSTANTS
    Workflows,      \* identifiers of WorkflowRun rows (request ids)
    Workers,        \* Celery worker processes
    Stages,         \* the stage names in order, the last one is "done"
    AttemptLimit,   \* WORKFLOW_STAGE_ATTEMPTS
    BatchLimit,     \* rows one recovery pass takes (100 in the code)
    Tasks,          \* bound: tasks in the plan, so repeats of "implement"
    QueueBound,     \* bound: messages waiting in the broker
    OldProducers    \* TRUE if two-argument messages are still being sent

ASSUME StagesAssumption ==
    /\ Stages \in Seq(STRING)
    /\ Len(Stages) > 1
    /\ \A i, j \in 1..Len(Stages) : Stages[i] = Stages[j] => i = j
    /\ \A i \in 1..Len(Stages) : Stages[i] = "done" <=> i = Len(Stages)
    /\ Stages[1] # "publish"

ASSUME LimitsAssumption ==
    /\ AttemptLimit \in Nat \ {0}
    /\ BatchLimit \in Nat \ {0}
    /\ Tasks \in Nat
    /\ QueueBound \in Nat
    /\ OldProducers \in BOOLEAN
    /\ Workflows # {}

VARIABLES
    wf,       \* the row of each workflow
    todo,     \* tasks of its execution run that "implement" has yet to finish
    older,    \* pairs <<v, w>>: row v was written before row w (updated_at)
    queue,    \* workflow.advance messages in the broker
    worker,   \* what each worker process holds in memory
    notices   \* rows a recovery pass returned and has yet to announce

vars == <<wf, todo, older, queue, worker, notices>>

-----------------------------------------------------------------------------
(* Stages and their classes *)

StageNames == {Stages[i] : i \in 1..Len(Stages)}

SAFE_RETRY_STAGES == {"repository", "issue", "context", "plan"}

SourceChanging == {"implement", "review"}

\* Variant with a bug: the publication flag is ignored.
NextStageAlwaysPublishes(s, publish) ==
    LET i == CHOOSE i \in 1..Len(Stages) : Stages[i] = s IN Stages[i + 1]

\* The stage after s; publication is skipped unless the request asked for it.
NextStage(s, publish) ==
    LET i == CHOOSE i \in 1..Len(Stages) : Stages[i] = s
    IN  IF Stages[i + 1] = "publish" /\ ~publish THEN "done" ELSE Stages[i + 1]

(* The states of a row *)

Statuses == {"absent", "pending", "running", "failed", "blocked",
             "completed", "cancelled"}

AnyGeneration == -1     \* expected_generation=None, a two-argument message

\* One element of WorkflowRun.history.  The code keeps the stage and the
\* status; the writer, its claim and the generation are history variables.
Entry(r, status, by, token) ==
    [stage |-> r.stage, status |-> status, by |-> by, token |-> token, gen |-> r.gen]

Log(r, status, by, token) == Append(r.history, Entry(r, status, by, token))

Absent ==
    [stage |-> Stages[1], status |-> "absent", attempts |-> 0, gen |-> 0,
     retry |-> "none", backoff |-> 0, token |-> 0, lease |-> "none",
     claims |-> 0, publish |-> FALSE, history |-> <<>>]

NoClaim ==
    [pc |-> "idle", id |-> CHOOSE w \in Workflows : TRUE, token |-> 0,
     stage |-> Stages[1], outcome |-> "ok", seen |-> 0]

Message(w) == [wf |-> w, stage |-> wf[w].stage, gen |-> wf[w].gen]

\* send_task; a failure to send is swallowed by every caller.
Send(m) ==
    queue' = IF Cardinality(queue) < QueueBound THEN queue \cup {m} ELSE queue

\* An UPDATE sets updated_at: the written rows become the newest.
Touch(S) ==
    older' = {p \in older : p[1] \notin S} \cup ((Workflows \ S) \X S)

\* Variant with a bug: only rows with a retry deadline are looked for.
DueOnlyRetries == {w \in Workflows : wf[w].status = "pending" /\ wf[w].retry = "due"}

\* Pending rows a recovery pass looks for.
Due == {w \in Workflows : wf[w].status = "pending" /\ wf[w].retry # "wait"}

-----------------------------------------------------------------------------
Init ==
    /\ wf = [w \in Workflows |-> Absent]
    /\ todo \in [Workflows -> 0..Tasks]
    /\ older = {}
    /\ queue = {}
    /\ worker = [p \in Workers |-> NoClaim]
    /\ notices = {}

-----------------------------------------------------------------------------
(* API *)

\* POST /workflows: the first insert wins, a repeated request changes nothing.
Start(w) ==
    /\ wf[w].status = "absent"
    /\ \E publish \in BOOLEAN :
          wf' = [wf EXCEPT ![w] = [@ EXCEPT !.status = "pending", !.publish = publish]]
    /\ Touch({w})
    /\ UNCHANGED <<todo, queue, worker, notices>>

\* The tail of start and resume, and all that a repeated start or a resume of
\* a pending workflow does: announce the row if it is ready to run.
Wake(w) ==
    /\ wf[w].status = "pending" /\ wf[w].retry = "none"
    /\ Send(Message(w))
    /\ UNCHANGED <<wf, todo, older, worker, notices>>

Resumed(r) ==
    [r EXCEPT !.status = "pending", !.retry = "none", !.backoff = 0, !.gen = @ + 1]

\* Variant with a bug: the attempts already used are not looked at.
ResumeUnbounded(w) ==
    /\ wf[w].status = "failed"
    /\ wf' = [wf EXCEPT ![w] = Resumed(@)]
    /\ Touch({w})
    /\ UNCHANGED <<todo, queue, worker, notices>>

\* POST /workflows/{id}/resume of a failed workflow.
Resume(w) ==
    /\ wf[w].status = "failed"
    /\ wf[w].attempts < AttemptLimit
    /\ wf' = [wf EXCEPT ![w] = Resumed(@)]
    /\ Touch({w})
    /\ UNCHANGED <<todo, queue, worker, notices>>

Cancelled(r) ==
    [r EXCEPT !.history = Log(r, "cancelled", "client", 0), !.status = "cancelled",
              !.gen = @ + 1, !.retry = "none", !.backoff = 0]

\* POST /workflows/{id}/cancel.  The execution run may refuse, which rolls the
\* transaction back: the step then does not happen.
Cancel(w) ==
    /\ wf[w].status \in {"pending", "failed", "blocked"}
    /\ wf' = [wf EXCEPT ![w] = Cancelled(@)]
    /\ Touch({w})
    /\ UNCHANGED <<todo, queue, worker, notices>>

\* A producer from before generations existed announces the row.
SendOld(w) ==
    /\ OldProducers
    /\ wf[w].status # "absent"
    /\ Send([Message(w) EXCEPT !.gen = AnyGeneration])
    /\ UNCHANGED <<wf, todo, older, worker, notices>>

-----------------------------------------------------------------------------
(* A worker *)

\* Variant with a bug: the status of the row is not looked at.
MatchesAnyStatus(m, r) ==
    m.stage = r.stage /\ m.gen \in {AnyGeneration, r.gen} /\ r.retry # "wait"

\* The conditions of claim for a message m and the row r it names.
Matches(m, r) ==
    /\ r.status = "pending"
    /\ m.stage = r.stage
    /\ m.gen \in {AnyGeneration, r.gen}
    /\ r.retry # "wait"

Claimed(r) ==
    LET c == [r EXCEPT !.status = "running", !.claims = @ + 1,
                       !.token = r.claims + 1, !.retry = "none",
                       !.backoff = 0, !.attempts = @ + 1, !.lease = "live"]
    IN  [c EXCEPT !.history = Log(c, "running", "worker", c.token)]

\* WorkflowRecords.claim for a message.  Acknowledgement is late, so the message
\* may be delivered again whatever becomes of this worker.
Deliver(p, m, again) ==
    /\ worker[p].pc = "idle"
    /\ m \in queue
    /\ queue' = IF again THEN queue ELSE queue \ {m}
    /\ IF Matches(m, wf[m.wf])
       THEN /\ wf' = [wf EXCEPT ![m.wf] = Claimed(@)]
            /\ worker' = [worker EXCEPT ![p] =
                  [NoClaim EXCEPT !.pc = "stage", !.id = m.wf,
                                  !.token = wf[m.wf].claims + 1,
                                  !.stage = wf[m.wf].stage]]
            /\ Touch({m.wf})
       ELSE UNCHANGED <<wf, worker, older>>
    /\ UNCHANGED <<todo, notices>>

\* How a stage ends, as far as the engine and the row tell apart: "transient" is
\* a retryable provider failure, "workflow" a WorkflowError, "unconfigured" a
\* missing LLM or embedding key, "other" anything else.
Failures == {"transient", "workflow", "unconfigured", "other"}

Outcomes(s, left) ==
    Failures \cup (IF s = "implement" /\ left > 0 THEN {"repeat"} ELSE {"ok"})

Blocks(s, outcome) ==
    outcome # "unconfigured" /\ (s \in SourceChanging \/ outcome = "workflow")

Retries(s, outcome) ==
    outcome = "transient" /\ s \in SAFE_RETRY_STAGES /\ ~Blocks(s, outcome)

\* stages.run returns or raises.  A repeated "implement" has finished one task.
StageEnds(p, outcome) ==
    LET c == worker[p] IN
    /\ c.pc = "stage"
    /\ outcome \in Outcomes(c.stage, todo[c.id])
    /\ todo' = IF outcome = "repeat" THEN [todo EXCEPT ![c.id] = @ - 1] ELSE todo
    /\ worker' = [worker EXCEPT
          ![p].outcome = outcome,
          ![p].pc = IF Retries(c.stage, outcome) THEN "backoff" ELSE "finish"]
    /\ UNCHANGED <<wf, older, queue, notices>>

\* The exponent of the retry delay is read in a transaction of its own.
ReadAttempts(p) ==
    /\ worker[p].pc = "backoff"
    /\ worker' = [worker EXCEPT ![p].pc = "finish",
                                ![p].seen = wf[worker[p].id].attempts]
    /\ UNCHANGED <<wf, todo, older, queue, notices>>

\* Variant with a bug: the claim token is not compared.
OwnsAnyToken(c) == wf[c.id].status = "running"

\* The claim is still the row's: finish raises workflow_claim_lost otherwise.
Owns(c) == wf[c.id].token = c.token /\ wf[c.id].status = "running"

\* Variant with a bug: the generation is left as it was.
ClosedSameGeneration(r, status, by, token) ==
    [r EXCEPT !.history = Log(r, status, by, token), !.token = 0, !.lease = "none"]

\* What finish and recoverable have in common: the claim is over.
Closed(r, status, by, token) ==
    [r EXCEPT !.history = Log(r, status, by, token), !.token = 0, !.lease = "none",
              !.gen = @ + 1]

Succeeded(r, c) ==
    LET s == IF c.outcome = "repeat" THEN c.stage
             ELSE NextStage(c.stage, r.publish)
    IN  [Closed(r, "completed", "worker", c.token) EXCEPT
            !.stage = s, !.attempts = 0,
            !.status = IF s = "done" THEN "completed" ELSE "pending"]

Failed(r, c) ==
    IF Retries(c.stage, c.outcome) /\ r.attempts < AttemptLimit
    THEN [Closed(r, "failed", "worker", c.token) EXCEPT
             !.status = "pending", !.retry = "wait", !.backoff = c.seen]
    ELSE [Closed(r, "failed", "worker", c.token) EXCEPT
             !.status = IF Blocks(c.stage, c.outcome) THEN "blocked" ELSE "failed"]

\* WorkflowRecords.finish.  On a lost claim it raises and the delivery ends.
Finish(p) ==
    LET c == worker[p] IN
    /\ c.pc = "finish"
    /\ IF Owns(c)
       THEN /\ wf' = [wf EXCEPT ![c.id] = IF c.outcome \in Failures
                                          THEN Failed(@, c) ELSE Succeeded(@, c)]
            /\ worker' = [worker EXCEPT
                  ![p] = [NoClaim EXCEPT !.pc = "wake", !.id = c.id]]
            /\ Touch({c.id})
       ELSE /\ worker' = [worker EXCEPT ![p] = NoClaim]
            /\ UNCHANGED <<wf, older>>
    /\ UNCHANGED <<todo, queue, notices>>

\* advance reads the row back and the task announces it if it is ready to run.
\* The row may be another actor's by now.
WakeNext(p) ==
    LET w == worker[p].id IN
    /\ worker[p].pc = "wake"
    /\ IF wf[w].status = "pending" /\ wf[w].retry = "none"
       THEN Send(Message(w))
       ELSE UNCHANGED queue
    /\ worker' = [worker EXCEPT ![p] = NoClaim]
    /\ UNCHANGED <<wf, todo, older, notices>>

\* The process dies, is killed at its time limit, or a transaction of it fails
\* and the delivery ends.
Crash(p) ==
    /\ worker[p].pc # "idle"
    /\ worker' = [worker EXCEPT ![p] = NoClaim]
    /\ UNCHANGED <<wf, todo, older, queue, notices>>

-----------------------------------------------------------------------------
(* Beat *)

\* Variant with a bug: an expired lease on a source-changing stage is overlooked.
ExpiredExceptSource ==
    {w \in Workflows : /\ wf[w].status = "running" /\ wf[w].lease = "expired"
                       /\ wf[w].stage \notin SourceChanging}

Expired == {w \in Workflows : wf[w].status = "running" /\ wf[w].lease = "expired"}

\* Variant with a bug: every interrupted stage may be resumed.
InterruptedAlwaysFailed(r) ==
    [Closed(r, "failed", "beat", r.token) EXCEPT !.status = "failed"]

Interrupted(r) ==
    LET status == IF r.stage \in SourceChanging THEN "blocked" ELSE "failed"
    IN  [Closed(r, status, "beat", r.token) EXCEPT !.status = status]

\* The rows S that a query for All with LIMIT returns.
Batch(S, All) ==
    /\ S \subseteq All
    /\ Cardinality(S) =
          IF Cardinality(All) < BatchLimit THEN Cardinality(All) ELSE BatchLimit

\* WorkflowRecords.recoverable: fence the expired claims, then pick the pending
\* rows that were written longest ago.
Recover ==
    \E S \in SUBSET Workflows :
        /\ Batch(S, Expired)
        /\ wf' = [w \in Workflows |-> IF w \in S THEN Interrupted(wf[w]) ELSE wf[w]]
        /\ Touch(S)
        /\ \E D \in SUBSET Workflows :
              /\ Batch(D, Due)
              /\ \A v \in D, w \in Due \ D : <<v, w>> \in older
              /\ notices' = notices \cup D
        /\ UNCHANGED <<todo, queue, worker>>

\* recover_workflows announces each row as it is by then.
Notify(w) ==
    /\ w \in notices
    /\ notices' = notices \ {w}
    /\ Send(Message(w))
    /\ UNCHANGED <<wf, todo, older, worker>>

-----------------------------------------------------------------------------
(* Environment *)

LeaseExpires(w) ==
    /\ wf[w].lease = "live"
    /\ wf' = [wf EXCEPT ![w] = [@ EXCEPT !.lease = "expired"]]
    /\ UNCHANGED <<todo, older, queue, worker, notices>>

RetryDue(w) ==
    /\ wf[w].retry = "wait"
    /\ wf' = [wf EXCEPT ![w] = [@ EXCEPT !.retry = "due"]]
    /\ UNCHANGED <<todo, older, queue, worker, notices>>

Lose(m) ==
    /\ m \in queue
    /\ queue' = queue \ {m}
    /\ UNCHANGED <<wf, todo, older, worker, notices>>

-----------------------------------------------------------------------------
WorkerStep(p) ==
    \/ \E m \in queue, again \in BOOLEAN : Deliver(p, m, again)
    \/ \E outcome \in Failures \cup {"ok", "repeat"} : StageEnds(p, outcome)
    \/ ReadAttempts(p)
    \/ Finish(p)
    \/ WakeNext(p)
    \/ Crash(p)

RowStep(w) ==
    \/ Start(w)
    \/ Wake(w)
    \/ Resume(w)
    \/ Cancel(w)
    \/ SendOld(w)
    \/ Notify(w)
    \/ LeaseExpires(w)
    \/ RetryDue(w)

Next ==
    \/ \E p \in Workers : WorkerStep(p)
    \/ \E w \in Workflows : RowStep(w)
    \/ \E m \in queue : Lose(m)
    \/ Recover

Spec == Init /\ [][Next]_vars

\* A process that keeps running takes its next step: a stage returns, or the
\* soft time limit raises in it.
Proceed(p) ==
    \/ \E outcome \in Failures \cup {"ok", "repeat"} : StageEnds(p, outcome)
    \/ ReadAttempts(p)
    \/ Finish(p)
    \/ WakeNext(p)

\* An idle worker takes a message for w that it can claim, or one that it cannot.
TakeCurrent(w) ==
    \E p \in Workers, m \in queue :
        m.wf = w /\ Matches(m, wf[w]) /\ Deliver(p, m, FALSE)

TakeStale(w) ==
    \E p \in Workers, m \in queue :
        m.wf = w /\ ~Matches(m, wf[w]) /\ Deliver(p, m, FALSE)

\* What the deployment provides: workers run, clocks advance, Beat fires again
\* and again, and the broker does not lose every message about a workflow.
\* Nothing obliges a client to resume, cancel or repeat a request.
Fairness ==
    /\ \A p \in Workers : WF_vars(Proceed(p))
    /\ \A w \in Workflows :
          /\ SF_vars(TakeCurrent(w)) /\ SF_vars(TakeStale(w))
          /\ WF_vars(Notify(w))
          /\ WF_vars(LeaseExpires(w)) /\ WF_vars(RetryDue(w))
    /\ WF_vars(Recover)

FairSpec == Spec /\ Fairness

-----------------------------------------------------------------------------
(* Properties *)

Entries == [stage : StageNames, status : Statuses \ {"absent", "pending"},
            by : {"worker", "beat", "client"}, token : Nat, gen : Nat]

Rows == [stage : StageNames, status : Statuses, attempts : 0..AttemptLimit,
         gen : Nat, retry : {"none", "wait", "due"}, backoff : Nat,
         token : Nat, lease : {"none", "live", "expired"}, claims : Nat,
         publish : BOOLEAN, history : Seq(Entries)]

Messages == [wf : Workflows, stage : StageNames, gen : Nat \cup {AnyGeneration}]

Claims == [pc : {"idle", "stage", "backoff", "finish", "wake"}, id : Workflows,
           token : Nat, stage : StageNames, outcome : Failures \cup {"ok", "repeat"},
           seen : Nat]

\* Every variable has its type; attempts stays within WORKFLOW_STAGE_ATTEMPTS
\* through automatic retries, interruptions and explicit resumes alike.
TypeOK ==
    /\ wf \in [Workflows -> Rows]
    /\ todo \in [Workflows -> 0..Tasks]
    /\ older \subseteq Workflows \X Workflows
    /\ queue \subseteq Messages
    /\ worker \in [Workers -> Claims]
    /\ notices \subseteq Workflows

\* The claim an entry of the history opens is closed by the very next entry and
\* under the same token, and every closing entry closes the claim before it: no
\* second claim opens while one is open, and a worker that has lost its claim
\* writes nothing (claim, finish, recoverable).
HistoryAlternates ==
    \A w \in Workflows :
        LET h == wf[w].history IN
        /\ \A i \in 1..Len(h) :
              \/ /\ h[i].status = "running"
                 /\ IF i = Len(h)
                    THEN wf[w].status = "running" /\ wf[w].token = h[i].token
                    ELSE h[i + 1].by # "client" /\ h[i + 1].status # "running"
              \/ h[i].status = "cancelled" /\ h[i].by = "client"
              \/ /\ h[i].status \in {"completed", "failed", "blocked"}
                 /\ i > 1
                 /\ h[i - 1].status = "running"
                 /\ h[i - 1].token = h[i].token
                 /\ h[i - 1].stage = h[i].stage
        /\ wf[w].status = "running" => h # <<>> /\ h[Len(h)].status = "running"

\* No generation of a workflow is ever claimed twice, so a duplicated, late or
\* two-argument message cannot run again what another message already ran.
OneClaimPerGeneration ==
    \A w \in Workflows :
        LET h == wf[w].history IN
        \A i, j \in 1..Len(h) :
            h[i].status = "running" /\ h[j].status = "running" /\ h[i].gen = h[j].gen
                => i = j

\* Stages run in the order of STAGES: what runs after a completed stage is the
\* stage after it, or "implement" again; what runs after a failed one is the
\* same stage; "publish" runs only on request.
StagesInOrder ==
    \A w \in Workflows :
        LET h == wf[w].history
            next(i) == IF i = Len(h) THEN wf[w].stage ELSE h[i + 1].stage
        IN  /\ h = <<>> => wf[w].stage = Stages[1]
            /\ \A i \in 1..Len(h) :
                  /\ h[i].stage = "publish" => wf[w].publish
                  /\ IF h[i].status # "completed"
                     THEN next(i) = h[i].stage
                     ELSE \/ next(i) = "implement" /\ h[i].stage = "implement"
                          \/ \E k \in 2..Len(Stages) :
                                /\ h[i].stage = Stages[k - 1]
                                /\ next(i) = IF Stages[k] = "publish" /\ ~wf[w].publish
                                            THEN "done" ELSE Stages[k]

\* Claims since the last completed stage, as the history tells them.
ClaimsOfCheckpoint(h) ==
    Cardinality({i \in 1..Len(h) : /\ h[i].status = "running"
                                   /\ \A j \in i..Len(h) : h[j].status # "completed"})

\* WORKFLOW_STAGE_ATTEMPTS bounds the claims of one checkpoint, whoever asked for
\* them: the counter the guards read is the number of claims the history shows.
ClaimsBounded ==
    \A w \in Workflows :
        /\ ClaimsOfCheckpoint(wf[w].history) = wf[w].attempts
        /\ wf[w].attempts <= AttemptLimit
        /\ wf[w].status = "pending" => wf[w].attempts < AttemptLimit

\* The checkpoints follow each other as STAGES says, each within its budget of
\* claims, through any mix of repeats, failures, interruptions and resumes.
CheckpointsInOrder == StagesInOrder /\ ClaimsBounded

\* A stage that may have changed source is never run again once its worker was
\* given up: the workflow stays blocked until it is cancelled (recoverable).
InterruptedSourceNeverReruns ==
    \A w \in Workflows :
        LET h == wf[w].history IN
        \A i, j \in 1..Len(h) :
            h[i].by = "beat" /\ h[i].stage \in SourceChanging /\ h[j].status = "running"
                => j < i

\* A stored retry delay was computed from the attempt that failed, although the
\* engine reads attempts in a transaction of its own, after its lease may be lost.
BackoffFromOwnAttempt ==
    \A w \in Workflows :
        wf[w].retry # "none" =>
            /\ wf[w].backoff = wf[w].attempts
            /\ wf[w].stage \in SAFE_RETRY_STAGES

\* Completed and cancelled rows never change again; a blocked row only becomes
\* cancelled, whatever messages, late workers or requests arrive.
EndsForGood ==
    [][\A w \in Workflows :
          /\ wf[w].status \in {"completed", "cancelled"} => wf'[w] = wf[w]
          /\ wf[w].status = "blocked" =>
                wf'[w] = wf[w] \/ wf'[w].status = "cancelled"]_vars

\* A committed pending row is claimed or cancelled in the end, although messages
\* about it are lost and a recovery pass announces a limited number of rows.
PendingIsTaken ==
    \A w \in Workflows : wf[w].status = "pending" ~> wf[w].status # "pending"

\* However often clients resume it, a workflow comes to rest for good.
Settles ==
    \A w \in Workflows :
        <>[](wf[w].status \in {"absent", "failed", "blocked", "completed", "cancelled"})

(* Refinement *)

\* The ledger a row stands for.
LedgerState(status) ==
    CASE status = "pending"   -> "waiting"
      [] status = "running"   -> "active"
      [] status = "failed"    -> "stopped"
      [] status = "completed" -> "done"
      [] OTHER                -> status

LedgerOf ==
    [w \in Workflows |-> [stage |-> wf[w].stage, state |-> LedgerState(wf[w].status),
                          tries |-> wf[w].attempts]]

Ledger == INSTANCE WorkflowLedger WITH ledger <- LedgerOf

\* The rows behave as the ledgers of WorkflowLedger: duplicated and stale
\* messages, lost claims and recovery passes are invisible or one ledger step.
ImplementsLedger == Ledger!Spec

\* And they keep its promise of progress, under the fairness of the deployment.
ImplementsFairLedger == Ledger!FairSpec
=============================================================================
