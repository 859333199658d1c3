# Verification of AdelieSWE's orchestration core

AdelieSWE (Python 3.12, `src/app`) turns a GitHub issue into a reviewed pull
request.  FastAPI accepts requests, Celery workers fed by Redis do the work, Beat
repeats recovery passes, PostgreSQL keeps every row.  This directory holds TLA+
models of the parts that decide whether the result can be trusted, TLC runs that
check them on small instances, and TLAPS proofs for arbitrary ones.

    tlc -workers 2 -config MCWorkflow.cfg MCWorkflow.tla     # one run
    tlapm WorkflowProofs.tla                                 # one module of proofs

`PROJECT.json` lists the components, the runs, a plausible bug for every property
(an operator commented "Variant with a bug"), the source lines of every
definition, the hazards, the findings and the theorems.

## 1. Inventory

| Component | State | Operations | Correct if |
| --- | --- | --- | --- |
| Durable workflow: `orchestration/workflow*.py`, `workers/workflow.py`, `failures.py` | `WorkflowRun`: stage, status, generation, claim token, lease, attempts, `retry_at`, history | start, get, claim, finish, resume, cancel, recoverable; message delivery; Beat's pass | claims are exclusive, a generation is claimed once, stages run in order within a budget, interrupted source changes are not replayed, every row comes to rest |
| Plan scheduling: `orchestration/state.py`, `transitions.py`, `services/plan_dependencies.py` | states of the tasks of a plan | ordering, one scheduling pass, transition checks | a pass releases what is ready and blocks what is below a failure |
| Execution runs: `services/executions.py`, `recovery*.py`, `coding*.py`, `testing.py`, `test_records.py` | `ExecutionRun`, `TaskExecution`, `AgentRun` rows, the working tree | create, transition, reconcile, recovery with coding, tests and debug agents, fencing, cancel, `recover_stale` | completed means tested as it stands, nothing ended moves, no patch on a doubtful tree, nothing stays running |
| Standalone deliveries: `orchestration/deliveries.py`, `workers/deliveries.py` | `WorkerDelivery` per Celery id | execute, finish, `recover_stale` | one attempt per id, one verdict for ever |
| Repository workspace: `services/workspace*.py` | lock file, checkout, `local_status`, execution copies | verify, synchronize, create an execution copy | a copy is of the commit its workflow recorded |
| Indexing and embeddings: `indexing/*.py` | chunk rows, vectors, `index_status`, `embedding_status` | index, embed in batches | "ready" is true of the checkout |
| Issue context: `services/issue_context.py`, `context_store.py`, `retrieval/` | none of its own | a sequence of searches and reads | it quotes one commit |
| Review gate: `services/review*.py`, stage `review` | review `AgentRun` and decision | start, finish, reuse, gate | an approval is for the diff that is published |
| Publication: `pull_requests/*.py` | journal `AgentRun`, `PullRequest`, local branch; GitHub's branch and pull requests | check, journal, look up, push, find or create, record, fail | one reviewed pull request at most, described by its journal |
| Sandbox: `sandbox/*.py`, `services/testing.py`, `test_records.py` | test `AgentRun`, the workspace lock, one container per command; pipes, threads and buffers of a Docker command | start, select, execute in containers, finish; run a command | a verdict is made of containers that began over a clean workspace, ended well and are gone; a container that runs is alone; a result is the whole output, cut and marked |
| Planner, plans, LLM and embedding clients: `agents/planner.py`, `services/plans.py`, `integrations/llm/` | the plan row | three nested layers of retries; one insert under a derived id | the layers multiply and no more; one plan, asked for once |
| Chunking and patch text: `indexing/chunking.py`, `services/patch_format.py` | none that outlives a call | cutting a file; reading a diff against its declared files | chunks tile the file within their limits; what is accepted is a patch of exactly the declared files |
| Retrieval ranking, scanner | none | scoring, choice of files | see section 8 |
| API, dashboard, wiring, settings, observability, migrations | none of their own | handlers that call the services, Celery and Beat options | environment of the models |

How they interact: the API inserts a row and sends a message; a worker claims the
row, runs one stage without a transaction, and finishes the row, which makes the
next stage pending and sends the next message.  Beat re-announces pending rows and
fences those whose lease has run out; fencing an `implement` or `review` stage also
stops the agents and tasks of the execution in the same transaction.  Stages share
the checkout and the chunk rows of a repository, under a lock file held for one
operation at a time, never across stages.  An execution owns a copy of the checkout
with a lock of its own.  GitHub is written to only by the publish stage.

What is hard: a worker that outlives its lease; messages lost, repeated and late;
death between a side effect and its record; answers lost after the effect; data
read under a lock and used after it; recovery passes with a row limit; failures
recorded after a success; tests that are evidence of an earlier tree.  `PROJECT.json`
lists these under `hazards`, at their lines.

## 2. Modules

| Module | Models | Used by |
| --- | --- | --- |
| `Workflow` | the workflow row and everything that moves it | `MCWorkflow`, `WorkflowProofs` |
| `WorkflowLedger` | abstract specification of the same | instantiated by `Workflow` |
| `TaskGraph` | transition tables, cycles, the scheduling pass as a fixed point | `PlanPass`, `Execution` |
| `PlanPass` | the loops that compute that pass | `MCLoops`, `LoopsProofs` |
| `Execution` | runs, tasks, agents, the implement stage and its recovery | `MCExecution`, `ExecutionProofs` |
| `Deliveries` | standalone Celery tasks | `MCDeliveries`, `DeliveriesProofs` |
| `RepositoryContext` | checkout, index, vectors, context, execution copy | `MCRepositoryContext`, `RepositoryContextProofs` |
| `Publication` | review, journal, branch and pull request | `MCPublication`, `PublicationProofs` |
| `Sandbox` | the tests of a task in their containers | `MCSandbox`, `SandboxProofs` |
| `CommandRunner` | one Docker command: child, pipes, threads, timeout | `MCSandbox`, `SandboxProofs` |
| `ProviderCalls` | the stages that ask providers, and their retries | `MCLoops`, `LoopsProofs` |
| `Chunking` | the loops that cut a file into chunks | `MCLoops`, `LoopsProofs` |
| `PatchFormat` | the reader of a model's patch | `MCLoops`, `PatchFormatProofs` |

`MCSandbox` and `MCLoops` each check several modules in one run: a variable `part`
says which one moves, and the variables of the others rest in a final state.  For
that, the specifications of `CommandRunner`, `ProviderCalls`, `PlanPass` and `PatchFormat` carry
their names (`RunnerInit`, `CallsInit`, `PassInit`, `PatchInit` and so on).

The header of each module names its source files and its simplifications.  Three
conventions hold everywhere.

* A database transaction locks its row before it reads, so it is one action.  What
  a process holds between two transactions is in `worker`, each pause is a program
  counter, and a process may die at any of them.
* Time is a fact the environment supplies: a lease that runs out, a retry that is
  due, an agent that has become old.
* Reading a row and sending the message it describes is one action, because a
  message may be delivered arbitrarily late or never.

**Workflow.**  `wf[w]` is the row; `Start`, `Wake`, `Resume`, `Cancel` are the API;
`Deliver` is `claim` on a message of two or three arguments; `StageEnds`,
`ReadAttempts`, `Finish`, `WakeNext` are `WorkflowEngine.advance` and the task
around it; `Recover` is `recoverable`.  Claim tokens are ordinals; the history keeps,
beside the code's stage and status, who wrote the entry, under which claim and
generation, so that properties can speak of the past.

**WorkflowLedger** has no messages, workers, leases, tokens or generations: a
workflow waits, is active, stops, is done, blocked or cancelled, and a stage is
begun a bounded number of times.  `Workflow` implements it under the mapping
`LedgerOf`.

**TaskGraph and PlanPass.**  `Advance` says what one pass returns, by the least set
closed under "a parent failed"; `PlanPass` runs the code's two loops (graphlib's
batches, then `advance` over the ordered tasks) and must arrive at the same.

**Execution.**  One action per transaction: `Open` and `Start...` claim tasks and
agents, `Work...`, `TestsRun` and `DebugApplies` are what happens outside
transactions, `Finish...`, `Close` record it, `Reconcile`, `RecoverStale`,
`FenceFlow`, `CancelExecution`, `CancelFlow` are the others that write the rows.  A
tree is counted in versions, so that "the tests saw this tree" can be said, and is
`barred` while it holds an untracked file whose name `current_diff` refuses, which an
agent's patch or a test may leave there (a patch of `.gitignore` is enough).

**Sandbox.**  `Start`, `Finish` and `Fail` are the transactions of `TestRecords`;
between them the worker takes the workspace lock and sends `create`, `start
--attach`, `inspect` and `rm` for one container after another, each of which may
fail, time out or be interrupted.  The daemon and the containers are processes of
their own: a create may be carried out after its client was killed, a container may
run on when its client is lost, and a test may leave a file in the mounted workspace
(`tainted`) that `workspace_path` refuses when the next container or the next lock is
asked for.  The diff behind the last command does not look for such files, so that a
passed verdict over a tainted workspace is among the behaviours.  An exception of
`TestService.run` ends the recovery of the task (`raised`): no patch follows it.
`Stop` is what fencing, recovery or a cancellation does meanwhile.

**CommandRunner.**  A child writes bytes to bounded pipes, a thread per pipe gathers
blocks and keeps what fits, the caller waits, catches the timeout, kills, reaps and
joins.  The soft time limit of Celery may interrupt it in either wait.

**ProviderCalls.**  A claim of stage `issue`, `context` or `plan` makes `Calls` calls
of a client, each with `Retries` repetitions; replies are the classes that the code
treats differently; the row above them has attempts, claims, a lease and a retry
delay.  Workers go on asking after their claim is lost.

**Chunking, PatchFormat.**  One step per iteration of the loop (`Grow`, `Full`, `Cut`,
`Return`), and per line that is read.  A file is what the loop looks at: offsets, blank
lines, lines before a top-level definition.  A line of a patch is the class its regular
expression gives it, and which lines come is decided as they are read.

**Deliveries.**  `Begin` is the insert that owns the operation, `Answer` every reply
to a delivery whose row exists, `Finish` the guarded update, `RecoverStale` Beat's
pass.  All replies are kept and compared with the rows.

**RepositoryContext.**  A commit is a set of chunks.  `tree` separates HEAD from the
files, because a reset can stop between them.  Each status update, batch, search and
read is an action; the lock file may be orphaned by a death and is repaired by an
operator.  Failures and deaths are possible everywhere.

**Publication.**  Everything from the review to the recorded pull request.  A push
or a POST may be done and its answer lost.  Meanwhile other programs may change
the workspace, imports may change what the next attempt would quote, people may push
to the branch, delete it, close the pull request or edit its marker away.

## 3. Runs

| Run | Shows | Bounds |
| --- | --- | --- |
| `workflow_safety` | claims and their ends alternate; one claim per generation; checkpoints in order, each claimed a bounded number of times; an interrupted source stage never reruns; the retry delay comes from the attempt that failed; ended rows stay | 1 workflow, 2 workers, one stage of each kind, 2 attempts, 2 messages, two-argument messages |
| `workflow_liveness` | a workflow comes to rest; the ledger's fairness is kept | 1 workflow, 2 workers, 3 stages, 2 attempts, 1 repeat of implement |
| `workflow_two_rows` | no pending row is starved by the row limit; every step is a ledger step | 2 workflows, 1 worker, a pass of 1 row |
| `execution_safety` | run, task and agent rows agree (`WellFormed`); a recovery owns its task; completion on evidence; dependencies first; ended rows stay | 2 tasks, independent or chained, 1 repair, a workflow or a client's dispatchers |
| `execution_repairs` | proposals distinct; no patch on a doubtful tree, also where a refused diff lets the recovery go on; agents and claims end | 1 task, 2 repairs, 3 proposals |
| `execution_starvation` | a stale run hidden by an idle one (section 4) | 2 runs, a pass of 1 candidate |
| `deliveries` | one attempt, replies agree with the row, final verdicts, every delivery ends | 2 ids, 2 results, 2 workers |
| `repository_context` | status columns are true (`WellFormed`), a built workflow rests on one commit, vectors are complete when they are said to be and survive a re-index, jobs end | 2 commits of 2 chunks that share one, a workflow and a standalone worker |
| `publication` | one pull request; published is reviewed; the journal comes first; completed is recorded (`WellFormed`); an undisturbed publication settles | 2 workers, 3 attempts, 2 failures, 2 interruptions, 1 change, 1 import, people on GitHub |
| `publication_reimport` | a refused reconciliation (section 4) | 1 worker, 1 failure, 1 import |
| `sandbox` | a passed verdict rests on containers that began over a workspace the policy accepts, ended well and are gone; no two containers run at once, and none while a patch may be applied or tests are due; a result of a command is the whole output, cut and marked, of a child that has ended; a command returns | lists of 2 commands, a repeated, a refused and an unknown one, 2 runs of the tests; 2 pipes of 1 byte, 4 bytes of output, a limit and a block of 2 |
| `loops` | chunks tile the file; a scheduling pass returns what `Advance` says, parents first; a patch is accepted exactly if it is one of the declared files; requests stay within the product of the retries, and a plan is not asked for again | every file of 3 lines of 1, 3 or 5 characters and of 4 lines of 1 or 3, limits 3 and 4; every plan of 3 keys, self references, unknown parents and cycles included, in every state; every patch of 8 lines with counts up to 1; 2 workers, 2 attempts, 2, 1 and 1 retries |

**Why the bounds are enough.**  The races are between a worker and its successor, a
pass or a request, so two workers meet them; in `Execution` a claim is exclusive and
an interrupted implement stage is never claimed again, so one worker per run is all
there can be.  Two attempts are the least that separate "retried" from "exhausted",
one repeat of `implement` separates a stage that repeats from one that goes on (the
liveness run has it, where every step must be one of the ledger's), a
pass of one row with two rows is the smallest in which the limit bites.  Two tasks
have a parent and a child; joins and forks are in `loops`, where all graphs of
three keys are tried.  Two commits that share one chunk have a chunk that stays, one
that goes and one that comes.  In `Publication` three attempts with two failures
reach the third attempt after any two.
In `sandbox` a pipe that holds one byte fills at once, four bytes over two streams lie
below, at and beyond the limit, and a block of two is read half and whole; two runs of
the tests have a container of the first meet those of the second.  In `loops` every
boundary of a limit is crossed by lines below, at and above it; eight lines hold two
files with a hunk each, and one with two hunks.  What several independent workflows add is
the order of the recovery pass, which `workflow_two_rows` has.  Nothing here replaces
larger instances where no theorem is listed.

**Deadlock.**  It is checked except where the system really stops: a loop or a
command that has returned, an execution or a publication with nothing left to do.

**Fairness.**

* `Workflow`: a live worker takes its next step (Celery's hard limit of 960 s
  ends one that hangs, and is below the lease of 1800 s), Beat repeats
  `Recover` and its notifications (`workers/factory.py:53-64`), leases run out and
  retries become due because time passes; a message that is sent again and again is
  delivered in the end (strong fairness, as each single one may be lost).
  Clients owe nothing.
* `Execution`: the same, and agents and rows grow old.
* `Deliveries`: only that leases run out and that Beat repeats its pass: the worker
  may do anything.
* `RepositoryContext`: a job that can go on does, and pending stages are claimed.
* `Publication`: as `Workflow`, and somebody resumes a failed publication while it
  may be resumed and repairs an orphaned lock.  This concerns people, and is why
  `PublicationSettles` is conditional.
* `CommandRunner`: threads and the caller run, and the timeout of `wait` comes.  The
  child owes nothing: it may hang, or block on a full pipe.

## 4. Where the code and its documentation disagree

Each is a run whose property quotes the documentation and which TLC refutes.

* **Stale work can stay for ever** (`services/executions.py:219`).
  `recover_stale` takes 100 candidates in no stated order and leaves unchanged
  those it skips.  Idle runs that merely wait fill the limit and hide a run whose
  agent is stale, so that it is neither stopped nor cancellable.
* **A resumed publication can refuse to reconcile**
  (`pull_requests/records.py:106`).  The branch is pushed, the answer lost, the
  issue imported again under another title: every later attempt is refused because
  it would quote the new title, and the branch stays without a pull request.

More was seen while modelling, and has no run of its own.

* `finish` compares the claim token and the status, never `lease_until`, so a worker
  whose lease has run out still writes its checkpoint until a pass has fenced it,
  whereas `docs/orchestration-reliability.md:13` says that the lease invalidates old
  writes.  `Workflow` lets it happen, and every property of section 3 holds with it.
* Recovery blocks an expired `review` stage (`orchestration/workflow_records.py:255`)
  and a blocked workflow cannot be resumed, so the code at
  `orchestration/workflow_stages.py:193`, written to reuse a completed approval, is
  not reached after a crash.
* "Retry-After up to one hour is respected" (`docs/orchestration-reliability.md:38`)
  is true of GitHub.  The LLM client gives up on a delay of more than a minute
  (`integrations/llm/openai_provider.py:76`), and `failures.py:18` retries the stage
  without that delay (`Limited` of `ProviderCalls`).
* An embedding outage in the context stage is retried by its client, but never by the
  workflow: an `EmbeddingError` is none of the cases of `provider_failure`
  (`failures.py:11`), although the same page (line 36) counts the stage among those
  whose timeouts are retried (`GivenUp`).
* A 4xx that GitHub's client does not know becomes `github_response_error` with status
  502, which is retried (`Odd`).
* A container whose worker died, or whose removal failed, runs on until somebody
  removes it; `OneTenant` says what is kept nevertheless.
* "Failed post-apply inspection requires stopping rather than another patch"
  (`services/recovery.py:159`).  The inspection is the diff at line 118, and two of its
  codes, `unsafe_patch_path` and `protected_patch_path` (`code_patches.py:76-77`), are in
  neither set of lines 160-167: the recovery goes on over a tree with an unrecorded
  patch, and uses up its attempts.  Another patch is refused nevertheless, because each
  attempt begins with the same diff (line 94), whose result is the same as long as
  nobody else writes the workspace; `NoPatchOnUncertainTree` holds by that alone, and
  its mutant leaves it out.
* A passed verdict is recorded over a workspace that its last test has tainted:
  `testing.py:80` asks for the diff only, never for `workspace_path`.  What is said of
  the verdict is therefore about where its containers began; the next lock (another
  coding agent, the review, the publication) refuses the workspace.
* A failure of `DeliveryRecords.recover_stale` (`workers/workflow.py:62`) ends Beat's
  pass before the workflows, so that their fairness in section 3 supposes that it
  succeeds again and again.

## 5. Proofs

The theorems hold for every number of workflows, workers, stages, attempts, ids and
messages, from the named assumptions of the modules alone (`StagesAssumption`,
`LimitsAssumption`, `DeliveriesAssumption`, `RunnerAssumption`, `ChunkingAssumption`,
`CallsAssumption`, `PassAssumption`, `PublicationAssumption`, `HistoryAssumption`,
`PlansAssumption`, `BoundsAssumption`, `PatchAssumption`: stages are distinct names that end with "done"
and do not begin with "publish", limits are numbers, blocks, pipes and batches have room,
every line of a file has a character, a commit is a set of chunks, plans have tasks
and no cycle, a process is either a workflow's or a standalone task, and none is
called like a state of a lock).

`WorkflowProofs`, part 1 (types, ends, generations)
: `TypeCorrect`, `Spec => []TypeOK`.  `TypeOK` is not inductive: whether `finish`
  a claim keeps attempts in range and a success finds a next stage depends on what
  was claimed.  `TypeInv` adds `RowInv` (exactly the completed rows are at "done", and a
  pending row has an attempt left) and `HoldsStage` (no worker holds a claim of
  "done").  There is a lemma for the type of every operator on rows, then one lemma
  per action.
: `EndsForGoodCorrect`, `Spec => EndsForGood`.  `StepChange` reduces every action
  to a handful of row changes; `RestInv` says that leases belong to running rows and
  retry deadlines to pending ones, so that no clock moves a row that has ended.
: `OneClaimPerGenerationCorrect`, `Spec => []OneClaimPerGeneration`.  `GenInv` bounds
  the generations claimed in the history by that of the row, strictly unless the row
  is running; closing a claim always moves the generation on.

`WorkflowProofs`, part 2 (the ledger)
: `LedgerImplemented`, `Spec => ImplementsLedger`.  `ClaimInv` relates what a worker
  remembers to the row: tokens in flight never exceed the claims made, a running row
  carries the newest, and a worker whose token is still the row's holds the row's stage, so that its `finish` is the
  ledger's `Complete` or `Fail` of that stage.  Every action is then a ledger step or
  leaves the ledger as it was.

`WorkflowProofs`, part 3 (the history)
: `HistoryAlternatesCorrect`, `CheckpointsInOrderCorrect`,
  `InterruptedSourceNeverRerunsCorrect`, `BackoffCorrect`.  `WorkInv` adds to `ClaimInv`
  what a worker brings to `finish`: only "implement" repeats, and the attempts it read
  for the delay are those of its own claim as long as the claim is the row's.
  `HistoryChange` then says what a step is, seen from one history: quiet, or one entry
  that opens, closes, fails or cancels.  Each theorem has an invariant of one row over
  it: `AlternateInv` (the claim of a running row is its newest entry), `OrderInv` (the
  stage the row is at follows from its last entry) with `CountInv` (the attempts are
  the open claims of the history), `GivenUpInv` (behind an entry of Beat about a
  source-changing stage the row is blocked or cancelled), and `BackInv`, which rests on
  `RestInv`.

`ExecutionProofs`
: `WellFormedCorrect`, `OnlyReadyTasksStartCorrect`, `RecoveryOwnsTaskCorrect`,
  `PatchesDistinctCorrect`, `EndedStaysEndedCorrect`, `CompletedOnEvidenceCorrect`,
  `NoPatchOnUncertainTreeCorrect`.  Runs share nothing, so `Inv` is one formula, `Good`,
  about the row, agents, workflow, tree and worker of each.  `RowInv` is what a pass
  leaves behind and `BeforePass` the weaker part of it that a transaction must hand
  to the pass that ends it: that a pass blocks, queues and ends as it should
  (`PassRow`) is used by all of them.  The rest says why nobody is surprised:
  `AgentInv` that a task has one recovery, to which all its repairs belong, so that
  looking for a repeated proposal among them misses none; `FlowInv` that a workflow
  which waits has nothing running and a certain tree, and that a worker whose claim was taken
  away finds its run ended and its agents stopped; `OwnerInv` and `ChildInv` that the
  worker owns the only recovery that runs and its child is the newest agent, so that
  tests that pass are of the newest patch; `TreeInv` that the tree holds exactly the
  patches of completed agents, except between an application and its record, behind a
  failure that ends the recovery (`hard`), and in a tree that is `barred`: what a debug
  agent holds when it begins (`Held`) is either certain or barred, and in the second case
  it gets no further than its first diff.  Crash, fence, pass and
  cancellation may come between any two of these steps: `HaltKeeps` shows once that
  they leave whatever the late worker knows either true or without consequence.  For
  the action properties `Onward` adds what a step may do to rows that have ended, and
  that only `Close` completes a workflow's task.

`DeliveriesProofs`
: `OneAttemptCorrect`, `RepliesAgreeCorrect`, `VerdictCorrect` (and the type
  invariant, `TypeCorrect`, which no run repeats).  `IInv` joins types, replies and
  `AttemptInv`: an operation was begun once if its id has a row, and never otherwise.

`SandboxProofs`
: `VerdictOnEvidenceCorrect`, `OneTenantCorrect`, without any assumption on a constant.
  `WorkerInv` says of each step of the worker which containers its agent has: one for
  each result so far, in the order of the tests, and those of a command that passed are
  gone, began clean and ended with code zero (`Accounts`), besides the newest one while it is at work.  Of what
  `Distinct` makes of a configuration only the length matters.  `TenantInv` is what
  makes one tenant inductive: at most one container has been started and is not gone
  (`Loose`); the worker holds it, or its removal has failed and the call is on its way
  out, or there is no worker any more, and then the task still runs, has raised or was
  stopped, so that no test and no patch follows.  It also says that a container not
  begun yet will begin over a clean workspace: only one that runs can taint it, and
  that would be a second one.
  `ResultFaithfulCorrect`, `RunnerSpec => []ResultFaithful` (and `RunnerTypeCorrect`),
  of the client underneath.  What a result says of a stream is not inductive.
  `StreamInv` accounts for every byte: written is in the pipe, with the pending read, or
  seen by the loop; of those seen the first `Limit` are kept and the mark says whether
  there were more; a thread that has ended left none behind.  `CallInv` says how child
  and caller came where they are: a caller that joins has reaped its child, a killed
  child was timed out or interrupted.

`LoopsProofs`
: `ChunksTileCorrect`, `Spec => []ChunksTile`.  `WindowInv` is the loop's window: it
  counts its characters, is within both limits, and has a line when it is cut, because
  no line is over the limit.  `ListInv` says that the list ends where the window
  begins.  That the cut lies inside the window needs the largest of a set of
  candidates (`max`), which `LargestExists` derives from the well-foundedness of `<`.
  `RequestsBoundedCorrect`, `CallsSpec => []RequestsBounded`, for any number of workers.
  The bound counts requests and says nothing of those who make them, so `CallInv` gives
  each request a place: claims, calls and tries make a grid (`Slots`), and those ahead
  of no worker are `Spent`.  A request is ahead of the worker that makes it and of
  nobody afterwards, because no two workers hold the same claim and each only goes on;
  hence there are at least as many spent ones as requests.  The grid ends with the
  claims made before the plan, as no later one is asked for (`HeldInv`), and `RowInv`
  says that claims are attempts and one is left whenever the row may be claimed.
  `ReturnsAdvanceCorrect`, `PassSpec => []ReturnsAdvance`, for plans of any size: the
  loops compute the least fixed point by which `TaskGraph` (and with it `Execution`)
  defines a pass.  `DoomedClosed` and `DoomedLeast` say that the blocked tasks are the
  least closed set, so that `AdvanceFromParents` tells what becomes of a task by what
  becomes of its parents; parents come first (`ListedLater`), so the loop has what it
  needs when it visits a task (`VisitInv`), and no induction over the plan is needed.
  That `sorted` lists a batch without loss or repetition (`SortedLists`) follows from
  counting the numbers that are not above one.

`PatchFormatProofs`
: `AcceptsPatchesCorrect`, `PatchSpec => []AcceptsPatches`, for patches, proposals and
  counts of any size.  The reader knows a few variables and no earlier line, while
  `IsPatch` cuts the whole text.  `PatchInv` says what those variables mean of the lines
  read: all files before the last header are files and have been put out (`InFile`),
  the last is what its state says (`OfFile`: opened, half named, named, or with its
  hunks), all hunks of it before the last "@@" are hunks, and the last one has the
  counts kept for it (`OfBody`, `OfHunk`).  A line accepted leads to the next such
  description (`ReadsLine`, one lemma per kind of line); of a line refused the lemmas
  show the harder half, that no further reading and no other cut makes the text a
  patch: lines before the hunks fit one file in one way only, and a line that goes
  past a count, or a header that comes before it is reached, spoils its hunk whatever
  follows.  That a text is cut by its headers into the pieces before and the piece at
  the end (`CutSegments`, `CutByLineOfKind`, `CutByOtherLine`) is proved once and used
  for files and for hunks.

`PublicationProofs`
: `WellFormedCorrect`, `OnePullRequestCorrect`, `PublishedIsReviewedCorrect`,
  `JournalFirstCorrect`.  None of them is inductive: that the branch is the tested tree
  rests on what the job that pushes saw several steps before.  `JobInv` says, for each
  step of a job, what it has seen and that it holds the lock; `PublishedInv` relates
  review, journal, record and GitHub.  What a job saw stays true while others move:
  `Steady` is what no step undoes (an approved review, a journalled commit, a recorded
  pull request, a tree that only moves on, so that a second equal diff means the commit
  was made of it) and `Keeps` what others leave to the job, its lock first of all, which
  makes looking for a pull request and then opening one safe.  `OthersKeep` derives the
  invariant of every other job from the two, so that the lemma of an action is about
  the rows and the job that moves.

`RepositoryContextProofs`
: `WellFormedCorrect`, `ContextOfSourceCorrect`, `VectorsKeptCorrect`.  `ColumnsInv` says
  what the columns claim of checkout and rows, `JobInv` what each step of a job knows of
  the checkout, that its column is not "ready" while it works, and that only the holder
  of the lock writes checkout, columns and rows.  Nothing is locked
  between the stages of a workflow, so what it read can be overtaken: `Steady` says that
  HEAD only moves forward, hence a workflow that finds its source at HEAD again knows it
  was there all along, and `FlowInv` needs the context to quote the source only while
  HEAD is it, until the copy is made and the check behind it has passed.

With these every safety property that a run checks is a theorem (`ResumeReconciles`,
which the code does not keep, is one of the findings).  What needs fairness is
model-checked only (`Settles`, `PendingIsTaken`, `ImplementsFairLedger`, `AgentsEnd`,
`DeliveryEnds`, `JobsEnd`, `PublicationSettles`, `RunReturns`): liveness and ENABLED are
beyond the proof system, and so is induction over data, which none of the proofs needs.
No module has a RECURSIVE operator.

## 6. Assumptions

* The default branch of a repository only moves forward, and a working tree does not
  return to contents it had before.  With a branch that is forced back,
  `ContextOfSource` fails: revision checks compare equal again.
* Nobody removes the lock file of a live process, and while a task recovers only its
  agents and its tests write the workspace (what the diff refuses after a patch is still
  refused by the next attempt).
* In `RepositoryContext` a transaction that raises has not committed.  A batch of vectors
  whose commit goes unheard would be marked "error" by the handler
  (`indexing/embeddings.py:108`) and embedded again; `VectorsKept` does not speak of it.
* One process runs a stage of a workflow at a time in `RepositoryContext` and
  `Execution`.  `Workflow` shows that claims are exclusive; that a worker does not
  outlive its lease there rests on the hard limit.
* The task, coding, test and recovery rows of a completed run no longer change, which
  `EndedStaysEnded` states of `Execution` and `Publication` relies on.
* GitHub has carried out a request before it answers the next one.
* A Docker client that is killed leaves no process that holds its pipes, and the daemon
  may carry out its create later.

## 7. Plan

Done, in this order: `Workflow` with `WorkflowLedger` (the most important behaviour),
`TaskGraph`, `PlanPass`, `Execution`, `Deliveries`, `RepositoryContext`,
`Publication`; `CommandRunner`, `Sandbox`, `ProviderCalls`, `Chunking`, `PatchFormat`;
proofs for `Workflow`, `Deliveries`, `CommandRunner`, `Chunking`, `Publication`,
`RepositoryContext`, `Sandbox`, `Execution`, `ProviderCalls`, `PlanPass` and
`PatchFormat`.

Next:

1. Compose `Workflow` with `Execution` (fencing in one transaction) and with
   `Publication` (claims, leases and the cancel that overtakes a late publication)
   in one module, in place of the one-line workflows they now carry; with it, a
   crash at the `execution` stage between the creation of the run and the checkpoint.
   The product of the present state spaces is beyond TLC: it needs an abstraction of
   each that the detailed module implements, as `WorkflowLedger` is for `Workflow`.
2. Rank fusion of the retrieval as an operator against a reference definition.

## 8. Not modelled

* Retrieval ranking: stateless, over real-valued scores; in `RepositoryContext` a
  search returns any of the chunks it may see.
* The scanner (which files are indexed), names, URLs and secrets, and the contents of
  answers: string processing; a refusal is one of the failures of the step it belongs
  to, or a class of answer in `ProviderCalls`.
* The options of a container (limits, mounts, network): what Docker enforces.
* git itself: what it refuses or leaves half done is an outcome of the step.
* Registration, resetting the checkout to a given commit (which nothing calls),
  reads, rendering, logging, readiness and settings: no state that the properties
  depend on.
* The migrations: the models start from empty tables.
