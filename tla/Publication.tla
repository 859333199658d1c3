---------------------------- MODULE Publication ----------------------------
(***************************************************************************)
(* The last two stages of a workflow: the review of a finished execution   *)
(* and its publication as a branch and a pull request.                     *)
(*                                                                         *)
(*   app/orchestration/workflow_stages.py           review, publish        *)
(*   app/services/review.py, review_records.py      the review and its row *)
(*   app/pull_requests/service.py, records.py, git.py                      *)
(*                             checks, journal, push, pull request, record *)
(*   app/services/code_patches.py, executions.py    workspace lock, stale  *)
(*                                                  agents                 *)
(*                                                                         *)
(* Simplifications.                                                        *)
(*  - The run is completed, with test evidence for the tree Tested, and    *)
(*    none of its task, coding, test or recovery rows changes any more.    *)
(*  - Contents of the workspace are numbered in the order they appear and  *)
(*    do not return.  A commit is named by the contents it was made from.  *)
(*  - "quoted" stands for what a publication takes from the repository and *)
(*    issue rows (title, default branch): a number that imports increase.  *)
(*  - Secrets, names, URLs and other refusals that depend on the data are  *)
(*    among the failures of a step.                                        *)
(*  - GitHub has done a request it takes before it answers the next one.   *)
(***************************************************************************)
EXTENDS Integers, Sequences

CONSTANTS
    Workers,        \* processes that run stages
    AttemptLimit,   \* workflow_stage_attempts
    Failures,       \* bound: calls that raise or whose answer is lost
    Interruptions,  \* bound: workers that die or outlive their lease
    Changes,        \* bound: changes of the workspace by others
    Imports,        \* bound: imports that change what is quoted
    Meddling        \* whether others touch the branch or its pull request

ASSUME PublicationAssumption ==
    /\ AttemptLimit \in Nat \ {0}
    /\ {Failures, Interruptions, Changes, Imports} \subseteq Nat
    /\ Meddling \in BOOLEAN
    /\ Workers \cap {"nobody", "free", "orphan"} = {}

None == 0
Nobody == "nobody"
Tested == 1         \* contents the last required tests passed on
Foreign == -1       \* a commit somebody else put on the branch

VARIABLES
    flow,       \* WorkflowRun: stage, status, attempts, claim
    review,     \* the latest review AgentRun and its decision
    journal,    \* the pull_request AgentRun and its publication
    record,     \* PullRequest row: the number of the pull request, or None
    tree,       \* contents of the execution workspace
    ref,        \* the local publication branch
    quoted,     \* what the repository and issue rows say now
    lock,       \* .coding.lock: its holder, "free", or "orphan"
    remote,     \* GitHub: the branch and the pull requests opened from it
    worker,     \* the job of each process
    faults      \* calls failed and workers interrupted so far, and whether
                \* anybody else has written to GitHub

vars == <<flow, review, journal, record, tree, ref, quoted, lock, remote, worker, faults>>

rows == <<flow, review, journal, record>>
site == <<tree, ref, quoted, lock, remote>>

NoJob == [pc |-> "idle", diff |-> None, quote |-> None, pull |-> None, ok |-> FALSE, outcome |-> "ok"]

Init ==
    /\ flow = [stage |-> "review", status |-> "pending", attempts |-> 0, owner |-> Nobody]
    /\ review = [status |-> "none", diff |-> None, approved |-> FALSE]
    /\ journal = [status |-> "none", commit |-> None, quote |-> None]
    /\ record = None
    /\ tree = Tested
    /\ ref = None
    /\ quoted = 1
    /\ lock = "free"
    /\ remote = [branch |-> None, pulls |-> <<>>]
    /\ worker = [p \in Workers |-> NoJob]
    /\ faults = [failed |-> 0, broken |-> 0, meddled |-> FALSE]

-----------------------------------------------------------------------------
(* Jobs *)

Me(p) == worker[p]

Go(p, j) == worker' = [worker EXCEPT ![p] = j]

To(p, pc) == Go(p, [Me(p) EXCEPT !.pc = pc])

\* The stage is over; the lock goes, the checkpoint follows.
End(p, outcome) ==
    /\ Go(p, [NoJob EXCEPT !.pc = "checkpoint", !.outcome = outcome])
    /\ lock' = IF lock = p THEN "free" ELSE lock

\* What an exception makes of the row: review is never resumed.
Refused == IF flow.stage = "review" THEN "blocked" ELSE "failed"

Claim(p) ==
    /\ Me(p).pc = "idle" /\ flow.status = "pending"
    /\ flow' = [flow EXCEPT !.status = "running", !.attempts = @ + 1, !.owner = p]
    /\ Go(p, [NoJob EXCEPT !.pc = IF flow.stage = "review" THEN "reuse" ELSE "lock"])
    /\ UNCHANGED <<review, journal, record, site, faults>>

NextStage == [review |-> "publish", publish |-> "done"]

\* finish: only under the claim of the row.
Checkpoint(p) ==
    /\ Me(p).pc = "checkpoint"
    /\ Go(p, NoJob)
    /\ flow' =
         IF flow.owner # p THEN flow
         ELSE IF Me(p).outcome = "ok"
              THEN [stage |-> NextStage[flow.stage], attempts |-> 0, owner |-> Nobody,
                    status |-> IF flow.stage = "publish" THEN "completed" ELSE "pending"]
              ELSE [flow EXCEPT !.status = Me(p).outcome, !.owner = Nobody]
    /\ UNCHANGED <<review, journal, record, site, faults>>

Locked == [read |-> "reading", lock |-> "check"]

\* CodePatchService.locked, or coding_workspace_busy.
Acquire(p) ==
    /\ Me(p).pc \in DOMAIN Locked
    /\ IF lock = "free" THEN lock' = p /\ To(p, Locked[Me(p).pc])
       ELSE IF Me(p).pc = "read" THEN To(p, "review_failed") /\ UNCHANGED lock
       ELSE End(p, Refused)
    /\ UNCHANGED <<rows, tree, ref, quoted, remote, faults>>

-----------------------------------------------------------------------------
(* Review *)

\* The review of the tested contents is there and approves them: check.
Approved == review.status = "completed" /\ review.approved /\ review.diff = Tested

\* A completed review is reused; else one is started, unless one is running.
StartReview(p) ==
    /\ Me(p).pc = "reuse"
    /\ CASE review.status = "completed" -> To(p, "gate") /\ UNCHANGED <<review, lock>>
         [] review.status = "running" -> End(p, "blocked") /\ UNCHANGED review
         [] OTHER -> /\ review' = [status |-> "running", diff |-> None, approved |-> FALSE]
                     /\ To(p, "read")
                     /\ UNCHANGED lock
    /\ UNCHANGED <<flow, journal, record, tree, ref, quoted, remote, faults>>

ReadDiff(p) ==
    /\ Me(p).pc = "reading"
    /\ Go(p, [Me(p) EXCEPT !.diff = tree, !.pc = IF tree = Tested THEN "asking" ELSE "decided"])
    /\ UNCHANGED <<rows, site, faults>>

\* The model answers, and the workspace is read again.
Answer(p) ==
    /\ Me(p).pc = "asking"
    /\ \E approves \in BOOLEAN :
          Go(p, [Me(p) EXCEPT !.pc = "decided", !.ok = approves /\ tree = Me(p).diff])
    /\ UNCHANGED <<rows, site, faults>>

\* ReviewRecords.finish refuses a row that is no longer running.
Decide(p) ==
    /\ Me(p).pc = "decided"
    /\ IF review.status = "running"
       THEN /\ review' = [status |-> "completed", diff |-> Me(p).diff, approved |-> Me(p).ok]
            /\ Go(p, [NoJob EXCEPT !.pc = "gate"])
            /\ lock' = IF lock = p THEN "free" ELSE lock
       ELSE End(p, "blocked") /\ UNCHANGED review
    /\ UNCHANGED <<flow, journal, record, tree, ref, quoted, remote, faults>>

\* The handler of run: finish with an error code.
ReviewFails(p) ==
    /\ Me(p).pc = "review_failed"
    /\ review' = [review EXCEPT !.status = IF @ = "running" THEN "failed" ELSE @]
         \/ UNCHANGED review
    /\ End(p, "blocked")
    /\ UNCHANGED <<flow, journal, record, tree, ref, quoted, remote, faults>>

Gate(p) ==
    /\ Me(p).pc = "gate"
    /\ End(p, IF Approved THEN "ok" ELSE "blocked")
    /\ UNCHANGED <<rows, tree, ref, quoted, remote, faults>>

-----------------------------------------------------------------------------
(* Publication, under the lock of the workspace *)

Give(p) == End(p, Refused)

\* The evidence is checked; title and base are those of this moment.
Check(p) ==
    /\ Me(p).pc = "check"
    /\ IF Approved THEN Go(p, [Me(p) EXCEPT !.pc = "diff", !.quote = quoted]) /\ UNCHANGED lock
       ELSE Give(p)
    /\ UNCHANGED <<rows, tree, ref, quoted, remote, faults>>

Diff(p) ==
    /\ Me(p).pc = "diff"
    /\ IF tree = review.diff THEN Go(p, [Me(p) EXCEPT !.pc = "prepare", !.diff = tree])
                                  /\ UNCHANGED lock
       ELSE Give(p)
    /\ UNCHANGED <<rows, tree, ref, quoted, remote, faults>>

\* A commit of the tree on the local branch; one that is there must be equal.
Prepare(p) ==
    /\ Me(p).pc = "prepare"
    /\ IF ref \in {None, tree} THEN ref' = tree /\ To(p, "diff_again") /\ UNCHANGED lock
       ELSE Give(p) /\ UNCHANGED ref
    /\ UNCHANGED <<rows, tree, quoted, remote, faults>>

\* Variant with a bug: the workspace is not compared again.
SameDiffNever(p) == TRUE

SameDiff(p) == tree = Me(p).diff

DiffAgain(p) ==
    /\ Me(p).pc = "diff_again"
    /\ IF SameDiff(p) /\ Approved THEN To(p, "journal") /\ UNCHANGED lock ELSE Give(p)
    /\ UNCHANGED <<rows, tree, ref, quoted, remote, faults>>

\* Variant with a bug: the journal takes what this attempt quotes.
SamePublicationCommit(p) == journal.commit = ref

\* Variant with a bug: a journal that failed once is not taken up again.
SamePublicationRunning(p) ==
    journal.status = "running" /\ journal.commit = ref /\ journal.quote = Me(p).quote

\* The journal of an earlier attempt is for exactly this publication.
SamePublication(p) == journal.commit = ref /\ journal.quote = Me(p).quote

\* The publication is written down before anything leaves, once.
Journal(p) ==
    /\ Me(p).pc = "journal"
    /\ IF journal.status = "none"
       THEN journal' = [status |-> "running", commit |-> ref, quote |-> Me(p).quote]
            /\ To(p, "lookup") /\ UNCHANGED lock
       ELSE /\ IF SamePublication(p) THEN To(p, "lookup") /\ UNCHANGED lock ELSE Give(p)
            /\ UNCHANGED journal
    /\ UNCHANGED <<flow, review, record, tree, ref, quoted, remote, faults>>

Lookup(p) ==
    /\ Me(p).pc = "lookup"
    /\ To(p, CASE remote.branch = None -> "push"
               [] remote.branch = ref -> "find"
               [] OTHER -> "abort")
    /\ UNCHANGED <<rows, site, faults>>

\* The empty lease: the branch is created, never moved.
PushAllowed == remote.branch = None

\* An answer may be lost when what was asked is done.
Answered(p, pc) ==
    \/ To(p, pc) /\ UNCHANGED faults
    \/ /\ faults.failed < Failures
       /\ faults' = [faults EXCEPT !.failed = @ + 1]
       /\ To(p, "abort")

Push(p) ==
    /\ Me(p).pc = "push"
    /\ IF PushAllowed
       THEN remote' = [remote EXCEPT !.branch = ref] /\ Answered(p, "find")
       ELSE To(p, "abort") /\ UNCHANGED <<remote, faults>>
    /\ UNCHANGED <<rows, tree, ref, quoted, lock>>

\* Variant with a bug: GitHub is asked for open pull requests only.
FoundOpen == {n \in DOMAIN remote.pulls : remote.pulls[n].open}

\* Open, closed or merged: "a retry must never open a replacement".
Found == DOMAIN remote.pulls

\* _remote_pr: it shows our commit and carries our marker.
Ours(pull) == pull.head = ref /\ pull.marked

Find(p) ==
    /\ Me(p).pc = "find"
    /\ IF Found = {} THEN To(p, "create")
       ELSE \E n \in Found :
               IF Found = {n} /\ Ours(remote.pulls[n])
               THEN Go(p, [Me(p) EXCEPT !.pc = "finish", !.pull = n])
               ELSE To(p, "abort")
    /\ UNCHANGED <<rows, site, faults>>

\* GitHub wants the branch, and no other open pull request of it.
Create(p) ==
    /\ Me(p).pc = "create"
    /\ IF remote.branch # None /\ \A n \in DOMAIN remote.pulls : ~remote.pulls[n].open
       THEN LET pull == [head |-> remote.branch, quote |-> Me(p).quote, marked |-> TRUE, open |-> TRUE]
            IN /\ remote' = [remote EXCEPT !.pulls = Append(@, pull)]
               /\ \/ /\ Go(p, [Me(p) EXCEPT !.pull = Len(remote.pulls) + 1,
                                           !.pc = IF Ours(pull) THEN "finish" ELSE "abort"])
                     /\ UNCHANGED faults
                  \/ /\ faults.failed < Failures
                     /\ faults' = [faults EXCEPT !.failed = @ + 1]
                     /\ To(p, "abort")
       ELSE To(p, "abort") /\ UNCHANGED <<remote, faults>>
    /\ UNCHANGED <<rows, tree, ref, quoted, lock>>

\* PublicationRecords.finish; its commit may be unheard of.
Record(p) ==
    /\ Me(p).pc = "finish"
    /\ IF record \in {None, Me(p).pull}
       THEN /\ record' = Me(p).pull
            /\ journal' = [journal EXCEPT !.status = "completed"]
            /\ \/ End(p, "ok") /\ UNCHANGED faults
               \/ Answered(p, "abort") /\ faults' # faults /\ UNCHANGED lock
       ELSE To(p, "abort") /\ UNCHANGED <<record, journal, lock, faults>>
    /\ UNCHANGED <<flow, review, tree, ref, quoted, remote>>

\* Variant with a bug: a late failure overwrites a completed journal.
AbortAlways(p) ==
    /\ Me(p).pc = "abort"
    /\ journal' = [journal EXCEPT !.status = "failed"] \/ UNCHANGED journal
    /\ Give(p)
    /\ UNCHANGED <<flow, review, record, tree, ref, quoted, remote, faults>>

\* PublicationRecords.failed, if the database lets it: completed stays.
Abort(p) ==
    /\ Me(p).pc = "abort"
    /\ \/ journal' = [journal EXCEPT !.status = IF @ = "completed" THEN @ ELSE "failed"]
       \/ UNCHANGED journal
    /\ Give(p)
    /\ UNCHANGED <<flow, review, record, tree, ref, quoted, remote, faults>>

-----------------------------------------------------------------------------
(* Failures, recovery and people *)

Guarded == {"lookup", "push", "find", "create", "finish"}

\* A step raises.  (A checkpoint that raises is as good as a crash.)
Raises(p) ==
    /\ Me(p).pc \notin {"idle", "checkpoint", "abort", "review_failed"}
    /\ faults.failed < Failures
    /\ faults' = [faults EXCEPT !.failed = @ + 1]
    /\ CASE Me(p).pc \in Guarded -> To(p, "abort") /\ UNCHANGED lock
         [] Me(p).pc \in {"read", "reading", "asking", "decided"} ->
                To(p, "review_failed") /\ UNCHANGED lock
         [] OTHER -> End(p, Refused)
    /\ UNCHANGED <<rows, tree, ref, quoted, remote>>

Interrupt ==
    /\ faults.broken < Interruptions
    /\ faults' = [faults EXCEPT !.broken = @ + 1]

Crash(p) ==
    /\ Me(p).pc # "idle"
    /\ Interrupt
    /\ Go(p, NoJob)
    /\ lock' = IF lock = p THEN "orphan" ELSE lock
    /\ UNCHANGED <<rows, tree, ref, quoted, remote>>

RepairLock ==
    /\ lock = "orphan"
    /\ lock' = "free"
    /\ UNCHANGED <<rows, tree, ref, quoted, remote, worker, faults>>

Stopped(agent) == [agent EXCEPT !.status = IF @ = "running" THEN "failed" ELSE @]

\* recoverable: the lease has run out, on a dead worker or on a slow one.
Expire ==
    /\ flow.status = "running"
    /\ \/ Me(flow.owner).pc = "idle" /\ UNCHANGED faults
       \/ Me(flow.owner).pc # "idle" /\ Interrupt
    /\ flow' = [flow EXCEPT !.status = Refused, !.owner = Nobody]
    /\ IF flow.stage = "review"
       THEN review' = Stopped(review) /\ journal' = Stopped(journal)
       ELSE UNCHANGED <<review, journal>>
    /\ UNCHANGED <<record, site, worker>>

\* ExecutionService.recover_stale: an agent has been running for too long.  A
\* journal keeps the time of its first attempt.
RecoverStale ==
    /\ \/ journal.status = "running"
       \/ review.status = "running" /\ \A p \in Workers : Me(p).pc = "idle"
    /\ review' = Stopped(review) /\ journal' = Stopped(journal)
    /\ UNCHANGED <<flow, record, site, worker, faults>>

Resume ==
    /\ flow.status = "failed" /\ flow.attempts < AttemptLimit
    /\ flow' = [flow EXCEPT !.status = "pending"]
    /\ UNCHANGED <<review, journal, record, site, worker, faults>>

\* stop_locked refuses while an agent of the run is running.
Cancel ==
    /\ flow.status \in {"pending", "failed", "blocked"}
    /\ review.status # "running" /\ journal.status # "running"
    /\ flow' = [flow EXCEPT !.status = "cancelled"]
    /\ UNCHANGED <<review, journal, record, site, worker, faults>>

\* Something else writes to the workspace.
Change ==
    /\ tree <= Tested + Changes - 1
    /\ tree' = tree + 1
    /\ UNCHANGED <<rows, ref, quoted, lock, remote, worker, faults>>

\* Another workflow imports the issue or registers the repository again.
Import ==
    /\ quoted <= Imports
    /\ quoted' = quoted + 1
    /\ UNCHANGED <<rows, tree, ref, lock, remote, worker, faults>>

\* People push to the branch, delete it, or close or rewrite a pull request.
Meddle ==
    /\ Meddling
    /\ faults' = [faults EXCEPT !.meddled = TRUE]
    /\ \/ remote' = [branch |-> Foreign,
                     pulls |-> [n \in DOMAIN remote.pulls |->
                        IF remote.pulls[n].open THEN [remote.pulls[n] EXCEPT !.head = Foreign]
                        ELSE remote.pulls[n]]]
       \/ remote' = [branch |-> None,
                     pulls |-> [n \in DOMAIN remote.pulls |->
                                    [remote.pulls[n] EXCEPT !.open = FALSE]]]
       \/ \E n \in DOMAIN remote.pulls :
             \/ remote' = [remote EXCEPT !.pulls[n].open = FALSE]
             \/ remote' = [remote EXCEPT !.pulls[n].marked = FALSE]
    /\ UNCHANGED <<rows, tree, ref, quoted, lock, worker>>

-----------------------------------------------------------------------------
Step(p) ==
    \/ Checkpoint(p) \/ Acquire(p)
    \/ StartReview(p) \/ ReadDiff(p) \/ Answer(p) \/ Decide(p) \/ ReviewFails(p) \/ Gate(p)
    \/ Check(p) \/ Diff(p) \/ Prepare(p) \/ DiffAgain(p) \/ Journal(p)
    \/ Lookup(p) \/ Push(p) \/ Find(p) \/ Create(p) \/ Record(p) \/ Abort(p)

Next ==
    \/ \E p \in Workers : Claim(p) \/ Step(p) \/ Raises(p) \/ Crash(p)
    \/ RepairLock \/ Expire \/ RecoverStale \/ Resume \/ Cancel
    \/ Change \/ Import \/ Meddle

Spec == Init /\ [][Next]_vars

\* Rows that are due are claimed (Beat), workers go on, leases run out, and
\* somebody resumes what may be resumed.
Fairness ==
    /\ \A p \in Workers : WF_vars(Claim(p)) /\ WF_vars(Step(p))
    /\ WF_vars(Expire) /\ WF_vars(Resume) /\ WF_vars(RepairLock)

FairSpec == Spec /\ Fairness

-----------------------------------------------------------------------------
(* Properties *)

Contents == 1..(Tested + Changes)

Steps ==
    {"idle", "checkpoint", "reuse", "read", "reading", "asking", "decided", "review_failed",
     "gate", "lock", "check", "diff", "prepare", "diff_again", "journal", "lookup", "push",
     "find", "create", "finish", "abort"}

Flows == [stage : {"review", "publish", "done"}, attempts : 0..AttemptLimit,
          status : {"pending", "running", "failed", "blocked", "completed", "cancelled"},
          owner : Workers \cup {Nobody}]

Reviews == [status : {"none", "running", "completed", "failed"},
            diff : Contents \cup {None}, approved : BOOLEAN]

Journals == [status : {"none", "running", "completed", "failed"},
             commit : Contents \cup {None}, quote : 0..(Imports + 1)]

Pulls == [head : Contents \cup {Foreign}, quote : 0..(Imports + 1),
          marked : BOOLEAN, open : BOOLEAN]

Remotes == [branch : Contents \cup {None, Foreign}, pulls : Seq(Pulls)]

Jobs == [pc : Steps, diff : Contents \cup {None}, quote : 0..(Imports + 1), pull : Nat,
         ok : BOOLEAN, outcome : {"ok", "failed", "blocked"}]

(* Type invariant: rows, branch, pull requests and jobs have their types. *)
TypeOK ==
    /\ flow \in Flows /\ review \in Reviews /\ journal \in Journals /\ record \in Nat
    /\ tree \in Contents /\ ref \in Contents \cup {None} /\ quoted \in 1..(Imports + 1)
    /\ lock \in Workers \cup {"free", "orphan"}
    /\ remote \in Remotes
    /\ worker \in [Workers -> Jobs]
    /\ faults \in [failed : 0..Failures, broken : 0..Interruptions, meddled : BOOLEAN]

(* client.py: "a retry must never open a replacement automatically".  However
   often the stage is repeated, whatever answers are lost and whoever closes the
   pull request or deletes its branch, an execution gets one pull request. *)
OnePullRequest == Len(remote.pulls) <= 1

(* What the service has put on GitHub is what the required tests passed on and
   what the approved review was shown, although the workspace can change at any
   moment between the checks, the commit and the push. *)
PublishedIsReviewed ==
    /\ remote.branch \notin {None, Foreign} => Approved /\ remote.branch = Tested
    /\ \A n \in DOMAIN remote.pulls :
          remote.pulls[n].head # Foreign => Approved /\ remote.pulls[n].head = Tested

(* records.py: "journal publication before any external writes".  The journal
   describes the branch and the pull request that are on GitHub, also after
   imports have changed what a new attempt would write. *)
JournalFirst ==
    /\ remote.branch \notin {None, Foreign} => journal.commit = remote.branch
    /\ \A n \in DOMAIN remote.pulls :
          journal.status # "none" /\ journal.quote = remote.pulls[n].quote

(* A workflow that is completed has its pull request on record, its journal is
   completed, and that pull request exists. *)
CompletedIsRecorded ==
    flow.status = "completed" =>
        journal.status = "completed" /\ record \in DOMAIN remote.pulls

(* Rows, jobs and GitHub have their types, and a completed row is on record. *)
WellFormed == TypeOK /\ CompletedIsRecorded

\* Only calls have failed so far, and an attempt is left.
Undisturbed ==
    /\ tree = Tested /\ quoted = 1 /\ ~faults.meddled
    /\ faults.broken = 0 /\ faults.failed < AttemptLimit

(* A publication that nobody disturbs, and whose calls fail fewer times than it may
   be resumed, ends completed or cancelled: no failed attempt stands in the way of
   the next, whatever it has left in the workspace, the journal or on GitHub. *)
PublicationSettles ==
    []Undisturbed => (flow.stage = "publish" ~> flow.status \in {"completed", "cancelled"})

(* docs/orchestration-reliability.md:18: "Explicit resume reconciles remote
   state": a branch that is on GitHub ends with a pull request on record, unless
   the workflow is cancelled. *)
ResumeReconciles ==
    remote.branch # None ~> record # None \/ flow.status = "cancelled"
=============================================================================
