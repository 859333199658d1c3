-------------------------- MODULE PublicationProofs --------------------------
(***************************************************************************)
(* What is published, for every number of workers, failures, interruptions *)
(* and changes: at most one pull request, of the tree that was tested and  *)
(* reviewed, and of what the journal said before it was written.           *)
(*                                                                         *)
(* The argument follows one job.  What it has seen stays true under the    *)
(* steps of everybody else (Steady), who cannot hold the lock meanwhile    *)
(* (Keeps).                                                                *)
(***************************************************************************)
EXTENDS Publication, TLAPS

(* The inductive invariant *)

FlowInv ==
    /\ flow.owner # Nobody <=> flow.status = "running"
    /\ flow.stage = "done" <=> flow.status = "completed"
    /\ flow.status = "pending" => flow.attempts < AttemptLimit

TypeInv == TypeOK /\ FlowInv

\* The pull request is on record and the journal is completed.
Recorded == journal.status = "completed" /\ record \in 1..Len(remote.pulls)

PublishedInv ==
    /\ journal.status # "none" => Approved /\ ref = Tested /\ journal.commit = ref
    /\ journal.status = "completed" => Recorded
    /\ flow.status = "completed" => Recorded
    /\ remote.branch \notin {None, Foreign} => journal.status # "none" /\ remote.branch = Tested
    /\ \A n \in 1..Len(remote.pulls) :
          /\ journal.status # "none" /\ remote.pulls[n].quote = journal.quote
          /\ remote.pulls[n].head \in {Tested, Foreign}
    /\ Len(remote.pulls) <= 1

ReviewSteps == {"reuse", "read", "reading", "asking", "decided", "review_failed", "gate"}

PublishSteps == {"lock", "check", "diff", "prepare", "diff_again", "journal", "abort"} \cup Guarded

UnderLock == (PublishSteps \ {"lock"}) \cup {"reading", "asking", "decided"}

\* What the job of p has seen and done, by the step it has come to.
JobInv(p) ==
    LET j == worker[p] IN
    /\ j.pc \in UnderLock => lock = p
    /\ j.pc \in {"diff", "prepare", "diff_again"} => Approved
    /\ j.pc \in {"prepare", "diff_again"} => j.diff = Tested
    /\ j.pc = "diff_again" => ref # None /\ ref <= tree
    /\ j.pc = "journal" => Approved /\ ref = Tested
    /\ j.pc \in Guarded => journal.status # "none" /\ journal.quote = j.quote
    /\ j.pc = "abort" => journal.status # "none"
    /\ j.pc = "create" => Len(remote.pulls) = 0
    /\ j.pc = "finish" => j.pull \in 1..Len(remote.pulls)
    /\ flow.owner = p =>
          /\ j.pc \in ReviewSteps => flow.stage = "review"
          /\ j.pc \in PublishSteps => flow.stage = "publish"
          /\ j.pc = "checkpoint" /\ j.outcome = "ok" /\ flow.stage = "publish" => Recorded

Inv ==
    /\ TypeInv
    /\ PublishedInv
    /\ \A p \in Workers : JobInv(p)

\* What no step undoes.
Steady ==
    /\ Approved => Approved'
    /\ ref # None => ref' = ref
    /\ tree <= tree'
    /\ journal.status # "none" =>
          /\ journal'.status # "none"
          /\ journal'.commit = journal.commit /\ journal'.quote = journal.quote
    /\ Recorded => Recorded'
    /\ Len(remote.pulls) <= Len(remote'.pulls)

\* What a step of others leaves to q.
Keeps(q) ==
    /\ worker'[q] = worker[q]
    /\ lock = q => lock' = q
    /\ lock = q /\ Len(remote.pulls) = 0 => Len(remote'.pulls) = 0
    /\ flow'.owner = q => flow.owner = q /\ flow'.stage = flow.stage

-----------------------------------------------------------------------------
(* Types, and the ways a step ends a job or takes it on *)

\* No worker is called like a state of the lock, or like nobody.
LEMMA WorkerNames == Nobody \notin Workers /\ "free" \notin Workers /\ "orphan" \notin Workers
  BY PublicationAssumption DEF Nobody

\* The limits are numbers, and versions of the tree begin at the tested one.
LEMMA BoundTypes ==
  /\ AttemptLimit \in Nat /\ AttemptLimit > 0
  /\ Failures \in Nat /\ Interruptions \in Nat /\ Changes \in Nat /\ Imports \in Nat
  /\ Contents \subseteq Nat /\ None \notin Contents /\ Tested \in Contents
  /\ None = 0 /\ Foreign = -1 /\ Tested = 1
  BY PublicationAssumption DEF Contents, None, Tested, Foreign

\* A worker without a claim has a job too, the idle one.
LEMMA NoJobType == NoJob \in Jobs /\ NoJob.pc = "idle"
<1>1. None \in Contents \cup {None} /\ None \in 0..(Imports + 1) /\ None \in Nat
  BY BoundTypes
<1> QED BY <1>1, Zenon DEF NoJob, Jobs, Steps

\* Go changes the job of p alone.
LEMMA GoJob ==
  ASSUME TypeOK, NEW p \in Workers, NEW j \in Jobs, Go(p, j)
  PROVE  /\ worker' \in [Workers -> Jobs] /\ worker'[p] = j
         /\ \A q \in Workers : q # p => worker'[q] = worker[q]
  BY DEF TypeOK, Go

\* To takes it to another step.
LEMMA ToJob ==
  ASSUME TypeOK, NEW p \in Workers, NEW pc \in Steps, To(p, pc)
  PROVE  /\ worker' \in [Workers -> Jobs]
         /\ worker'[p].pc = pc
         /\ worker'[p].diff = worker[p].diff /\ worker'[p].quote = worker[p].quote
         /\ worker'[p].pull = worker[p].pull
         /\ \A q \in Workers : q # p => worker'[q] = worker[q]
<1> DEFINE j == [worker[p] EXCEPT !.pc = pc]
<1>1. worker[p] \in Jobs
  BY DEF TypeOK
<1>2. /\ j \in Jobs /\ j.pc = pc /\ j.diff = worker[p].diff /\ j.quote = worker[p].quote
      /\ j.pull = worker[p].pull
  BY <1>1, Zenon DEF Jobs
<1>3. Go(p, j)
  BY DEF To, Me
<1> HIDE DEF j
<1> QED BY <1>2, <1>3, GoJob

\* End takes it to its checkpoint, and the lock goes.
LEMMA EndJob ==
  ASSUME TypeOK, NEW p \in Workers, NEW outcome \in {"ok", "failed", "blocked"}, End(p, outcome)
  PROVE  /\ worker' \in [Workers -> Jobs]
         /\ worker'[p].pc = "checkpoint" /\ worker'[p].outcome = outcome
         /\ \A q \in Workers : q # p => worker'[q] = worker[q]
         /\ lock' = IF lock = p THEN "free" ELSE lock
         /\ lock' \in Workers \cup {"free", "orphan"}
<1> DEFINE j == [NoJob EXCEPT !.pc = "checkpoint", !.outcome = outcome]
<1>1. j \in Jobs /\ j.pc = "checkpoint" /\ j.outcome = outcome
  BY NoJobType, Zenon DEF Jobs, Steps
<1>2. Go(p, j) /\ lock' = IF lock = p THEN "free" ELSE lock
  BY DEF End
<1>3. lock' \in Workers \cup {"free", "orphan"}
  BY <1>2 DEF TypeOK
<1> HIDE DEF j
<1> QED BY <1>1, <1>2, <1>3, GoJob

\* A refusal fails the workflow or blocks it.
LEMMA RefusedType == Refused \in {"failed", "blocked"}
  BY DEF Refused

-----------------------------------------------------------------------------
(* How the invariant is kept *)

\* A job that a step leaves alone keeps what it has seen.
LEMMA OthersKeep ==
  ASSUME Inv, TypeInv', Steady, NEW q \in Workers, Keeps(q)
  PROVE  JobInv(q)'
<1>1. JobInv(q) /\ worker'[q] = worker[q]
  BY DEF Inv, Keeps
<1>2. /\ ref \in Nat /\ tree \in Nat /\ ref' \in Nat /\ tree' \in Nat
      /\ Len(remote.pulls) \in Nat /\ Len(remote'.pulls) \in Nat
  BY BoundTypes DEF Inv, TypeInv, TypeOK, Remotes
<1>3. worker[q].pc = "diff_again" => ref' # None /\ ref' <= tree'
  <2>1. worker[q].pc = "diff_again" => ref # None /\ ref <= tree
    BY <1>1 DEF JobInv
  <2>2. tree <= tree' /\ (ref # None => ref' = ref)
    BY DEF Steady
  <2> QED BY <1>2, <2>1, <2>2 DEF None
<1>4. worker[q].pc = "journal" => Approved' /\ ref' = Tested
  BY <1>1, BoundTypes DEF JobInv, Steady
<1>5. /\ worker[q].pc \in Guarded => journal'.status # "none" /\ journal'.quote = worker[q].quote
      /\ worker[q].pc = "abort" => journal'.status # "none"
  BY <1>1 DEF JobInv, Steady
<1>6. worker[q].pc = "create" => Len(remote'.pulls) = 0
  BY <1>1 DEF JobInv, Keeps, UnderLock, PublishSteps, Guarded
<1>7. worker[q].pc = "finish" => worker[q].pull \in 1..Len(remote'.pulls)
  BY <1>1, <1>2 DEF JobInv, Steady
<1>8. flow'.owner = q =>
          /\ worker[q].pc \in ReviewSteps => flow'.stage = "review"
          /\ worker[q].pc \in PublishSteps => flow'.stage = "publish"
          /\ worker[q].pc = "checkpoint" /\ worker[q].outcome = "ok" /\ flow'.stage = "publish"
                => Recorded'
  BY <1>1 DEF JobInv, Steady, Keeps
<1>9. /\ worker[q].pc \in UnderLock => lock' = q
      /\ worker[q].pc \in {"diff", "prepare", "diff_again"} => Approved'
      /\ worker[q].pc \in {"prepare", "diff_again"} => worker[q].diff = Tested
  BY <1>1 DEF JobInv, Steady, Keeps
<1> QED BY <1>1, <1>3, <1>4, <1>5, <1>6, <1>7, <1>8, <1>9 DEF JobInv

\* So it is enough to look at the rows, at GitHub and at the job that moves.
LEMMA StepOf ==
  ASSUME Inv, NEW p \in Workers, TypeInv', PublishedInv', Steady, JobInv(p)',
         \A q \in Workers : q # p => Keeps(q)
  PROVE  Inv'
  BY OthersKeep DEF Inv

\* Most steps of a worker change its job, the lock and the review only.
LEMMA QuietStep ==
  ASSUME Inv, NEW p \in Workers,
         UNCHANGED <<flow, journal, record, tree, ref, quoted, remote>>,
         review' \in Reviews, Approved => Approved',
         worker' \in [Workers -> Jobs],
         \A q \in Workers : q # p => worker'[q] = worker[q],
         lock' \in Workers \cup {"free", "orphan"},
         lock \in Workers \ {p} => lock' = lock,
         faults' \in [failed : 0..Failures, broken : 0..Interruptions, meddled : BOOLEAN],
         JobInv(p)'
  PROVE  Inv'
<1>1. TypeInv'
  BY DEF Inv, TypeInv, TypeOK, FlowInv
<1>2. PublishedInv'
  BY DEF Inv, PublishedInv, Recorded
<1>3. Steady
  BY BoundTypes DEF Steady, Recorded, Inv, TypeInv, TypeOK, Remotes
<1>4. \A q \in Workers : q # p => Keeps(q)
  BY DEF Keeps
<1> QED BY <1>1, <1>2, <1>3, <1>4, StepOf

\* The faults are within their bounds.
FaultsOK == faults \in [failed : 0..Failures, broken : 0..Interruptions, meddled : BOOLEAN]

\* A stage that ends for want of something.
LEMMA QuietEnd ==
  ASSUME Inv, NEW p \in Workers, NEW outcome \in {"failed", "blocked"}, End(p, outcome),
         UNCHANGED <<flow, journal, record, tree, ref, quoted, remote>>,
         review' \in Reviews, Approved => Approved', FaultsOK'
  PROVE  Inv'
<1>1. /\ worker' \in [Workers -> Jobs]
      /\ worker'[p].pc = "checkpoint" /\ worker'[p].outcome = outcome
      /\ \A q \in Workers : q # p => worker'[q] = worker[q]
      /\ lock' = IF lock = p THEN "free" ELSE lock
      /\ lock' \in Workers \cup {"free", "orphan"}
  BY EndJob DEF Inv, TypeInv
<1>2. JobInv(p)'
  BY <1>1 DEF JobInv, UnderLock, ReviewSteps, PublishSteps, Guarded
<1> QED BY <1>1, <1>2, QuietStep DEF FaultsOK

\* A job that goes on, with nothing but what it has seen.
LEMMA QuietTo ==
  ASSUME Inv, NEW p \in Workers, NEW pc \in Steps, To(p, pc),
         UNCHANGED <<flow, review, journal, record, tree, ref, quoted, remote>>,
         lock' \in Workers \cup {"free", "orphan"},
         lock \in Workers \ {p} => lock' = lock,
         FaultsOK',
         pc \in UnderLock => lock' = p,
         pc \in ReviewSteps => worker[p].pc \in ReviewSteps,
         pc \in PublishSteps => worker[p].pc \in PublishSteps,
         pc \notin {"diff", "prepare", "diff_again", "checkpoint"},
         pc = "journal" => Approved /\ ref = Tested,
         pc \in Guarded => journal.status # "none" /\ journal.quote = worker[p].quote,
         pc = "abort" => journal.status # "none",
         pc = "create" => Len(remote.pulls) = 0,
         pc # "finish"
  PROVE  Inv'
<1>1. /\ worker' \in [Workers -> Jobs]
      /\ worker'[p].pc = pc /\ worker'[p].quote = worker[p].quote
      /\ \A q \in Workers : q # p => worker'[q] = worker[q]
  BY ToJob DEF Inv, TypeInv
<1>2. Approved' <=> Approved
  BY DEF Approved
<1>3. JobInv(p)
  BY DEF Inv
<1>4. JobInv(p)'
  BY <1>1, <1>2, <1>3 DEF JobInv
<1> QED BY <1>1, <1>2, <1>4, QuietStep DEF FaultsOK, Inv, TypeInv, TypeOK

-----------------------------------------------------------------------------
(* The stage *)

\* A claim begins with nothing seen.
LEMMA ClaimInv ==
  ASSUME Inv, NEW p \in Workers, Claim(p)
  PROVE  Inv'
<1> DEFINE j == [NoJob EXCEPT !.pc = IF flow.stage = "review" THEN "reuse" ELSE "lock"]
<1>1. j \in Jobs /\ j.pc = IF flow.stage = "review" THEN "reuse" ELSE "lock"
  BY NoJobType, Zenon DEF Jobs, Steps
<1>2. /\ Go(p, j) /\ flow.status = "pending" /\ worker[p].pc = "idle"
      /\ flow' = [flow EXCEPT !.status = "running", !.attempts = @ + 1, !.owner = p]
      /\ UNCHANGED <<review, journal, record, tree, ref, quoted, lock, remote, faults>>
  BY DEF Claim, site, Me
<1> HIDE DEF j
<1>3. /\ worker' \in [Workers -> Jobs] /\ worker'[p] = j
      /\ \A q \in Workers : q # p => worker'[q] = worker[q]
  BY <1>1, <1>2, GoJob DEF Inv, TypeInv
<1>4. /\ flow \in Flows /\ flow.attempts < AttemptLimit /\ flow.stage \in {"review", "publish"}
  BY <1>2 DEF Inv, TypeInv, TypeOK, FlowInv, Flows
<1>5. /\ flow' \in Flows /\ flow'.status = "running" /\ flow'.owner = p
      /\ flow'.stage = flow.stage
  <2>1. flow.attempts + 1 \in 0..AttemptLimit
    BY <1>4, BoundTypes DEF Flows
  <2> QED BY <1>2, <1>4, <2>1, Zenon DEF Flows
<1>6. TypeInv'
  BY <1>2, <1>3, <1>4, <1>5, WorkerNames DEF Inv, TypeInv, TypeOK, FlowInv
<1>7. PublishedInv' /\ Steady
  BY <1>2, <1>5, BoundTypes
  DEF Inv, PublishedInv, Recorded, Approved, Steady, TypeInv, TypeOK, Remotes
<1>8. JobInv(p)'
  BY <1>1, <1>3, <1>4, <1>5 DEF JobInv, UnderLock, ReviewSteps, PublishSteps, Guarded
<1>9. \A q \in Workers : q # p => Keeps(q)
  BY <1>2, <1>3, <1>5 DEF Keeps
<1> QED BY <1>6, <1>7, <1>8, <1>9, StepOf

\* Only the owner moves the workflow, and to the end only with its pull request on record.
LEMMA CheckpointInv ==
  ASSUME Inv, NEW p \in Workers, Checkpoint(p)
  PROVE  Inv'
<1>1. /\ worker[p].pc = "checkpoint" /\ Go(p, NoJob)
      /\ UNCHANGED <<review, journal, record, tree, ref, quoted, lock, remote, faults>>
  BY DEF Checkpoint, site, Me
<1>2. /\ worker' \in [Workers -> Jobs] /\ worker'[p].pc = "idle"
      /\ \A q \in Workers : q # p => worker'[q] = worker[q]
  BY <1>1, GoJob, NoJobType DEF Inv, TypeInv
<1>3. flow \in Flows /\ worker[p] \in Jobs
  BY DEF Inv, TypeInv, TypeOK
<1>4. CASE flow.owner # p
  <2>1. flow' = flow
    BY <1>4 DEF Checkpoint
  <2>2. JobInv(p)'
    BY <1>2, <2>1, <1>4 DEF JobInv, UnderLock, PublishSteps, Guarded
  <2> QED BY <1>1, <1>2, <2>1, <2>2, QuietStep DEF Inv, TypeInv, TypeOK, Approved
<1>5. CASE flow.owner = p
  <2>1. flow.status = "running" /\ flow.stage \in {"review", "publish"}
    BY <1>3, <1>5, WorkerNames DEF Inv, TypeInv, FlowInv, Flows
  <2>2. CASE worker[p].outcome = "ok"
    <3>1. flow' = [stage |-> NextStage[flow.stage], attempts |-> 0, owner |-> Nobody,
                   status |-> IF flow.stage = "publish" THEN "completed" ELSE "pending"]
      BY <1>5, <2>2 DEF Checkpoint, Me
    <3>2. NextStage[flow.stage] = IF flow.stage = "publish" THEN "done" ELSE "publish"
      BY <2>1 DEF NextStage
    <3>3. /\ flow' \in Flows /\ flow'.owner = Nobody /\ FlowInv'
          /\ flow'.status = "completed" => flow.stage = "publish"
      BY <2>1, <3>1, <3>2, BoundTypes DEF Flows, FlowInv
    <3>4. flow'.status = "completed" => Recorded
      BY <1>1, <1>5, <2>2, <3>3 DEF Inv, JobInv
    <3> QED
      <4>1. TypeInv'
        BY <1>1, <1>2, <3>3 DEF Inv, TypeInv, TypeOK
      <4>2. PublishedInv' /\ Steady
        BY <1>1, <3>4, BoundTypes
        DEF Inv, PublishedInv, Recorded, Approved, Steady, TypeInv, TypeOK, Remotes
      <4>3. JobInv(p)'
        BY <1>2, <3>3, WorkerNames DEF JobInv, UnderLock, PublishSteps, Guarded
      <4>4. \A q \in Workers : q # p => Keeps(q)
        BY <1>1, <1>2, <3>3, WorkerNames DEF Keeps
      <4> QED BY <4>1, <4>2, <4>3, <4>4, StepOf
  <2>3. CASE worker[p].outcome # "ok"
    <3>1. flow' = [flow EXCEPT !.status = worker[p].outcome, !.owner = Nobody]
      BY <1>5, <2>3 DEF Checkpoint, Me
    <3>2. /\ flow' \in Flows /\ flow'.owner = Nobody /\ flow'.stage = flow.stage
          /\ flow'.status \in {"failed", "blocked"}
      BY <1>3, <2>1, <2>3, <3>1 DEF Flows, Jobs
    <3>3. TypeInv'
      BY <1>1, <1>2, <2>1, <3>2 DEF Inv, TypeInv, TypeOK, FlowInv
    <3>4. PublishedInv' /\ Steady
      BY <1>1, <3>2, BoundTypes
      DEF Inv, PublishedInv, Recorded, Approved, Steady, TypeInv, TypeOK, Remotes
    <3>5. JobInv(p)'
      BY <1>2, <3>2, WorkerNames DEF JobInv, UnderLock, PublishSteps, Guarded
    <3>6. \A q \in Workers : q # p => Keeps(q)
      BY <1>1, <1>2, <3>2, WorkerNames DEF Keeps
    <3> QED BY <3>3, <3>4, <3>5, <3>6, StepOf
  <2> QED BY <2>2, <2>3
<1> QED BY <1>4, <1>5

\* The lock is taken, or it is busy.
LEMMA AcquireInv ==
  ASSUME Inv, NEW p \in Workers, Acquire(p)
  PROVE  Inv'
<1>1. /\ worker[p].pc \in {"read", "lock"}
      /\ UNCHANGED <<flow, review, journal, record, tree, ref, quoted, remote, faults>>
  BY DEF Acquire, Locked, Me, rows
<1>2. Locked[worker[p].pc] = IF worker[p].pc = "read" THEN "reading" ELSE "check"
  BY <1>1 DEF Locked
<1>3. Approved' <=> Approved
  BY <1>1 DEF Approved
<1>4. FaultsOK' /\ review' \in Reviews /\ lock \in Workers \cup {"free", "orphan"}
  BY <1>1 DEF Inv, TypeInv, TypeOK, FaultsOK
<1>5. CASE lock = "free"
  <2> DEFINE pc == IF worker[p].pc = "read" THEN "reading" ELSE "check"
  <2>1. lock' = p /\ To(p, pc)
    BY <1>2, <1>5 DEF Acquire, Me
  <2>2. /\ pc \in Steps
        /\ pc \in ReviewSteps => worker[p].pc \in ReviewSteps
        /\ pc \in PublishSteps => worker[p].pc \in PublishSteps
        /\ pc \notin Guarded \cup {"diff", "prepare", "diff_again", "journal", "checkpoint", "abort"}
    BY <1>1 DEF Steps, ReviewSteps, PublishSteps, Guarded
  <2> HIDE DEF pc
  <2>3. pc # "create" /\ pc # "finish"
    BY <2>2 DEF Guarded
  <2> QED BY <1>1, <1>4, <1>5, <2>1, <2>2, <2>3, WorkerNames, QuietTo
<1>6. CASE lock # "free" /\ worker[p].pc = "read"
  <2>1. To(p, "review_failed") /\ lock' = lock
    BY <1>6 DEF Acquire, Me
  <2>2. /\ "review_failed" \in Steps /\ worker[p].pc \in ReviewSteps
        /\ "review_failed" \notin PublishSteps \cup UnderLock
        /\ "review_failed" \notin Guarded
    BY <1>6 DEF Steps, ReviewSteps, PublishSteps, UnderLock, Guarded
  <2> QED BY <1>1, <1>4, <2>1, <2>2, QuietTo
<1>7. CASE lock # "free" /\ worker[p].pc # "read"
  <2>1. End(p, Refused)
    BY <1>7 DEF Acquire, Me
  <2> QED BY <1>1, <1>3, <1>4, <2>1, RefusedType, QuietEnd
<1> QED BY <1>5, <1>6, <1>7

-----------------------------------------------------------------------------
(* Review *)

\* An approved review is reused and never begun again.
LEMMA StartReviewInv ==
  ASSUME Inv, NEW p \in Workers, StartReview(p)
  PROVE  Inv'
<1>1. /\ worker[p].pc = "reuse"
      /\ UNCHANGED <<flow, journal, record, tree, ref, quoted, remote, faults>>
  BY DEF StartReview, Me
<1>2. /\ FaultsOK' /\ lock \in Workers \cup {"free", "orphan"} /\ review \in Reviews
      /\ worker[p].pc \in ReviewSteps
  BY <1>1 DEF Inv, TypeInv, TypeOK, FaultsOK, ReviewSteps
<1>3. CASE review.status = "completed"
  <2>1. To(p, "gate") /\ lock' = lock /\ review' = review
    BY <1>3 DEF StartReview
  <2>2. "gate" \in Steps /\ "gate" \notin PublishSteps \cup UnderLock \cup Guarded
    BY DEF Steps, PublishSteps, UnderLock, Guarded
  <2> QED BY <1>1, <1>2, <2>1, <2>2, QuietTo
<1>4. CASE review.status = "running"
  <2>1. End(p, "blocked") /\ review' = review
    BY <1>4 DEF StartReview
  <2>2. Approved => Approved'
    BY <1>4 DEF Approved
  <2> QED BY <1>1, <1>2, <2>1, <2>2, QuietEnd
<1>5. CASE review.status \notin {"completed", "running"}
  <2>1. /\ review' = [status |-> "running", diff |-> None, approved |-> FALSE]
        /\ To(p, "read") /\ lock' = lock
    BY <1>5 DEF StartReview
  <2>2. review' \in Reviews
    BY <2>1 DEF Reviews
  <2>3. Approved => Approved'
    BY <1>5 DEF Approved
  <2>4. /\ worker' \in [Workers -> Jobs] /\ worker'[p].pc = "read"
        /\ \A q \in Workers : q # p => worker'[q] = worker[q]
    BY <2>1, ToJob DEF Steps, Inv, TypeInv
  <2>5. JobInv(p)
    BY DEF Inv
  <2>6. JobInv(p)'
    BY <1>1, <1>2, <2>4, <2>5 DEF JobInv, UnderLock, PublishSteps, ReviewSteps, Guarded
  <2> QED BY <1>1, <1>2, <2>1, <2>2, <2>3, <2>4, <2>6, QuietStep DEF FaultsOK
<1> QED BY <1>3, <1>4, <1>5

\* A job that goes on with other data and under the lock it has.
LEMMA QuietGo ==
  ASSUME Inv, NEW p \in Workers, NEW j \in Jobs, Go(p, j),
         UNCHANGED <<flow, review, journal, record, tree, ref, quoted, lock, remote, faults>>,
         worker[p].pc \in UnderLock, j.pc \in UnderLock \ (Guarded \cup {"diff_again", "journal", "abort"}),
         worker[p].pc \in ReviewSteps <=> j.pc \in ReviewSteps,
         worker[p].pc \in PublishSteps <=> j.pc \in PublishSteps,
         j.pc \in {"diff", "prepare"} => Approved,
         j.pc = "prepare" => j.diff = Tested
  PROVE  Inv'
<1>1. /\ worker' \in [Workers -> Jobs] /\ worker'[p] = j
      /\ \A q \in Workers : q # p => worker'[q] = worker[q]
  BY GoJob DEF Inv, TypeInv
<1>2. Approved' <=> Approved
  BY DEF Approved
<1>3. JobInv(p)
  BY DEF Inv
<1>4. "checkpoint" \notin UnderLock /\ "create" \in Guarded /\ "finish" \in Guarded
  BY DEF UnderLock, PublishSteps, Guarded
<1>5. JobInv(p)'
  BY <1>1, <1>2, <1>3, <1>4 DEF JobInv
<1> QED BY <1>1, <1>2, <1>5, QuietStep DEF Inv, TypeInv, TypeOK

\* The diff that is reviewed is read under the lock.
LEMMA ReadDiffInv ==
  ASSUME Inv, NEW p \in Workers, ReadDiff(p)
  PROVE  Inv'
<1> DEFINE j == [worker[p] EXCEPT !.diff = tree,
                                  !.pc = IF tree = Tested THEN "asking" ELSE "decided"]
<1>1. /\ worker[p].pc = "reading" /\ Go(p, j)
      /\ UNCHANGED <<flow, review, journal, record, tree, ref, quoted, lock, remote, faults>>
  BY DEF ReadDiff, Me, rows, site
<1>2. worker[p] \in Jobs /\ tree \in Contents
  BY DEF Inv, TypeInv, TypeOK
<1>3. j \in Jobs /\ j.pc \in {"asking", "decided"}
  BY <1>2, Zenon DEF Jobs, Steps
<1> HIDE DEF j
<1> QED BY <1>1, <1>3, QuietGo DEF UnderLock, ReviewSteps, PublishSteps, Guarded

\* The answer of the model changes the job alone.
LEMMA AnswerInv ==
  ASSUME Inv, NEW p \in Workers, Answer(p)
  PROVE  Inv'
<1>1. PICK approves \in BOOLEAN :
        Go(p, [worker[p] EXCEPT !.pc = "decided", !.ok = approves /\ tree = worker[p].diff])
  BY DEF Answer, Me
<1> DEFINE ok == approves /\ tree = worker[p].diff
           j == [worker[p] EXCEPT !.pc = "decided", !.ok = ok]
<1>2. /\ worker[p].pc = "asking" /\ Go(p, j)
      /\ UNCHANGED <<flow, review, journal, record, tree, ref, quoted, lock, remote, faults>>
  BY <1>1 DEF Answer, Me, rows, site
<1>3. ok \in BOOLEAN /\ worker[p] \in Jobs
  BY DEF Inv, TypeInv, TypeOK
<1> HIDE DEF ok
<1>4. j \in Jobs /\ j.pc = "decided"
  BY <1>3, Zenon DEF Jobs, Steps
<1> HIDE DEF j
<1> QED BY <1>2, <1>4, QuietGo DEF UnderLock, ReviewSteps, PublishSteps, Guarded

\* A review is decided once, while it is running.
LEMMA DecideInv ==
  ASSUME Inv, NEW p \in Workers, Decide(p)
  PROVE  Inv'
<1>1. /\ worker[p].pc = "decided" /\ worker[p] \in Jobs /\ review \in Reviews
      /\ lock \in Workers \cup {"free", "orphan"}
      /\ UNCHANGED <<flow, journal, record, tree, ref, quoted, remote, faults>>
  BY DEF Decide, Me, Inv, TypeInv, TypeOK
<1>2. FaultsOK'
  BY <1>1 DEF Inv, TypeInv, TypeOK, FaultsOK
<1>3. CASE review.status = "running"
  <2> DEFINE j == [NoJob EXCEPT !.pc = "gate"]
  <2>1. /\ review' = [status |-> "completed", diff |-> worker[p].diff, approved |-> worker[p].ok]
        /\ Go(p, j) /\ lock' = IF lock = p THEN "free" ELSE lock
    BY <1>3 DEF Decide, Me
  <2>2. j \in Jobs /\ j.pc = "gate"
    BY NoJobType, Zenon DEF Jobs, Steps
  <2> HIDE DEF j
  <2>3. /\ worker' \in [Workers -> Jobs] /\ worker'[p] = j
        /\ \A q \in Workers : q # p => worker'[q] = worker[q]
    BY <2>1, <2>2, GoJob DEF Inv, TypeInv
  <2>4. review' \in Reviews
    BY <1>1, <2>1 DEF Reviews, Jobs
  <2>5. Approved => Approved'
    BY <1>3 DEF Approved
  <2>6. JobInv(p)'
    BY <1>1, <2>2, <2>3 DEF JobInv, Inv, UnderLock, PublishSteps, ReviewSteps, Guarded
  <2> QED BY <1>1, <1>2, <2>1, <2>3, <2>4, <2>5, <2>6, QuietStep DEF FaultsOK
<1>4. CASE review.status # "running"
  <2>1. End(p, "blocked") /\ review' = review
    BY <1>4 DEF Decide
  <2>2. Approved => Approved'
    BY <2>1 DEF Approved
  <2> QED BY <1>1, <1>2, <2>1, <2>2, QuietEnd
<1> QED BY <1>3, <1>4

\* A review that is completed does not fail.
LEMMA ReviewFailsInv ==
  ASSUME Inv, NEW p \in Workers, ReviewFails(p)
  PROVE  Inv'
<1>1. /\ End(p, "blocked") /\ review \in Reviews
      /\ UNCHANGED <<flow, journal, record, tree, ref, quoted, remote, faults>>
      /\ \/ review' = [review EXCEPT !.status = IF @ = "running" THEN "failed" ELSE @]
         \/ review' = review
  BY DEF ReviewFails, Inv, TypeInv, TypeOK
<1>2. review' \in Reviews /\ (Approved => Approved')
  BY <1>1 DEF Reviews, Approved
<1>3. FaultsOK'
  BY <1>1 DEF Inv, TypeInv, TypeOK, FaultsOK
<1> QED BY <1>1, <1>2, <1>3, QuietEnd

\* The gate reads and changes nothing.
LEMMA GateInv ==
  ASSUME Inv, NEW p \in Workers, Gate(p)
  PROVE  Inv'
<1>1. /\ worker[p].pc = "gate" /\ End(p, IF Approved THEN "ok" ELSE "blocked")
      /\ UNCHANGED <<flow, review, journal, record, tree, ref, quoted, remote, faults>>
  BY DEF Gate, Me, rows
<1>2. /\ worker' \in [Workers -> Jobs] /\ worker'[p].pc = "checkpoint"
      /\ \A q \in Workers : q # p => worker'[q] = worker[q]
      /\ lock' = IF lock = p THEN "free" ELSE lock
      /\ lock' \in Workers \cup {"free", "orphan"}
  BY <1>1, EndJob DEF Inv, TypeInv
<1>3. flow.owner = p => flow.stage = "review"
  BY <1>1 DEF Inv, JobInv, ReviewSteps
<1>4. JobInv(p)'
  BY <1>1, <1>2, <1>3 DEF JobInv, UnderLock, PublishSteps, ReviewSteps, Guarded
<1>5. Approved => Approved'
  BY <1>1 DEF Approved
<1> QED BY <1>1, <1>2, <1>4, <1>5, QuietStep DEF Inv, TypeInv, TypeOK

-----------------------------------------------------------------------------
(* Publication: the checks *)

\* A publication goes on only with an approved review.
LEMMA CheckInv ==
  ASSUME Inv, NEW p \in Workers, Check(p)
  PROVE  Inv'
<1>1. /\ worker[p].pc = "check" /\ worker[p] \in Jobs /\ quoted \in 1..(Imports + 1)
      /\ UNCHANGED <<flow, review, journal, record, tree, ref, quoted, remote, faults>>
  BY DEF Check, Me, rows, Inv, TypeInv, TypeOK
<1>2. FaultsOK' /\ review' \in Reviews /\ (Approved => Approved')
  BY <1>1 DEF Inv, TypeInv, TypeOK, FaultsOK, Approved
<1>3. CASE Approved
  <2> DEFINE j == [worker[p] EXCEPT !.pc = "diff", !.quote = quoted]
  <2>1. Go(p, j) /\ lock' = lock
    BY <1>3 DEF Check, Me
  <2>2. quoted \in 0..(Imports + 1)
    BY <1>1, BoundTypes
  <2>3. j \in Jobs /\ j.pc = "diff"
    BY <1>1, <2>2, Zenon DEF Jobs, Steps
  <2> HIDE DEF j
  <2> QED BY <1>1, <1>3, <2>1, <2>3, QuietGo DEF UnderLock, ReviewSteps, PublishSteps, Guarded
<1>4. CASE ~Approved
  <2>1. End(p, Refused)
    BY <1>4 DEF Check, Give
  <2> QED BY <1>1, <1>2, <2>1, RefusedType, QuietEnd
<1> QED BY <1>3, <1>4

\* What goes on to the commit is the tested tree.
LEMMA DiffInv ==
  ASSUME Inv, NEW p \in Workers, Diff(p)
  PROVE  Inv'
<1>1. /\ worker[p].pc = "diff" /\ worker[p] \in Jobs /\ tree \in Contents
      /\ UNCHANGED <<flow, review, journal, record, tree, ref, quoted, remote, faults>>
  BY DEF Diff, Me, rows, Inv, TypeInv, TypeOK
<1>2. FaultsOK' /\ review' \in Reviews /\ (Approved => Approved')
  BY <1>1 DEF Inv, TypeInv, TypeOK, FaultsOK, Approved
<1>3. CASE tree = review.diff
  <2> DEFINE j == [worker[p] EXCEPT !.pc = "prepare", !.diff = tree]
  <2>1. Go(p, j) /\ lock' = lock
    BY <1>3 DEF Diff, Me
  <2>2. j \in Jobs /\ j.pc = "prepare" /\ j.diff = tree
    BY <1>1, Zenon DEF Jobs, Steps
  <2>3. Approved
    BY <1>1 DEF Inv, JobInv
  <2>4. tree = Tested
    BY <1>3, <2>3 DEF Approved
  <2> HIDE DEF j
  <2> QED BY <1>1, <2>1, <2>2, <2>3, <2>4, QuietGo
          DEF UnderLock, ReviewSteps, PublishSteps, Guarded
<1>4. CASE tree # review.diff
  <2>1. End(p, Refused)
    BY <1>4 DEF Diff, Give
  <2> QED BY <1>1, <1>2, <2>1, RefusedType, QuietEnd
<1> QED BY <1>3, <1>4

\* The tree only moves on, so a second equal diff means that the branch was made of it.
LEMMA DiffAgainInv ==
  ASSUME Inv, NEW p \in Workers, DiffAgain(p)
  PROVE  Inv'
<1>1. /\ worker[p].pc = "diff_again"
      /\ UNCHANGED <<flow, review, journal, record, tree, ref, quoted, remote, faults>>
      /\ lock \in Workers \cup {"free", "orphan"}
  BY DEF DiffAgain, Me, rows, Inv, TypeInv, TypeOK
<1>2. FaultsOK' /\ review' \in Reviews /\ (Approved => Approved')
  BY <1>1 DEF Inv, TypeInv, TypeOK, FaultsOK, Approved
<1>3. CASE SameDiff(p) /\ Approved
  <2>1. To(p, "journal") /\ lock' = lock
    BY <1>3 DEF DiffAgain
  <2>2. /\ tree = Tested /\ ref # None /\ ref <= tree /\ lock = p
    BY <1>1, <1>3 DEF SameDiff, Me, Inv, JobInv, UnderLock, PublishSteps
  <2>3. ref \in Contents
    BY <2>2 DEF Inv, TypeInv, TypeOK
  <2>4. ref = Tested
    BY <2>2, <2>3, BoundTypes DEF Contents
  <2>5. /\ "journal" \in Steps /\ worker[p].pc \in PublishSteps
        /\ "journal" \notin ReviewSteps \cup Guarded
    BY <1>1 DEF Steps, PublishSteps, ReviewSteps, Guarded
  <2> QED BY <1>1, <1>2, <1>3, <2>1, <2>2, <2>4, <2>5, QuietTo
<1>4. CASE ~(SameDiff(p) /\ Approved)
  <2>1. End(p, Refused)
    BY <1>4 DEF DiffAgain, Give
  <2> QED BY <1>1, <1>2, <2>1, RefusedType, QuietEnd
<1> QED BY <1>3, <1>4

\* The commit is made once, of the tree as it is.
LEMMA PrepareInv ==
  ASSUME Inv, NEW p \in Workers, Prepare(p)
  PROVE  Inv'
<1>1. /\ worker[p].pc = "prepare"
      /\ UNCHANGED <<flow, review, journal, record, tree, quoted, remote, faults>>
      /\ lock \in Workers \cup {"free", "orphan"} /\ tree \in Contents
  BY DEF Prepare, Me, rows, Inv, TypeInv, TypeOK
<1>2. /\ FaultsOK' /\ review' \in Reviews /\ (Approved => Approved')
      /\ JobInv(p) /\ PublishedInv
  BY <1>1 DEF Inv, TypeInv, TypeOK, FaultsOK, Approved
<1>3. CASE ref \in {None, tree}
  <2>1. ref' = tree /\ To(p, "diff_again") /\ lock' = lock
    BY <1>3 DEF Prepare
  <2>2. /\ worker' \in [Workers -> Jobs] /\ worker'[p].pc = "diff_again"
        /\ worker'[p].diff = worker[p].diff
        /\ \A q \in Workers : q # p => worker'[q] = worker[q]
    BY <2>1, ToJob DEF Steps, Inv, TypeInv
  <2>3. TypeInv'
    BY <1>1, <2>1, <2>2 DEF Inv, TypeInv, TypeOK, FlowInv
  <2>4. Steady
    BY <1>1, <1>2, <1>3, <2>1, BoundTypes
    DEF Steady, Recorded, Inv, TypeInv, TypeOK, Remotes
  <2>5. journal.status # "none" => ref' = ref
    BY <1>2, <2>4, BoundTypes DEF PublishedInv, Steady
  <2>6. PublishedInv'
    BY <1>1, <1>2, <2>5 DEF PublishedInv, Recorded
  <2>7. JobInv(p)'
    <3>1. /\ lock' = p /\ Approved' /\ worker'[p].diff = Tested
          /\ ref' # None /\ ref' <= tree'
          /\ flow'.owner = p => flow'.stage = "publish"
      BY <1>1, <1>2, <2>1, <2>2, BoundTypes
      DEF JobInv, UnderLock, PublishSteps, Contents
    <3> QED BY <2>2, <3>1 DEF JobInv, ReviewSteps, Guarded
  <2>8. \A q \in Workers : q # p => Keeps(q)
    BY <1>1, <2>1, <2>2 DEF Keeps
  <2> QED BY <2>3, <2>4, <2>6, <2>7, <2>8, StepOf
<1>4. CASE ref \notin {None, tree}
  <2>1. End(p, Refused) /\ ref' = ref
    BY <1>4 DEF Prepare, Give
  <2> QED BY <1>1, <1>2, <2>1, RefusedType, QuietEnd
<1> QED BY <1>3, <1>4

-----------------------------------------------------------------------------
(* Publication: the journal and GitHub *)

\* The journal is written once and afterwards only confirmed.
LEMMA JournalInv ==
  ASSUME Inv, NEW p \in Workers, Journal(p)
  PROVE  Inv'
<1>1. /\ worker[p].pc = "journal" /\ worker[p] \in Jobs
      /\ UNCHANGED <<flow, review, record, tree, ref, quoted, remote, faults>>
      /\ lock \in Workers \cup {"free", "orphan"}
  BY DEF Journal, Me, Inv, TypeInv, TypeOK
<1>2. /\ FaultsOK' /\ review' \in Reviews /\ (Approved => Approved')
      /\ JobInv(p) /\ PublishedInv
  BY <1>1 DEF Inv, TypeInv, TypeOK, FaultsOK, Approved
<1>3. /\ lock = p /\ Approved /\ ref = Tested
      /\ flow.owner = p => flow.stage = "publish"
  BY <1>1, <1>2 DEF JobInv, UnderLock, PublishSteps
<1>4. CASE journal.status = "none"
  <2>1. /\ journal' = [status |-> "running", commit |-> ref, quote |-> worker[p].quote]
        /\ To(p, "lookup") /\ lock' = lock
    BY <1>4 DEF Journal, Me
  <2>2. /\ worker' \in [Workers -> Jobs] /\ worker'[p].pc = "lookup"
        /\ worker'[p].quote = worker[p].quote
        /\ \A q \in Workers : q # p => worker'[q] = worker[q]
    BY <2>1, ToJob DEF Steps, Inv, TypeInv
  <2>3. journal' \in Journals
    BY <1>1, <1>3, <2>1, BoundTypes DEF Journals, Jobs
  <2>4. TypeInv'
    BY <1>1, <2>1, <2>2, <2>3 DEF Inv, TypeInv, TypeOK, FlowInv
  <2>5. /\ journal'.status = "running" /\ journal'.commit = Tested
        /\ journal'.quote = worker[p].quote
    BY <1>3, <2>1
  <2>6. Steady
    BY <1>1, <1>2, <1>4, BoundTypes
    DEF Steady, Recorded, Inv, TypeInv, TypeOK, Remotes
  <2>7. PublishedInv'
    BY <1>1, <1>2, <1>3, <1>4, <2>5 DEF PublishedInv, Recorded
  <2>8. JobInv(p)'
    BY <1>1, <1>3, <2>1, <2>2, <2>5 DEF JobInv, ReviewSteps, Guarded
  <2>9. \A q \in Workers : q # p => Keeps(q)
    BY <1>1, <2>1, <2>2 DEF Keeps
  <2> QED BY <2>4, <2>6, <2>7, <2>8, <2>9, StepOf
<1>5. CASE journal.status # "none" /\ SamePublication(p)
  <2>1. To(p, "lookup") /\ lock' = lock /\ journal' = journal
    BY <1>5 DEF Journal
  <2>2. journal.quote = worker[p].quote
    BY <1>5 DEF SamePublication, Me
  <2>3. /\ "lookup" \in Steps /\ worker[p].pc \in PublishSteps /\ "lookup" \notin ReviewSteps
    BY <1>1 DEF Steps, PublishSteps, ReviewSteps
  <2> QED BY <1>1, <1>2, <1>3, <1>5, <2>1, <2>2, <2>3, QuietTo
<1>6. CASE journal.status # "none" /\ ~SamePublication(p)
  <2>1. End(p, Refused) /\ journal' = journal
    BY <1>6 DEF Journal, Give
  <2> QED BY <1>1, <1>2, <2>1, RefusedType, QuietEnd
<1> QED BY <1>4, <1>5, <1>6

\* What a job that deals with GitHub knows.
LEMMA GuardedKnows ==
  ASSUME Inv, NEW p \in Workers, worker[p].pc \in Guarded
  PROVE  /\ worker[p].pc \in PublishSteps /\ worker[p].pc \in UnderLock
         /\ lock = p /\ journal.status # "none" /\ journal.quote = worker[p].quote
         /\ Approved /\ ref = Tested /\ journal.commit = Tested
         /\ flow.owner = p => flow.stage = "publish"
  BY DEF Inv, JobInv, PublishedInv, UnderLock, PublishSteps, Guarded

\* It gives up, or goes on with its answer, and has written nothing.
LEMMA GuardedTo ==
  ASSUME Inv, NEW p \in Workers, NEW pc \in {"push", "find", "create", "abort"},
         worker[p].pc \in Guarded, To(p, pc),
         UNCHANGED <<flow, review, journal, record, tree, ref, quoted, lock, remote>>,
         FaultsOK', pc = "create" => Len(remote.pulls) = 0
  PROVE  Inv'
<1>1. /\ pc \in Steps /\ pc \in PublishSteps /\ pc \notin ReviewSteps
      /\ pc # "finish" /\ pc \notin {"diff", "prepare", "diff_again", "checkpoint", "journal"}
  BY DEF Steps, PublishSteps, ReviewSteps, Guarded
<1>2. lock \in Workers \cup {"free", "orphan"}
  BY DEF Inv, TypeInv, TypeOK
<1> QED BY <1>1, <1>2, GuardedKnows, QuietTo

\* Looking at the branch changes nothing.
LEMMA LookupInv ==
  ASSUME Inv, NEW p \in Workers, Lookup(p)
  PROVE  Inv'
<1>1. /\ worker[p].pc \in Guarded
      /\ UNCHANGED <<flow, review, journal, record, tree, ref, quoted, lock, remote, faults>>
  BY DEF Lookup, Me, rows, site, Guarded
<1>2. FaultsOK'
  BY <1>1 DEF Inv, TypeInv, TypeOK, FaultsOK
<1>3. To(p, "push") \/ To(p, "find") \/ To(p, "abort")
  <2>1. CASE remote.branch = None
    BY <2>1 DEF Lookup
  <2>2. CASE remote.branch # None /\ remote.branch = ref
    BY <2>2 DEF Lookup
  <2>3. CASE remote.branch # None /\ remote.branch # ref
    BY <2>3 DEF Lookup
  <2> QED BY <2>1, <2>2, <2>3
<1> QED BY <1>1, <1>2, <1>3, GuardedTo

\* Whoever goes on to open a pull request has found none, and holds the lock.
LEMMA FindInv ==
  ASSUME Inv, NEW p \in Workers, Find(p)
  PROVE  Inv'
<1>1. /\ worker[p].pc = "find" /\ worker[p].pc \in Guarded /\ worker[p] \in Jobs
      /\ UNCHANGED <<flow, review, journal, record, tree, ref, quoted, lock, remote, faults>>
  BY DEF Find, Me, rows, site, Guarded, Inv, TypeInv, TypeOK
<1>2. FaultsOK' /\ (Approved <=> Approved')
  BY <1>1 DEF Inv, TypeInv, TypeOK, FaultsOK, Approved
<1>3. Found = 1..Len(remote.pulls) /\ Len(remote.pulls) \in Nat
  BY DEF Found, Inv, TypeInv, TypeOK, Remotes
<1>4. CASE Found = {}
  <2>1. To(p, "create")
    BY <1>4 DEF Find
  <2>2. Len(remote.pulls) = 0
    <3>1. Len(remote.pulls) > 0 => 1 \in Found
      BY <1>3
    <3> QED BY <1>3, <1>4, <3>1
  <2> QED BY <1>1, <1>2, <2>1, <2>2, GuardedTo
<1>5. CASE Found # {}
  <2>1. PICK n \in Found :
          \/ Go(p, [worker[p] EXCEPT !.pc = "finish", !.pull = n])
          \/ To(p, "abort")
    BY <1>5 DEF Find, Me
  <2>2. CASE To(p, "abort")
    BY <1>1, <1>2, <2>2, GuardedTo
  <2>3. CASE Go(p, [worker[p] EXCEPT !.pc = "finish", !.pull = n])
    <3> DEFINE j == [worker[p] EXCEPT !.pc = "finish", !.pull = n]
    <3>1. n \in Nat /\ n \in 1..Len(remote.pulls)
      BY <1>3, <2>1
    <3>2. j \in Jobs /\ j.pc = "finish" /\ j.pull = n /\ j.quote = worker[p].quote
      BY <1>1, <3>1, Zenon DEF Jobs, Steps
    <3>3. Go(p, j)
      BY <2>3
    <3> HIDE DEF j
    <3>4. /\ worker' \in [Workers -> Jobs] /\ worker'[p] = j
          /\ \A q \in Workers : q # p => worker'[q] = worker[q]
      BY <3>2, <3>3, GoJob DEF Inv, TypeInv
    <3>5. JobInv(p)'
      BY <1>1, <3>1, <3>2, <3>4, GuardedKnows DEF JobInv, ReviewSteps, Guarded
    <3> QED BY <1>1, <1>2, <3>4, <3>5, QuietStep DEF Inv, TypeInv, TypeOK
  <2> QED BY <2>1, <2>2, <2>3
<1> QED BY <1>4, <1>5

\* A step that writes to GitHub or to what follows from it, and to no other row.
LEMMA WriteStep ==
  ASSUME Inv, NEW p \in Workers, worker[p].pc \in Guarded,
         UNCHANGED <<flow, review, journal, record, tree, ref, quoted, lock>>,
         FaultsOK', remote' \in Remotes,
         Len(remote.pulls) <= Len(remote'.pulls), Len(remote'.pulls) <= 1,
         remote'.branch \in {None, Foreign, Tested},
         \A n \in 1..Len(remote'.pulls) :
            /\ remote'.pulls[n].quote = journal.quote
            /\ remote'.pulls[n].head \in {Tested, Foreign},
         worker' \in [Workers -> Jobs],
         \A q \in Workers : q # p => worker'[q] = worker[q],
         worker'[p].quote = worker[p].quote,
         worker'[p].pc \in {"find", "finish", "abort"},
         worker'[p].pc = "finish" => worker'[p].pull \in 1..Len(remote'.pulls)
  PROVE  Inv'
<1>1. TypeInv'
  BY DEF Inv, TypeInv, TypeOK, FlowInv, FaultsOK
<1>2. /\ lock = p /\ journal.status # "none" /\ journal.quote = worker[p].quote
      /\ Approved /\ ref = Tested
      /\ flow.owner = p => flow.stage = "publish"
  BY GuardedKnows
<1>3. Approved' <=> Approved
  BY DEF Approved
<1>4. /\ Len(remote.pulls) \in Nat /\ Len(remote'.pulls) \in Nat /\ tree \in Nat
  BY BoundTypes DEF Remotes, Inv, TypeInv, TypeOK
<1>5. Recorded => Recorded'
  BY <1>4 DEF Recorded
<1>6. Steady
  BY <1>3, <1>4, <1>5 DEF Steady
<1>7. PublishedInv'
  BY <1>2, <1>3, <1>5 DEF Inv, PublishedInv
<1>8. JobInv(p)'
  <2>1. /\ lock' = p /\ journal'.status # "none" /\ journal'.quote = worker'[p].quote
        /\ flow'.owner = p => flow'.stage = "publish"
    BY <1>2
  <2>2. /\ worker'[p].pc # "checkpoint" /\ worker'[p].pc # "create"
        /\ worker'[p].pc # "journal" /\ worker'[p].pc \notin ReviewSteps
        /\ worker'[p].pc \notin {"diff", "prepare", "diff_again"}
    BY DEF ReviewSteps
  <2> QED BY <2>1, <2>2 DEF JobInv
<1>9. \A q \in Workers : q # p => Keeps(q)
  BY <1>2 DEF Keeps
<1> QED BY <1>1, <1>6, <1>7, <1>8, <1>9, StepOf

\* The job goes on with the answer, or aborts without it.
LEMMA AnsweredJob ==
  ASSUME Inv, NEW p \in Workers, NEW pc \in Steps, Answered(p, pc)
  PROVE  /\ FaultsOK'
         /\ worker' \in [Workers -> Jobs]
         /\ worker'[p].pc \in {pc, "abort"}
         /\ worker'[p].quote = worker[p].quote /\ worker'[p].pull = worker[p].pull
         /\ \A q \in Workers : q # p => worker'[q] = worker[q]
<1>1. \/ To(p, pc) /\ faults' = faults
      \/ /\ To(p, "abort") /\ faults.failed < Failures
         /\ faults' = [faults EXCEPT !.failed = @ + 1]
  BY DEF Answered
<1>2. faults \in [failed : 0..Failures, broken : 0..Interruptions, meddled : BOOLEAN]
  BY DEF Inv, TypeInv, TypeOK
<1>3. FaultsOK'
  BY <1>1, <1>2, BoundTypes DEF FaultsOK
<1>4. "abort" \in Steps
  BY DEF Steps
<1> QED BY <1>1, <1>3, <1>4, ToJob DEF Inv, TypeInv

\* What is pushed is the tested tree.
LEMMA PushInv ==
  ASSUME Inv, NEW p \in Workers, Push(p)
  PROVE  Inv'
<1>1. /\ worker[p].pc \in Guarded /\ remote \in Remotes
      /\ UNCHANGED <<flow, review, journal, record, tree, ref, quoted, lock>>
  BY DEF Push, Me, rows, Guarded, Inv, TypeInv, TypeOK
<1>2. CASE PushAllowed
  <2>1. remote' = [remote EXCEPT !.branch = ref] /\ Answered(p, "find")
    BY <1>2 DEF Push
  <2>2. ref = Tested
    BY <1>1, GuardedKnows
  <2>3. remote' \in Remotes /\ remote'.branch = Tested /\ remote'.pulls = remote.pulls
    BY <1>1, <2>1, <2>2, BoundTypes, Zenon DEF Remotes
  <2>4. /\ Len(remote.pulls) <= 1 /\ Len(remote.pulls) \in Nat
        /\ \A n \in 1..Len(remote.pulls) :
              /\ remote.pulls[n].quote = journal.quote
              /\ remote.pulls[n].head \in {Tested, Foreign}
    BY <1>1 DEF Inv, PublishedInv, Remotes
  <2>5. "find" \in Steps
    BY DEF Steps
  <2> QED BY <1>1, <2>1, <2>3, <2>4, <2>5, AnsweredJob, WriteStep
<1>3. CASE ~PushAllowed
  <2>1. To(p, "abort") /\ remote' = remote /\ faults' = faults
    BY <1>3 DEF Push
  <2>2. FaultsOK'
    BY <2>1 DEF Inv, TypeInv, TypeOK, FaultsOK
  <2> QED BY <1>1, <2>1, <2>2, GuardedTo
<1> QED BY <1>2, <1>3

\* Under the lock nobody else opened one since it was looked for.
LEMMA CreateInv ==
  ASSUME Inv, NEW p \in Workers, Create(p)
  PROVE  Inv'
<1>1. /\ worker[p].pc = "create" /\ worker[p].pc \in Guarded /\ remote \in Remotes
      /\ worker[p] \in Jobs
      /\ UNCHANGED <<flow, review, journal, record, tree, ref, quoted, lock>>
  BY DEF Create, Me, rows, Guarded, Inv, TypeInv, TypeOK
<1>2. faults \in [failed : 0..Failures, broken : 0..Interruptions, meddled : BOOLEAN]
  BY DEF Inv, TypeInv, TypeOK
<1> DEFINE allowed == /\ remote.branch # None
                      /\ \A n \in DOMAIN remote.pulls : ~remote.pulls[n].open
<1>3. CASE allowed
  <2> DEFINE pull == [head |-> remote.branch, quote |-> worker[p].quote,
                      marked |-> TRUE, open |-> TRUE]
             j == [worker[p] EXCEPT !.pull = Len(remote.pulls) + 1,
                                    !.pc = IF Ours(pull) THEN "finish" ELSE "abort"]
  <2>1. /\ remote' = [remote EXCEPT !.pulls = Append(@, pull)]
        /\ \/ Go(p, j) /\ faults' = faults
           \/ /\ faults.failed < Failures /\ To(p, "abort")
              /\ faults' = [faults EXCEPT !.failed = @ + 1]
    BY <1>3 DEF Create, Me
  <2>2. /\ remote.branch \in {Tested, Foreign}
        /\ Len(remote.pulls) = 0 /\ remote.pulls \in Seq(Pulls)
        /\ journal.quote = worker[p].quote
    BY <1>1, <1>3, GuardedKnows DEF Inv, PublishedInv, JobInv, Remotes
  <2>3. pull \in Pulls /\ pull.head = remote.branch /\ pull.quote = worker[p].quote
    BY <1>1, <2>2, BoundTypes DEF Pulls, Jobs
  <2>4. Len(remote.pulls) + 1 = 1 /\ 1 \in Nat
    BY <2>2
  <2>5. j \in Jobs /\ j.pc \in {"finish", "abort"} /\ j.pull = 1 /\ j.quote = worker[p].quote
    <3> HIDE DEF pull
    <3> QED BY <1>1, <2>4, Zenon DEF Jobs, Steps
  <2> HIDE DEF pull, j
  <2>6. /\ Append(remote.pulls, pull) \in Seq(Pulls)
        /\ Len(Append(remote.pulls, pull)) = 1 /\ Append(remote.pulls, pull)[1] = pull
    BY <2>2, <2>3
  <2>7. /\ remote' \in Remotes /\ remote'.branch = remote.branch
        /\ remote'.pulls = Append(remote.pulls, pull)
    BY <1>1, <2>1, <2>6, Zenon DEF Remotes
  <2>8. /\ Len(remote'.pulls) = 1
        /\ \A n \in 1..Len(remote'.pulls) :
              /\ remote'.pulls[n].quote = journal.quote
              /\ remote'.pulls[n].head \in {Tested, Foreign}
    BY <2>2, <2>3, <2>6, <2>7
  <2>9. FaultsOK'
    BY <1>2, <2>1, BoundTypes DEF FaultsOK
  <2>10. /\ worker' \in [Workers -> Jobs]
         /\ worker'[p].quote = worker[p].quote
         /\ worker'[p].pc = "abort" \/ (worker'[p].pc = "finish" /\ worker'[p].pull = 1)
         /\ \A q \in Workers : q # p => worker'[q] = worker[q]
    <3>1. CASE Go(p, j)
      BY <2>5, <3>1, GoJob DEF Inv, TypeInv
    <3>2. CASE To(p, "abort")
      BY <3>2, ToJob DEF Inv, TypeInv, Steps
    <3> QED BY <2>1, <3>1, <3>2
  <2>11. Len(remote.pulls) <= Len(remote'.pulls) /\ Len(remote'.pulls) <= 1
         /\ 1 \in 1..Len(remote'.pulls)
    BY <2>2, <2>8
  <2> QED BY <1>1, <2>2, <2>7, <2>8, <2>9, <2>10, <2>11, WriteStep
<1>4. CASE ~allowed
  <2>1. To(p, "abort") /\ remote' = remote /\ faults' = faults
    BY <1>4 DEF Create
  <2>2. FaultsOK'
    BY <1>2, <2>1 DEF FaultsOK
  <2> QED BY <1>1, <2>1, <2>2, GuardedTo
<1> QED BY <1>3, <1>4

\* Record and journal are completed together.
LEMMA RecordInv ==
  ASSUME Inv, NEW p \in Workers, Record(p)
  PROVE  Inv'
<1>1. /\ worker[p].pc = "finish" /\ worker[p].pc \in Guarded /\ worker[p] \in Jobs
      /\ UNCHANGED <<flow, review, tree, ref, quoted, remote>>
  BY DEF Record, Me, Guarded, Inv, TypeInv, TypeOK
<1>2. /\ lock = p /\ journal.status # "none" /\ journal.quote = worker[p].quote
      /\ Approved /\ ref = Tested /\ journal.commit = Tested
      /\ flow.owner = p => flow.stage = "publish"
  BY <1>1, GuardedKnows
<1>3. Approved' <=> Approved
  BY <1>1 DEF Approved
<1>4. worker[p].pull \in 1..Len(remote.pulls) /\ Len(remote.pulls) \in Nat
  BY <1>1 DEF Inv, JobInv, TypeInv, TypeOK, Remotes
<1>5. /\ lock \in Workers \cup {"free", "orphan"} /\ journal \in Journals /\ FaultsOK
  BY DEF Inv, TypeInv, TypeOK, FaultsOK
<1>6. CASE record \in {None, worker[p].pull}
  <2>1. /\ record' = worker[p].pull
        /\ journal' = [journal EXCEPT !.status = "completed"]
        /\ \/ End(p, "ok") /\ faults' = faults
           \/ Answered(p, "abort") /\ lock' = lock
    BY <1>6 DEF Record, Me
  <2>2. /\ journal' \in Journals /\ journal'.status = "completed"
        /\ journal'.commit = journal.commit /\ journal'.quote = journal.quote
    BY <1>5, <2>1 DEF Journals
  <2>3. Recorded' /\ record' \in Nat
    BY <1>1, <1>4, <2>1, <2>2 DEF Recorded
  <2>4. /\ worker' \in [Workers -> Jobs]
        /\ \A q \in Workers : q # p => worker'[q] = worker[q]
        /\ FaultsOK' /\ lock' \in Workers \cup {"free", "orphan"}
        /\ \/ worker'[p].pc = "checkpoint" /\ lock' = "free"
           \/ worker'[p].pc = "abort" /\ lock' = p
    <3>1. CASE End(p, "ok") /\ faults' = faults
      BY <1>2, <1>5, <3>1, EndJob DEF Inv, TypeInv, FaultsOK
    <3>2. CASE Answered(p, "abort") /\ lock' = lock
      BY <1>2, <1>5, <3>2, AnsweredJob DEF Steps
    <3> QED BY <2>1, <3>1, <3>2
  <2>5. TypeInv'
    BY <1>1, <2>2, <2>3, <2>4 DEF Inv, TypeInv, TypeOK, FlowInv, FaultsOK
  <2>6. PublishedInv'
    BY <1>1, <1>2, <1>3, <2>2, <2>3 DEF Inv, PublishedInv
  <2>7. tree \in Nat
    BY BoundTypes DEF Inv, TypeInv, TypeOK
  <2>8. Steady
    BY <1>1, <1>3, <1>4, <2>2, <2>3, <2>7 DEF Steady
  <2>9. JobInv(p)'
    BY <1>1, <1>2, <2>2, <2>3, <2>4 DEF JobInv, UnderLock, PublishSteps, ReviewSteps, Guarded
  <2>10. \A q \in Workers : q # p => Keeps(q)
    BY <1>1, <1>2, <2>4 DEF Keeps
  <2> QED BY <2>5, <2>6, <2>8, <2>9, <2>10, StepOf
<1>7. CASE record \notin {None, worker[p].pull}
  <2>1. /\ To(p, "abort") /\ UNCHANGED <<record, journal, lock, faults>>
    BY <1>7 DEF Record, Me
  <2>2. FaultsOK'
    BY <1>5, <2>1 DEF FaultsOK
  <2> QED BY <1>1, <2>1, <2>2, GuardedTo
<1> QED BY <1>6, <1>7

\* A step that at most stops a running journal, and the review with it.
LEMMA StoppedJournal ==
  ASSUME Inv, UNCHANGED <<record, tree, ref, quoted, remote>>,
         review' \in Reviews, Approved => Approved',
         journal' = journal \/ (/\ journal.status \notin {"none", "completed"}
                                /\ journal' = [journal EXCEPT !.status = "failed"])
  PROVE  /\ journal' \in Journals
         /\ Steady
         /\ flow' = flow \/ (flow' \in Flows /\ flow'.status # "completed") => PublishedInv'
<1>1. journal \in Journals /\ Len(remote.pulls) \in Nat /\ tree \in Nat
  BY BoundTypes DEF Inv, TypeInv, TypeOK, Remotes
<1>2. /\ journal' \in Journals
      /\ journal.status = "none" <=> journal'.status = "none"
      /\ journal.status = "completed" <=> journal'.status = "completed"
      /\ journal'.commit = journal.commit /\ journal'.quote = journal.quote
  BY <1>1 DEF Journals
<1>3. Recorded <=> Recorded'
  BY <1>2 DEF Recorded
<1>4. Steady
  BY <1>1, <1>2, <1>3 DEF Steady
<1>5. flow' = flow \/ (flow' \in Flows /\ flow'.status # "completed") => PublishedInv'
  BY <1>2, <1>3 DEF Inv, PublishedInv
<1> QED BY <1>2, <1>4, <1>5

\* A late failure does not undo a completed journal.
LEMMA AbortInv ==
  ASSUME Inv, NEW p \in Workers, Abort(p)
  PROVE  Inv'
<1>1. /\ worker[p].pc = "abort" /\ journal \in Journals
      /\ UNCHANGED <<flow, review, record, tree, ref, quoted, remote, faults>>
      /\ End(p, Refused)
  BY DEF Abort, Give, Me, Inv, TypeInv, TypeOK
<1>2. review' \in Reviews /\ (Approved => Approved') /\ FaultsOK'
  BY <1>1 DEF Inv, TypeInv, TypeOK, FaultsOK, Approved
<1>3. journal' = journal \/ (/\ journal.status \notin {"none", "completed"}
                             /\ journal' = [journal EXCEPT !.status = "failed"])
  <2>1. journal.status # "none"
    BY <1>1 DEF Inv, JobInv
  <2>2. CASE journal.status = "completed"
    BY <1>1, <2>2 DEF Abort, Journals
  <2>3. CASE journal.status # "completed"
    BY <2>1, <2>3 DEF Abort
  <2> QED BY <2>2, <2>3
<1>4. /\ worker' \in [Workers -> Jobs]
      /\ worker'[p].pc = "checkpoint" /\ worker'[p].outcome # "ok"
      /\ \A q \in Workers : q # p => worker'[q] = worker[q]
      /\ lock' = IF lock = p THEN "free" ELSE lock
      /\ lock' \in Workers \cup {"free", "orphan"}
  BY <1>1, RefusedType, EndJob DEF Inv, TypeInv
<1>5. journal' \in Journals /\ Steady /\ PublishedInv'
  BY <1>1, <1>2, <1>3, StoppedJournal
<1>6. TypeInv'
  BY <1>1, <1>2, <1>4, <1>5 DEF Inv, TypeInv, TypeOK, FlowInv, FaultsOK
<1>7. JobInv(p)'
  BY <1>4 DEF JobInv, UnderLock, PublishSteps, ReviewSteps, Guarded
<1>8. \A q \in Workers : q # p => Keeps(q)
  BY <1>1, <1>4 DEF Keeps
<1> QED BY <1>5, <1>6, <1>7, <1>8, StepOf

-----------------------------------------------------------------------------
(* Failures, recovery and people *)

\* A step that raises goes to its failure path.
LEMMA RaisesInv ==
  ASSUME Inv, NEW p \in Workers, Raises(p)
  PROVE  Inv'
<1>1. /\ faults.failed < Failures /\ faults' = [faults EXCEPT !.failed = @ + 1]
      /\ UNCHANGED <<flow, review, journal, record, tree, ref, quoted, remote>>
      /\ lock \in Workers \cup {"free", "orphan"}
  BY DEF Raises, rows, Inv, TypeInv, TypeOK
<1>2. faults \in [failed : 0..Failures, broken : 0..Interruptions, meddled : BOOLEAN]
  BY DEF Inv, TypeInv, TypeOK
<1>3. FaultsOK' /\ review' \in Reviews /\ (Approved => Approved')
  <2>1. FaultsOK'
    BY <1>1, <1>2, BoundTypes DEF FaultsOK
  <2> QED BY <1>1, <2>1 DEF Inv, TypeInv, TypeOK, Approved
<1>4. CASE worker[p].pc \in Guarded
  <2>1. To(p, "abort") /\ lock' = lock
    BY <1>4 DEF Raises, Me, Guarded
  <2> QED BY <1>1, <1>3, <1>4, <2>1, GuardedTo
<1>5. CASE worker[p].pc \in {"read", "reading", "asking", "decided"}
  <2>1. To(p, "review_failed") /\ lock' = lock
    BY <1>5 DEF Raises, Me, Guarded
  <2>2. /\ "review_failed" \in Steps /\ worker[p].pc \in ReviewSteps
        /\ "review_failed" \notin PublishSteps \cup UnderLock \cup Guarded
    BY <1>5 DEF Steps, ReviewSteps, PublishSteps, UnderLock, Guarded
  <2> QED BY <1>1, <1>3, <2>1, <2>2, QuietTo
<1>6. CASE worker[p].pc \notin Guarded \cup {"read", "reading", "asking", "decided"}
  <2>1. End(p, Refused)
    BY <1>6 DEF Raises, Me, Guarded
  <2> QED BY <1>1, <1>3, <2>1, RefusedType, QuietEnd
<1> QED BY <1>4, <1>5, <1>6

\* A worker that dies leaves the lock orphaned.
LEMMA CrashInv ==
  ASSUME Inv, NEW p \in Workers, Crash(p)
  PROVE  Inv'
<1>1. /\ Go(p, NoJob) /\ lock' = IF lock = p THEN "orphan" ELSE lock
      /\ faults.broken < Interruptions /\ faults' = [faults EXCEPT !.broken = @ + 1]
      /\ UNCHANGED <<flow, review, journal, record, tree, ref, quoted, remote>>
      /\ lock \in Workers \cup {"free", "orphan"}
  BY DEF Crash, Interrupt, rows, Inv, TypeInv, TypeOK
<1>2. faults \in [failed : 0..Failures, broken : 0..Interruptions, meddled : BOOLEAN]
  BY DEF Inv, TypeInv, TypeOK
<1>3. FaultsOK'
  BY <1>1, <1>2, BoundTypes DEF FaultsOK
<1>4. /\ worker' \in [Workers -> Jobs] /\ worker'[p].pc = "idle"
      /\ \A q \in Workers : q # p => worker'[q] = worker[q]
  BY <1>1, GoJob, NoJobType DEF Inv, TypeInv
<1>5. JobInv(p)'
  BY <1>4 DEF JobInv, UnderLock, PublishSteps, ReviewSteps, Guarded
<1>6. review' \in Reviews /\ (Approved => Approved')
  BY <1>1 DEF Inv, TypeInv, TypeOK, Approved
<1> QED BY <1>1, <1>3, <1>4, <1>5, <1>6, QuietStep DEF FaultsOK

\* A step that is no worker's.
LEMMA ElsewhereStep ==
  ASSUME Inv, UNCHANGED worker, TypeInv', PublishedInv', Steady,
         \A q \in Workers : lock = q => lock' = q,
         Len(remote.pulls) = 0 => Len(remote'.pulls) = 0,
         \A q \in Workers : flow'.owner = q => flow.owner = q /\ flow'.stage = flow.stage
  PROVE  Inv'
<1>1. \A q \in Workers : Keeps(q)
  BY DEF Keeps
<1> QED BY <1>1, OthersKeep DEF Inv

\* An operator removes an orphaned lock only.
LEMMA RepairLockInv ==
  ASSUME Inv, RepairLock
  PROVE  Inv'
<1>1. /\ lock = "orphan" /\ lock' = "free"
      /\ UNCHANGED <<flow, review, journal, record, tree, ref, quoted, remote, worker, faults>>
  BY DEF RepairLock, rows
<1>2. TypeInv' /\ PublishedInv'
  BY <1>1 DEF Inv, TypeInv, TypeOK, FlowInv, PublishedInv, Recorded, Approved
<1>3. Steady
  BY <1>1, BoundTypes DEF Steady, Recorded, Approved, Inv, TypeInv, TypeOK, Remotes
<1> QED BY <1>1, <1>2, <1>3, WorkerNames, ElsewhereStep

\* Stopping an agent takes nothing back.
LEMMA StoppedAgents ==
  ASSUME Inv
  PROVE  /\ Stopped(review) \in Reviews
         /\ review.status = "completed" => Stopped(review) = review
         /\ \/ Stopped(journal) = journal
            \/ /\ journal.status \notin {"none", "completed"}
               /\ Stopped(journal) = [journal EXCEPT !.status = "failed"]
<1>1. review \in Reviews /\ journal \in Journals
  BY DEF Inv, TypeInv, TypeOK
<1>2. Stopped(review) \in Reviews /\ (review.status = "completed" => Stopped(review) = review)
  BY <1>1 DEF Stopped, Reviews
<1>3. CASE journal.status = "running"
  BY <1>2, <1>3 DEF Stopped
<1>4. CASE journal.status # "running"
  <2>1. Stopped(journal) = journal
    BY <1>1, <1>4 DEF Stopped, Journals
  <2> QED BY <1>2, <2>1
<1> QED BY <1>3, <1>4

\* A lease that runs out takes the workflow from its owner, and nothing from its job.
LEMMA ExpireInv ==
  ASSUME Inv, Expire
  PROVE  Inv'
<1>1. /\ flow.status = "running"
      /\ flow' = [flow EXCEPT !.status = Refused, !.owner = Nobody]
      /\ UNCHANGED <<record, tree, ref, quoted, lock, remote, worker>>
      /\ flow \in Flows /\ FlowInv
  BY DEF Expire, site, Inv, TypeInv, TypeOK
<1>2. \/ review' = review /\ journal' = journal
      \/ review' = Stopped(review) /\ journal' = Stopped(journal)
  BY DEF Expire
<1>3. review' \in Reviews /\ (Approved => Approved')
  BY <1>2, StoppedAgents DEF Approved, Inv, TypeInv, TypeOK
<1>4. /\ flow' \in Flows /\ flow'.status \in {"failed", "blocked"} /\ flow'.owner = Nobody
      /\ flow'.stage = flow.stage
  <2>1. Nobody \in Workers \cup {Nobody}
    OBVIOUS
  <2> QED BY <1>1, <2>1, RefusedType, Zenon DEF Flows
<1>5. journal' \in Journals /\ Steady /\ PublishedInv'
  BY <1>1, <1>2, <1>3, <1>4, StoppedAgents, StoppedJournal
<1>6. FaultsOK'
  <2>1. faults \in [failed : 0..Failures, broken : 0..Interruptions, meddled : BOOLEAN]
    BY DEF Inv, TypeInv, TypeOK
  <2>2. \/ faults' = faults
        \/ faults.broken < Interruptions /\ faults' = [faults EXCEPT !.broken = @ + 1]
    BY DEF Expire, Interrupt
  <2> QED BY <2>1, <2>2, BoundTypes DEF FaultsOK
<1>7. TypeInv'
  BY <1>1, <1>3, <1>4, <1>5, <1>6 DEF Inv, TypeInv, TypeOK, FlowInv, FaultsOK
<1> QED BY <1>1, <1>4, <1>5, <1>7, WorkerNames, ElsewhereStep

\* Beat fails agents that are not completed.
LEMMA RecoverStaleInv ==
  ASSUME Inv, RecoverStale
  PROVE  Inv'
<1>1. /\ review' = Stopped(review) /\ journal' = Stopped(journal)
      /\ UNCHANGED <<flow, record, tree, ref, quoted, lock, remote, worker, faults>>
  BY DEF RecoverStale, site
<1>2. review' \in Reviews /\ (Approved => Approved')
  BY <1>1, StoppedAgents DEF Approved
<1>3. journal' \in Journals /\ Steady /\ PublishedInv'
  BY <1>1, <1>2, StoppedAgents, StoppedJournal
<1>4. TypeInv'
  BY <1>1, <1>2, <1>3 DEF Inv, TypeInv, TypeOK, FlowInv
<1> QED BY <1>1, <1>3, <1>4, ElsewhereStep

\* Requests of the API move workflows that have no owner.
LEMMA RequestInv ==
  ASSUME Inv, Resume \/ Cancel
  PROVE  Inv'
<1>1. /\ UNCHANGED <<review, journal, record, tree, ref, quoted, lock, remote, worker, faults>>
      /\ flow \in Flows /\ FlowInv
  BY DEF Resume, Cancel, site, Inv, TypeInv, TypeOK
<1>2. /\ flow' \in Flows /\ flow'.status \in {"pending", "cancelled"}
      /\ flow'.status = "pending" => flow'.attempts < AttemptLimit
      /\ flow'.owner = flow.owner /\ flow'.stage = flow.stage
      /\ flow.status \notin {"running", "completed"}
  BY <1>1 DEF Resume, Cancel, Flows
<1>3. TypeInv'
  BY <1>1, <1>2 DEF Inv, TypeInv, TypeOK, FlowInv
<1>4. PublishedInv'
  BY <1>1, <1>2 DEF Inv, PublishedInv, Recorded, Approved
<1>5. Steady
  BY <1>1, BoundTypes DEF Steady, Recorded, Approved, Inv, TypeInv, TypeOK, Remotes
<1> QED BY <1>1, <1>2, <1>3, <1>4, <1>5, ElsewhereStep

\* Changes and imports leave what was journalled.
LEMMA ChangeInv ==
  ASSUME Inv, Change \/ Import
  PROVE  Inv'
<1>1. /\ UNCHANGED <<flow, review, journal, record, ref, lock, remote, worker, faults>>
      /\ \/ tree <= Tested + Changes - 1 /\ tree' = tree + 1 /\ quoted' = quoted
         \/ quoted <= Imports /\ quoted' = quoted + 1 /\ tree' = tree
      /\ tree \in Contents /\ quoted \in 1..(Imports + 1)
  BY DEF Change, Import, rows, Inv, TypeInv, TypeOK
<1>2. tree' \in Contents /\ quoted' \in 1..(Imports + 1) /\ tree <= tree'
  BY <1>1, BoundTypes DEF Contents
<1>3. TypeInv'
  BY <1>1, <1>2 DEF Inv, TypeInv, TypeOK, FlowInv
<1>4. PublishedInv'
  BY <1>1 DEF Inv, PublishedInv, Recorded, Approved
<1>5. Steady
  BY <1>1, <1>2, BoundTypes DEF Steady, Recorded, Approved, Inv, TypeInv, TypeOK, Remotes
<1> QED BY <1>1, <1>3, <1>4, <1>5, ElsewhereStep

\* What people may make of one pull request.
LEMMA MeddledPull ==
  ASSUME NEW x \in Pulls
  PROVE  /\ [x EXCEPT !.head = Foreign] \in Pulls
         /\ [x EXCEPT !.open = FALSE] \in Pulls
         /\ [x EXCEPT !.marked = FALSE] \in Pulls
         /\ [x EXCEPT !.head = Foreign].quote = x.quote
         /\ [x EXCEPT !.head = Foreign].head = Foreign
         /\ [x EXCEPT !.open = FALSE].quote = x.quote
         /\ [x EXCEPT !.open = FALSE].head = x.head
         /\ [x EXCEPT !.marked = FALSE].quote = x.quote
         /\ [x EXCEPT !.marked = FALSE].head = x.head
  BY DEF Pulls

\* A function on 1..n is a sequence of length n.
LEMMA SequenceOf ==
  ASSUME NEW S, NEW n \in Nat, NEW k \in [1..n -> S]
  PROVE  k \in Seq(S) /\ Len(k) = n
<1>1. k \in Seq(S)
  OBVIOUS
<1> QED BY <1>1

\* Whatever people do on GitHub, there are as many pull requests as before, and
\* what is not theirs is what it was.
LEMMA MeddledRemote ==
  ASSUME Inv, Meddle
  PROVE  /\ remote' \in Remotes /\ Len(remote'.pulls) = Len(remote.pulls)
         /\ remote'.branch \in {None, Foreign, remote.branch}
         /\ \A n \in 1..Len(remote.pulls) :
               /\ remote'.pulls[n].quote = remote.pulls[n].quote
               /\ remote'.pulls[n].head \in {Foreign, remote.pulls[n].head}
<1> DEFINE pulls == remote.pulls
           N == Len(remote.pulls)
<1>1. /\ remote \in Remotes /\ pulls \in Seq(Pulls) /\ N \in Nat /\ DOMAIN pulls = 1..N
      /\ pulls \in [1..N -> Pulls]
  BY DEF Inv, TypeInv, TypeOK, Remotes
<1>2. PICK k \in [1..N -> Pulls] :
        /\ remote' = [branch |-> remote'.branch, pulls |-> k]
        /\ remote'.branch \in {None, Foreign, remote.branch}
        /\ \A n \in 1..N : k[n].quote = pulls[n].quote /\ k[n].head \in {Foreign, pulls[n].head}
  <2>1. CASE remote' = [branch |-> Foreign,
                        pulls |-> [n \in DOMAIN remote.pulls |->
                            IF remote.pulls[n].open THEN [remote.pulls[n] EXCEPT !.head = Foreign]
                            ELSE remote.pulls[n]]]
    <3> DEFINE k == [n \in 1..N |-> IF pulls[n].open THEN [pulls[n] EXCEPT !.head = Foreign]
                                    ELSE pulls[n]]
    <3>1. \A n \in 1..N : /\ k[n] \in Pulls /\ k[n].quote = pulls[n].quote
                          /\ k[n].head \in {Foreign, pulls[n].head}
      BY <1>1, MeddledPull
    <3>2. k \in [1..N -> Pulls]
      BY <3>1
    <3>3. remote' = [branch |-> Foreign, pulls |-> k]
      BY <1>1, <2>1
    <3> HIDE DEF k
    <3> QED BY <3>1, <3>2, <3>3
  <2>2. CASE remote' = [branch |-> None,
                        pulls |-> [n \in DOMAIN remote.pulls |->
                                       [remote.pulls[n] EXCEPT !.open = FALSE]]]
    <3> DEFINE k == [n \in 1..N |-> [pulls[n] EXCEPT !.open = FALSE]]
    <3>1. \A n \in 1..N : /\ k[n] \in Pulls /\ k[n].quote = pulls[n].quote
                          /\ k[n].head \in {Foreign, pulls[n].head}
      BY <1>1, MeddledPull
    <3>2. k \in [1..N -> Pulls]
      BY <3>1
    <3>3. remote' = [branch |-> None, pulls |-> k]
      BY <1>1, <2>2
    <3> HIDE DEF k
    <3> QED BY <3>1, <3>2, <3>3
  <2>3. ASSUME NEW m \in DOMAIN remote.pulls,
               NEW x \in {[remote.pulls[m] EXCEPT !.open = FALSE],
                          [remote.pulls[m] EXCEPT !.marked = FALSE]},
               remote' = [remote EXCEPT !.pulls = [@ EXCEPT ![m] = x]]
        PROVE  \E k \in [1..N -> Pulls] :
                 /\ remote' = [branch |-> remote'.branch, pulls |-> k]
                 /\ remote'.branch \in {None, Foreign, remote.branch}
                 /\ \A n \in 1..N : /\ k[n].quote = pulls[n].quote
                                    /\ k[n].head \in {Foreign, pulls[n].head}
    <3> DEFINE k == [pulls EXCEPT ![m] = x]
    <3>1. m \in 1..N /\ x \in Pulls /\ x.quote = pulls[m].quote /\ x.head = pulls[m].head
      <4>1. m \in 1..N /\ remote.pulls[m] \in Pulls
        BY <1>1
      <4>2. x = [remote.pulls[m] EXCEPT !.open = FALSE]
            \/ x = [remote.pulls[m] EXCEPT !.marked = FALSE]
        BY <2>3
      <4> QED BY <4>1, <4>2, MeddledPull
    <3> HIDE DEF pulls, N
    <3>2. k \in [1..N -> Pulls]
      BY <1>1, <3>1
    <3>3. \A n \in 1..N : k[n].quote = pulls[n].quote /\ k[n].head \in {Foreign, pulls[n].head}
      BY <1>1, <3>1
    <3>4. remote' = [branch |-> remote.branch, pulls |-> k]
      BY <1>1, <2>3 DEF Remotes, pulls
    <3> HIDE DEF k
    <3> QED BY <3>2, <3>3, <3>4
  <2>4. CASE \E m \in DOMAIN remote.pulls :
               \/ remote' = [remote EXCEPT !.pulls[m].open = FALSE]
               \/ remote' = [remote EXCEPT !.pulls[m].marked = FALSE]
    <3>1. PICK m \in DOMAIN remote.pulls :
               \/ remote' = [remote EXCEPT !.pulls[m].open = FALSE]
               \/ remote' = [remote EXCEPT !.pulls[m].marked = FALSE]
      BY <2>4
    <3>2. PICK x \in {[remote.pulls[m] EXCEPT !.open = FALSE],
                      [remote.pulls[m] EXCEPT !.marked = FALSE]} :
            remote' = [remote EXCEPT !.pulls = [@ EXCEPT ![m] = x]]
      BY <1>1, <3>1 DEF Remotes
    <3> QED BY <2>3, <3>1, <3>2
  <2> QED BY <2>1, <2>2, <2>4 DEF Meddle
<1>3. remote'.branch \in Contents \cup {None, Foreign}
  BY <1>1, <1>2 DEF Remotes
<1>4. remote'.pulls = k /\ k \in Seq(Pulls) /\ Len(k) = N
  BY <1>1, <1>2, SequenceOf
<1> HIDE DEF pulls
<1>5. remote' \in Remotes
  BY <1>2, <1>3, <1>4, Zenon DEF Remotes
<1> QED BY <1>2, <1>4, <1>5 DEF pulls

\* People on GitHub open nothing and take no record back.
LEMMA MeddleInv ==
  ASSUME Inv, Meddle
  PROVE  Inv'
<1>1. /\ UNCHANGED <<flow, review, journal, record, tree, ref, quoted, lock, worker>>
      /\ faults' = [faults EXCEPT !.meddled = TRUE]
  BY DEF Meddle, rows
<1>2. FaultsOK'
  <2>1. faults \in [failed : 0..Failures, broken : 0..Interruptions, meddled : BOOLEAN]
    BY DEF Inv, TypeInv, TypeOK
  <2> QED BY <1>1, <2>1 DEF FaultsOK
<1>3. /\ remote' \in Remotes /\ Len(remote'.pulls) = Len(remote.pulls)
      /\ remote'.branch \in {None, Foreign, remote.branch}
      /\ \A n \in 1..Len(remote.pulls) :
            /\ remote'.pulls[n].quote = remote.pulls[n].quote
            /\ remote'.pulls[n].head \in {Foreign, remote.pulls[n].head}
  BY MeddledRemote
<1>4. TypeInv'
  BY <1>1, <1>2, <1>3 DEF Inv, TypeInv, TypeOK, FlowInv, FaultsOK
<1>5. Approved' <=> Approved
  BY <1>1 DEF Approved
<1>6. Recorded' <=> Recorded
  BY <1>1, <1>3 DEF Recorded
<1>7. PublishedInv
  BY DEF Inv
<1>8. PublishedInv'
  BY <1>1, <1>3, <1>5, <1>6, <1>7 DEF PublishedInv
<1>9. Steady
  BY <1>1, <1>3, <1>5, <1>6, BoundTypes DEF Steady, Inv, TypeInv, TypeOK, Remotes
<1> QED BY <1>1, <1>3, <1>4, <1>8, <1>9, ElsewhereStep

-----------------------------------------------------------------------------
(* The theorems *)

\* At first nothing is published.
LEMMA InitInv == Init => Inv
<1> SUFFICES ASSUME Init PROVE Inv
  OBVIOUS
<1>1. /\ 1 \in 1..(Imports + 1) /\ 0 \in 0..(Imports + 1) /\ 0 \in 0..AttemptLimit
      /\ 0 \in 0..Failures /\ 0 \in 0..Interruptions /\ 0 \in Nat /\ <<>> \in Seq(Pulls)
      /\ None \in 0..(Imports + 1) /\ None \in Nat
  BY BoundTypes
<1>2. flow \in Flows /\ review \in Reviews /\ journal \in Journals
  BY <1>1 DEF Init, Flows, Reviews, Journals
<1>3. remote \in Remotes /\ remote.pulls = <<>> /\ remote.branch = None
  BY <1>1 DEF Init, Remotes
<1>4. TypeOK
  BY <1>1, <1>2, <1>3, BoundTypes, NoJobType DEF Init, TypeOK
<1>5. FlowInv
  BY BoundTypes DEF Init, FlowInv
<1>6. PublishedInv
  BY <1>3 DEF Init, PublishedInv, Recorded
<1>7. \A p \in Workers : JobInv(p)
  BY NoJobType DEF Init, JobInv, UnderLock, ReviewSteps, PublishSteps, Guarded
<1> QED BY <1>4, <1>5, <1>6, <1>7 DEF Inv, TypeInv

\* Every step keeps the invariant.
LEMMA NextInv ==
  ASSUME Inv, [Next]_vars
  PROVE  Inv'
<1>1. CASE UNCHANGED vars
  <2>1. UNCHANGED <<flow, review, journal, record, tree, ref, quoted, lock, remote, worker, faults>>
    BY <1>1 DEF vars
  <2>2. TypeInv' /\ PublishedInv' /\ Steady
    BY <2>1, BoundTypes DEF Inv, TypeInv, TypeOK, FlowInv, PublishedInv, Recorded, Approved,
                             Steady, Remotes
  <2> QED BY <2>1, <2>2, ElsewhereStep
<1>2. ASSUME NEW p \in Workers, Step(p)
      PROVE  Inv'
  BY <1>2, CheckpointInv, AcquireInv, StartReviewInv, ReadDiffInv, AnswerInv, DecideInv,
     ReviewFailsInv, GateInv, CheckInv, DiffInv, PrepareInv, DiffAgainInv, JournalInv,
     LookupInv, PushInv, FindInv, CreateInv, RecordInv, AbortInv DEF Step
<1> QED BY <1>1, <1>2, ClaimInv, RaisesInv, CrashInv, RepairLockInv, ExpireInv,
           RecoverStaleInv, RequestInv, ChangeInv, MeddleInv DEF Next

\* The invariant holds.
LEMMA InvCorrect == Spec => []Inv
  BY InitInv, NextInv, PTL DEF Spec

\* Rows, jobs and GitHub keep their types, and a workflow that is completed has
\* its pull request on record and its journal completed, whoever failed late
\* (PublicationRecords.finish, failed).
THEOREM WellFormedCorrect == Spec => []WellFormed
<1>1. Inv => WellFormed
  BY DEF Inv, TypeInv, PublishedInv, Recorded, WellFormed, TypeOK, Remotes, CompletedIsRecorded
<1> QED BY <1>1, InvCorrect, PTL

\* However often the stage is repeated, whatever answers are lost and whoever
\* closes the pull request or deletes its branch, there is one at most.
THEOREM OnePullRequestCorrect == Spec => []OnePullRequest
<1>1. Inv => OnePullRequest
  BY DEF Inv, PublishedInv, OnePullRequest
<1> QED BY <1>1, InvCorrect, PTL

\* What the service put on GitHub is the tree that the required tests passed on
\* and that the approved review was shown, whenever the workspace changes
\* (PublicationRecords.check, LocalPublicationGit.prepare).
THEOREM PublishedIsReviewedCorrect == Spec => []PublishedIsReviewed
<1>1. Inv => PublishedIsReviewed
  BY DEF Inv, TypeInv, TypeOK, Remotes, PublishedInv, PublishedIsReviewed
<1> QED BY <1>1, InvCorrect, PTL

\* The journal was written before the branch and the pull request, and describes
\* them, also after imports (PublicationRecords.journal).
THEOREM JournalFirstCorrect == Spec => []JournalFirst
<1>1. Inv => JournalFirst
  BY DEF Inv, TypeInv, TypeOK, Remotes, PublishedInv, JournalFirst
<1> QED BY <1>1, InvCorrect, PTL
=============================================================================
