--------------------------- MODULE WorkflowProofs ---------------------------
(***************************************************************************)
(* What holds of the durable workflow for every number of workflows,       *)
(* workers, stages and attempts, by induction over the steps of Workflow.  *)
(*                                                                         *)
(*   1. Types, ended rows, and one claim per generation                    *)
(*   2. Workflow implements WorkflowLedger                                 *)
(*   3. What the history tells                                             *)
(***************************************************************************)
EXTENDS Workflow, FiniteSetTheorems, TLAPS

(* Stages *)

LEMMA FirstStage == Stages[1] \in StageNames /\ Stages[1] # "done"
  BY StagesAssumption DEF StageNames

LEMMA NextStageType ==
  ASSUME NEW s \in StageNames, s # "done", NEW publish \in BOOLEAN
  PROVE  NextStage(s, publish) \in StageNames
<1> DEFINE i == CHOOSE i \in 1..Len(Stages) : Stages[i] = s
<1>1. i \in 1..Len(Stages) /\ Stages[i] = s
  BY DEF StageNames
<1> HIDE DEF i
<1>2. i # Len(Stages) /\ Len(Stages) \in Nat
  BY <1>1, StagesAssumption
<1>3. i + 1 \in 1..Len(Stages)
  BY <1>1, <1>2
<1>4. Stages[i + 1] \in StageNames /\ "done" \in StageNames
  <2>1. Len(Stages) \in 1..Len(Stages) /\ Stages[Len(Stages)] = "done"
    BY <1>2, StagesAssumption
  <2> QED BY <1>3, <2>1 DEF StageNames
<1>5. NextStage(s, publish) =
        IF Stages[i + 1] = "publish" /\ ~publish THEN "done" ELSE Stages[i + 1]
  BY DEF NextStage, i
<1> QED BY <1>4, <1>5

-----------------------------------------------------------------------------
(* Rows: each operation on a row keeps its type *)

LEMMA LogType ==
  ASSUME NEW r \in Rows, NEW status \in Statuses \ {"absent", "pending"},
         NEW by \in {"worker", "beat", "client"}, NEW token \in Nat
  PROVE  Log(r, status, by, token) \in Seq(Entries)
<1>1. r.history \in Seq(Entries) /\ r.stage \in StageNames /\ r.gen \in Nat
  BY DEF Rows
<1>2. Entry(r, status, by, token) \in Entries
  BY <1>1 DEF Entry, Entries
<1> QED BY <1>1, <1>2 DEF Log

LEMMA ClaimedType ==
  ASSUME NEW r \in Rows, r.attempts < AttemptLimit
  PROVE  Claimed(r) \in Rows
<1> DEFINE c == [r EXCEPT !.status = "running", !.claims = @ + 1,
                          !.token = r.claims + 1, !.retry = "none",
                          !.backoff = 0, !.attempts = @ + 1, !.lease = "live"]
<1>1. /\ r.attempts + 1 \in 0..AttemptLimit
      /\ r.claims + 1 \in Nat
      /\ 0 \in Nat
  BY LimitsAssumption DEF Rows
<1>2. c \in Rows
  BY <1>1, Zenon DEF Rows, Statuses
<1>3. c.token \in Nat
  BY <1>2, Zenon DEF Rows
<1>4. Log(c, "running", "worker", c.token) \in Seq(Entries)
  <2> HIDE DEF c
  <2> QED BY <1>2, <1>3, LogType DEF Statuses
<1>5. Claimed(r) = [c EXCEPT !.history = Log(c, "running", "worker", c.token)]
  BY DEF Claimed
<1> HIDE DEF c
<1> QED BY <1>2, <1>4, <1>5, Zenon DEF Rows

LEMMA ClosedType ==
  ASSUME NEW r \in Rows, NEW status \in Statuses \ {"absent", "pending"},
         NEW by \in {"worker", "beat", "client"}, NEW token \in Nat
  PROVE  Closed(r, status, by, token) \in Rows
<1>1. Log(r, status, by, token) \in Seq(Entries)
  BY LogType
<1>2. r.gen + 1 \in Nat /\ 0 \in Nat
  BY DEF Rows
<1> QED BY <1>1, <1>2, Zenon DEF Closed, Rows

LEMMA SucceededType ==
  ASSUME NEW r \in Rows, NEW c \in Claims, c.stage # "done"
  PROVE  Succeeded(r, c) \in Rows
<1> DEFINE s == IF c.outcome = "repeat" THEN c.stage
                ELSE NextStage(c.stage, r.publish)
           q == Closed(r, "completed", "worker", c.token)
<1>1. q \in Rows
  BY ClosedType DEF Claims, Statuses
<1>2. s \in StageNames
  BY NextStageType DEF Claims, Rows
<1>3. 0 \in 0..AttemptLimit
  BY LimitsAssumption
<1>4. Succeeded(r, c) =
        [q EXCEPT !.stage = s, !.attempts = 0,
                  !.status = IF s = "done" THEN "completed" ELSE "pending"]
  BY DEF Succeeded
<1> HIDE DEF s, q
<1> QED BY <1>1, <1>2, <1>3, <1>4, Zenon DEF Rows, Statuses

LEMMA FailedType ==
  ASSUME NEW r \in Rows, NEW c \in Claims
  PROVE  Failed(r, c) \in Rows
<1> DEFINE q == Closed(r, "failed", "worker", c.token)
<1>1. q \in Rows
  BY ClosedType DEF Claims, Statuses
<1>2. c.seen \in Nat
  BY DEF Claims
<1>3. \/ Failed(r, c) = [q EXCEPT !.status = "pending", !.retry = "wait",
                                  !.backoff = c.seen]
      \/ Failed(r, c) = [q EXCEPT !.status =
                           IF Blocks(c.stage, c.outcome) THEN "blocked" ELSE "failed"]
  BY Zenon DEF Failed
<1> HIDE DEF q
<1> QED BY <1>1, <1>2, <1>3, Zenon DEF Rows, Statuses

LEMMA InterruptedType ==
  ASSUME NEW r \in Rows
  PROVE  Interrupted(r) \in Rows
<1> DEFINE status == IF r.stage \in SourceChanging THEN "blocked" ELSE "failed"
           q == Closed(r, status, "beat", r.token)
<1>1. q \in Rows
  BY ClosedType DEF Rows, Statuses
<1>2. Interrupted(r) = [q EXCEPT !.status = status]
  BY DEF Interrupted
<1>3. status \in Statuses
  BY DEF Statuses
<1> HIDE DEF q, status
<1> QED BY <1>1, <1>2, <1>3, Zenon DEF Rows

LEMMA StartedType ==
  ASSUME NEW r \in Rows, NEW publish \in BOOLEAN
  PROVE  [r EXCEPT !.status = "pending", !.publish = publish] \in Rows
  BY Zenon DEF Rows, Statuses

LEMMA ResumedType ==
  ASSUME NEW r \in Rows
  PROVE  Resumed(r) \in Rows
<1>1. r.gen + 1 \in Nat /\ 0 \in Nat
  BY DEF Rows
<1> QED BY <1>1, Zenon DEF Resumed, Rows, Statuses

LEMMA CancelledType ==
  ASSUME NEW r \in Rows
  PROVE  Cancelled(r) \in Rows
<1>1. r.gen + 1 \in Nat /\ 0 \in Nat
  BY DEF Rows
<1>2. Log(r, "cancelled", "client", 0) \in Seq(Entries)
  BY LogType DEF Statuses
<1> QED BY <1>1, <1>2, Zenon DEF Cancelled, Rows, Statuses

-----------------------------------------------------------------------------
(* The type invariant and the attempt budget *)

\* A row at "done" is completed, and a row that waits to be claimed has an
\* attempt left: what makes the next claim and the next stage well defined.
RowInv(r) ==
    /\ r.stage = "done" <=> r.status = "completed"
    /\ r.status \in {"absent", "pending"} => r.attempts < AttemptLimit

\* A worker never holds a claim of the stage "done".
HoldsStage(c) == c.pc \in {"stage", "backoff", "finish"} => c.stage # "done"

TypeInv ==
    /\ TypeOK
    /\ \A w \in Workflows : RowInv(wf[w])
    /\ \A p \in Workers : HoldsStage(worker[p])

LEMMA NoClaimType == NoClaim \in Claims /\ HoldsStage(NoClaim) /\ NoClaim.pc = "idle"
<1>1. (CHOOSE w \in Workflows : TRUE) \in Workflows
  BY LimitsAssumption
<1>2. 0 \in Nat
  OBVIOUS
<1>3. NoClaim \in Claims
  BY <1>1, <1>2, FirstStage, Zenon DEF NoClaim, Claims
<1> QED BY <1>3 DEF NoClaim, HoldsStage

LEMMA InitTypeInv == Init => TypeInv
<1> SUFFICES ASSUME Init PROVE TypeInv
  OBVIOUS
<1>1. 0 \in 0..AttemptLimit /\ 0 \in Nat /\ <<>> \in Seq(Entries)
  BY LimitsAssumption
<1>2. Absent \in Rows
  BY <1>1, FirstStage, Zenon DEF Absent, Rows, Statuses
<1>3. RowInv(Absent)
  BY FirstStage, LimitsAssumption DEF RowInv, Absent
<1>4. TypeOK
  BY <1>2, NoClaimType DEF Init, TypeOK
<1> QED BY <1>3, <1>4, NoClaimType DEF Init, TypeInv

\* A step that rewrites one row keeps the invariant if the new row does.
LEMMA RowStepType ==
  ASSUME TypeInv, NEW w \in Workflows, NEW r \in Rows, RowInv(r),
         wf' = [wf EXCEPT ![w] = r]
  PROVE  wf' \in [Workflows -> Rows] /\ \A v \in Workflows : RowInv(wf'[v])
  BY DEF TypeInv, TypeOK

LEMMA WorkerStepType ==
  ASSUME TypeInv, NEW p \in Workers, NEW c \in Claims, HoldsStage(c),
         worker' = [worker EXCEPT ![p] = c]
  PROVE  worker' \in [Workers -> Claims] /\ \A q \in Workers : HoldsStage(worker'[q])
  BY DEF TypeInv, TypeOK

LEMMA MessageType ==
  ASSUME TypeInv, NEW w \in Workflows
  PROVE  /\ Message(w) \in Messages
         /\ [Message(w) EXCEPT !.gen = AnyGeneration] \in Messages
  BY DEF TypeInv, TypeOK, Message, Messages, Rows, AnyGeneration

LEMMA SendType ==
  ASSUME TypeInv, NEW m \in Messages, Send(m)
  PROVE  queue' \subseteq Messages
  BY DEF TypeInv, TypeOK, Send

LEMMA TouchType ==
  ASSUME TypeInv, NEW S \in SUBSET Workflows, Touch(S)
  PROVE  older' \subseteq Workflows \X Workflows
  BY DEF TypeInv, TypeOK, Touch

(* One lemma per action *)

LEMMA StartTypeInv ==
  ASSUME TypeInv, NEW w \in Workflows, Start(w)
  PROVE  TypeInv'
<1>1. PICK publish \in BOOLEAN :
        wf' = [wf EXCEPT ![w] = [@ EXCEPT !.status = "pending", !.publish = publish]]
  BY DEF Start
<1> DEFINE r == [wf[w] EXCEPT !.status = "pending", !.publish = publish]
<1>2. wf[w] \in Rows /\ wf[w].status = "absent" /\ RowInv(wf[w])
  BY DEF Start, TypeInv, TypeOK
<1>3. r \in Rows /\ r.stage = wf[w].stage /\ r.status = "pending"
        /\ r.attempts = wf[w].attempts
  BY <1>2, StartedType DEF Rows
<1>4. wf' = [wf EXCEPT ![w] = r]
  BY <1>1
<1> HIDE DEF r
<1>5. RowInv(r)
  BY <1>2, <1>3 DEF RowInv
<1> QED BY <1>3, <1>4, <1>5, RowStepType, TouchType DEF TypeInv, TypeOK, Start

LEMMA WakeTypeInv ==
  ASSUME TypeInv, NEW w \in Workflows, Wake(w)
  PROVE  TypeInv'
  BY MessageType, SendType DEF Wake, TypeInv, TypeOK

LEMMA ResumeTypeInv ==
  ASSUME TypeInv, NEW w \in Workflows, Resume(w)
  PROVE  TypeInv'
<1> DEFINE r == Resumed(wf[w])
<1>1. wf[w] \in Rows /\ wf[w].status = "failed" /\ RowInv(wf[w])
        /\ wf[w].attempts < AttemptLimit
  BY DEF Resume, TypeInv, TypeOK
<1>2. r \in Rows /\ r.stage = wf[w].stage /\ r.status = "pending"
        /\ r.attempts = wf[w].attempts
  BY <1>1, ResumedType DEF Resumed, Rows
<1>3. wf' = [wf EXCEPT ![w] = r]
  BY DEF Resume
<1> HIDE DEF r
<1>4. RowInv(r)
  BY <1>1, <1>2 DEF RowInv
<1> QED BY <1>2, <1>3, <1>4, RowStepType, TouchType DEF TypeInv, TypeOK, Resume

LEMMA CancelTypeInv ==
  ASSUME TypeInv, NEW w \in Workflows, Cancel(w)
  PROVE  TypeInv'
<1> DEFINE r == Cancelled(wf[w])
<1>1. wf[w] \in Rows /\ wf[w].status # "completed" /\ RowInv(wf[w])
  BY DEF Cancel, TypeInv, TypeOK
<1>2. r \in Rows /\ r.stage = wf[w].stage /\ r.status = "cancelled"
  BY <1>1, CancelledType DEF Cancelled, Rows
<1>3. wf' = [wf EXCEPT ![w] = r]
  BY DEF Cancel
<1> HIDE DEF r
<1>4. RowInv(r)
  BY <1>1, <1>2 DEF RowInv
<1> QED BY <1>2, <1>3, <1>4, RowStepType, TouchType DEF TypeInv, TypeOK, Cancel

LEMMA SendOldTypeInv ==
  ASSUME TypeInv, NEW w \in Workflows, SendOld(w)
  PROVE  TypeInv'
  BY MessageType, SendType DEF SendOld, TypeInv, TypeOK

LEMMA NotifyTypeInv ==
  ASSUME TypeInv, NEW w \in Workflows, Notify(w)
  PROVE  TypeInv'
  BY MessageType, SendType DEF Notify, TypeInv, TypeOK

LEMMA LeaseExpiresTypeInv ==
  ASSUME TypeInv, NEW w \in Workflows, LeaseExpires(w)
  PROVE  TypeInv'
<1> DEFINE r == [wf[w] EXCEPT !.lease = "expired"]
<1>1. wf[w] \in Rows /\ RowInv(wf[w])
  BY DEF TypeInv, TypeOK
<1>2. r \in Rows /\ RowInv(r)
  BY <1>1 DEF Rows, RowInv
<1>3. wf' = [wf EXCEPT ![w] = r]
  BY DEF LeaseExpires
<1> HIDE DEF r
<1> QED BY <1>2, <1>3, RowStepType DEF TypeInv, TypeOK, LeaseExpires

LEMMA RetryDueTypeInv ==
  ASSUME TypeInv, NEW w \in Workflows, RetryDue(w)
  PROVE  TypeInv'
<1> DEFINE r == [wf[w] EXCEPT !.retry = "due"]
<1>1. wf[w] \in Rows /\ RowInv(wf[w])
  BY DEF TypeInv, TypeOK
<1>2. r \in Rows /\ RowInv(r)
  BY <1>1 DEF Rows, RowInv
<1>3. wf' = [wf EXCEPT ![w] = r]
  BY DEF RetryDue
<1> HIDE DEF r
<1> QED BY <1>2, <1>3, RowStepType DEF TypeInv, TypeOK, RetryDue

LEMMA DeliverTypeInv ==
  ASSUME TypeInv, NEW p \in Workers, NEW m \in queue, NEW again \in BOOLEAN,
         Deliver(p, m, again)
  PROVE  TypeInv'
<1> DEFINE w == m.wf
           r == Claimed(wf[w])
           c == [NoClaim EXCEPT !.pc = "stage", !.id = w, !.token = wf[w].claims + 1,
                                !.stage = wf[w].stage]
<1>1. m \in Messages /\ w \in Workflows /\ queue' \subseteq Messages
  BY DEF TypeInv, TypeOK, Messages, Deliver
<1>2. wf[w] \in Rows /\ RowInv(wf[w])
  BY <1>1 DEF TypeInv, TypeOK
<1>3. CASE Matches(m, wf[w])
  <2>1. wf[w].status = "pending" /\ wf[w].attempts < AttemptLimit /\ wf[w].stage # "done"
    BY <1>2, <1>3 DEF Matches, RowInv
  <2>2. r \in Rows
    BY <1>2, <2>1, ClaimedType
  <2>3. r.stage = wf[w].stage /\ r.status = "running"
    BY <1>2 DEF Claimed, Rows
  <2>4. RowInv(r)
    BY <2>1, <2>3 DEF RowInv
  <2>5. wf[w].claims + 1 \in Nat /\ wf[w].stage \in StageNames
    BY <1>2 DEF Rows
  <2>6. c \in Claims
    BY <1>1, <2>5, NoClaimType, Zenon DEF Claims
  <2>7. c.stage = wf[w].stage
    BY NoClaimType DEF Claims
  <2>8. HoldsStage(c)
    BY <2>1, <2>7 DEF HoldsStage
  <2>9. wf' = [wf EXCEPT ![w] = r] /\ worker' = [worker EXCEPT ![p] = c] /\ Touch({w})
    BY <1>3 DEF Deliver
  <2> HIDE DEF r, c, w
  <2>10. \A q \in Workers : HoldsStage(worker'[q])
    BY <2>6, <2>8, <2>9, WorkerStepType
  <2>11. worker' \in [Workers -> Claims]
    BY <2>6, <2>8, <2>9, WorkerStepType
  <2>12. wf' \in [Workflows -> Rows] /\ \A v \in Workflows : RowInv(wf'[v])
    BY <1>1, <2>2, <2>4, <2>9, RowStepType
  <2>13. older' \subseteq Workflows \X Workflows
    BY <1>1, <2>9, TouchType
  <2> QED BY <1>1, <2>10, <2>11, <2>12, <2>13 DEF TypeInv, TypeOK, Deliver
<1>4. CASE ~Matches(m, wf[w])
  BY <1>1, <1>4 DEF Deliver, TypeInv, TypeOK
<1> QED BY <1>3, <1>4

LEMMA StageEndsTypeInv ==
  ASSUME TypeInv, NEW p \in Workers, NEW outcome \in Failures \cup {"ok", "repeat"},
         StageEnds(p, outcome)
  PROVE  TypeInv'
<1> DEFINE pc == IF Retries(worker[p].stage, outcome) THEN "backoff" ELSE "finish"
           c == [worker[p] EXCEPT !.outcome = outcome, !.pc = pc]
<1>1. worker[p] \in Claims /\ worker[p].id \in Workflows /\ worker[p].stage # "done"
  BY DEF StageEnds, TypeInv, TypeOK, HoldsStage, Claims
<1>2. c \in Claims
  BY <1>1, Zenon DEF Claims
<1>3. c.stage = worker[p].stage
  BY <1>1 DEF Claims
<1>4. HoldsStage(c)
  BY <1>1, <1>3 DEF HoldsStage
<1>5. worker' = [worker EXCEPT ![p] = c]
  BY DEF StageEnds, TypeInv, TypeOK
<1>6. todo' \in [Workflows -> 0..Tasks]
  <2>1. CASE outcome = "repeat"
    <3>1. outcome \in Outcomes(worker[p].stage, todo[worker[p].id])
      BY DEF StageEnds
    <3>2. todo[worker[p].id] > 0
      BY <2>1, <3>1 DEF Outcomes, Failures
    <3>3. todo[worker[p].id] \in 0..Tasks
      BY <1>1 DEF TypeInv, TypeOK
    <3>4. todo[worker[p].id] - 1 \in 0..Tasks
      BY <3>2, <3>3, LimitsAssumption
    <3>5. todo' = [todo EXCEPT ![worker[p].id] = @ - 1]
      BY <2>1 DEF StageEnds
    <3> QED BY <1>1, <3>4, <3>5 DEF TypeInv, TypeOK
  <2>2. CASE outcome # "repeat"
    BY <2>2 DEF StageEnds, TypeInv, TypeOK
  <2> QED BY <2>1, <2>2
<1> HIDE DEF c, pc
<1>7. worker' \in [Workers -> Claims]
  BY <1>2, <1>4, <1>5, WorkerStepType
<1>8. \A q \in Workers : HoldsStage(worker'[q])
  BY <1>2, <1>4, <1>5, WorkerStepType
<1> QED BY <1>6, <1>7, <1>8 DEF TypeInv, TypeOK, StageEnds

LEMMA ReadAttemptsTypeInv ==
  ASSUME TypeInv, NEW p \in Workers, ReadAttempts(p)
  PROVE  TypeInv'
<1> DEFINE n == wf[worker[p].id].attempts
           c == [worker[p] EXCEPT !.pc = "finish", !.seen = n]
<1>1. worker[p] \in Claims /\ worker[p].id \in Workflows /\ worker[p].stage # "done"
  BY DEF ReadAttempts, TypeInv, TypeOK, HoldsStage, Claims
<1>2. n \in Nat
  <2>1. n \in 0..AttemptLimit
    BY <1>1 DEF TypeInv, TypeOK, Rows
  <2> QED BY <2>1, LimitsAssumption
<1>3. c \in Claims
  BY <1>1, <1>2, Zenon DEF Claims
<1>4. c.stage = worker[p].stage
  BY <1>1 DEF Claims
<1>5. HoldsStage(c)
  BY <1>1, <1>4 DEF HoldsStage
<1>6. worker' = [worker EXCEPT ![p] = c]
  BY DEF ReadAttempts, TypeInv, TypeOK
<1> HIDE DEF c, n
<1>7. worker' \in [Workers -> Claims]
  BY <1>3, <1>5, <1>6, WorkerStepType
<1>8. \A q \in Workers : HoldsStage(worker'[q])
  BY <1>3, <1>5, <1>6, WorkerStepType
<1> QED BY <1>7, <1>8 DEF TypeInv, TypeOK, ReadAttempts

\* Both ways to close a claim leave a row that is well defined.
LEMMA SucceededRowInv ==
  ASSUME NEW r \in Rows, NEW c \in Claims, c.stage # "done"
  PROVE  RowInv(Succeeded(r, c))
<1> DEFINE s == IF c.outcome = "repeat" THEN c.stage
                ELSE NextStage(c.stage, r.publish)
           q == Closed(r, "completed", "worker", c.token)
           x == Succeeded(r, c)
<1>1. q \in Rows
  BY ClosedType DEF Claims, Statuses
<1>2. x = [q EXCEPT !.stage = s, !.attempts = 0,
                    !.status = IF s = "done" THEN "completed" ELSE "pending"]
  BY DEF Succeeded
<1> HIDE DEF s, q, x
<1>3. /\ x.stage = s /\ x.attempts = 0
      /\ x.status = IF s = "done" THEN "completed" ELSE "pending"
  BY <1>1, <1>2 DEF Rows
<1>4. RowInv(x)
  BY <1>3, LimitsAssumption DEF RowInv
<1> QED BY <1>4 DEF x

LEMMA FailedRowInv ==
  ASSUME NEW r \in Rows, NEW c \in Claims, r.stage # "done"
  PROVE  RowInv(Failed(r, c))
<1> DEFINE q == Closed(r, "failed", "worker", c.token)
<1>1. q \in Rows
  BY ClosedType DEF Claims, Statuses
<1>2. q.stage = r.stage /\ q.attempts = r.attempts
  BY DEF Closed, Rows
<1>3. CASE Retries(c.stage, c.outcome) /\ r.attempts < AttemptLimit
  <2>1. Failed(r, c) = [q EXCEPT !.status = "pending", !.retry = "wait",
                                 !.backoff = c.seen]
    BY <1>3 DEF Failed
  <2> HIDE DEF q
  <2> QED BY <1>1, <1>2, <1>3, <2>1 DEF RowInv, Rows
<1>4. CASE ~(Retries(c.stage, c.outcome) /\ r.attempts < AttemptLimit)
  <2>1. Failed(r, c) = [q EXCEPT !.status =
                           IF Blocks(c.stage, c.outcome) THEN "blocked" ELSE "failed"]
    BY <1>4 DEF Failed
  <2> HIDE DEF q
  <2> QED BY <1>1, <1>2, <2>1 DEF RowInv, Rows
<1> QED BY <1>3, <1>4

LEMMA FinishTypeInv ==
  ASSUME TypeInv, NEW p \in Workers, Finish(p)
  PROVE  TypeInv'
<1> DEFINE c == worker[p]
           w == c.id
           r == IF c.outcome \in Failures THEN Failed(wf[w], c) ELSE Succeeded(wf[w], c)
           e == [NoClaim EXCEPT !.pc = "wake", !.id = c.id]
<1>1. c \in Claims /\ w \in Workflows /\ c.stage # "done"
  BY DEF Finish, TypeInv, TypeOK, HoldsStage, Claims
<1>2. wf[w] \in Rows /\ RowInv(wf[w])
  BY <1>1 DEF TypeInv, TypeOK
<1>3. CASE Owns(c)
  <2>1. wf[w].stage # "done"
    BY <1>2, <1>3 DEF Owns, RowInv
  <2>2. r \in Rows
    BY <1>1, <1>2, FailedType, SucceededType
  <2>3. RowInv(r)
    BY <1>1, <1>2, <2>1, FailedRowInv, SucceededRowInv
  <2>4. e \in Claims
    BY <1>1, NoClaimType, Zenon DEF Claims
  <2>5. HoldsStage(e)
    BY NoClaimType DEF HoldsStage, Claims
  <2>6. wf' = [wf EXCEPT ![w] = r] /\ worker' = [worker EXCEPT ![p] = e] /\ Touch({w})
    BY <1>3, Zenon DEF Finish
  <2> HIDE DEF r, e, w, c
  <2>7. wf' \in [Workflows -> Rows] /\ \A v \in Workflows : RowInv(wf'[v])
    BY <1>1, <2>2, <2>3, <2>6, RowStepType
  <2>8. worker' \in [Workers -> Claims]
    BY <2>4, <2>5, <2>6, WorkerStepType
  <2>9. \A q \in Workers : HoldsStage(worker'[q])
    BY <2>4, <2>5, <2>6, WorkerStepType
  <2>10. older' \subseteq Workflows \X Workflows
    BY <1>1, <2>6, TouchType
  <2> QED BY <2>7, <2>8, <2>9, <2>10 DEF TypeInv, TypeOK, Finish
<1>4. CASE ~Owns(c)
  <2>1. worker' = [worker EXCEPT ![p] = NoClaim] /\ UNCHANGED <<wf, older>>
    BY <1>4 DEF Finish
  <2>2. worker' \in [Workers -> Claims]
    BY <2>1, NoClaimType, WorkerStepType
  <2>3. \A q \in Workers : HoldsStage(worker'[q])
    BY <2>1, NoClaimType, WorkerStepType
  <2> QED BY <2>1, <2>2, <2>3 DEF TypeInv, TypeOK, Finish
<1> QED BY <1>3, <1>4

LEMMA WakeNextTypeInv ==
  ASSUME TypeInv, NEW p \in Workers, WakeNext(p)
  PROVE  TypeInv'
<1>1. worker[p].id \in Workflows
  BY DEF TypeInv, TypeOK, Claims
<1>2. queue' \subseteq Messages
  BY <1>1, MessageType, SendType DEF WakeNext, TypeInv, TypeOK
<1>3. worker' = [worker EXCEPT ![p] = NoClaim]
  BY DEF WakeNext
<1>4. worker' \in [Workers -> Claims]
  BY <1>3, NoClaimType, WorkerStepType
<1>5. \A q \in Workers : HoldsStage(worker'[q])
  BY <1>3, NoClaimType, WorkerStepType
<1> QED BY <1>2, <1>4, <1>5 DEF TypeInv, TypeOK, WakeNext

LEMMA CrashTypeInv ==
  ASSUME TypeInv, NEW p \in Workers, Crash(p)
  PROVE  TypeInv'
<1>1. worker' = [worker EXCEPT ![p] = NoClaim]
  BY DEF Crash
<1>2. worker' \in [Workers -> Claims]
  BY <1>1, NoClaimType, WorkerStepType
<1>3. \A q \in Workers : HoldsStage(worker'[q])
  BY <1>1, NoClaimType, WorkerStepType
<1> QED BY <1>2, <1>3 DEF TypeInv, TypeOK, Crash

LEMMA InterruptedRowInv ==
  ASSUME NEW r \in Rows, r.stage # "done"
  PROVE  RowInv(Interrupted(r))
<1> DEFINE status == IF r.stage \in SourceChanging THEN "blocked" ELSE "failed"
           q == Closed(r, status, "beat", r.token)
<1>1. q \in Rows
  BY ClosedType DEF Rows, Statuses
<1>2. q.stage = r.stage
  BY DEF Closed, Rows
<1>3. Interrupted(r) = [q EXCEPT !.status = status]
  BY DEF Interrupted
<1>4. status \in {"blocked", "failed"}
  OBVIOUS
<1> HIDE DEF q, status
<1> QED BY <1>1, <1>2, <1>3, <1>4 DEF RowInv, Rows

LEMMA RecoverTypeInv ==
  ASSUME TypeInv, Recover
  PROVE  TypeInv'
<1>1. PICK S \in SUBSET Workflows :
        /\ Batch(S, Expired)
        /\ wf' = [w \in Workflows |-> IF w \in S THEN Interrupted(wf[w]) ELSE wf[w]]
        /\ Touch(S)
        /\ \E D \in SUBSET Workflows : notices' = notices \cup D
        /\ UNCHANGED <<todo, queue, worker>>
  BY DEF Recover
<1>2. \A w \in Workflows : wf[w] \in Rows /\ RowInv(wf[w])
  BY DEF TypeInv, TypeOK
<1>3. \A w \in S : Interrupted(wf[w]) \in Rows /\ RowInv(Interrupted(wf[w]))
  <2> SUFFICES ASSUME NEW w \in S
               PROVE  Interrupted(wf[w]) \in Rows /\ RowInv(Interrupted(wf[w]))
    OBVIOUS
  <2>1. wf[w].stage # "done"
    BY <1>1, <1>2 DEF Batch, Expired, RowInv
  <2> QED BY <1>2, <2>1, InterruptedType, InterruptedRowInv
<1>4. wf' \in [Workflows -> Rows] /\ \A w \in Workflows : RowInv(wf'[w])
  BY <1>1, <1>2, <1>3
<1>5. older' \subseteq Workflows \X Workflows
  BY <1>1, TouchType
<1>6. notices' \subseteq Workflows
  BY <1>1 DEF TypeInv, TypeOK
<1> QED BY <1>1, <1>4, <1>5, <1>6 DEF TypeInv, TypeOK

LEMMA LoseTypeInv ==
  ASSUME TypeInv, NEW m \in queue, Lose(m)
  PROVE  TypeInv'
  BY DEF Lose, TypeInv, TypeOK

LEMMA NextTypeInv ==
  ASSUME TypeInv, [Next]_vars
  PROVE  TypeInv'
<1>1. CASE UNCHANGED vars
  BY <1>1 DEF vars, TypeInv, TypeOK
<1>2. ASSUME NEW p \in Workers, WorkerStep(p)
      PROVE  TypeInv'
  BY <1>2, DeliverTypeInv, StageEndsTypeInv, ReadAttemptsTypeInv, FinishTypeInv,
     WakeNextTypeInv, CrashTypeInv DEF WorkerStep
<1>3. ASSUME NEW w \in Workflows, RowStep(w)
      PROVE  TypeInv'
  BY <1>3, StartTypeInv, WakeTypeInv, ResumeTypeInv, CancelTypeInv, SendOldTypeInv,
     NotifyTypeInv, LeaseExpiresTypeInv, RetryDueTypeInv DEF RowStep
<1> QED BY <1>1, <1>2, <1>3, LoseTypeInv, RecoverTypeInv DEF Next

\* Every variable keeps its type: in particular no sequence of automatic retries,
\* lost claims, interruptions and explicit resumes takes the attempts of a stage
\* past WORKFLOW_STAGE_ATTEMPTS (WorkflowRecords.claim, finish, resume).
THEOREM TypeCorrect == Spec => []TypeOK
<1>1. Init => TypeInv
  BY InitTypeInv
<1>2. TypeInv /\ [Next]_vars => TypeInv'
  BY NextTypeInv
<1>3. TypeInv => TypeOK
  BY DEF TypeInv
<1> QED BY <1>1, <1>2, <1>3, PTL DEF Spec

-----------------------------------------------------------------------------
(* What a step does to one row.  Every further invariant of a row is proved *)
(* from this, and no longer from the actions.                               *)

\* A worker whose claim is still the row's is about to finish it.
Finishes(c, r) ==
    \E p \in Workers : c = worker[p] /\ c.pc = "finish" /\ Owns(c) /\ r = wf[c.id]

RowChange(r, s) ==
    \/ s = r
    \/ /\ r.status = "absent"
       /\ \E publish \in BOOLEAN :
             s = [r EXCEPT !.status = "pending", !.publish = publish]
    \/ r.status = "failed" /\ s = Resumed(r)
    \/ r.status \in {"pending", "failed", "blocked"} /\ s = Cancelled(r)
    \/ r.status = "pending" /\ s = Claimed(r)
    \/ /\ r.status = "running"
       /\ \E c \in Claims :
             c.stage # "done" /\ Finishes(c, r) /\ s \in {Succeeded(r, c), Failed(r, c)}
    \/ r.status = "running" /\ s = Interrupted(r)
    \/ r.lease = "live" /\ s = [r EXCEPT !.lease = "expired"]
    \/ r.retry = "wait" /\ s = [r EXCEPT !.retry = "due"]

LEMMA RowStepChange ==
  ASSUME TypeInv, NEW v \in Workflows, RowStep(v), NEW w \in Workflows
  PROVE  RowChange(wf[w], wf'[w])
<1>1. wf \in [Workflows -> Rows]
  BY DEF TypeInv, TypeOK
<1>2. CASE Start(v)
  BY <1>1, <1>2 DEF Start, RowChange
<1>3. CASE Wake(v) \/ SendOld(v) \/ Notify(v)
  BY <1>1, <1>3 DEF Wake, SendOld, Notify, RowChange
<1>4. CASE Resume(v)
  BY <1>1, <1>4 DEF Resume, RowChange
<1>5. CASE Cancel(v)
  BY <1>1, <1>5 DEF Cancel, RowChange
<1>6. CASE LeaseExpires(v)
  BY <1>1, <1>6 DEF LeaseExpires, RowChange
<1>7. CASE RetryDue(v)
  BY <1>1, <1>7 DEF RetryDue, RowChange
<1> QED BY <1>2, <1>3, <1>4, <1>5, <1>6, <1>7 DEF RowStep

LEMMA WorkerStepChange ==
  ASSUME TypeInv, NEW p \in Workers, WorkerStep(p), NEW w \in Workflows
  PROVE  RowChange(wf[w], wf'[w])
<1>1. wf \in [Workflows -> Rows]
  BY DEF TypeInv, TypeOK
<1>2. CASE \E m \in queue, again \in BOOLEAN : Deliver(p, m, again)
  <2>1. PICK m \in queue : \E again \in BOOLEAN : Deliver(p, m, again)
    BY <1>2
  <2>2. CASE Matches(m, wf[m.wf])
    <3>1. wf' = [wf EXCEPT ![m.wf] = Claimed(@)] /\ wf[m.wf].status = "pending"
      BY <2>1, <2>2 DEF Deliver, Matches
    <3> QED BY <1>1, <3>1 DEF RowChange
  <2>3. CASE ~Matches(m, wf[m.wf])
    BY <2>1, <2>3 DEF Deliver, RowChange
  <2> QED BY <2>2, <2>3
<1>3. CASE Finish(p)
  <2> DEFINE c == worker[p]
  <2>1. CASE Owns(c)
    <3>1. c \in Claims /\ c.stage # "done" /\ wf[c.id].status = "running"
      BY <1>3, <2>1 DEF Finish, Owns, TypeInv, TypeOK, HoldsStage
    <3>2. \/ wf' = [wf EXCEPT ![c.id] = Failed(@, c)]
          \/ wf' = [wf EXCEPT ![c.id] = Succeeded(@, c)]
      BY <1>3, <2>1 DEF Finish
    <3>5. Finishes(c, wf[c.id])
      BY <1>3, <2>1 DEF Finish, Finishes
    <3> HIDE DEF c
    <3>3. CASE w = c.id
      <4>1. wf'[w] \in {Succeeded(wf[w], c), Failed(wf[w], c)}
        BY <1>1, <3>2, <3>3
      <4> QED BY <3>1, <3>3, <3>5, <4>1 DEF RowChange
    <3>4. CASE w # c.id
      BY <1>1, <3>2, <3>4 DEF RowChange
    <3> QED BY <3>3, <3>4
  <2>2. CASE ~Owns(c)
    BY <1>3, <2>2 DEF Finish, RowChange
  <2> QED BY <2>1, <2>2
<1>4. CASE UNCHANGED wf
  BY <1>4 DEF RowChange
<1> QED
  BY <1>2, <1>3, <1>4 DEF WorkerStep, StageEnds, ReadAttempts, WakeNext, Crash

LEMMA StepChange ==
  ASSUME TypeInv, [Next]_vars, NEW w \in Workflows
  PROVE  RowChange(wf[w], wf'[w])
<1>1. CASE Recover
  <2>1. PICK S \in SUBSET Workflows :
          /\ Batch(S, Expired)
          /\ wf' = [v \in Workflows |-> IF v \in S THEN Interrupted(wf[v]) ELSE wf[v]]
    BY <1>1 DEF Recover
  <2>2. w \in S => wf[w].status = "running"
    BY <2>1 DEF Batch, Expired
  <2> QED BY <2>1, <2>2 DEF RowChange
<1>2. CASE UNCHANGED wf
  BY <1>2 DEF RowChange
<1> QED
  BY <1>1, <1>2, RowStepChange, WorkerStepChange DEF Next, vars, Lose

(* The fields each operation writes *)

LEMMA EntryFields ==
  ASSUME NEW r \in Rows, NEW status \in Statuses, NEW by, NEW token
  PROVE  LET e == Entry(r, status, by, token) IN
         /\ e.stage = r.stage /\ e.status = status /\ e.by = by
         /\ e.token = token /\ e.gen = r.gen
  BY DEF Entry

LEMMA ClaimedFields ==
  ASSUME NEW r \in Rows
  PROVE  LET s == Claimed(r) IN
         /\ s.stage = r.stage /\ s.status = "running" /\ s.attempts = r.attempts + 1
         /\ s.gen = r.gen /\ s.retry = "none" /\ s.lease = "live"
         /\ s.claims = r.claims + 1 /\ s.token = r.claims + 1 /\ s.publish = r.publish
         /\ s.history = Append(r.history, Entry(r, "running", "worker", r.claims + 1))
<1> DEFINE c == [r EXCEPT !.status = "running", !.claims = @ + 1,
                          !.token = r.claims + 1, !.retry = "none",
                          !.backoff = 0, !.attempts = @ + 1, !.lease = "live"]
<1>1. /\ c.stage = r.stage /\ c.status = "running" /\ c.attempts = r.attempts + 1
      /\ c.gen = r.gen /\ c.retry = "none" /\ c.lease = "live"
      /\ c.claims = r.claims + 1 /\ c.token = r.claims + 1 /\ c.history = r.history
      /\ c.publish = r.publish
  BY Zenon DEF Rows
<1>2. Claimed(r) = [c EXCEPT !.history = Log(c, "running", "worker", c.token)]
  BY DEF Claimed
<1>3. Log(c, "running", "worker", c.token)
        = Append(r.history, Entry(r, "running", "worker", r.claims + 1))
  <2> HIDE DEF c
  <2> QED BY <1>1 DEF Log, Entry
<1>4. r.history \in Seq(Entries) /\ DOMAIN c = DOMAIN r
  BY DEF Rows
<1>5. "history" \in DOMAIN r
  BY DEF Rows
<1> HIDE DEF c
<1> QED BY <1>1, <1>2, <1>3, <1>4, <1>5

LEMMA ClosedFields ==
  ASSUME NEW r \in Rows, NEW status, NEW by, NEW token
  PROVE  LET s == Closed(r, status, by, token) IN
         /\ s.stage = r.stage /\ s.status = r.status /\ s.attempts = r.attempts
         /\ s.gen = r.gen + 1 /\ s.retry = r.retry /\ s.lease = "none"
         /\ s.claims = r.claims /\ s.publish = r.publish
         /\ s.history = Append(r.history, Entry(r, status, by, token))
  BY DEF Closed, Log, Rows

LEMMA SucceededFields ==
  ASSUME NEW r \in Rows, NEW c \in Claims
  PROVE  LET s == Succeeded(r, c) IN
         /\ s.stage = IF c.outcome = "repeat" THEN c.stage ELSE NextStage(c.stage, r.publish)
         /\ s.status = IF s.stage = "done" THEN "completed" ELSE "pending"
         /\ s.attempts = 0 /\ s.gen = r.gen + 1 /\ s.retry = r.retry
         /\ s.lease = "none" /\ s.claims = r.claims /\ s.publish = r.publish
         /\ s.history = Append(r.history, Entry(r, "completed", "worker", c.token))
<1> DEFINE q == Closed(r, "completed", "worker", c.token)
           next == IF c.outcome = "repeat" THEN c.stage ELSE NextStage(c.stage, r.publish)
<1>1. q \in Rows
  BY ClosedType DEF Claims, Statuses
<1>2. Succeeded(r, c) =
        [q EXCEPT !.stage = next, !.attempts = 0,
                  !.status = IF next = "done" THEN "completed" ELSE "pending"]
  BY DEF Succeeded
<1>3. /\ q.gen = r.gen + 1 /\ q.retry = r.retry /\ q.lease = "none"
      /\ q.claims = r.claims /\ q.publish = r.publish
      /\ q.history = Append(r.history, Entry(r, "completed", "worker", c.token))
  BY ClosedFields
<1>4. \A x \in Rows : DOMAIN x = {"stage", "status", "attempts", "gen", "retry", "backoff",
                                  "token", "lease", "claims", "publish", "history"}
  BY DEF Rows
<1> HIDE DEF q, next
<1>5. /\ Succeeded(r, c).stage = next
      /\ Succeeded(r, c).status = IF next = "done" THEN "completed" ELSE "pending"
      /\ Succeeded(r, c).attempts = 0 /\ Succeeded(r, c).gen = q.gen
      /\ Succeeded(r, c).retry = q.retry /\ Succeeded(r, c).lease = q.lease
      /\ Succeeded(r, c).claims = q.claims /\ Succeeded(r, c).history = q.history
      /\ Succeeded(r, c).publish = q.publish
  BY <1>1, <1>2, <1>4
<1> QED BY <1>3, <1>5 DEF next

LEMMA FailedFields ==
  ASSUME NEW r \in Rows, NEW c \in Claims
  PROVE  LET s == Failed(r, c) IN
         /\ s.stage = r.stage /\ s.attempts = r.attempts /\ s.gen = r.gen + 1
         /\ s.lease = "none" /\ s.claims = r.claims /\ s.publish = r.publish
         /\ \/ /\ s.status = "pending" /\ s.retry = "wait" /\ s.attempts < AttemptLimit
               /\ s.backoff = c.seen /\ Retries(c.stage, c.outcome)
            \/ s.status \in {"failed", "blocked"} /\ s.retry = r.retry
         /\ s.history = Append(r.history, Entry(r, "failed", "worker", c.token))
<1> DEFINE q == Closed(r, "failed", "worker", c.token)
<1>1. q \in Rows
  BY ClosedType DEF Claims, Statuses
<1>2. /\ q.stage = r.stage /\ q.attempts = r.attempts
      /\ q.gen = r.gen + 1 /\ q.retry = r.retry /\ q.lease = "none"
      /\ q.claims = r.claims /\ q.publish = r.publish
      /\ q.history = Append(r.history, Entry(r, "failed", "worker", c.token))
  BY ClosedFields
<1>3. \A x \in Rows : DOMAIN x = {"stage", "status", "attempts", "gen", "retry", "backoff",
                                  "token", "lease", "claims", "publish", "history"}
  BY DEF Rows
<1>4. CASE Retries(c.stage, c.outcome) /\ r.attempts < AttemptLimit
  <2>1. Failed(r, c) = [q EXCEPT !.status = "pending", !.retry = "wait",
                                 !.backoff = c.seen]
    BY <1>4 DEF Failed
  <2> HIDE DEF q
  <2> QED BY <1>1, <1>2, <1>3, <1>4, <2>1
<1>5. CASE ~(Retries(c.stage, c.outcome) /\ r.attempts < AttemptLimit)
  <2>1. Failed(r, c) = [q EXCEPT !.status =
                           IF Blocks(c.stage, c.outcome) THEN "blocked" ELSE "failed"]
    BY <1>5 DEF Failed
  <2> HIDE DEF q
  <2> QED BY <1>1, <1>2, <1>3, <2>1
<1> QED BY <1>4, <1>5

LEMMA InterruptedFields ==
  ASSUME NEW r \in Rows
  PROVE  LET s == Interrupted(r) IN
         /\ s.stage = r.stage /\ s.attempts = r.attempts /\ s.gen = r.gen + 1
         /\ s.status = IF r.stage \in SourceChanging THEN "blocked" ELSE "failed"
         /\ s.retry = r.retry /\ s.lease = "none" /\ s.claims = r.claims
         /\ s.publish = r.publish
         /\ s.history = Append(r.history, Entry(r, s.status, "beat", r.token))
<1> DEFINE status == IF r.stage \in SourceChanging THEN "blocked" ELSE "failed"
           q == Closed(r, status, "beat", r.token)
<1>1. q \in Rows
  BY ClosedType DEF Rows, Statuses
<1>2. /\ q.stage = r.stage /\ q.attempts = r.attempts
      /\ q.gen = r.gen + 1 /\ q.retry = r.retry /\ q.lease = "none"
      /\ q.claims = r.claims /\ q.publish = r.publish
      /\ q.history = Append(r.history, Entry(r, status, "beat", r.token))
  BY ClosedFields
<1>3. Interrupted(r) = [q EXCEPT !.status = status]
  BY DEF Interrupted
<1> HIDE DEF q
<1> QED BY <1>1, <1>2, <1>3 DEF Rows

LEMMA ResumedFields ==
  ASSUME NEW r \in Rows
  PROVE  LET s == Resumed(r) IN
         /\ s.stage = r.stage /\ s.attempts = r.attempts /\ s.gen = r.gen + 1
         /\ s.status = "pending" /\ s.retry = "none" /\ s.lease = r.lease
         /\ s.claims = r.claims /\ s.history = r.history /\ s.publish = r.publish
  BY DEF Resumed, Rows

LEMMA CancelledFields ==
  ASSUME NEW r \in Rows
  PROVE  LET s == Cancelled(r) IN
         /\ s.stage = r.stage /\ s.attempts = r.attempts /\ s.gen = r.gen + 1
         /\ s.status = "cancelled" /\ s.retry = "none" /\ s.lease = r.lease
         /\ s.claims = r.claims /\ s.publish = r.publish
         /\ s.history = Append(r.history, Entry(r, "cancelled", "client", 0))
  BY DEF Cancelled, Log, Rows

-----------------------------------------------------------------------------
(* A lease belongs to a running row and a retry deadline to a pending one, so *)
(* neither clock moves a row that has come to rest.                           *)

RestInv(r) ==
    /\ r.lease # "none" => r.status = "running"
    /\ r.retry # "none" => r.status = "pending"

LEMMA ChangeKeepsRest ==
  ASSUME NEW r \in Rows, NEW s, RestInv(r), RowChange(r, s)
  PROVE  RestInv(s)
<1>1. CASE \E publish \in BOOLEAN :
             s = [r EXCEPT !.status = "pending", !.publish = publish]
                 /\ r.status = "absent"
  BY <1>1 DEF RestInv, Rows
<1>2. CASE r.status = "failed" /\ s = Resumed(r)
  BY <1>2, ResumedFields DEF RestInv
<1>3. CASE r.status \in {"pending", "failed", "blocked"} /\ s = Cancelled(r)
  BY <1>3, CancelledFields DEF RestInv
<1>4. CASE r.status = "pending" /\ s = Claimed(r)
  BY <1>4, ClaimedFields DEF RestInv
<1>5. ASSUME r.status = "running", NEW c \in Claims, s = Succeeded(r, c)
      PROVE  RestInv(s)
  BY <1>5, SucceededFields DEF RestInv
<1>6. ASSUME r.status = "running", NEW c \in Claims, s = Failed(r, c)
      PROVE  RestInv(s)
  BY <1>6, FailedFields DEF RestInv
<1>7. CASE r.status = "running" /\ s = Interrupted(r)
  BY <1>7, InterruptedFields DEF RestInv
<1>8. CASE r.lease = "live" /\ s = [r EXCEPT !.lease = "expired"]
  BY <1>8 DEF RestInv, Rows
<1>9. CASE r.retry = "wait" /\ s = [r EXCEPT !.retry = "due"]
  BY <1>9 DEF RestInv, Rows
<1> QED BY <1>1, <1>2, <1>3, <1>4, <1>5, <1>6, <1>7, <1>8, <1>9 DEF RowChange

LEMMA RestCorrect == Spec => [](TypeInv /\ \A w \in Workflows : RestInv(wf[w]))
<1> DEFINE Inv == TypeInv /\ \A w \in Workflows : RestInv(wf[w])
<1>1. Init => Inv
  BY InitTypeInv DEF Init, Absent, RestInv
<1>2. Inv /\ [Next]_vars => Inv'
  BY NextTypeInv, StepChange, ChangeKeepsRest DEF TypeInv, TypeOK
<1> HIDE DEF Inv
<1>3. Spec => []Inv
  BY <1>1, <1>2, PTL DEF Spec
<1> QED BY <1>3 DEF Inv

\* Completed and cancelled rows never change again and blocked rows only become
\* cancelled: no duplicated message, late worker, expired lease, recovery pass or
\* request of a client moves them (claim, finish, resume, cancel, recoverable).
THEOREM EndsForGoodCorrect == Spec => EndsForGood
<1> DEFINE Inv == TypeInv /\ \A w \in Workflows : RestInv(wf[w])
<1>1. ASSUME Inv, [Next]_vars, NEW w \in Workflows
      PROVE  /\ wf[w].status \in {"completed", "cancelled"} => wf'[w] = wf[w]
             /\ wf[w].status = "blocked" =>
                   wf'[w] = wf[w] \/ wf'[w].status = "cancelled"
  <2>1. RowChange(wf[w], wf'[w]) /\ RestInv(wf[w]) /\ wf[w] \in Rows
    BY <1>1, StepChange DEF TypeInv, TypeOK
  <2>2. Cancelled(wf[w]).status = "cancelled"
    BY <2>1, CancelledFields
  <2> QED BY <2>1, <2>2 DEF RowChange, RestInv
<1>2. Inv /\ [Next]_vars =>
        [\A w \in Workflows :
            /\ wf[w].status \in {"completed", "cancelled"} => wf'[w] = wf[w]
            /\ wf[w].status = "blocked" =>
                  wf'[w] = wf[w] \/ wf'[w].status = "cancelled"]_vars
  BY <1>1
<1>3. Spec => []Inv
  BY RestCorrect
<1> HIDE DEF Inv
<1> QED BY <1>2, <1>3, PTL DEF Spec, EndsForGood

-----------------------------------------------------------------------------
(* The generations under which a row was claimed lie below its generation,    *)
(* strictly so unless the row is running: closing a claim is what ends it.    *)

GenInv(r) ==
    \A i \in 1..Len(r.history) :
        r.history[i].status = "running" =>
            /\ r.history[i].gen \in Nat
            /\ r.history[i].gen <= r.gen
            /\ r.status # "running" => r.history[i].gen < r.gen
            /\ \A j \in 1..Len(r.history) :
                  /\ r.history[j].status = "running"
                  /\ r.history[i].gen = r.history[j].gen
                  => i = j

\* What GenInv says of one entry of a history h, under a generation g.
ClaimBelow(h, g, i) ==
    /\ h[i].gen \in Nat
    /\ h[i].gen <= g
    /\ \A j \in 1..Len(h) :
          h[j].status = "running" /\ h[i].gen = h[j].gen => i = j

\* GenInv, entry by entry.
LEMMA GenInvIs ==
  ASSUME NEW r
  PROVE  GenInv(r) <=>
           \A i \in 1..Len(r.history) :
              r.history[i].status = "running" =>
                 /\ ClaimBelow(r.history, r.gen, i)
                 /\ r.status # "running" => r.history[i].gen < r.gen
  BY Zenon DEF GenInv, ClaimBelow

\* Where the entries of a history lie once one more, at n, is appended.
AppendsAt(r, s, e, n) ==
    /\ r.gen \in Nat
    /\ s.history[n] = e
    /\ \A i \in 1..Len(r.history) : s.history[i] = r.history[i] /\ i # n
    /\ \A i \in 1..Len(s.history) : i \in 1..Len(r.history) \/ i = n

\* Append adds one entry at the end and moves none.
LEMMA AppendedAt ==
  ASSUME NEW r \in Rows, NEW s, NEW e, s.history = Append(r.history, e)
  PROVE  AppendsAt(r, s, e, Len(r.history) + 1)
<1>1. r.history \in Seq(Entries) /\ r.gen \in Nat
  BY DEF Rows
<1>2. Len(r.history) \in Nat
  BY <1>1
<1>3. Len(s.history) = Len(r.history) + 1 /\ s.history[Len(r.history) + 1] = e
  <2> HIDE DEF Entries
  <2> QED BY <1>1
<1>4. \A i \in 1..Len(r.history) : s.history[i] = r.history[i]
  <2> HIDE DEF Entries
  <2> QED BY <1>1
<1>5. /\ \A i \in 1..Len(r.history) : i # Len(r.history) + 1
      /\ \A i \in 1..Len(s.history) :
            i \in 1..Len(r.history) \/ i = Len(r.history) + 1
  BY <1>2, <1>3
<1> QED BY <1>1, <1>3, <1>4, <1>5, Zenon DEF AppendsAt

\* A claim appended to a row that is not running opens a new generation.
LEMMA OpenKeepsGen ==
  ASSUME NEW r \in Rows, GenInv(r), r.status # "running", NEW s,
         NEW e, e.status = "running", e.gen = r.gen,
         s.history = Append(r.history, e), s.gen = r.gen, s.status = "running"
  PROVE  GenInv(s)
<1> DEFINE n == Len(r.history) + 1
<1>1. /\ r.gen \in Nat /\ s.history[n] = e
      /\ \A i \in 1..Len(r.history) : s.history[i] = r.history[i] /\ i # n
      /\ \A i \in 1..Len(s.history) : i \in 1..Len(r.history) \/ i = n
  <2>1. AppendsAt(r, s, e, n)
    BY AppendedAt
  <2> HIDE DEF n
  <2> QED BY <2>1 DEF AppendsAt
<1>2. ASSUME NEW i \in 1..Len(r.history), r.history[i].status = "running"
      PROVE  ClaimBelow(r.history, r.gen, i) /\ r.history[i].gen < r.gen
  BY <1>2, GenInvIs
<1> HIDE DEF n
<1>3. ASSUME NEW i \in 1..Len(s.history), s.history[i].status = "running"
      PROVE  ClaimBelow(s.history, s.gen, i)
  <2>1. CASE i \in 1..Len(r.history)
    <3>1. ClaimBelow(r.history, r.gen, i) /\ r.history[i].gen < r.gen
      BY <1>1, <1>2, <1>3, <2>1
    <3>2. s.history[i].gen \in Nat /\ s.history[i].gen < r.gen
      BY <1>1, <2>1, <3>1 DEF ClaimBelow
    <3>3. ASSUME NEW j \in 1..Len(s.history), s.history[j].status = "running",
                 s.history[i].gen = s.history[j].gen
          PROVE  i = j
      <4>1. j # n
        BY <1>1, <3>2, <3>3
      <4>2. j \in 1..Len(r.history)
        BY <1>1, <4>1
      <4> QED BY <1>1, <2>1, <3>1, <3>3, <4>2 DEF ClaimBelow
    <3> QED BY <1>1, <3>2, <3>3 DEF ClaimBelow
  <2>2. CASE i = n
    <3>1. ASSUME NEW j \in 1..Len(s.history), s.history[j].status = "running",
                 s.history[i].gen = s.history[j].gen
          PROVE  i = j
      <4>1. ASSUME j \in 1..Len(r.history)
            PROVE  FALSE
        <5>1. r.history[j].gen \in Nat /\ r.history[j].gen < r.gen
          BY <1>1, <1>2, <3>1, <4>1 DEF ClaimBelow
        <5> QED BY <1>1, <2>2, <3>1, <4>1, <5>1
      <4> QED BY <1>1, <2>2, <4>1
    <3> QED BY <1>1, <2>2, <3>1 DEF ClaimBelow
  <2> QED BY <1>1, <2>1, <2>2
<1> QED BY <1>3, GenInvIs

\* An entry that is not a claim, written with the next generation.
LEMMA CloseKeepsGen ==
  ASSUME NEW r \in Rows, GenInv(r), NEW s, NEW e, e.status # "running",
         s.history = Append(r.history, e), s.gen = r.gen + 1
  PROVE  GenInv(s)
<1> DEFINE n == Len(r.history) + 1
<1>1. /\ r.gen \in Nat /\ s.history[n] = e
      /\ \A i \in 1..Len(r.history) : s.history[i] = r.history[i] /\ i # n
      /\ \A i \in 1..Len(s.history) : i \in 1..Len(r.history) \/ i = n
  <2>1. AppendsAt(r, s, e, n)
    BY AppendedAt
  <2> HIDE DEF n
  <2> QED BY <2>1 DEF AppendsAt
<1>2. ASSUME NEW i \in 1..Len(r.history), r.history[i].status = "running"
      PROVE  ClaimBelow(r.history, r.gen, i)
  BY <1>2, GenInvIs
<1> HIDE DEF n
<1>3. ASSUME NEW i \in 1..Len(s.history), s.history[i].status = "running"
      PROVE  ClaimBelow(s.history, s.gen, i) /\ s.history[i].gen < s.gen
  <2>1. i \in 1..Len(r.history)
    BY <1>1, <1>3
  <2>2. ClaimBelow(r.history, r.gen, i)
    BY <1>1, <1>2, <1>3, <2>1
  <2>3. /\ s.history[i].gen \in Nat /\ s.history[i].gen <= s.gen
        /\ s.history[i].gen < s.gen
    BY <1>1, <2>1, <2>2 DEF ClaimBelow
  <2>4. ASSUME NEW j \in 1..Len(s.history), s.history[j].status = "running",
               s.history[i].gen = s.history[j].gen
        PROVE  i = j
    <3>1. j \in 1..Len(r.history)
      BY <1>1, <2>4
    <3> QED BY <1>1, <2>1, <2>2, <2>4, <3>1 DEF ClaimBelow
  <2> QED BY <2>3, <2>4 DEF ClaimBelow
<1> QED BY <1>3, GenInvIs

LEMMA ChangeKeepsGen ==
  ASSUME NEW r \in Rows, NEW s, GenInv(r), RowChange(r, s)
  PROVE  GenInv(s)
<1>1. CASE \E publish \in BOOLEAN :
             s = [r EXCEPT !.status = "pending", !.publish = publish]
                 /\ r.status = "absent"
  <2>1. s.history = r.history /\ s.gen = r.gen
    BY <1>1 DEF Rows
  <2> QED BY <1>1, <2>1 DEF GenInv
<1>2. CASE r.status = "failed" /\ s = Resumed(r)
  <2>1. s.history = r.history /\ s.gen = r.gen + 1 /\ r.gen \in Nat
    BY <1>2, ResumedFields DEF Rows
  <2> QED BY <2>1 DEF GenInv
<1>3. CASE s = Cancelled(r)
  <2> DEFINE e == Entry(r, "cancelled", "client", 0)
  <2>1. e.status # "running" /\ s.history = Append(r.history, e) /\ s.gen = r.gen + 1
    BY <1>3, CancelledFields DEF Entry
  <2> HIDE DEF e
  <2> QED BY <2>1, CloseKeepsGen
<1>4. CASE r.status = "pending" /\ s = Claimed(r)
  <2> DEFINE e == Entry(r, "running", "worker", r.claims + 1)
  <2>1. /\ e.status = "running" /\ e.gen = r.gen /\ s.history = Append(r.history, e)
        /\ s.gen = r.gen /\ s.status = "running"
    BY <1>4, ClaimedFields DEF Entry
  <2> HIDE DEF e
  <2> QED BY <1>4, <2>1, OpenKeepsGen
<1>5. ASSUME NEW c \in Claims, s = Succeeded(r, c)
      PROVE  GenInv(s)
  <2> DEFINE e == Entry(r, "completed", "worker", c.token)
  <2>1. e.status # "running" /\ s.history = Append(r.history, e) /\ s.gen = r.gen + 1
    BY <1>5, SucceededFields DEF Entry
  <2> HIDE DEF e
  <2> QED BY <2>1, CloseKeepsGen
<1>6. ASSUME NEW c \in Claims, s = Failed(r, c)
      PROVE  GenInv(s)
  <2> DEFINE e == Entry(r, "failed", "worker", c.token)
  <2>1. e.status # "running" /\ s.history = Append(r.history, e) /\ s.gen = r.gen + 1
    BY <1>6, FailedFields DEF Entry
  <2> HIDE DEF e
  <2> QED BY <2>1, CloseKeepsGen
<1>7. CASE s = Interrupted(r)
  <2> DEFINE e == Entry(r, s.status, "beat", r.token)
  <2>1. s.status # "running" /\ s.history = Append(r.history, e) /\ s.gen = r.gen + 1
    BY <1>7, InterruptedFields
  <2>2. e.status # "running"
    BY <2>1 DEF Entry
  <2> HIDE DEF e
  <2> QED BY <2>1, <2>2, CloseKeepsGen
<1>8. CASE \/ s = [r EXCEPT !.lease = "expired"]
           \/ s = [r EXCEPT !.retry = "due"]
           \/ s = r
  <2>1. s.history = r.history /\ s.gen = r.gen /\ s.status = r.status
    BY <1>8 DEF Rows
  <2> QED BY <2>1 DEF GenInv
<1> QED BY <1>1, <1>2, <1>3, <1>4, <1>5, <1>6, <1>7, <1>8 DEF RowChange

\* No generation of a workflow is claimed twice, however often, late or without
\* its generation a message is delivered (WorkflowRecords.claim, finish,
\* recoverable).
THEOREM OneClaimPerGenerationCorrect == Spec => []OneClaimPerGeneration
<1> DEFINE Inv == TypeInv /\ \A w \in Workflows : GenInv(wf[w])
<1>1. Init => Inv
  BY InitTypeInv DEF Init, Absent, GenInv
<1>2. Inv /\ [Next]_vars => Inv'
  BY NextTypeInv, StepChange, ChangeKeepsGen DEF TypeInv, TypeOK
<1>3. Inv => OneClaimPerGeneration
  BY DEF GenInv, OneClaimPerGeneration
<1> HIDE DEF Inv
<1> QED BY <1>1, <1>2, <1>3, PTL DEF Spec

-----------------------------------------------------------------------------
(***************************************************************************)
(* The durable workflow implements the ledger of WorkflowLedger, for every *)
(* number of workflows, workers, stages and attempts.                      *)
(*                                                                         *)
(* The argument needs one fact that relates the worker processes to the    *)
(* rows: a worker whose token is still the row's holds a claim of the very *)
(* stage the row is at.  It is inductive together with the bound of the    *)
(* tokens in flight by the number of claims made, which is what a fresh    *)
(* uuid4 per claim provides.                                               *)
(***************************************************************************)

InFlight(c) == c.pc \in {"stage", "backoff", "finish"}

\* A running row carries the token of the newest claim.
NewestInv(r) == r.status = "running" => r.token = r.claims

HeldInv(c) ==
    InFlight(c) =>
        /\ c.token <= wf[c.id].claims
        /\ wf[c.id].status = "running" /\ wf[c.id].token = c.token
              => wf[c.id].stage = c.stage

ClaimInv ==
    /\ TypeInv
    /\ \A w \in Workflows : NewestInv(wf[w])
    /\ \A p \in Workers : HeldInv(worker[p])

LEMMA ChangeKeepsNewest ==
  ASSUME NEW r \in Rows, NEW s, NewestInv(r), RowChange(r, s)
  PROVE  /\ NewestInv(s)
         /\ r.claims \in Nat /\ r.claims <= s.claims
         /\ s.status = "running" /\ s.token <= r.claims =>
               /\ r.status = "running" /\ s.token = r.token /\ s.stage = r.stage
               /\ s.attempts = r.attempts
<1> DEFINE Goal == /\ NewestInv(s)
                   /\ r.claims <= s.claims
                   /\ s.status = "running" /\ s.token <= r.claims =>
                        /\ r.status = "running" /\ s.token = r.token /\ s.stage = r.stage
                        /\ s.attempts = r.attempts
<1>0. r.claims \in Nat
  BY DEF Rows
<1>1. CASE \E publish \in BOOLEAN :
             s = [r EXCEPT !.status = "pending", !.publish = publish]
  <2>1. s.claims = r.claims /\ s.status = "pending"
    BY <1>1 DEF Rows
  <2> QED BY <1>0, <2>1 DEF NewestInv
<1>2. CASE s = Resumed(r)
  BY <1>0, <1>2, ResumedFields DEF NewestInv
<1>3. CASE s = Cancelled(r)
  BY <1>0, <1>3, CancelledFields DEF NewestInv
<1>4. CASE s = Claimed(r)
  BY <1>0, <1>4, ClaimedFields DEF NewestInv
<1>5. ASSUME NEW c \in Claims, s = Succeeded(r, c)
      PROVE  Goal
  BY <1>0, <1>5, SucceededFields DEF NewestInv
<1>6. ASSUME NEW c \in Claims, s = Failed(r, c)
      PROVE  Goal
  BY <1>0, <1>6, FailedFields DEF NewestInv
<1>7. CASE s = Interrupted(r)
  BY <1>0, <1>7, InterruptedFields DEF NewestInv
<1>8. CASE \/ s = [r EXCEPT !.lease = "expired"]
           \/ s = [r EXCEPT !.retry = "due"]
           \/ s = r
  <2>1. /\ s.claims = r.claims /\ s.status = r.status /\ s.token = r.token
        /\ s.stage = r.stage /\ s.attempts = r.attempts
    BY <1>8 DEF Rows
  <2> QED BY <1>0, <2>1 DEF NewestInv
<1> QED BY <1>0, <1>1, <1>2, <1>3, <1>4, <1>5, <1>6, <1>7, <1>8 DEF RowChange

\* A claim in flight after a step was in flight before it, or is the one the
\* step has just written to the row.
LEMMA WorkerChange ==
  ASSUME TypeInv, [Next]_vars, NEW p \in Workers, InFlight(worker'[p])
  PROVE  \/ /\ InFlight(worker[p])
            /\ worker'[p].id = worker[p].id /\ worker'[p].token = worker[p].token
            /\ worker'[p].stage = worker[p].stage
         \/ LET r == wf'[worker'[p].id] IN
            /\ worker'[p].token = r.claims
            /\ worker'[p].stage = r.stage
<1> DEFINE Kept == /\ InFlight(worker[p])
                   /\ worker'[p].id = worker[p].id
                   /\ worker'[p].token = worker[p].token
                   /\ worker'[p].stage = worker[p].stage
           Fresh == LET r == wf'[worker'[p].id] IN
                    worker'[p].token = r.claims /\ worker'[p].stage = r.stage
<1>0. /\ worker \in [Workers -> Claims] /\ wf \in [Workflows -> Rows]
      /\ NoClaim \in Claims /\ ~InFlight(NoClaim)
  BY NoClaimType DEF TypeInv, TypeOK, InFlight
<1>1. ASSUME NEW q \in Workers, NEW m \in queue, NEW again \in BOOLEAN,
             Deliver(q, m, again)
      PROVE  Kept \/ Fresh
  <2>1. CASE worker' = worker
    BY <2>1
  <2>2. CASE Matches(m, wf[m.wf])
    <3> DEFINE c == [NoClaim EXCEPT !.pc = "stage", !.id = m.wf,
                                    !.token = wf[m.wf].claims + 1,
                                    !.stage = wf[m.wf].stage]
    <3>1. /\ worker' = [worker EXCEPT ![q] = c]
          /\ wf' = [wf EXCEPT ![m.wf] = Claimed(@)]
      BY <1>1, <2>2 DEF Deliver
    <3>2. m.wf \in Workflows
      BY DEF TypeInv, TypeOK, Messages
    <3>3. /\ c.id = m.wf /\ c.token = wf[m.wf].claims + 1
          /\ c.stage = wf[m.wf].stage
      BY <1>0 DEF Claims
    <3> HIDE DEF c
    <3>4. wf'[m.wf] = Claimed(wf[m.wf]) /\ wf[m.wf] \in Rows
      BY <1>0, <3>1, <3>2
    <3>5. wf'[m.wf].claims = wf[m.wf].claims + 1 /\ wf'[m.wf].stage = wf[m.wf].stage
      BY <3>4, ClaimedFields
    <3>6. CASE q = p
      <4>1. worker'[p] = c
        BY <1>0, <3>1, <3>6
      <4> QED BY <3>3, <3>5, <4>1
    <3>7. CASE q # p
      BY <1>0, <3>1, <3>7
    <3> QED BY <3>6, <3>7
  <2> QED BY <1>1, <2>1, <2>2 DEF Deliver
<1>2. ASSUME NEW q \in Workers, NEW outcome, StageEnds(q, outcome)
      PROVE  Kept
  <2>1. CASE q = p
    <3>1. /\ worker'[p].id = worker[p].id /\ worker'[p].token = worker[p].token
          /\ worker'[p].stage = worker[p].stage
      BY <1>0, <1>2, <2>1 DEF StageEnds, Claims
    <3> QED BY <1>2, <2>1, <3>1 DEF StageEnds, InFlight
  <2>2. CASE q # p
    BY <1>0, <1>2, <2>2 DEF StageEnds
  <2> QED BY <2>1, <2>2
<1>3. ASSUME NEW q \in Workers, ReadAttempts(q)
      PROVE  Kept
  <2>1. CASE q = p
    <3>1. /\ worker'[p].id = worker[p].id /\ worker'[p].token = worker[p].token
          /\ worker'[p].stage = worker[p].stage
      BY <1>0, <1>3, <2>1 DEF ReadAttempts, Claims
    <3> QED BY <1>3, <2>1, <3>1 DEF ReadAttempts, InFlight
  <2>2. CASE q # p
    BY <1>0, <1>3, <2>2 DEF ReadAttempts
  <2> QED BY <2>1, <2>2
<1>4. ASSUME NEW q \in Workers, NEW c \in Claims, ~InFlight(c),
             worker' = [worker EXCEPT ![q] = c]
      PROVE  Kept
  <2>1. q # p
    BY <1>0, <1>4
  <2> QED BY <1>0, <1>4, <2>1
<1>5. ASSUME NEW q \in Workers, Finish(q)
      PROVE  Kept
  <2> DEFINE e == [NoClaim EXCEPT !.pc = "wake", !.id = worker[q].id]
  <2>1. worker' = [worker EXCEPT ![q] = e] \/ worker' = [worker EXCEPT ![q] = NoClaim]
    BY <1>5 DEF Finish
  <2>2. worker[q].id \in Workflows
    BY <1>0 DEF Claims
  <2>3. e \in Claims
    BY <1>0, <2>2, Zenon DEF Claims
  <2>4. ~InFlight(e)
    BY <1>0 DEF InFlight, Claims
  <2> HIDE DEF e
  <2> QED BY <1>0, <1>4, <2>1, <2>3, <2>4
<1>6. ASSUME NEW q \in Workers, WakeNext(q) \/ Crash(q)
      PROVE  Kept
  <2>1. worker' = [worker EXCEPT ![q] = NoClaim]
    BY <1>6 DEF WakeNext, Crash
  <2> QED BY <1>0, <1>4, <2>1
<1>7. ASSUME UNCHANGED worker
      PROVE  Kept
  BY <1>7
<1> HIDE DEF Kept, Fresh
<1>8. Kept \/ Fresh
  BY <1>1, <1>2, <1>3, <1>5, <1>6, <1>7
  DEF Next, WorkerStep, RowStep, vars, Recover, Lose, Start, Wake, Resume, Cancel,
      SendOld, Notify, LeaseExpires, RetryDue
<1> QED BY <1>8 DEF Kept, Fresh

LEMMA NextClaimInv ==
  ASSUME ClaimInv, [Next]_vars
  PROVE  ClaimInv'
<1>1. TypeInv'
  BY NextTypeInv DEF ClaimInv
<1>2. \A w \in Workflows :
        /\ NewestInv(wf'[w])
        /\ wf[w].claims \in Nat /\ wf[w].claims <= wf'[w].claims
        /\ wf'[w].status = "running" /\ wf'[w].token <= wf[w].claims =>
              /\ wf[w].status = "running" /\ wf'[w].token = wf[w].token
              /\ wf'[w].stage = wf[w].stage
  BY StepChange, ChangeKeepsNewest DEF ClaimInv, TypeInv, TypeOK
<1>3. ASSUME NEW p \in Workers, InFlight(worker'[p])
      PROVE  /\ worker'[p].token <= wf'[worker'[p].id].claims
             /\ /\ wf'[worker'[p].id].status = "running"
                /\ wf'[worker'[p].id].token = worker'[p].token
                => wf'[worker'[p].id].stage = worker'[p].stage
  <2> DEFINE w == worker'[p].id
  <2>1. w \in Workflows /\ wf'[w].claims \in Nat /\ worker'[p].token \in Nat
    BY <1>1 DEF TypeInv, TypeOK, Claims, Rows
  <2>2. CASE /\ InFlight(worker[p])
             /\ w = worker[p].id /\ worker'[p].token = worker[p].token
             /\ worker'[p].stage = worker[p].stage
    <3>1. /\ worker[p].token <= wf[w].claims
          /\ wf[w].status = "running" /\ wf[w].token = worker[p].token
                => wf[w].stage = worker[p].stage
      BY <2>2 DEF ClaimInv, HeldInv
    <3> QED BY <1>2, <2>1, <2>2, <3>1
  <2>3. CASE worker'[p].token = wf'[w].claims /\ worker'[p].stage = wf'[w].stage
    BY <2>1, <2>3
  <2> QED BY <1>3, <2>2, <2>3, WorkerChange DEF ClaimInv
<1>4. \A p \in Workers : HeldInv(worker[p])'
  BY <1>3 DEF HeldInv, InFlight
<1> QED BY <1>1, <1>2, <1>4 DEF ClaimInv

LEMMA InitClaimInv == Init => ClaimInv
  BY InitTypeInv DEF Init, ClaimInv, Absent, NewestInv, HeldInv, InFlight, NoClaim

-----------------------------------------------------------------------------
(* The ledger of a row, and each step of a row as a step of its ledger *)

LedgerRow(r) ==
    [stage |-> r.stage, state |-> LedgerState(r.status), tries |-> r.attempts]

LEMMA LedgerStates ==
  /\ LedgerState("absent") = "absent" /\ LedgerState("pending") = "waiting"
  /\ LedgerState("running") = "active" /\ LedgerState("failed") = "stopped"
  /\ LedgerState("blocked") = "blocked" /\ LedgerState("completed") = "done"
  /\ LedgerState("cancelled") = "cancelled"
  BY DEF LedgerState

LEMMA LedgerIsRows ==
  /\ LedgerOf = [w \in Workflows |-> LedgerRow(wf[w])]
  /\ LedgerOf' = [w \in Workflows |-> LedgerRow(wf'[w])]
  BY DEF LedgerOf, LedgerRow

LEMMA LedgerRowExcept ==
  ASSUME NEW r, NEW state, NEW tries
  PROVE  /\ [LedgerRow(r) EXCEPT !.state = state] =
               [stage |-> r.stage, state |-> state, tries |-> r.attempts]
         /\ [LedgerRow(r) EXCEPT !.state = state, !.tries = tries] =
               [stage |-> r.stage, state |-> state, tries |-> tries]
<1>1. [LedgerRow(r) EXCEPT !.state = state] =
        [stage |-> r.stage, state |-> state, tries |-> r.attempts]
  BY DEF LedgerRow
<1>2. [[stage |-> r.stage, state |-> state, tries |-> r.attempts] EXCEPT !.tries = tries] =
        [stage |-> r.stage, state |-> state, tries |-> tries]
  OBVIOUS
<1>3. [LedgerRow(r) EXCEPT !.state = state, !.tries = tries] =
        [[LedgerRow(r) EXCEPT !.state = state] EXCEPT !.tries = tries]
  OBVIOUS
<1> QED BY <1>1, <1>2, <1>3

\* Rewriting one row rewrites one ledger.
LEMMA LedgerUpdate ==
  ASSUME TypeInv, NEW w \in Workflows, NEW r, wf' = [wf EXCEPT ![w] = r]
  PROVE  LedgerOf' = [LedgerOf EXCEPT ![w] = LedgerRow(r)]
<1>1. wf \in [Workflows -> Rows]
  BY DEF TypeInv, TypeOK
<1> QED BY <1>1, LedgerIsRows

LEMMA MoveStep ==
  ASSUME TypeInv, NEW w \in Workflows, NEW r, wf' = [wf EXCEPT ![w] = r],
         r.stage = wf[w].stage, r.attempts = wf[w].attempts, NEW from,
         LedgerState(wf[w].status) \in from
  PROVE  Ledger!Move(w, from, LedgerState(r.status))
<1>1. LedgerOf' = [LedgerOf EXCEPT ![w] = LedgerRow(r)]
  BY LedgerUpdate
<1>2. LedgerOf[w] = LedgerRow(wf[w])
  BY LedgerIsRows
<1>3. LedgerRow(r) = [LedgerOf[w] EXCEPT !.state = LedgerState(r.status)]
  BY <1>2 DEF LedgerRow
<1>4. LedgerOf[w].state \in from
  BY <1>2 DEF LedgerRow
<1> QED BY <1>1, <1>3, <1>4 DEF Ledger!Move

LEMMA UnchangedLedger ==
  ASSUME TypeInv, NEW w \in Workflows, NEW r, wf' = [wf EXCEPT ![w] = r],
         LedgerRow(r) = LedgerRow(wf[w])
  PROVE  UNCHANGED LedgerOf
<1>1. LedgerOf' = [LedgerOf EXCEPT ![w] = LedgerRow(r)]
  BY LedgerUpdate
<1>2. LedgerOf[w] = LedgerRow(r) /\ LedgerOf = [v \in Workflows |-> LedgerRow(wf[v])]
  BY LedgerIsRows
<1> QED BY <1>1, <1>2

\* Claims that end without success, of one row or of several at once.
LEMMA InterruptStep ==
  ASSUME TypeInv, NEW S \in SUBSET Workflows, NEW f,
         \A w \in S : /\ wf[w].status = "running"
                      /\ f[w].status \in {"failed", "blocked"}
                      /\ f[w].stage = wf[w].stage /\ f[w].attempts = wf[w].attempts,
         wf' = [w \in Workflows |-> IF w \in S THEN f[w] ELSE wf[w]]
  PROVE  Ledger!Interrupt(S)
<1> DEFINE to == [w \in S |-> LedgerState(f[w].status)]
<1>1. to \in [S -> {"stopped", "blocked"}]
  BY LedgerStates
<1>2. \A w \in S : LedgerOf[w].state = "active"
  BY LedgerIsRows, LedgerStates DEF LedgerRow
<1>3. \A w \in Workflows : LedgerRow(wf'[w]) =
        IF w \in S THEN [LedgerOf[w] EXCEPT !.state = to[w]] ELSE LedgerOf[w]
  <2>1. ASSUME NEW w \in S
        PROVE  LedgerRow(f[w]) = [LedgerOf[w] EXCEPT !.state = to[w]]
    <3>1. LedgerOf[w] = LedgerRow(wf[w])
      BY LedgerIsRows
    <3>2. [LedgerRow(wf[w]) EXCEPT !.state = to[w]] =
            [stage |-> wf[w].stage, state |-> to[w], tries |-> wf[w].attempts]
      BY LedgerRowExcept
    <3>3. LedgerRow(f[w]) =
            [stage |-> wf[w].stage, state |-> to[w], tries |-> wf[w].attempts]
      BY DEF LedgerRow
    <3> HIDE DEF to
    <3> QED BY <3>1, <3>2, <3>3
  <2> QED BY <2>1, LedgerIsRows
<1> HIDE DEF to
<1>4. LedgerOf' = [w \in Workflows |->
        IF w \in S THEN [LedgerOf[w] EXCEPT !.state = to[w]] ELSE LedgerOf[w]]
  BY <1>3, LedgerIsRows
<1> QED BY <1>1, <1>2, <1>4 DEF Ledger!Interrupt

LEMMA FollowsStage ==
  ASSUME NEW s \in StageNames, s # "done", NEW publish \in BOOLEAN
  PROVE  s \in Ledger!Follows(s) /\ NextStage(s, publish) \in Ledger!Follows(s)
  BY DEF Ledger!Follows, NextStage

LEMMA BeginStep ==
  ASSUME TypeInv, NEW w \in Workflows, wf[w].status = "pending",
         wf' = [wf EXCEPT ![w] = Claimed(@)]
  PROVE  Ledger!Begin(w)
<1> DEFINE r == Claimed(wf[w])
<1>1. wf[w] \in Rows /\ wf[w].attempts < AttemptLimit
  BY DEF TypeInv, TypeOK, RowInv
<1>2. /\ r.stage = wf[w].stage /\ r.status = "running"
      /\ r.attempts = wf[w].attempts + 1
  BY <1>1, ClaimedFields
<1>3. wf' = [wf EXCEPT ![w] = r]
  OBVIOUS
<1> HIDE DEF r
<1>4. LedgerOf' = [LedgerOf EXCEPT ![w] = LedgerRow(r)]
  BY <1>3, LedgerUpdate
<1>5. LedgerOf[w] = LedgerRow(wf[w])
  BY LedgerIsRows
<1>6. LedgerRow(r) = [stage |-> wf[w].stage, state |-> "active",
                      tries |-> wf[w].attempts + 1]
  BY <1>2, LedgerStates DEF LedgerRow
<1>7. LedgerOf[w].state = "waiting" /\ LedgerOf[w].tries < AttemptLimit
  BY <1>1, <1>5, LedgerStates DEF LedgerRow
<1>8. LedgerOf[w].stage = wf[w].stage /\ LedgerOf[w].tries = wf[w].attempts
  BY <1>5 DEF LedgerRow
<1> QED BY <1>4, <1>6, <1>7, <1>8 DEF Ledger!Begin

LEMMA CompleteStep ==
  ASSUME TypeInv, NEW w \in Workflows, wf[w].status = "running",
         NEW c \in Claims, c.stage = wf[w].stage, c.stage # "done",
         wf' = [wf EXCEPT ![w] = Succeeded(@, c)]
  PROVE  Ledger!Complete(w)
<1> DEFINE r == Succeeded(wf[w], c)
<1>1. wf[w] \in Rows /\ wf[w].publish \in BOOLEAN /\ c.stage \in StageNames
  BY DEF TypeInv, TypeOK, Rows, Claims
<1>2. /\ r.stage \in {c.stage, NextStage(c.stage, wf[w].publish)}
      /\ r.status = IF r.stage = "done" THEN "completed" ELSE "pending"
      /\ r.attempts = 0
  BY <1>1, SucceededFields
<1>3. wf' = [wf EXCEPT ![w] = r]
  OBVIOUS
<1> HIDE DEF r
<1>4. r.stage \in Ledger!Follows(wf[w].stage)
  BY <1>1, <1>2, FollowsStage
<1>5. LedgerOf' = [LedgerOf EXCEPT ![w] = LedgerRow(r)]
  BY <1>3, LedgerUpdate
<1>6. LedgerOf[w].state = "active" /\ LedgerOf[w].stage = wf[w].stage
  BY LedgerIsRows, LedgerStates DEF LedgerRow
<1>7. LedgerRow(r) = [stage |-> r.stage,
                      state |-> IF r.stage = "done" THEN "done" ELSE "waiting",
                      tries |-> 0]
  BY <1>2, LedgerStates DEF LedgerRow
<1> QED BY <1>4, <1>5, <1>6, <1>7 DEF Ledger!Complete

LEMMA FailStep ==
  ASSUME TypeInv, NEW w \in Workflows, wf[w].status = "running", NEW c \in Claims,
         wf' = [wf EXCEPT ![w] = Failed(@, c)]
  PROVE  Ledger!Fail(w)
<1> DEFINE r == Failed(wf[w], c)
<1>1. wf[w] \in Rows
  BY DEF TypeInv, TypeOK
<1>2. /\ r.stage = wf[w].stage /\ r.attempts = wf[w].attempts
      /\ \/ r.status = "pending" /\ r.attempts < AttemptLimit
         \/ r.status \in {"failed", "blocked"}
  BY <1>1, FailedFields
<1>3. wf' = [wf EXCEPT ![w] = r]
  OBVIOUS
<1> HIDE DEF r
<1>4. CASE r.status = "pending" /\ r.attempts < AttemptLimit
  <2>1. LedgerState(wf[w].status) \in {"active"}
    BY LedgerStates
  <2>2. Ledger!Move(w, {"active"}, LedgerState(r.status))
    BY <1>2, <1>3, <2>1, MoveStep
  <2>3. Ledger!Move(w, {"active"}, "waiting")
    BY <1>4, <2>2, LedgerStates
  <2>4. LedgerOf[w].tries < AttemptLimit
    BY <1>2, <1>4, LedgerIsRows DEF LedgerRow
  <2> QED BY <2>3, <2>4 DEF Ledger!Fail
<1>5. CASE r.status \in {"failed", "blocked"}
  <2> DEFINE f == [v \in {w} |-> r]
  <2>1. wf' = [v \in Workflows |-> IF v \in {w} THEN f[v] ELSE wf[v]]
    BY <1>3 DEF TypeInv, TypeOK
  <2>2. \A v \in {w} : /\ wf[v].status = "running"
                       /\ f[v].status \in {"failed", "blocked"}
                       /\ f[v].stage = wf[v].stage /\ f[v].attempts = wf[v].attempts
    BY <1>2, <1>5
  <2> HIDE DEF f
  <2>3. Ledger!Interrupt({w})
    BY <2>1, <2>2, InterruptStep
  <2> QED BY <2>3 DEF Ledger!Fail
<1> QED BY <1>2, <1>4, <1>5

LEMMA RowStepLedger ==
  ASSUME TypeInv, NEW w \in Workflows, RowStep(w)
  PROVE  [Ledger!Next]_LedgerOf
<1>0. wf[w] \in Rows
  BY DEF TypeInv, TypeOK
<1>1. CASE Start(w)
  <2>1. PICK publish \in BOOLEAN :
          wf' = [wf EXCEPT ![w] = [@ EXCEPT !.status = "pending", !.publish = publish]]
    BY <1>1 DEF Start
  <2> DEFINE r == [wf[w] EXCEPT !.status = "pending", !.publish = publish]
  <2>2. r.stage = wf[w].stage /\ r.attempts = wf[w].attempts /\ r.status = "pending"
    BY <1>0 DEF Rows
  <2>3. LedgerState(wf[w].status) \in {"absent"} /\ LedgerState(r.status) = "waiting"
    BY <1>1, <2>2, LedgerStates DEF Start
  <2>4. wf' = [wf EXCEPT ![w] = r]
    BY <2>1
  <2> HIDE DEF r
  <2>5. Ledger!Move(w, {"absent"}, LedgerState(r.status))
    BY <2>2, <2>3, <2>4, MoveStep
  <2> QED BY <2>3, <2>5 DEF Ledger!Open, Ledger!Next
<1>2. CASE Resume(w)
  <2> DEFINE r == Resumed(wf[w])
  <2>1. r.stage = wf[w].stage /\ r.attempts = wf[w].attempts /\ r.status = "pending"
    BY <1>0, ResumedFields
  <2>2. LedgerState(wf[w].status) \in {"stopped"} /\ LedgerState(r.status) = "waiting"
    BY <1>2, <2>1, LedgerStates DEF Resume
  <2>3. wf' = [wf EXCEPT ![w] = r]
    BY <1>2 DEF Resume
  <2> HIDE DEF r
  <2>4. Ledger!Move(w, {"stopped"}, LedgerState(r.status))
    BY <2>1, <2>2, <2>3, MoveStep
  <2>5. LedgerOf[w].tries < AttemptLimit
    BY <1>2, LedgerIsRows DEF Resume, LedgerRow
  <2> QED BY <2>2, <2>4, <2>5 DEF Ledger!Reopen, Ledger!Next
<1>3. CASE Cancel(w)
  <2> DEFINE r == Cancelled(wf[w])
             from == {"waiting", "stopped", "blocked"}
  <2>1. r.stage = wf[w].stage /\ r.attempts = wf[w].attempts /\ r.status = "cancelled"
    BY <1>0, CancelledFields
  <2>2. LedgerState(wf[w].status) \in from /\ LedgerState(r.status) = "cancelled"
    BY <1>3, <2>1, LedgerStates DEF Cancel
  <2>3. wf' = [wf EXCEPT ![w] = r]
    BY <1>3 DEF Cancel
  <2> HIDE DEF r, from
  <2>4. Ledger!Move(w, from, LedgerState(r.status))
    BY <2>1, <2>2, <2>3, MoveStep
  <2> QED BY <2>2, <2>4 DEF Ledger!Abandon, Ledger!Next, from
<1>4. ASSUME NEW r, wf' = [wf EXCEPT ![w] = r], r.stage = wf[w].stage,
             r.attempts = wf[w].attempts, r.status = wf[w].status
      PROVE  UNCHANGED LedgerOf
  <2>1. LedgerRow(r) = LedgerRow(wf[w])
    BY <1>4 DEF LedgerRow
  <2> QED BY <1>4, <2>1, UnchangedLedger
<1>5. CASE LeaseExpires(w)
  <2> DEFINE r == [wf[w] EXCEPT !.lease = "expired"]
  <2>1. /\ r.stage = wf[w].stage /\ r.attempts = wf[w].attempts
        /\ r.status = wf[w].status
    BY <1>0 DEF Rows
  <2>2. wf' = [wf EXCEPT ![w] = r]
    BY <1>5 DEF LeaseExpires
  <2> HIDE DEF r
  <2> QED BY <1>4, <2>1, <2>2
<1>6. CASE RetryDue(w)
  <2> DEFINE r == [wf[w] EXCEPT !.retry = "due"]
  <2>1. /\ r.stage = wf[w].stage /\ r.attempts = wf[w].attempts
        /\ r.status = wf[w].status
    BY <1>0 DEF Rows
  <2>2. wf' = [wf EXCEPT ![w] = r]
    BY <1>6 DEF RetryDue
  <2> HIDE DEF r
  <2> QED BY <1>4, <2>1, <2>2
<1>7. CASE Wake(w) \/ SendOld(w) \/ Notify(w)
  BY <1>7, LedgerIsRows DEF Wake, SendOld, Notify
<1> QED BY <1>1, <1>2, <1>3, <1>5, <1>6, <1>7 DEF RowStep

LEMMA WorkerStepLedger ==
  ASSUME ClaimInv, NEW p \in Workers, WorkerStep(p)
  PROVE  [Ledger!Next]_LedgerOf
<1>0. TypeInv /\ wf \in [Workflows -> Rows] /\ worker[p] \in Claims
  BY DEF ClaimInv, TypeInv, TypeOK
<1>1. CASE UNCHANGED wf
  BY <1>1, LedgerIsRows
<1>2. ASSUME NEW m \in queue, NEW again \in BOOLEAN, Deliver(p, m, again)
      PROVE  [Ledger!Next]_LedgerOf
  <2>1. m.wf \in Workflows
    BY <1>0 DEF TypeInv, TypeOK, Messages
  <2>2. CASE Matches(m, wf[m.wf])
    <3>1. wf[m.wf].status = "pending" /\ wf' = [wf EXCEPT ![m.wf] = Claimed(@)]
      BY <1>2, <2>2 DEF Deliver, Matches
    <3>2. Ledger!Begin(m.wf)
      BY <1>0, <2>1, <3>1, BeginStep
    <3> QED BY <2>1, <3>2 DEF Ledger!Next
  <2>3. CASE ~Matches(m, wf[m.wf])
    BY <1>1, <1>2, <2>3 DEF Deliver
  <2> QED BY <2>2, <2>3
<1>3. CASE Finish(p)
  <2> DEFINE c == worker[p]
             w == c.id
  <2>1. CASE Owns(c)
    <3>1. w \in Workflows /\ c \in Claims
      BY <1>0 DEF Claims
    <3>2. wf[w].status = "running" /\ wf[w].stage = c.stage
      BY <1>3, <2>1 DEF Owns, Finish, ClaimInv, HeldInv, InFlight
    <3>3. c.stage # "done"
      BY <1>0, <3>1, <3>2 DEF TypeInv, RowInv
    <3>4. \/ wf' = [wf EXCEPT ![w] = Failed(@, c)]
          \/ wf' = [wf EXCEPT ![w] = Succeeded(@, c)]
      BY <1>3, <2>1 DEF Finish
    <3> HIDE DEF c, w
    <3>5. Ledger!Fail(w) \/ Ledger!Complete(w)
      BY <1>0, <3>1, <3>2, <3>3, <3>4, FailStep, CompleteStep
    <3> QED BY <3>1, <3>5 DEF Ledger!Next
  <2>2. CASE ~Owns(c)
    BY <1>1, <1>3, <2>2 DEF Finish
  <2> QED BY <2>1, <2>2
<1> QED
  BY <1>1, <1>2, <1>3 DEF WorkerStep, StageEnds, ReadAttempts, WakeNext, Crash

LEMMA RecoverLedger ==
  ASSUME TypeInv, Recover
  PROVE  [Ledger!Next]_LedgerOf
<1>1. PICK S \in SUBSET Workflows :
        /\ Batch(S, Expired)
        /\ wf' = [w \in Workflows |-> IF w \in S THEN Interrupted(wf[w]) ELSE wf[w]]
  BY DEF Recover
<1> DEFINE f == [w \in S |-> Interrupted(wf[w])]
<1>2. ASSUME NEW w \in S
      PROVE  /\ wf[w].status = "running"
             /\ f[w].status \in {"failed", "blocked"}
             /\ f[w].stage = wf[w].stage /\ f[w].attempts = wf[w].attempts
  <2>1. wf[w] \in Rows /\ wf[w].status = "running"
    BY <1>1 DEF TypeInv, TypeOK, Batch, Expired
  <2> QED BY <2>1, InterruptedFields
<1>3. wf' = [w \in Workflows |-> IF w \in S THEN f[w] ELSE wf[w]]
  BY <1>1
<1> HIDE DEF f
<1>4. Ledger!Interrupt(S)
  BY <1>2, <1>3, InterruptStep
<1> QED BY <1>4 DEF Ledger!Next

\* Every step of the rows, the messages, the workers and the recovery passes is
\* one step of the abstract ledger or invisible to it: what WorkflowRecords
\* promises its callers holds whatever the broker and the workers do.
THEOREM LedgerImplemented == Spec => ImplementsLedger
<1>1. Init => Ledger!Init
  <2>1. ASSUME Init
        PROVE  LedgerOf = [w \in Workflows |->
                 [stage |-> Stages[1], state |-> "absent", tries |-> 0]]
    BY <2>1, LedgerIsRows, LedgerStates DEF Init, Absent, LedgerRow
  <2> QED BY <2>1 DEF Ledger!Init
<1>2. ClaimInv /\ [Next]_vars => [Ledger!Next]_LedgerOf
  <2> SUFFICES ASSUME ClaimInv, [Next]_vars
               PROVE  [Ledger!Next]_LedgerOf
    OBVIOUS
  <2>1. CASE UNCHANGED wf
    BY <2>1, LedgerIsRows
  <2> QED
    BY <2>1, RowStepLedger, WorkerStepLedger, RecoverLedger
    DEF ClaimInv, Next, vars, Lose
<1>3. ClaimInv /\ [Next]_vars => ClaimInv'
  BY NextClaimInv
<1>4. Init => ClaimInv
  BY InitClaimInv
<1> QED BY <1>1, <1>2, <1>3, <1>4, PTL DEF Spec, ImplementsLedger, Ledger!Spec

-----------------------------------------------------------------------------
(***************************************************************************)
(* What the history of a workflow tells, for every number of workflows,    *)
(* workers, stages and attempts: claims and their ends alternate, a stage  *)
(* that changes source is not run again after its worker was given up, and *)
(* a retry delay is that of the attempt that failed.                       *)
(*                                                                         *)
(* A step either leaves a history alone or appends one entry, and what the *)
(* entry says of the row's claim rests on ClaimInv: the worker that closes *)
(* it holds a claim of the very stage the row is at.                       *)
(***************************************************************************)

(* What a worker brings to finish *)

\* Only implement repeats; and the attempts it read are those of its own claim.
ResultInv(c) ==
    /\ c.pc \in {"backoff", "finish"} /\ c.outcome = "repeat" => c.stage = "implement"
    /\ c.pc = "finish" /\ Retries(c.stage, c.outcome) /\ Owns(c)
          => c.seen = wf[c.id].attempts

WorkInv ==
    /\ ClaimInv
    /\ \A p \in Workers : ResultInv(worker[p])

\* A worker that has a result had it before the step, or gets it in the step,
\* which then leaves the rows alone.
LEMMA ResultChange ==
  ASSUME WorkInv, [Next]_vars, NEW p \in Workers,
         worker'[p].pc \in {"backoff", "finish"}
  PROVE  \/ worker'[p] = worker[p]
         \/ /\ wf' = wf
            /\ worker'[p].outcome = "repeat" => worker'[p].stage = "implement"
            /\ worker'[p].pc = "finish" /\ Retries(worker'[p].stage, worker'[p].outcome)
                  => worker'[p].seen = wf[worker'[p].id].attempts
<1> DEFINE Kept == worker'[p] = worker[p]
           Got == /\ wf' = wf
                  /\ worker'[p].outcome = "repeat" => worker'[p].stage = "implement"
                  /\ worker'[p].pc = "finish" /\ Retries(worker'[p].stage, worker'[p].outcome)
                        => worker'[p].seen = wf[worker'[p].id].attempts
<1>0. /\ worker \in [Workers -> Claims]
      /\ NoClaim \in Claims /\ NoClaim.pc = "idle"
  BY NoClaimType DEF WorkInv, ClaimInv, TypeInv, TypeOK
<1>1. ASSUME NEW q \in Workers, NEW c \in Claims, c.pc \notin {"backoff", "finish"},
             worker' = [worker EXCEPT ![q] = c]
      PROVE  Kept
  <2>1. q # p
    BY <1>0, <1>1
  <2> QED BY <1>0, <1>1, <2>1
<1>2. ASSUME NEW q \in Workers, NEW m \in queue, NEW again \in BOOLEAN,
             Deliver(q, m, again)
      PROVE  Kept
  <2>1. CASE worker' = worker
    BY <2>1
  <2>2. CASE Matches(m, wf[m.wf])
    <3> DEFINE c == [NoClaim EXCEPT !.pc = "stage", !.id = m.wf,
                                    !.token = wf[m.wf].claims + 1,
                                    !.stage = wf[m.wf].stage]
    <3>1. worker' = [worker EXCEPT ![q] = c]
      BY <1>2, <2>2 DEF Deliver
    <3>2. m.wf \in Workflows /\ wf[m.wf] \in Rows
      BY DEF WorkInv, ClaimInv, TypeInv, TypeOK, Messages
    <3>3. wf[m.wf].claims + 1 \in Nat /\ wf[m.wf].stage \in StageNames
      BY <3>2 DEF Rows
    <3>4. c \in Claims
      BY <1>0, <3>2, <3>3, Zenon DEF Claims
    <3>5. c.pc = "stage"
      BY <1>0 DEF Claims
    <3> HIDE DEF c
    <3> QED BY <1>1, <3>1, <3>4, <3>5
  <2> QED BY <1>2, <2>1, <2>2 DEF Deliver
<1>3. ASSUME NEW q \in Workers, NEW outcome, StageEnds(q, outcome)
      PROVE  Kept \/ Got
  <2>1. CASE q = p
    <3>1. /\ worker'[p].outcome = outcome /\ worker'[p].stage = worker[p].stage
          /\ worker'[p].pc = IF Retries(worker[p].stage, outcome) THEN "backoff" ELSE "finish"
      BY <1>0, <1>3, <2>1 DEF StageEnds, Claims
    <3>2. outcome = "repeat" => worker[p].stage = "implement"
      BY <1>3, <2>1 DEF StageEnds, Outcomes, Failures
    <3> QED BY <1>3, <3>1, <3>2 DEF StageEnds
  <2>2. CASE q # p
    BY <1>0, <1>3, <2>2 DEF StageEnds
  <2> QED BY <2>1, <2>2
<1>4. ASSUME NEW q \in Workers, ReadAttempts(q)
      PROVE  Kept \/ Got
  <2>1. CASE q = p
    <3>1. /\ worker'[p].id = worker[p].id /\ worker'[p].outcome = worker[p].outcome
          /\ worker'[p].stage = worker[p].stage
          /\ worker'[p].seen = wf[worker[p].id].attempts
      BY <1>0, <1>4, <2>1 DEF ReadAttempts, Claims
    <3>2. worker[p].outcome = "repeat" => worker[p].stage = "implement"
      BY <1>4, <2>1 DEF ReadAttempts, WorkInv, ResultInv
    <3> QED BY <1>4, <3>1, <3>2 DEF ReadAttempts
  <2>2. CASE q # p
    BY <1>0, <1>4, <2>2 DEF ReadAttempts
  <2> QED BY <2>1, <2>2
<1>5. ASSUME NEW q \in Workers, Finish(q)
      PROVE  Kept
  <2> DEFINE e == [NoClaim EXCEPT !.pc = "wake", !.id = worker[q].id]
  <2>1. worker' = [worker EXCEPT ![q] = e] \/ worker' = [worker EXCEPT ![q] = NoClaim]
    BY <1>5 DEF Finish
  <2>2. worker[q].id \in Workflows
    BY <1>0 DEF Claims
  <2>3. e \in Claims
    BY <1>0, <2>2, Zenon DEF Claims
  <2>4. e.pc = "wake"
    BY <1>0 DEF Claims
  <2> HIDE DEF e
  <2> QED BY <1>0, <1>1, <2>1, <2>3, <2>4
<1>6. ASSUME NEW q \in Workers, WakeNext(q) \/ Crash(q)
      PROVE  Kept
  <2>1. worker' = [worker EXCEPT ![q] = NoClaim]
    BY <1>6 DEF WakeNext, Crash
  <2> QED BY <1>0, <1>1, <2>1
<1>7. ASSUME UNCHANGED worker
      PROVE  Kept
  BY <1>7
<1> HIDE DEF Kept, Got
<1>8. Kept \/ Got
  BY <1>2, <1>3, <1>4, <1>5, <1>6, <1>7
  DEF Next, WorkerStep, RowStep, vars, Recover, Lose, Start, Wake, Resume, Cancel,
      SendOld, Notify, LeaseExpires, RetryDue
<1> QED BY <1>8 DEF Kept, Got

\* A worker's result stays its own until the row is no longer under its claim.
LEMMA NextWorkInv ==
  ASSUME WorkInv, [Next]_vars
  PROVE  WorkInv'
<1>1. ClaimInv'
  BY NextClaimInv DEF WorkInv
<1>2. ASSUME NEW p \in Workers
      PROVE  ResultInv(worker[p])'
  <2> DEFINE c == worker'[p]
  <2>1. CASE c.pc \notin {"backoff", "finish"}
    BY <2>1 DEF ResultInv
  <2>2. CASE c.pc \in {"backoff", "finish"} /\ c = worker[p]
    <3>1. ResultInv(worker[p]) /\ HeldInv(worker[p]) /\ worker[p] \in Claims
      BY DEF WorkInv, ClaimInv, TypeInv, TypeOK
    <3>2. c.id \in Workflows /\ wf[c.id] \in Rows
      BY <2>2, <3>1 DEF WorkInv, ClaimInv, TypeInv, TypeOK, Claims
    <3>3. /\ wf'[c.id].status = "running" /\ wf'[c.id].token <= wf[c.id].claims
             => /\ wf[c.id].status = "running" /\ wf'[c.id].token = wf[c.id].token
                /\ wf'[c.id].attempts = wf[c.id].attempts
      BY <3>2, StepChange, ChangeKeepsNewest DEF WorkInv, ClaimInv
    <3>4. c.token <= wf[c.id].claims
      BY <2>2, <3>1 DEF HeldInv, InFlight
    <3>5. wf'[c.id].status = "running" /\ wf'[c.id].token = c.token
             => Owns(worker[p]) /\ wf'[c.id].attempts = wf[c.id].attempts
      BY <2>2, <3>3, <3>4 DEF Owns
    <3> HIDE DEF c
    <3> QED BY <2>2, <3>1, <3>5 DEF ResultInv, Owns, c
  <2>3. CASE /\ wf' = wf
             /\ c.outcome = "repeat" => c.stage = "implement"
             /\ c.pc = "finish" /\ Retries(c.stage, c.outcome)
                   => c.seen = wf[c.id].attempts
    BY <2>3 DEF ResultInv, Owns, Retries, Blocks
  <2> QED BY <2>1, <2>2, <2>3, ResultChange
<1> QED BY <1>1, <1>2 DEF WorkInv

\* Nobody holds a result at first.
LEMMA InitWorkInv == Init => WorkInv
  BY InitClaimInv DEF Init, WorkInv, ResultInv, NoClaim

-----------------------------------------------------------------------------
(* What a step does to the history of a row: nothing, or one entry. *)

Quiet(r, s) ==
    /\ s.history = r.history /\ s.stage = r.stage /\ s.attempts = r.attempts
    /\ s.status = "running" <=> r.status = "running"
    /\ s.status = "running" => s.token = r.token
    /\ s.status = "absent" => r.status = "absent"
    /\ r.status = "absent" \/ s.publish = r.publish
    /\ r.status \in {"blocked", "cancelled"} => s.status = r.status

Appends(r, s, e) ==
    /\ s.history = Append(r.history, e)
    /\ e.stage = r.stage /\ s.publish = r.publish /\ s.status # "absent"

Opens(r, s, e) ==
    /\ Appends(r, s, e)
    /\ r.status = "pending" /\ s.status = "running"
    /\ e.status = "running" /\ e.by = "worker" /\ e.token = s.token
    /\ s.stage = r.stage /\ s.attempts = r.attempts + 1

Cancels(r, s, e) ==
    /\ Appends(r, s, e)
    /\ r.status # "running" /\ s.status = "cancelled"
    /\ e.status = "cancelled" /\ e.by = "client"
    /\ s.stage = r.stage /\ s.attempts = r.attempts

Completes(r, s, e) ==
    /\ Appends(r, s, e)
    /\ r.status = "running" /\ s.status \in {"pending", "completed"}
    /\ e.status = "completed" /\ e.by = "worker" /\ e.token = r.token
    /\ s.attempts = 0
    /\ \/ r.stage = "implement" /\ s.stage = "implement"
       \/ r.stage # "done" /\ s.stage = NextStage(r.stage, r.publish)

Fails(r, s, e) ==
    /\ Appends(r, s, e)
    /\ r.status = "running" /\ s.status \in {"pending", "failed", "blocked"}
    /\ e.status \in {"failed", "blocked"} /\ e.by \in {"worker", "beat"}
    /\ e.token = r.token
    /\ s.stage = r.stage /\ s.attempts = r.attempts
    /\ e.by = "beat" /\ e.stage \in SourceChanging => s.status = "blocked"

HistoryChange(r, s) ==
    \/ Quiet(r, s)
    \/ \E e : Opens(r, s, e) \/ Cancels(r, s, e) \/ Completes(r, s, e) \/ Fails(r, s, e)

\* The worker that closes a claim closes the row's, of the stage the row is at.
LEMMA FinishesOwn ==
  ASSUME WorkInv, NEW c, NEW r, Finishes(c, r)
  PROVE  /\ c \in Claims /\ r.status = "running" /\ c.token = r.token /\ c.stage = r.stage
         /\ c.outcome = "repeat" => c.stage = "implement"
         /\ Retries(c.stage, c.outcome) => c.seen = r.attempts
<1>1. PICK p \in Workers : c = worker[p] /\ c.pc = "finish" /\ Owns(c) /\ r = wf[c.id]
  BY DEF Finishes
<1>2. c \in Claims /\ HeldInv(c) /\ ResultInv(c)
  BY <1>1 DEF WorkInv, ClaimInv, TypeInv, TypeOK
<1> QED BY <1>1, <1>2 DEF HeldInv, InFlight, ResultInv, Owns

\* Each operation on a row is quiet or appends the entry its kind appends.
LEMMA ChangeHistory ==
  ASSUME WorkInv, NEW r \in Rows, NEW s, RowChange(r, s)
  PROVE  HistoryChange(r, s)
<1>1. CASE \/ r.status = "absent" /\ \E publish \in BOOLEAN :
                  s = [r EXCEPT !.status = "pending", !.publish = publish]
           \/ s = [r EXCEPT !.lease = "expired"]
           \/ s = [r EXCEPT !.retry = "due"]
           \/ s = r
  <2>1. Quiet(r, s)
    BY <1>1 DEF Quiet, Rows
  <2> QED BY <2>1 DEF HistoryChange
<1>2. CASE r.status = "failed" /\ s = Resumed(r)
  <2>1. Quiet(r, s)
    BY <1>2, ResumedFields DEF Quiet
  <2> QED BY <2>1 DEF HistoryChange
<1>3. CASE r.status \in {"pending", "failed", "blocked"} /\ s = Cancelled(r)
  <2> DEFINE e == Entry(r, "cancelled", "client", 0)
  <2>1. e.stage = r.stage /\ e.status = "cancelled" /\ e.by = "client"
    BY DEF Entry
  <2>2. s.history = Append(r.history, e)
    BY <1>3, CancelledFields
  <2> HIDE DEF e
  <2>3. Cancels(r, s, e)
    BY <1>3, <2>1, <2>2, CancelledFields DEF Cancels, Appends
  <2> QED BY <2>3 DEF HistoryChange
<1>4. CASE r.status = "pending" /\ s = Claimed(r)
  <2> DEFINE e == Entry(r, "running", "worker", r.claims + 1)
  <2>1. /\ e.stage = r.stage /\ e.status = "running" /\ e.by = "worker"
        /\ e.token = r.claims + 1
    BY DEF Entry
  <2>2. s.history = Append(r.history, e)
    BY <1>4, ClaimedFields
  <2> HIDE DEF e
  <2>3. Opens(r, s, e)
    BY <1>4, <2>1, <2>2, ClaimedFields DEF Opens, Appends
  <2> QED BY <2>3 DEF HistoryChange
<1>5. ASSUME NEW c \in Claims, c.stage # "done", Finishes(c, r), s = Succeeded(r, c)
      PROVE  HistoryChange(r, s)
  <2> DEFINE e == Entry(r, "completed", "worker", c.token)
  <2>1. /\ e.stage = r.stage /\ e.status = "completed" /\ e.by = "worker"
        /\ e.token = c.token
    BY DEF Entry
  <2>2. s.history = Append(r.history, e)
    BY <1>5, SucceededFields
  <2> HIDE DEF e
  <2>3. /\ r.status = "running" /\ c.token = r.token /\ c.stage = r.stage
        /\ c.outcome = "repeat" => c.stage = "implement"
    BY <1>5, FinishesOwn
  <2>4. /\ s.stage = IF c.outcome = "repeat" THEN c.stage ELSE NextStage(c.stage, r.publish)
        /\ s.status \in {"completed", "pending"}
        /\ s.attempts = 0 /\ s.publish = r.publish
    BY <1>5, SucceededFields
  <2>5. Completes(r, s, e)
    BY <1>5, <2>1, <2>2, <2>3, <2>4 DEF Completes, Appends
  <2> QED BY <2>5 DEF HistoryChange
<1>6. ASSUME NEW c \in Claims, Finishes(c, r), s = Failed(r, c)
      PROVE  HistoryChange(r, s)
  <2> DEFINE e == Entry(r, "failed", "worker", c.token)
  <2>1. /\ e.stage = r.stage /\ e.status = "failed" /\ e.by = "worker"
        /\ e.token = c.token
    BY DEF Entry
  <2>2. s.history = Append(r.history, e)
    BY <1>6, FailedFields
  <2> HIDE DEF e
  <2>3. r.status = "running" /\ c.token = r.token
    BY <1>6, FinishesOwn
  <2>4. /\ s.stage = r.stage /\ s.attempts = r.attempts /\ s.publish = r.publish
        /\ s.status \in {"pending", "failed", "blocked"}
    BY <1>6, FailedFields
  <2>5. Fails(r, s, e)
    BY <2>1, <2>2, <2>3, <2>4 DEF Fails, Appends
  <2> QED BY <2>5 DEF HistoryChange
<1>7. CASE r.status = "running" /\ s = Interrupted(r)
  <2> DEFINE e == Entry(r, s.status, "beat", r.token)
  <2>1. /\ e.stage = r.stage /\ e.status = s.status /\ e.by = "beat"
        /\ e.token = r.token
    BY DEF Entry
  <2>2. /\ s.history = Append(r.history, e)
        /\ s.stage = r.stage /\ s.attempts = r.attempts /\ s.publish = r.publish
        /\ s.status = IF r.stage \in SourceChanging THEN "blocked" ELSE "failed"
    BY <1>7, InterruptedFields
  <2> HIDE DEF e
  <2>3. Fails(r, s, e)
    BY <1>7, <2>1, <2>2 DEF Fails, Appends
  <2> QED BY <2>3 DEF HistoryChange
<1> QED
  BY <1>1, <1>2, <1>3, <1>4, <1>5, <1>6, <1>7 DEF RowChange

\* So every step of the system is, seen from one row.
LEMMA StepHistory ==
  ASSUME WorkInv, [Next]_vars, NEW w \in Workflows
  PROVE  wf[w] \in Rows /\ HistoryChange(wf[w], wf'[w])
<1>1. wf[w] \in Rows /\ RowChange(wf[w], wf'[w])
  BY StepChange DEF WorkInv, ClaimInv, TypeInv, TypeOK
<1> QED BY <1>1, ChangeHistory

\* One entry more: where it is, and that the others stay.
Longer(h, k, e, n) ==
    /\ n \in Nat /\ n = Len(h) /\ Len(k) = n + 1 /\ k[n + 1] = e
    /\ \A i \in 1..n : k[i] = h[i]

\* What Append does, index by index.
LEMMA AppendsLonger ==
  ASSUME NEW r \in Rows, NEW k, NEW e, k = Append(r.history, e)
  PROVE  Longer(r.history, k, e, Len(r.history))
<1>1. r.history \in Seq(Entries)
  BY DEF Rows
<1> HIDE DEF Entries
<1> QED BY <1>1 DEF Longer

-----------------------------------------------------------------------------
(* A source change that was given up is not run again. *)

GivenUpInv(r) ==
    LET h == r.history IN
    \A i \in 1..Len(h) :
        h[i].by = "beat" /\ h[i].stage \in SourceChanging =>
            /\ r.status \in {"blocked", "cancelled"}
            /\ \A j \in 1..Len(h) : h[j].status = "running" => j < i

\* After the entry of a recovery pass only a cancellation is appended.
LEMMA ChangeKeepsGivenUp ==
  ASSUME NEW r \in Rows, NEW s, GivenUpInv(r), HistoryChange(r, s)
  PROVE  GivenUpInv(s)
<1>1. CASE Quiet(r, s)
  BY <1>1 DEF Quiet, GivenUpInv
<1>2. ASSUME NEW e, Opens(r, s, e) \/ Cancels(r, s, e) \/ Completes(r, s, e) \/ Fails(r, s, e)
      PROVE  GivenUpInv(s)
  <2> DEFINE h == r.history
             k == s.history
             n == Len(r.history)
  <2>1. Longer(h, k, e, n)
    BY <1>2, AppendsLonger DEF Opens, Cancels, Completes, Fails, Appends
  <2>2. ASSUME NEW i \in 1..n, h[i].by = "beat", h[i].stage \in SourceChanging
        PROVE  /\ s.status = "cancelled" /\ e.status # "running"
               /\ \A j \in 1..n : h[j].status = "running" => j < i
    BY <1>2, <2>2 DEF GivenUpInv, Opens, Cancels, Completes, Fails
  <2>3. e.by = "beat" /\ e.stage \in SourceChanging
          => s.status = "blocked" /\ e.status # "running"
    BY <1>2 DEF Opens, Cancels, Completes, Fails
  <2> HIDE DEF h, k, n
  <2>4. ASSUME NEW i \in 1..(n + 1), k[i].by = "beat", k[i].stage \in SourceChanging
        PROVE  /\ s.status \in {"blocked", "cancelled"}
               /\ \A j \in 1..(n + 1) : k[j].status = "running" => j < i
    <3>1. CASE i \in 1..n
      <4>1. /\ s.status = "cancelled" /\ e.status # "running"
            /\ \A j \in 1..n : h[j].status = "running" => j < i
        BY <2>1, <2>2, <2>4, <3>1 DEF Longer
      <4> QED BY <2>1, <4>1 DEF Longer
    <3>2. CASE i = n + 1
      BY <2>1, <2>3, <2>4, <3>2 DEF Longer
    <3> QED BY <2>1, <3>1, <3>2 DEF Longer
  <2> QED BY <2>1, <2>4 DEF GivenUpInv, Longer, k
<1> QED BY <1>1, <1>2 DEF HistoryChange

\* A stage that may have changed source is never run again once a recovery pass
\* gave its worker up, whatever is delivered late and whoever asks for a resume
\* (WorkflowRecords.recoverable, claim, resume).
THEOREM InterruptedSourceNeverRerunsCorrect == Spec => []InterruptedSourceNeverReruns
<1> DEFINE Inv == WorkInv /\ \A w \in Workflows : GivenUpInv(wf[w])
<1>1. Init => Inv
  BY InitWorkInv DEF Init, Absent, GivenUpInv
<1>2. Inv /\ [Next]_vars => Inv'
  BY NextWorkInv, StepHistory, ChangeKeepsGivenUp
<1>3. Inv => InterruptedSourceNeverReruns
  BY DEF GivenUpInv, InterruptedSourceNeverReruns
<1> HIDE DEF Inv
<1> QED BY <1>1, <1>2, <1>3, PTL DEF Spec

-----------------------------------------------------------------------------
(* Claims and their ends alternate. *)

\* What may stand at i in the history h of a row r.
Alternates(h, r, i) ==
    \/ /\ h[i].status = "running"
       /\ IF i = Len(h)
          THEN r.status = "running" /\ r.token = h[i].token
          ELSE h[i + 1].by # "client" /\ h[i + 1].status # "running"
    \/ h[i].status = "cancelled" /\ h[i].by = "client"
    \/ /\ h[i].status \in {"completed", "failed", "blocked"}
       /\ i > 1
       /\ h[i - 1].status = "running"
       /\ h[i - 1].token = h[i].token
       /\ h[i - 1].stage = h[i].stage

\* The claim of a running row is the newest entry, and of the stage the row is at.
OpenInv(r) ==
    LET h == r.history IN
    r.status = "running" =>
        /\ Len(h) > 0
        /\ h[Len(h)].status = "running"
        /\ h[Len(h)].token = r.token
        /\ h[Len(h)].stage = r.stage

AlternateInv(r) ==
    /\ \A i \in 1..Len(r.history) : Alternates(r.history, r, i)
    /\ OpenInv(r)

\* A claim is opened behind a closed one, and closed by the entry after it.
LEMMA ChangeKeepsAlternate ==
  ASSUME NEW r \in Rows, NEW s, AlternateInv(r), HistoryChange(r, s)
  PROVE  AlternateInv(s)
<1>1. CASE Quiet(r, s)
  BY <1>1 DEF Quiet, AlternateInv, Alternates, OpenInv
<1>2. ASSUME NEW e, Opens(r, s, e) \/ Cancels(r, s, e) \/ Completes(r, s, e) \/ Fails(r, s, e)
      PROVE  AlternateInv(s)
  <2> DEFINE h == r.history
             k == s.history
             n == Len(r.history)
  <2>1. Longer(h, k, e, n)
    BY <1>2, AppendsLonger DEF Opens, Cancels, Completes, Fails, Appends
  <2>2. CASE r.status = "running"
    <3>1. /\ n > 0 /\ h[n].status = "running" /\ h[n].token = r.token /\ h[n].stage = r.stage
      BY <2>2 DEF AlternateInv, OpenInv
    <3>2. /\ s.status # "running" /\ e.status \in {"completed", "failed", "blocked"}
          /\ e.by # "client" /\ e.token = r.token /\ e.stage = r.stage
      BY <1>2, <2>2 DEF Opens, Cancels, Completes, Fails, Appends
    <3>3. \A i \in 1..n : Alternates(h, r, i)
      BY DEF AlternateInv
    <3> HIDE DEF h, k, n
    <3>4. ASSUME NEW i \in 1..n
          PROVE  Alternates(k, s, i)
      <4>1. k[i] = h[i] /\ (i # 1 => k[i - 1] = h[i - 1]) /\ i # Len(k)
        BY <2>1 DEF Longer
      <4>2. k[i + 1] = IF i = n THEN e ELSE h[i + 1]
        BY <2>1 DEF Longer
      <4>3. n = Len(h) /\ n \in Nat
        BY <2>1 DEF Longer
      <4> QED BY <3>2, <3>3, <4>1, <4>2, <4>3 DEF Alternates
    <3>5. Alternates(k, s, n + 1)
      <4>1. k[n + 1] = e /\ k[n] = h[n] /\ n \in Nat
        BY <2>1, <3>1 DEF Longer
      <4> QED BY <3>1, <3>2, <4>1 DEF Alternates
    <3>6. \A i \in 1..Len(k) : i \in 1..n \/ i = n + 1
      BY <2>1 DEF Longer
    <3> QED BY <3>2, <3>4, <3>5, <3>6 DEF AlternateInv, OpenInv, k
  <2>3. CASE r.status # "running"
    <3>1. /\ \/ e.status = "running" /\ s.status = "running" /\ e.token = s.token
                /\ e.stage = s.stage
             \/ e.status = "cancelled" /\ e.by = "client" /\ s.status # "running"
      BY <1>2, <2>3 DEF Opens, Cancels, Completes, Fails, Appends
    <3>2. \A i \in 1..n : Alternates(h, r, i)
      BY DEF AlternateInv
    <3> HIDE DEF h, k, n
    <3>3. ASSUME NEW i \in 1..n
          PROVE  Alternates(k, s, i)
      <4>1. k[i] = h[i] /\ (i # 1 => k[i - 1] = h[i - 1]) /\ i # Len(k)
        BY <2>1 DEF Longer
      <4>2. i # n => k[i + 1] = h[i + 1]
        BY <2>1 DEF Longer
      <4>3. n = Len(h) /\ n \in Nat
        BY <2>1 DEF Longer
      <4> QED BY <2>3, <3>2, <4>1, <4>2, <4>3 DEF Alternates
    <3>4. k[n + 1] = e /\ Len(k) = n + 1 /\ n \in Nat
      BY <2>1 DEF Longer
    <3>5. Alternates(k, s, n + 1)
      BY <3>1, <3>4 DEF Alternates
    <3>6. \A i \in 1..Len(k) : i \in 1..n \/ i = n + 1
      BY <3>4
    <3>7. OpenInv(s)
      BY <3>1, <3>4 DEF OpenInv, k
    <3> QED BY <3>3, <3>5, <3>6, <3>7 DEF AlternateInv, k
  <2> QED BY <2>2, <2>3
<1> QED BY <1>1, <1>2 DEF HistoryChange

\* Every claim is closed by the entry after its own and under its token, and no
\* other entry closes anything: a worker that lost its claim writes nothing, and
\* no claim is opened beside an open one (WorkflowRecords.claim, finish,
\* recoverable).
THEOREM HistoryAlternatesCorrect == Spec => []HistoryAlternates
<1> DEFINE Inv == WorkInv /\ \A w \in Workflows : AlternateInv(wf[w])
<1>1. Init => Inv
  BY InitWorkInv DEF Init, Absent, AlternateInv, OpenInv
<1>2. Inv /\ [Next]_vars => Inv'
  BY NextWorkInv, StepHistory, ChangeKeepsAlternate
<1>3. ASSUME Inv, NEW w \in Workflows
      PROVE  LET h == wf[w].history IN
             /\ \A i \in 1..Len(h) : Alternates(h, wf[w], i)
             /\ wf[w].status = "running" => h # <<>> /\ h[Len(h)].status = "running"
  BY <1>3 DEF AlternateInv, OpenInv
<1>4. Inv => HistoryAlternates
  BY <1>3 DEF HistoryAlternates, Alternates
<1> HIDE DEF Inv
<1> QED BY <1>1, <1>2, <1>4, PTL DEF Spec

-----------------------------------------------------------------------------
(* A retry delay is that of the attempt that failed. *)

BackInv(r) ==
    /\ RestInv(r)
    /\ r.retry # "none" => r.backoff = r.attempts /\ r.stage \in SAFE_RETRY_STAGES

\* Only a failed claim leaves a deadline, and its worker read its own attempts.
LEMMA ChangeKeepsBack ==
  ASSUME WorkInv, NEW r \in Rows, NEW s, BackInv(r), RowChange(r, s)
  PROVE  BackInv(s)
<1>1. RestInv(s)
  BY ChangeKeepsRest DEF BackInv
<1>2. CASE \/ r.status = "absent" /\ \E publish \in BOOLEAN :
                  s = [r EXCEPT !.status = "pending", !.publish = publish]
           \/ s = [r EXCEPT !.lease = "expired"]
           \/ r.retry = "wait" /\ s = [r EXCEPT !.retry = "due"]
           \/ s = r
  <2>1. /\ s.backoff = r.backoff /\ s.attempts = r.attempts /\ s.stage = r.stage
        /\ s.retry # "none" => r.retry # "none"
    BY <1>2 DEF Rows
  <2> QED BY <1>1, <2>1 DEF BackInv
<1>3. CASE s = Resumed(r)
  BY <1>1, <1>3, ResumedFields DEF BackInv
<1>4. CASE s = Cancelled(r)
  BY <1>1, <1>4, CancelledFields DEF BackInv
<1>5. CASE s = Claimed(r)
  BY <1>1, <1>5, ClaimedFields DEF BackInv
<1>6. ASSUME NEW c \in Claims, r.status = "running", s = Succeeded(r, c)
      PROVE  BackInv(s)
  <2>1. s.retry = r.retry /\ r.retry = "none"
    BY <1>6, SucceededFields DEF BackInv, RestInv
  <2> QED BY <1>1, <2>1 DEF BackInv
<1>7. ASSUME NEW c \in Claims, Finishes(c, r), s = Failed(r, c)
      PROVE  BackInv(s)
  <2>1. /\ r.status = "running" /\ c.stage = r.stage
        /\ Retries(c.stage, c.outcome) => c.seen = r.attempts
    BY <1>7, FinishesOwn
  <2>2. r.retry = "none"
    BY <2>1 DEF BackInv, RestInv
  <2>3. /\ s.stage = r.stage /\ s.attempts = r.attempts
        /\ \/ s.backoff = c.seen /\ Retries(c.stage, c.outcome)
           \/ s.retry = r.retry
    BY <1>7, FailedFields
  <2> QED BY <1>1, <2>1, <2>2, <2>3 DEF BackInv, Retries
<1>8. CASE r.status = "running" /\ s = Interrupted(r)
  <2>1. s.retry = r.retry /\ r.retry = "none"
    BY <1>8, InterruptedFields DEF BackInv, RestInv
  <2> QED BY <1>1, <2>1 DEF BackInv
<1> QED BY <1>2, <1>3, <1>4, <1>5, <1>6, <1>7, <1>8 DEF RowChange

\* A stored retry delay belongs to the attempt that failed, although the engine
\* reads attempts in a transaction of its own, after its lease may have been lost
\* (workflow.py, WorkflowRecords.finish, recoverable).
THEOREM BackoffCorrect == Spec => []BackoffFromOwnAttempt
<1> DEFINE Inv == WorkInv /\ \A w \in Workflows : BackInv(wf[w])
<1>1. Init => Inv
  BY InitWorkInv DEF Init, Absent, BackInv, RestInv
<1>2. ASSUME Inv, [Next]_vars, NEW w \in Workflows
      PROVE  BackInv(wf'[w])
  <2>1. wf[w] \in Rows /\ RowChange(wf[w], wf'[w])
    BY <1>2, StepChange DEF WorkInv, ClaimInv, TypeInv, TypeOK
  <2> QED BY <1>2, <2>1, ChangeKeepsBack
<1>3. Inv /\ [Next]_vars => Inv'
  BY <1>2, NextWorkInv
<1>4. Inv => BackoffFromOwnAttempt
  BY DEF BackInv, BackoffFromOwnAttempt
<1> HIDE DEF Inv
<1> QED BY <1>1, <1>3, <1>4, PTL DEF Spec

-----------------------------------------------------------------------------
(* Checkpoints follow each other as STAGES says. *)

\* What runs after s is what stands behind it; publication only on request.
Behind(s, next, publish) ==
    \E k \in 2..Len(Stages) :
        /\ s = Stages[k - 1]
        /\ next = IF Stages[k] = "publish" /\ ~publish THEN "done" ELSE Stages[k]

\* What holds of the entry at i if the stage after it is next.
Ordered(h, i, next, publish) ==
    /\ h[i].stage = "publish" => publish
    /\ IF h[i].status # "completed"
       THEN next = h[i].stage
       ELSE \/ next = "implement" /\ h[i].stage = "implement"
            \/ Behind(h[i].stage, next, publish)

OrderInv(r) ==
    LET h == r.history IN
    /\ r.status = "absent" => h = <<>>
    /\ h = <<>> => r.stage = Stages[1]
    /\ r.stage = "publish" => r.publish
    /\ \A i \in 1..Len(h) :
          Ordered(h, i, IF i = Len(h) THEN r.stage ELSE h[i + 1].stage, r.publish)

\* NextStage is the stage behind, and "publish" only if it was asked for.
LEMMA NextStageBehind ==
  ASSUME NEW s \in StageNames, s # "done", NEW publish \in BOOLEAN
  PROVE  /\ Behind(s, NextStage(s, publish), publish)
         /\ NextStage(s, publish) = "publish" => publish
<1> DEFINE i == CHOOSE i \in 1..Len(Stages) : Stages[i] = s
<1>1. i \in 1..Len(Stages) /\ Stages[i] = s
  BY DEF StageNames
<1>2. NextStage(s, publish) =
        IF Stages[i + 1] = "publish" /\ ~publish THEN "done" ELSE Stages[i + 1]
  BY DEF NextStage, i
<1> HIDE DEF i
<1>3. i # Len(Stages) /\ Len(Stages) \in Nat
  BY <1>1, StagesAssumption
<1>4. i + 1 \in 2..Len(Stages) /\ (i + 1) - 1 = i
  BY <1>1, <1>3
<1> QED BY <1>1, <1>2, <1>4, Zenon DEF Behind

\* A new entry is of the stage the row is at, and leaves it at the next one.
LEMMA ChangeKeepsOrder ==
  ASSUME NEW r \in Rows, NEW s, OrderInv(r), HistoryChange(r, s)
  PROVE  OrderInv(s)
<1>1. CASE Quiet(r, s)
  <2>1. CASE r.status = "absent"
    <3>1. s.history = <<>> /\ s.stage = Stages[1] /\ Len(s.history) = 0
      BY <1>1, <2>1 DEF Quiet, OrderInv
    <3> QED BY <3>1, StagesAssumption DEF OrderInv
  <2>2. CASE r.status # "absent"
    BY <1>1, <2>2 DEF Quiet, OrderInv
  <2> QED BY <2>1, <2>2
<1>2. ASSUME NEW e, Opens(r, s, e) \/ Cancels(r, s, e) \/ Completes(r, s, e) \/ Fails(r, s, e)
      PROVE  OrderInv(s)
  <2> DEFINE h == r.history
             k == s.history
             n == Len(r.history)
  <2>1. Longer(h, k, e, n)
    BY <1>2, AppendsLonger DEF Opens, Cancels, Completes, Fails, Appends
  <2>2. e.stage = r.stage /\ s.publish = r.publish /\ s.status # "absent"
    BY <1>2 DEF Opens, Cancels, Completes, Fails, Appends
  <2>3. r.stage = "publish" => r.publish
    BY DEF OrderInv
  <2>4. /\ Ordered(k, n + 1, s.stage, s.publish)
        /\ s.stage = "publish" => s.publish
    <3>1. k[n + 1] = e
      BY <2>1 DEF Longer
    <3>2. CASE Opens(r, s, e) \/ Cancels(r, s, e) \/ Fails(r, s, e)
      BY <2>2, <2>3, <3>1, <3>2 DEF Ordered, Opens, Cancels, Fails
    <3>3. CASE Completes(r, s, e)
      <4>1. r.stage \in StageNames /\ r.publish \in BOOLEAN
        BY DEF Rows
      <4>2. CASE r.stage = "implement" /\ s.stage = "implement"
        BY <2>2, <2>3, <3>1, <4>2 DEF Ordered
      <4>3. CASE r.stage # "done" /\ s.stage = NextStage(r.stage, r.publish)
        <5>1. /\ Behind(r.stage, s.stage, s.publish)
              /\ s.stage = "publish" => s.publish
          BY <2>2, <4>1, <4>3, NextStageBehind
        <5> QED BY <2>2, <2>3, <3>1, <3>3, <5>1 DEF Ordered, Completes
      <4> QED BY <3>3, <4>2, <4>3 DEF Completes
    <3> QED BY <1>2, <3>2, <3>3
  <2>5. \A i \in 1..n : Ordered(h, i, IF i = n THEN r.stage ELSE h[i + 1].stage, r.publish)
    BY DEF OrderInv
  <2> HIDE DEF h, k, n
  <2>6. ASSUME NEW i \in 1..n
        PROVE  Ordered(k, i, k[i + 1].stage, s.publish)
    <3>1. k[i] = h[i] /\ k[i + 1].stage = IF i = n THEN r.stage ELSE h[i + 1].stage
      BY <2>1, <2>2 DEF Longer
    <3> QED BY <2>2, <2>5, <3>1 DEF Ordered
  <2>7. k # <<>> /\ Len(k) = n + 1 /\ n \in Nat
    BY <2>1 DEF Longer
  <2>8. \A i \in 1..Len(k) : (i \in 1..n /\ i # Len(k)) \/ i = n + 1
    BY <2>7
  <2>9. \A i \in 1..Len(k) :
          Ordered(k, i, IF i = Len(k) THEN s.stage ELSE k[i + 1].stage, s.publish)
    BY <2>4, <2>6, <2>7, <2>8
  <2> QED BY <2>2, <2>4, <2>7, <2>9 DEF OrderInv, k
<1> QED BY <1>1, <1>2 DEF HistoryChange

-----------------------------------------------------------------------------
(* The counter of a checkpoint counts its claims. *)

\* The claims of the history h since its last completed stage.
OpenClaims(h) ==
    {i \in 1..Len(h) : /\ h[i].status = "running"
                       /\ \A j \in i..Len(h) : h[j].status # "completed"}

CountInv(r) == Cardinality(OpenClaims(r.history)) = r.attempts

\* How the claims of a checkpoint change with one more entry.
LEMMA OpenClaimsLonger ==
  ASSUME NEW h, NEW k, NEW e, NEW n, Longer(h, k, e, n)
  PROVE  /\ IsFiniteSet(OpenClaims(h))
         /\ e.status = "completed" => OpenClaims(k) = {}
         /\ e.status \notin {"completed", "running"} => OpenClaims(k) = OpenClaims(h)
         /\ e.status = "running" =>
               Cardinality(OpenClaims(k)) = Cardinality(OpenClaims(h)) + 1
<1>1. /\ n \in Nat /\ n = Len(h) /\ Len(k) = n + 1 /\ k[n + 1] = e
      /\ \A i \in 1..n : k[i] = h[i]
  BY DEF Longer
<1>2. OpenClaims(h) \in SUBSET (1..n)
  BY <1>1 DEF OpenClaims
<1>3. IsFiniteSet(OpenClaims(h))
  <2>1. 1 \in Int /\ n \in Int
    BY <1>1
  <2>2. IsFiniteSet(1..n)
    BY <2>1, FS_Interval, Zenon
  <2> QED BY <1>2, <2>2, FS_Subset, Zenon
<1>4. ASSUME NEW i \in 1..n
      PROVE  i \in OpenClaims(k) <=> i \in OpenClaims(h) /\ e.status # "completed"
  <2>1. i \in 1..Len(h) /\ i \in 1..Len(k) /\ k[i] = h[i]
    BY <1>1, <1>4
  <2>2. (\A j \in i..Len(k) : k[j].status # "completed")
          <=> e.status # "completed" /\ \A j \in i..Len(h) : h[j].status # "completed"
    <3>1. \A j \in i..Len(h) : j \in i..Len(k) /\ k[j] = h[j]
      BY <1>1, <1>4
    <3>2. \A j \in i..Len(k) : j \in i..Len(h) \/ j = n + 1
      BY <1>1, <1>4
    <3>3. n + 1 \in i..Len(k)
      BY <1>1, <1>4
    <3> QED BY <1>1, <3>1, <3>2, <3>3
  <2> QED BY <2>1, <2>2 DEF OpenClaims
<1>5. n + 1 \in OpenClaims(k) <=> e.status = "running"
  BY <1>1 DEF OpenClaims
<1>6. OpenClaims(k) \in SUBSET (1..(n + 1))
  BY <1>1 DEF OpenClaims
<1>7. \A i \in 1..(n + 1) : i \in 1..n \/ i = n + 1
  BY <1>1
<1>8. CASE e.status = "completed"
  BY <1>3, <1>4, <1>5, <1>6, <1>7, <1>8
<1>9. CASE e.status \notin {"completed", "running"}
  <2>1. OpenClaims(k) = OpenClaims(h)
    BY <1>2, <1>4, <1>5, <1>6, <1>7, <1>9
  <2> QED BY <1>3, <1>9, <2>1
<1>10. CASE e.status = "running"
  <2>1. OpenClaims(k) = OpenClaims(h) \cup {n + 1}
    BY <1>1, <1>2, <1>4, <1>5, <1>6, <1>7, <1>10
  <2>2. n + 1 \notin OpenClaims(h)
    BY <1>1, <1>2
  <2>3. Cardinality(OpenClaims(k)) = Cardinality(OpenClaims(h)) + 1
    BY <1>3, <2>1, <2>2, FS_AddElement
  <2> QED BY <1>3, <1>10, <2>3
<1> QED BY <1>8, <1>9, <1>10

\* A claim raises both by one, and a completed stage sets both to zero.
LEMMA ChangeKeepsCount ==
  ASSUME NEW r \in Rows, NEW s, CountInv(r), HistoryChange(r, s)
  PROVE  CountInv(s)
<1>1. CASE Quiet(r, s)
  BY <1>1 DEF Quiet, CountInv
<1>2. ASSUME NEW e, Opens(r, s, e) \/ Cancels(r, s, e) \/ Completes(r, s, e) \/ Fails(r, s, e)
      PROVE  CountInv(s)
  <2>1. Longer(r.history, s.history, e, Len(r.history))
    BY <1>2, AppendsLonger DEF Opens, Cancels, Completes, Fails, Appends
  <2>2. CASE Opens(r, s, e)
    BY <2>1, <2>2, OpenClaimsLonger DEF Opens, CountInv
  <2>3. CASE Cancels(r, s, e) \/ Fails(r, s, e)
    BY <2>1, <2>3, OpenClaimsLonger DEF Cancels, Fails, CountInv
  <2>4. CASE Completes(r, s, e)
    <3>1. OpenClaims(s.history) = {} /\ s.attempts = 0
      BY <2>1, <2>4, OpenClaimsLonger DEF Completes
    <3> QED BY <3>1, FS_EmptySet DEF CountInv
  <2> QED BY <1>2, <2>2, <2>3, <2>4
<1> QED BY <1>1, <1>2 DEF HistoryChange

\* Through any mix of repeats, failures, interruptions, resumes and duplicated
\* messages the stages run in the order of STAGES, publication only on request,
\* each within WORKFLOW_STAGE_ATTEMPTS claims (WorkflowRecords.claim, finish,
\* recoverable, resume).
THEOREM CheckpointsInOrderCorrect == Spec => []CheckpointsInOrder
<1> DEFINE Inv == WorkInv /\ \A w \in Workflows : OrderInv(wf[w]) /\ CountInv(wf[w])
<1>1. Init => Inv
  <2>1. OrderInv(Absent)
    BY StagesAssumption DEF Absent, OrderInv
  <2>2. OpenClaims(<<>>) = {}
    BY DEF OpenClaims
  <2>3. CountInv(Absent)
    BY <2>2, FS_EmptySet DEF Absent, CountInv
  <2> QED BY <2>1, <2>3, InitWorkInv DEF Init
<1>2. Inv /\ [Next]_vars => Inv'
  BY NextWorkInv, StepHistory, ChangeKeepsOrder, ChangeKeepsCount
<1>3. Inv => StagesInOrder
  BY DEF OrderInv, Ordered, Behind, StagesInOrder
<1>4. ASSUME Inv, NEW w \in Workflows
      PROVE  /\ ClaimsOfCheckpoint(wf[w].history) = wf[w].attempts
             /\ wf[w].attempts <= AttemptLimit
             /\ wf[w].status = "pending" => wf[w].attempts < AttemptLimit
  <2>1. wf[w] \in Rows /\ RowInv(wf[w])
    BY <1>4 DEF WorkInv, ClaimInv, TypeInv, TypeOK
  <2>2. wf[w].attempts \in 0..AttemptLimit /\ AttemptLimit \in Nat
    BY <2>1, LimitsAssumption DEF Rows
  <2>3. ClaimsOfCheckpoint(wf[w].history) = wf[w].attempts
    BY <1>4 DEF CountInv, OpenClaims, ClaimsOfCheckpoint
  <2> QED BY <2>1, <2>2, <2>3 DEF RowInv
<1>5. Inv => CheckpointsInOrder
  BY <1>3, <1>4 DEF CheckpointsInOrder, ClaimsBounded
<1> HIDE DEF Inv
<1> QED BY <1>1, <1>2, <1>5, PTL DEF Spec
=============================================================================
