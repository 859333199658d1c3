-------------------------- MODULE DeliveriesProofs --------------------------
(***************************************************************************)
(* What holds of standalone deliveries for every number of ids, workers,   *)
(* results and rows per pass.  The inductive invariant relates the count   *)
(* of attempts to the row (a row is absent exactly while its operation was *)
(* never begun) and each success that was told to the row it was told of.  *)
(***************************************************************************)
EXTENDS Deliveries, TLAPS

(* An id whose operation was begun has a row, and one attempt. *)
AttemptInv ==
    \A i \in Ids : starts[i] = IF row[i].status = "absent" THEN 0 ELSE 1

LEMMA RowFields ==
  ASSUME NEW r \in Rows
  PROVE  /\ r.status \in {"absent", "running", "completed", "failed"}
         /\ r.call \in Calls /\ r.result \in Results \cup {"none"}
         /\ r.error \in {"none", "unconfigured", "failed", "interrupted"}
         /\ r.lease \in {"none", "live", "expired"}
  BY DEF Rows

LEMMA WorkerFields ==
  ASSUME NEW c \in WorkerRecords
  PROVE  /\ c.pc \in {"idle", "operate", "finish"}
         /\ c.id \in Ids /\ c.result \in Results \cup {"none"}
         /\ c.error \in {"none", "unconfigured", "failed"}
  BY DEF WorkerRecords

LEMMA AbsentType ==
  ASSUME NEW c \in Calls
  PROVE  Absent \in Rows /\ Absent.status = "absent"
<1>1. (CHOOSE x \in Calls : TRUE) \in Calls
  OBVIOUS
<1> QED BY <1>1 DEF Absent, Rows

LEMMA IdleType ==
  ASSUME NEW i \in Ids
  PROVE  Idle \in WorkerRecords
<1>1. (CHOOSE x \in Ids : TRUE) \in Ids
  OBVIOUS
<1> QED BY <1>1 DEF Idle, WorkerRecords

LEMMA ReplyType ==
  ASSUME TypeOK, NEW id \in Ids, NEW kind \in {"success", "error", "duplicate"},
         NEW result \in Results \cup {"none"}, Reply(id, kind, result)
  PROVE  replies' \subseteq [id : Ids, kind : {"success", "error", "duplicate"},
                             result : Results \cup {"none"}]
  BY DEF TypeOK, Reply

-----------------------------------------------------------------------------
(* What one step does to the rows, the counts and the replies together. *)

IInv == TypeOK /\ AttemptInv /\ RepliesAgreeWithRow

\* A verdict stands: rows that have ended keep their status and result.
Stands ==
    \A i \in Ids :
        row[i].status \in {"completed", "failed"} =>
            row'[i].status = row[i].status /\ row'[i].result = row[i].result

LEMMA InitIInv == Init => IInv
<1> SUFFICES ASSUME Init PROVE IInv
  OBVIOUS
<1>1. TypeOK
  <2>1. row \in [Ids -> Rows]
    <3>1. CASE Ids = {}
      BY <3>1 DEF Init
    <3>2. CASE Calls # {}
      BY <3>2, AbsentType DEF Init
    <3> QED BY <3>1, <3>2, DeliveriesAssumption
  <2>2. worker \in [Workers -> WorkerRecords]
    BY IdleType, DeliveriesAssumption DEF Init
  <2> QED BY <2>1, <2>2 DEF Init, TypeOK
<1>2. AttemptInv
  BY DEF Init, AttemptInv, Absent
<1>3. RepliesAgreeWithRow
  BY DEF Init, RepliesAgreeWithRow
<1> QED BY <1>1, <1>2, <1>3 DEF IInv

LEMMA QueueStep ==
  ASSUME IInv, NEW m \in Messages, Submit(m) \/ Lose(m)
  PROVE  IInv' /\ Stands
  BY DEF IInv, TypeOK, AttemptInv, RepliesAgreeWithRow, Stands, Submit, Lose

LEMMA BeginStep ==
  ASSUME IInv, NEW p \in Workers, NEW m \in Messages, NEW again \in BOOLEAN,
         Begin(p, m), queue' = IF again THEN queue ELSE queue \ {m}
  PROVE  IInv' /\ Stands
<1> DEFINE r == [Absent EXCEPT !.status = "running", !.call = m.call, !.lease = "live"]
           c == [Idle EXCEPT !.pc = "operate", !.id = m.id]
<1>1. m.id \in Ids /\ m.call \in Calls
  BY DEF Messages
<1>2. r \in Rows /\ r.status = "running"
  BY <1>1, AbsentType DEF Rows
<1>3. c \in WorkerRecords
  BY <1>1, IdleType DEF WorkerRecords
<1> HIDE DEF r, c
<1>4. /\ row[m.id].status = "absent"
      /\ row' = [row EXCEPT ![m.id] = r]
      /\ worker' = [worker EXCEPT ![p] = c]
      /\ starts' = [starts EXCEPT ![m.id] = @ + 1]
      /\ replies' = replies
  BY DEF Begin, r, c
<1>5. TypeOK'
  BY <1>1, <1>2, <1>3, <1>4 DEF IInv, TypeOK
<1>6. AttemptInv'
  BY <1>1, <1>2, <1>4 DEF IInv, TypeOK, AttemptInv
<1>7. RepliesAgreeWithRow' /\ Stands
  BY <1>1, <1>2, <1>4 DEF IInv, TypeOK, RepliesAgreeWithRow, Stands
<1> QED BY <1>5, <1>6, <1>7 DEF IInv

LEMMA AnswerStep ==
  ASSUME IInv, NEW m \in Messages, NEW again \in BOOLEAN,
         Answer(m), queue' = IF again THEN queue ELSE queue \ {m}
  PROVE  IInv' /\ Stands
<1>1. m.id \in Ids
  BY DEF Messages
<1>2. row[m.id] \in Rows /\ row[m.id].result \in Results \cup {"none"}
  BY <1>1, RowFields DEF IInv, TypeOK
<1>3. \E kind \in {"success", "error", "duplicate"}, result \in Results \cup {"none"} :
        /\ Reply(m.id, kind, result)
        /\ kind = "success" =>
              row[m.id].status = "completed" /\ row[m.id].result = result
  BY <1>2 DEF Answer
<1>4. PICK kind \in {"success", "error", "duplicate"}, result \in Results \cup {"none"} :
        /\ Reply(m.id, kind, result)
        /\ kind = "success" =>
              row[m.id].status = "completed" /\ row[m.id].result = result
  BY <1>3
<1>5. row' = row /\ worker' = worker /\ starts' = starts
  BY DEF Answer
<1>6. TypeOK'
  BY <1>1, <1>4, <1>5, ReplyType DEF IInv, TypeOK
<1>7. AttemptInv' /\ Stands
  BY <1>5 DEF IInv, AttemptInv, Stands
<1>8. RepliesAgreeWithRow'
  BY <1>4, <1>5 DEF IInv, RepliesAgreeWithRow, Reply
<1> QED BY <1>6, <1>7, <1>8 DEF IInv

LEMMA OperateStep ==
  ASSUME IInv, NEW p \in Workers, Operate(p) \/ Crash(p)
  PROVE  IInv' /\ Stands
<1>1. worker[p] \in WorkerRecords
  BY DEF IInv, TypeOK
<1>2. Idle \in WorkerRecords
  BY <1>1, WorkerFields, IdleType
<1>3. worker' \in [Workers -> WorkerRecords]
  <2>1. CASE Crash(p)
    BY <2>1, <1>2 DEF Crash, IInv, TypeOK
  <2>2. ASSUME NEW r \in Results,
               worker' = [worker EXCEPT ![p].pc = "finish", ![p].result = r]
        PROVE  worker' \in [Workers -> WorkerRecords]
    BY <2>2, <1>1 DEF IInv, TypeOK, WorkerRecords
  <2>3. ASSUME NEW e \in {"unconfigured", "failed"},
               worker' = [worker EXCEPT ![p].pc = "finish", ![p].error = e]
        PROVE  worker' \in [Workers -> WorkerRecords]
    BY <2>3, <1>1 DEF IInv, TypeOK, WorkerRecords
  <2> QED BY <2>1, <2>2, <2>3 DEF Operate
<1>4. row' = row /\ queue' = queue /\ starts' = starts /\ replies' = replies
  BY DEF Operate, Crash
<1> QED BY <1>3, <1>4 DEF IInv, TypeOK, AttemptInv, RepliesAgreeWithRow, Stands

LEMMA FinishStep ==
  ASSUME IInv, NEW p \in Workers, Finish(p)
  PROVE  IInv' /\ Stands
<1> DEFINE c == worker[p]
           r == Finished(row[c.id], c)
<1>1. c \in WorkerRecords /\ c.id \in Ids
  BY WorkerFields DEF IInv, TypeOK
<1>2. row[c.id] \in Rows
  BY <1>1 DEF IInv, TypeOK
<1>3. /\ r \in Rows
      /\ r.status = IF c.error = "none" THEN "completed" ELSE "failed"
      /\ r.result = c.result
  BY <1>1, <1>2, WorkerFields DEF Finished, Rows
<1>4. Idle \in WorkerRecords
  BY <1>1, IdleType
<1> HIDE DEF r
<1>5. worker' = [worker EXCEPT ![p] = Idle] /\ queue' = queue /\ starts' = starts
  BY DEF Finish
<1>6. worker' \in [Workers -> WorkerRecords]
  BY <1>4, <1>5 DEF IInv, TypeOK
<1>7. \/ /\ row[c.id].status = "running"
         /\ row' = [row EXCEPT ![c.id] = r]
         /\ \/ Reply(c.id, IF c.error = "none" THEN "success" ELSE "error", c.result)
            \/ Reply(c.id, "error", "none")
      \/ row' = row /\ Reply(c.id, "error", "none")
  BY DEF Finish, Owns, r
<1>8. ASSUME NEW kind \in {"success", "error"}, NEW result \in Results \cup {"none"},
             Reply(c.id, kind, result),
             row[c.id].status = "running", row' = [row EXCEPT ![c.id] = r],
             kind = "success" => c.error = "none" /\ result = c.result
      PROVE  IInv' /\ Stands
  <2> HIDE DEF c
  <2>1. TypeOK'
    BY <1>1, <1>3, <1>5, <1>6, <1>8, ReplyType DEF IInv, TypeOK
  <2>2. AttemptInv'
    BY <1>1, <1>3, <1>5, <1>8 DEF IInv, TypeOK, AttemptInv
  <2>3. Stands
    BY <1>1, <1>8 DEF IInv, TypeOK, Stands
  <2>4. RepliesAgreeWithRow'
    BY <1>1, <1>3, <1>8 DEF IInv, TypeOK, RepliesAgreeWithRow, Reply
  <2> QED BY <2>1, <2>2, <2>3, <2>4 DEF IInv
<1>9. CASE row' = row /\ Reply(c.id, "error", "none")
  <2>1. TypeOK'
    BY <1>1, <1>5, <1>6, <1>9, ReplyType DEF IInv, TypeOK
  <2>2. AttemptInv' /\ Stands
    BY <1>5, <1>9 DEF IInv, AttemptInv, Stands
  <2>3. RepliesAgreeWithRow'
    BY <1>9 DEF IInv, RepliesAgreeWithRow, Reply
  <2> QED BY <2>1, <2>2, <2>3 DEF IInv
<1>10. c.result \in Results \cup {"none"} /\ c.error \in {"none", "unconfigured", "failed"}
  BY <1>1, WorkerFields
<1> QED BY <1>7, <1>8, <1>9, <1>10

LEMMA LeaseStep ==
  ASSUME IInv, NEW id \in Ids, LeaseExpires(id)
  PROVE  IInv' /\ Stands
<1> DEFINE r == [row[id] EXCEPT !.lease = "expired"]
<1>1. row[id] \in Rows
  BY DEF IInv, TypeOK
<1>2. r \in Rows /\ r.status = row[id].status /\ r.result = row[id].result
  BY <1>1 DEF Rows
<1> HIDE DEF r
<1>3. row' = [row EXCEPT ![id] = r]
  BY DEF LeaseExpires, r
<1>4. /\ queue' = queue /\ worker' = worker
      /\ starts' = starts /\ replies' = replies
  BY DEF LeaseExpires
<1>5. TypeOK'
  BY <1>2, <1>3, <1>4 DEF IInv, TypeOK
<1>6. AttemptInv' /\ Stands /\ RepliesAgreeWithRow'
  BY <1>2, <1>3, <1>4 DEF IInv, TypeOK, AttemptInv, Stands, RepliesAgreeWithRow
<1> QED BY <1>5, <1>6 DEF IInv

LEMMA RecoverStep ==
  ASSUME IInv, RecoverStale
  PROVE  IInv' /\ Stands
<1> DEFINE R(i) == [row[i] EXCEPT !.status = "failed", !.error = "interrupted",
                                  !.lease = "none"]
<1>1. PICK S \in SUBSET Stale :
        row' = [i \in Ids |-> IF i \in S THEN R(i) ELSE row[i]]
  BY DEF RecoverStale
<1>2. /\ queue' = queue /\ worker' = worker
      /\ starts' = starts /\ replies' = replies
  BY DEF RecoverStale
<1>3. ASSUME NEW i \in Ids
      PROVE  R(i) \in Rows /\ R(i).status = "failed" /\ row[i] \in Rows
  <2>1. row[i] \in Rows
    BY DEF IInv, TypeOK
  <2> QED BY <2>1 DEF Rows
<1>4. \A i \in S : row[i].status = "running"
  BY DEF Stale
<1> HIDE DEF R
<1>5. TypeOK'
  BY <1>1, <1>2, <1>3 DEF IInv, TypeOK
<1>6. AttemptInv'
  BY <1>1, <1>2, <1>3, <1>4 DEF IInv, AttemptInv
<1>7. Stands
  BY <1>1, <1>4 DEF Stands
<1>8. RepliesAgreeWithRow'
  <2>1. \A q \in replies : q.id \in Ids
    BY DEF IInv, TypeOK
  <2> QED BY <1>1, <1>2, <1>4, <2>1 DEF IInv, RepliesAgreeWithRow
<1> QED BY <1>5, <1>6, <1>7, <1>8 DEF IInv

LEMMA StutterStep ==
  ASSUME IInv, UNCHANGED vars
  PROVE  IInv' /\ Stands
  BY DEF IInv, TypeOK, AttemptInv, RepliesAgreeWithRow, Stands, vars

LEMMA NextStep ==
  ASSUME IInv, [Next]_vars
  PROVE  IInv' /\ Stands
<1>1. ASSUME NEW p \in Workers, WorkerStep(p)
      PROVE  IInv' /\ Stands
  <2>1. ASSUME NEW m \in Messages, NEW again \in BOOLEAN, Deliver(p, m, again)
        PROVE  IInv' /\ Stands
    <3>1. queue' = IF again THEN queue ELSE queue \ {m}
      BY <2>1 DEF Deliver
    <3>2. CASE Begin(p, m)
      BY <3>1, <3>2, BeginStep
    <3>3. CASE Answer(m)
      BY <3>1, <3>3, AnswerStep
    <3> QED BY <2>1, <3>2, <3>3 DEF Deliver
  <2> QED BY <1>1, <2>1, OperateStep, FinishStep DEF WorkerStep
<1> QED BY <1>1, QueueStep, LeaseStep, RecoverStep, StutterStep DEF Next

-----------------------------------------------------------------------------
(* Rows, messages, workers and replies always have their types. *)
THEOREM TypeCorrect == Spec => []TypeOK
<1>1. IInv /\ [Next]_vars => IInv'
  BY NextStep
<1>2. IInv => TypeOK
  BY DEF IInv
<1> QED BY InitIInv, <1>1, <1>2, PTL DEF Spec

(* No id ever has its operation begun twice: redelivery, crashes, expired leases
   and reused ids cannot replay an uncertain effect (DeliveryRecords.execute). *)
THEOREM OneAttemptCorrect == Spec => []OneAttempt
<1>1. IInv /\ [Next]_vars => IInv'
  BY NextStep
<1>2. IInv => OneAttempt
  BY DEF IInv, AttemptInv, OneAttempt
<1> QED BY InitIInv, <1>1, <1>2, PTL DEF Spec

(* Every success that was told to Celery is the success the row keeps. *)
THEOREM RepliesAgreeCorrect == Spec => []RepliesAgreeWithRow
<1>1. IInv /\ [Next]_vars => IInv'
  BY NextStep
<1>2. IInv => RepliesAgreeWithRow
  BY DEF IInv
<1> QED BY InitIInv, <1>1, <1>2, PTL DEF Spec

(* A verdict is final: a late worker and a late pass leave ended rows alone. *)
THEOREM VerdictCorrect == Spec => VerdictIsFinal
<1>1. IInv /\ [Next]_vars => IInv'
  BY NextStep
<1>2. IInv /\ [Next]_vars => [Stands]_vars
  BY NextStep
<1>3. [Stands]_vars =>
        [\A i \in Ids :
            row[i].status \in {"completed", "failed"} =>
               /\ row'[i].status = row[i].status
               /\ row'[i].result = row[i].result]_vars
  BY DEF Stands
<1> QED BY InitIInv, <1>1, <1>2, <1>3, PTL DEF Spec, VerdictIsFinal
=============================================================================
