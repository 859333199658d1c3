----------------------------- MODULE Deliveries -----------------------------
(***************************************************************************)
(* Standalone repository tasks: one attempt for each Celery task id,       *)
(* however often the broker delivers it.                                   *)
(*                                                                         *)
(*   app/orchestration/deliveries.py   the row and its transactions        *)
(*   app/workers/deliveries.py         the Celery task around them         *)
(*   app/workers/workflow.py           the Beat pass that recovers rows    *)
(*                                                                         *)
(* Simplifications.                                                        *)
(*  - A transaction is one step; what happens between two transactions of  *)
(*    one process is a step of its own, and the process may stop there.    *)
(*  - What a task does to its repository is in RepositoryContext; here it  *)
(*    returns a result, raises, or never returns.                          *)
(*  - A reply is what the task returns or raises to Celery.  Replies are   *)
(*    kept for ever, so as to be compared with each other and the rows.    *)
(***************************************************************************)
EXTENDS Integers, FiniteSets

CONSTANTS
    Ids,            \* Celery task ids
    Calls,          \* task names with their repository
    Results,        \* what an operation may return
    Workers,        \* Celery worker processes
    BatchLimit,     \* rows one recovery pass takes (100 in the code)
    Faults          \* TRUE if a transaction may fail, or not be heard to commit

ASSUME DeliveriesAssumption ==
    /\ BatchLimit \in Nat \ {0}
    /\ Faults \in BOOLEAN
    /\ "none" \notin Results
    /\ Ids # {} /\ Calls # {}

VARIABLES
    row,        \* the WorkerDelivery row of each id
    queue,      \* messages in the broker
    worker,     \* what each worker process holds in memory
    starts,     \* how often the operation of an id was begun
    replies     \* what Celery was told

vars == <<row, queue, worker, starts, replies>>

Messages == [id : Ids, call : Calls]

Absent ==
    [status |-> "absent", call |-> CHOOSE c \in Calls : TRUE, result |-> "none",
     error |-> "none", lease |-> "none"]

Idle ==
    [pc |-> "idle", id |-> CHOOSE i \in Ids : TRUE, result |-> "none", error |-> "none"]

Init ==
    /\ row = [i \in Ids |-> Absent]
    /\ queue = {}
    /\ worker = [p \in Workers |-> Idle]
    /\ starts = [i \in Ids |-> 0]
    /\ replies = {}

-----------------------------------------------------------------------------
\* send_task: a new id for a new request, or one that was used before.
Submit(m) ==
    /\ queue' = queue \cup {m}
    /\ UNCHANGED <<row, worker, starts, replies>>

Lose(m) ==
    /\ m \in queue
    /\ queue' = queue \ {m}
    /\ UNCHANGED <<row, worker, starts, replies>>

Reply(id, kind, result) ==
    replies' = replies \cup {[id |-> id, kind |-> kind, result |-> result]}

\* Variant with a bug: a failed row is operated upon again.
BeginAgain(p, m) ==
    /\ row[m.id].status \in {"absent", "failed"}
    /\ row' = [row EXCEPT ![m.id] =
          [Absent EXCEPT !.status = "running", !.call = m.call, !.lease = "live"]]
    /\ worker' = [worker EXCEPT ![p] = [Idle EXCEPT !.pc = "operate", !.id = m.id]]
    /\ starts' = [starts EXCEPT ![m.id] = @ + 1]
    /\ UNCHANGED replies

\* The insert of an id that has no row: this delivery owns the operation.
Begin(p, m) ==
    /\ row[m.id].status = "absent"
    /\ row' = [row EXCEPT ![m.id] =
          [Absent EXCEPT !.status = "running", !.call = m.call, !.lease = "live"]]
    /\ worker' = [worker EXCEPT ![p] = [Idle EXCEPT !.pc = "operate", !.id = m.id]]
    /\ starts' = [starts EXCEPT ![m.id] = @ + 1]
    /\ UNCHANGED replies

\* The row exists: reuse its result, refuse, or say that it is being done.
Answer(m) ==
    /\ row[m.id].status # "absent"
    /\ IF m.call # row[m.id].call \/ row[m.id].status = "failed"
       THEN Reply(m.id, "error", "none")
       ELSE IF row[m.id].status = "completed"
       THEN Reply(m.id, "success", row[m.id].result)
       ELSE Reply(m.id, "duplicate", "none")
    /\ UNCHANGED <<row, worker, starts>>

\* A worker takes a message; late acknowledgement lets it come again.
Deliver(p, m, again) ==
    /\ worker[p].pc = "idle"
    /\ m \in queue
    /\ queue' = IF again THEN queue ELSE queue \ {m}
    /\ Begin(p, m) \/ Answer(m)

\* operation() returns or raises; a missing embedding key is told apart.
Operate(p) ==
    /\ worker[p].pc = "operate"
    /\ \/ \E r \in Results :
             worker' = [worker EXCEPT ![p].pc = "finish", ![p].result = r]
       \/ \E e \in {"unconfigured", "failed"} :
             worker' = [worker EXCEPT ![p].pc = "finish", ![p].error = e]
    /\ UNCHANGED <<row, queue, starts, replies>>

\* Variant with a bug: the row is written whatever has become of it.
OwnsAny(id) == TRUE

\* finish raises delivery_claim_lost unless the row is running.
Owns(id) == row[id].status = "running"

Finished(r, c) ==
    [r EXCEPT !.status = IF c.error = "none" THEN "completed" ELSE "failed",
              !.result = c.result, !.error = c.error, !.lease = "none"]

\* DeliveryRecords.finish and the reply that follows.
Finish(p) ==
    LET c == worker[p] IN
    /\ c.pc = "finish"
    /\ \/ /\ Owns(c.id)
          /\ row' = [row EXCEPT ![c.id] = Finished(@, c)]
          /\ \/ Reply(c.id, IF c.error = "none" THEN "success" ELSE "error", c.result)
             \/ Faults /\ Reply(c.id, "error", "none")
       \/ /\ ~Owns(c.id) \/ Faults
          /\ Reply(c.id, "error", "none")
          /\ UNCHANGED row
    /\ worker' = [worker EXCEPT ![p] = Idle]
    /\ UNCHANGED <<queue, starts>>

\* The process is killed, by its time limit or otherwise, with no reply.  A
\* message that is not acknowledged comes back by Submit.
Crash(p) ==
    /\ worker[p].pc # "idle"
    /\ worker' = [worker EXCEPT ![p] = Idle]
    /\ UNCHANGED <<row, queue, starts, replies>>

LeaseExpires(id) ==
    /\ row[id].lease = "live"
    /\ row' = [row EXCEPT ![id].lease = "expired"]
    /\ UNCHANGED <<queue, worker, starts, replies>>

\* Variant with a bug: rows that have ended are not left out.
StaleEver == {i \in Ids : row[i].status # "absent" /\ row[i].lease # "live"}

\* Variant with a bug: only rows without a lease are looked for.
StaleUnleased == {i \in Ids : row[i].status = "running" /\ row[i].lease = "none"}

Stale == {i \in Ids : row[i].status = "running" /\ row[i].lease = "expired"}

\* recover_stale, which a pass of workflow.recover calls first.
RecoverStale ==
    \E S \in SUBSET Stale :
        /\ S # {}
        /\ Cardinality(S) <= BatchLimit /\ (S # Stale => Cardinality(S) = BatchLimit)
        /\ row' = [i \in Ids |->
              IF i \in S
              THEN [row[i] EXCEPT !.status = "failed", !.error = "interrupted", !.lease = "none"]
              ELSE row[i]]
        /\ UNCHANGED <<queue, worker, starts, replies>>

WorkerStep(p) ==
    \/ \E m \in Messages, again \in BOOLEAN : Deliver(p, m, again)
    \/ Operate(p)
    \/ Finish(p)
    \/ Crash(p)

Next ==
    \/ \E p \in Workers : WorkerStep(p)
    \/ \E m \in Messages : Submit(m) \/ Lose(m)
    \/ \E i \in Ids : LeaseExpires(i)
    \/ RecoverStale

Spec == Init /\ [][Next]_vars

\* Clocks advance and Beat fires again and again; workers may die.
Fairness ==
    /\ \A i \in Ids : WF_vars(LeaseExpires(i))
    /\ WF_vars(RecoverStale)

FairSpec == Spec /\ Fairness

-----------------------------------------------------------------------------
(* Properties *)

Rows ==
    [status : {"absent", "running", "completed", "failed"}, call : Calls,
     result : Results \cup {"none"},
     error : {"none", "unconfigured", "failed", "interrupted"},
     lease : {"none", "live", "expired"}]

WorkerRecords ==
    [pc : {"idle", "operate", "finish"}, id : Ids, result : Results \cup {"none"},
     error : {"none", "unconfigured", "failed"}]

(* Type invariant: rows, messages, workers and replies have their types. *)
TypeOK ==
    /\ row \in [Ids -> Rows]
    /\ queue \subseteq Messages
    /\ worker \in [Workers -> WorkerRecords]
    /\ starts \in [Ids -> Nat]
    /\ replies \subseteq [id : Ids, kind : {"success", "error", "duplicate"},
                          result : Results \cup {"none"}]

(* docs/orchestration-reliability.md:20: "one operation attempt per Celery task
   ID", through redelivery, crashes, expired leases and reused ids. *)
OneAttempt == \A i \in Ids : starts[i] <= 1

(* Whoever is told that a task succeeded is told the one result the row keeps,
   and the row keeps it for ever: no reply ever contradicts GET /worker-deliveries. *)
RepliesAgreeWithRow ==
    \A r \in replies :
        r.kind = "success" =>
            /\ row[r.id].status = "completed"
            /\ row[r.id].result = r.result

(* A worker that was given up may come back after its row was failed: it can no
   longer turn the row into a success, and no late pass fails a success. *)
VerdictIsFinal ==
    [][\A i \in Ids :
          row[i].status \in {"completed", "failed"} =>
             /\ row'[i].status = row[i].status
             /\ row'[i].result = row[i].result]_vars

(* A delivery that has begun ends, whatever becomes of its worker and however
   many rows wait for the recovery pass. *)
DeliveryEnds == \A i \in Ids : row[i].status = "running" ~> row[i].status # "running"
=============================================================================
