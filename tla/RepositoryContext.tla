------------------------- MODULE RepositoryContext -------------------------
(***************************************************************************)
(* One registered repository: its managed checkout, its status columns,    *)
(* its chunks and their vectors, and the workflows and standalone tasks    *)
(* that synchronize, index, embed, read and copy it.                       *)
(*                                                                         *)
(*   app/services/workspace.py, workspace_sync.py   lock, checkout, copies *)
(*   app/indexing/service.py, embeddings.py         chunks and vectors     *)
(*   app/services/issue_context.py, context_store.py, app/retrieval        *)
(*   app/orchestration/workflow_stages.py           the stages, and what   *)
(*                                     they verify before they rely on it  *)
(*                                                                         *)
(* Simplifications.                                                        *)
(*  - A chunk is what reconciliation compares (path, lines, content ...),  *)
(*    and a commit is a set of chunks.  Ranking returns any of them.       *)
(*  - A chunk has a current vector when its status is "ready"; the content *)
(*    of a row never changes, so its hash needs no variable.               *)
(*  - Of a workflow, only the stages that touch the repository are kept.   *)
(*    One process at a time runs a stage of it (module Workflow; the hard  *)
(*    limit of a worker is well below the lease).  Whether a failed stage  *)
(*    may be resumed is that module's business: here it always may.        *)
(*  - The branch only moves forward: it never returns to an old commit.    *)
(*  - Nobody removes the lock file of a process that is alive.             *)
(***************************************************************************)
EXTENDS Integers, Sequences, FiniteSets

CONSTANTS
    Flows,          \* workflows that use the repository
    Helpers,        \* workers that run standalone tasks on it
    Chunks,         \* chunks a commit may consist of
    History,        \* the branch: the chunks of each commit, in order
    BatchSize       \* chunks in one embedding request

None == 0           \* no commit

ASSUME HistoryAssumption ==
    /\ History \in Seq(SUBSET Chunks) /\ History # <<>>
    /\ BatchSize \in Nat \ {0}
    /\ Flows \cap Helpers = {}
    /\ (Flows \cup Helpers) \cap {"free", "orphan"} = {}

Commits == 1..Len(History)

ChunksOf(commit) == IF commit = None THEN {} ELSE History[commit]

VARIABLES
    remote,     \* the commit the default branch is at
    tree,       \* the managed checkout: its HEAD, and whose files it has
    lock,       \* who holds the lock file, "free", or "orphan" if nobody alive
    repo,       \* status columns of the Repository row
    chunks,     \* CodeChunk rows with their embedding_status
    flow,       \* what is checkpointed of each workflow
    copy,       \* the execution workspace of each workflow
    worker      \* the job of each process

vars == <<remote, tree, lock, repo, chunks, flow, copy, worker>>

Processes == Flows \cup Helpers

NextStage ==
    [sync |-> "index", index |-> "embed", embed |-> "context",
     context |-> "workspace", workspace |-> "built"]

NoJob == [pc |-> "idle", commit |-> None, batch |-> {}, found |-> {}]

Partial == -1       \* a copy that was not finished

Init ==
    /\ remote \in Commits
    /\ tree = [head |-> None, files |-> None]
    /\ lock = "free"
    /\ repo = [local |-> "pending", index |-> "pending", embedding |-> "pending"]
    /\ chunks = [b \in {} |-> "pending"]
    /\ flow = [w \in Flows |->
                  [stage |-> "sync", status |-> "ready", source |-> None, context |-> {}]]
    /\ copy = [w \in Flows |-> None]
    /\ worker = [p \in Processes |-> NoJob]

-----------------------------------------------------------------------------
(* Jobs *)

Me(p) == worker[p]

Go(p, j) == worker' = [worker EXCEPT ![p] = j]

To(p, pc) == Go(p, [Me(p) EXCEPT !.pc = pc])

Release(p) == lock' = IF lock = p THEN "free" ELSE lock

\* The row of a workflow after its stage: f on success.  A worker that dies
\* before the checkpoint leaves a stage to be resumed.
Checkpoint(p, f, outcome) ==
    IF p \notin Flows THEN UNCHANGED flow
    ELSE \E o \in {outcome, "failed"} :
            flow' = [flow EXCEPT ![p] =
                IF o = "ok" THEN [f EXCEPT !.stage = NextStage[@], !.status = "ready"]
                ELSE [@ EXCEPT !.status = o]]

\* The job ends: the lock is released, the stage is over.
Leave(p, f, outcome) ==
    /\ Go(p, NoJob)
    /\ Release(p)
    /\ Checkpoint(p, f, outcome)

Unchanged(p) == IF p \in Flows THEN flow[p] ELSE [stage |-> "sync"]

Fail(p) == Leave(p, Unchanged(p), "failed")

Done(p) == Leave(p, Unchanged(p), "ok")

\* Variant with a bug: the stages do not compare revisions.
AnyRevision(p, commit) == TRUE

\* workflow_repository_revision_changed is raised unless this holds.
SameRevision(p, commit) == p \in Flows => commit = flow[p].source

\* A stage of a workflow is claimed; all but "sync" verify the checkout first.
ClaimStage(w) ==
    /\ flow[w].status = "ready" /\ flow[w].stage # "built"
    /\ flow' = [flow EXCEPT ![w].status = "active"]
    /\ Go(w, [NoJob EXCEPT !.pc = IF flow[w].stage = "sync" THEN "sync" ELSE "verify"])
    /\ UNCHANGED <<remote, tree, lock, repo, chunks, copy>>

\* A standalone task begins.
Task(h) ==
    /\ Me(h).pc = "idle"
    /\ \E job \in {"sync", "index", "embed"} : Go(h, [NoJob EXCEPT !.pc = job])
    /\ UNCHANGED <<remote, tree, lock, repo, chunks, flow, copy>>

Locked ==
    [verify |-> "verifying", sync |-> "marking", index |-> "opening",
     embed |-> "starting", clone |-> "cloning"]

\* The lock file is created, or is there already: workspace_busy.
Acquire(p) ==
    /\ Me(p).pc \in DOMAIN Locked
    /\ IF lock = "free"
       THEN lock' = p /\ To(p, Locked[Me(p).pc]) /\ UNCHANGED flow
       ELSE Fail(p)
    /\ UNCHANGED <<remote, tree, repo, chunks, copy>>

\* The stage verifies the checkout under the lock, and lets the lock go.
Verify(w) ==
    /\ Me(w).pc = "verifying"
    /\ IF SameRevision(w, tree.head)
       THEN /\ Release(w)
            /\ To(w, CASE flow[w].stage = "context" -> "loading"
                       [] flow[w].stage = "workspace" -> "target"
                       [] OTHER -> flow[w].stage)
            /\ UNCHANGED flow
       ELSE Leave(w, flow[w], "blocked")
    /\ UNCHANGED <<remote, tree, repo, chunks, copy>>

-----------------------------------------------------------------------------
(* Synchronization *)

\* Variant with a bug: only local_status is written.
MarkedLocal(status) == [repo EXCEPT !.local = status]

\* update_status: whatever was indexed is no longer current.
Marked(status) == [local |-> status, index |-> "pending", embedding |-> "pending"]

Mark(p) ==
    /\ Me(p).pc = "marking"
    /\ repo' = Marked("syncing")
    /\ To(p, "fetching")
    /\ UNCHANGED <<remote, tree, lock, chunks, flow, copy>>

\* Fetch, or clone without a checkout and move the clone into place.
Fetch(p) ==
    /\ Me(p).pc = "fetching"
    /\ Go(p, [Me(p) EXCEPT !.pc = "files", !.commit = remote])
    /\ tree' = IF tree.head = None THEN [tree EXCEPT !.head = remote] ELSE tree
    /\ UNCHANGED <<remote, lock, repo, chunks, flow, copy>>

\* git reset --hard writes the files, then HEAD.
ResetFiles(p) ==
    /\ Me(p).pc = "files"
    /\ tree' = [tree EXCEPT !.files = Me(p).commit]
    /\ To(p, "head")
    /\ UNCHANGED <<remote, lock, repo, chunks, flow, copy>>

ResetHead(p) ==
    /\ Me(p).pc = "head"
    /\ tree' = [tree EXCEPT !.head = Me(p).commit]
    /\ To(p, "synced")
    /\ UNCHANGED <<remote, lock, repo, chunks, flow, copy>>

Synced(p) ==
    /\ Me(p).pc = "synced"
    /\ repo' = Marked("ready")
    /\ Leave(p, IF p \in Flows THEN [flow[p] EXCEPT !.source = tree.head] ELSE Unchanged(p), "ok")
    /\ UNCHANGED <<remote, tree, chunks, copy>>

\* The error is recorded, if the database lets it.
SyncError(p) ==
    /\ Me(p).pc = "sync_error"
    /\ repo' = Marked("error") \/ UNCHANGED repo
    /\ Fail(p)
    /\ UNCHANGED <<remote, tree, chunks, copy>>

-----------------------------------------------------------------------------
(* Indexing *)

StartIndex(p) ==
    /\ Me(p).pc = "opening"
    /\ IF repo.local = "ready"
       THEN repo' = [repo EXCEPT !.index = "indexing"] /\ To(p, "scanning")
                /\ UNCHANGED <<lock, flow>>
       ELSE Fail(p) /\ UNCHANGED repo
    /\ UNCHANGED <<remote, tree, chunks, copy>>

Scan(p) ==
    /\ Me(p).pc = "scanning"
    /\ Go(p, [Me(p) EXCEPT !.pc = "persisting", !.commit = tree.head,
                           !.found = ChunksOf(tree.files)])
    /\ UNCHANGED <<remote, tree, lock, repo, chunks, flow, copy>>

\* Rows that are found again are kept with their vectors.
Reconciled(found) ==
    [b \in found |-> IF b \in DOMAIN chunks THEN chunks[b] ELSE "pending"]

Persist(p) ==
    /\ Me(p).pc = "persisting"
    /\ chunks' = Reconciled(Me(p).found)
    /\ repo' = [repo EXCEPT !.index = "ready", !.embedding = "pending"]
    /\ Leave(p, Unchanged(p), IF SameRevision(p, Me(p).commit) THEN "ok" ELSE "blocked")
    /\ UNCHANGED <<remote, tree, copy>>

IndexError(p) ==
    /\ Me(p).pc = "index_error"
    /\ repo' = [repo EXCEPT !.index = "error"] \/ UNCHANGED repo
    /\ Fail(p)
    /\ UNCHANGED <<remote, tree, chunks, copy>>

-----------------------------------------------------------------------------
(* Embeddings *)

StartEmbedding(p) ==
    /\ Me(p).pc = "starting"
    /\ IF repo.index = "ready"
       THEN repo' = [repo EXCEPT !.embedding = "embedding"] /\ To(p, "picking")
                /\ UNCHANGED <<lock, flow>>
       ELSE Fail(p) /\ UNCHANGED repo
    /\ UNCHANGED <<remote, tree, chunks, copy>>

\* Variant with a bug: chunks that were given up once are not tried again.
MissingPending == {b \in DOMAIN chunks : chunks[b] = "pending"}

\* Chunks without a current vector.
Missing == {b \in DOMAIN chunks : chunks[b] # "ready"}

\* The rows of S get a status.
Stamp(S, status) == [b \in DOMAIN chunks |-> IF b \in S THEN status ELSE chunks[b]]

PickBatch(p) ==
    /\ Me(p).pc = "picking"
    /\ \/ /\ Missing = {}
          /\ To(p, "closing")
          /\ UNCHANGED chunks
       \/ \E S \in SUBSET Missing :
             /\ S # {} /\ Cardinality(S) <= BatchSize
             /\ S # Missing => Cardinality(S) = BatchSize
             /\ chunks' = Stamp(S, "embedding")
             /\ Go(p, [Me(p) EXCEPT !.pc = "asking", !.batch = S])
    /\ UNCHANGED <<remote, tree, lock, repo, flow, copy>>

\* Variant with a bug: the saved vector does not count as current.
SaveBatchStale(p) ==
    /\ Me(p).pc = "asking"
    /\ chunks' = Stamp(Me(p).batch, "pending")
    /\ Go(p, [Me(p) EXCEPT !.pc = "picking", !.batch = {}])
    /\ UNCHANGED <<remote, tree, lock, repo, flow, copy>>

\* The provider returns vectors, and every row is still there to take its own.
SaveBatch(p) ==
    /\ Me(p).pc = "asking"
    /\ IF Me(p).batch \subseteq DOMAIN chunks
       THEN /\ chunks' = Stamp(Me(p).batch, "ready")
            /\ Go(p, [Me(p) EXCEPT !.pc = "picking", !.batch = {}])
       ELSE To(p, "embed_error") /\ UNCHANGED chunks
    /\ UNCHANGED <<remote, tree, lock, repo, flow, copy>>

CloseEmbedding(p) ==
    /\ Me(p).pc = "closing"
    /\ repo' = [repo EXCEPT !.embedding = "ready"]
    /\ Done(p)
    /\ UNCHANGED <<remote, tree, chunks, copy>>

EmbedError(p) ==
    /\ Me(p).pc = "embed_error"
    /\ \/ /\ repo' = [repo EXCEPT !.embedding = "error"]
          /\ chunks' = Stamp(Me(p).batch, "error")
       \/ UNCHANGED <<repo, chunks>>
    /\ Fail(p)
    /\ UNCHANGED <<remote, tree, copy>>

-----------------------------------------------------------------------------
(* Issue context: reads in transactions of their own, without the lock *)

LoadIssue(w) ==
    /\ Me(w).pc = "loading"
    /\ IF repo.index = "ready" THEN To(w, "searching") /\ UNCHANGED <<lock, flow>> ELSE Fail(w)
    /\ UNCHANGED <<remote, tree, repo, chunks, copy>>

\* One retriever answers one query.
Search(w) ==
    /\ Me(w).pc = "searching"
    /\ \E hits \in SUBSET DOMAIN chunks :
          Go(w, [Me(w) EXCEPT !.found = @ \cup hits])
    /\ UNCHANGED <<remote, tree, lock, repo, chunks, flow, copy>>

\* The documents of the hits, those that still exist.
LoadDocuments(w) ==
    /\ Me(w).pc = "searching"
    /\ Go(w, [Me(w) EXCEPT !.pc = "neighbors", !.found = @ \cap DOMAIN chunks])
    /\ UNCHANGED <<remote, tree, lock, repo, chunks, flow, copy>>

LoadNeighbors(w) ==
    /\ Me(w).pc = "neighbors"
    /\ \E more \in SUBSET DOMAIN chunks :
          Go(w, [Me(w) EXCEPT !.found = @ \cup more])
    /\ UNCHANGED <<remote, tree, lock, repo, chunks, flow, copy>>

Build(w) ==
    /\ Me(w).pc = "neighbors"
    /\ Leave(w, [flow[w] EXCEPT !.context = Me(w).found], "ok")
    /\ UNCHANGED <<remote, tree, repo, chunks, copy>>

-----------------------------------------------------------------------------
(* Execution workspace *)

\* The copy is there already: it must be a repository, clean, at the source.
Target(w) ==
    /\ Me(w).pc = "target"
    /\ CASE copy[w] = None -> To(w, "clone") /\ UNCHANGED <<lock, flow>>
         [] copy[w] = Partial -> Fail(w) \/ Leave(w, flow[w], "blocked")
         [] OTHER -> Leave(w, flow[w], IF SameRevision(w, copy[w]) THEN "ok" ELSE "blocked")
    /\ UNCHANGED <<remote, tree, repo, chunks, copy>>

\* create_execution
CreateCopy(w) ==
    /\ Me(w).pc = "cloning"
    /\ copy' = [copy EXCEPT ![w] = tree.head]
    /\ Leave(w, flow[w], IF SameRevision(w, tree.head) THEN "ok" ELSE "blocked")
    /\ UNCHANGED <<remote, tree, repo, chunks>>

-----------------------------------------------------------------------------
(* Failures *)

\* Where an exception in a locked job leads before the job ends.
Handler ==
    [marking |-> "sync_error", fetching |-> "sync_error", files |-> "sync_error",
     head |-> "sync_error", synced |-> "sync_error",
     scanning |-> "index_error", persisting |-> "index_error",
     picking |-> "embed_error", asking |-> "embed_error", closing |-> "embed_error"]

\* A copy that is interrupted may have been begun.
Interrupted(p) ==
    \/ copy' = copy
    \/ Me(p).pc = "cloning" /\ copy' = [copy EXCEPT ![p] = Partial]

\* Git, the provider, the file system or the database raises.
Raises(p) ==
    /\ Me(p).pc \notin {"idle", "sync_error", "index_error", "embed_error"}
    /\ IF Me(p).pc \in DOMAIN Handler
       THEN To(p, Handler[Me(p).pc]) /\ UNCHANGED <<lock, flow>>
       ELSE Fail(p)
    /\ Interrupted(p)
    /\ UNCHANGED <<remote, tree, repo, chunks>>

\* The process dies and its lock file stays; the lease of a workflow runs out.
Crash(p) ==
    /\ Me(p).pc # "idle"
    /\ Go(p, NoJob)
    /\ lock' = IF lock = p THEN "orphan" ELSE lock
    /\ flow' = IF p \in Flows THEN [flow EXCEPT ![p].status = "failed"] ELSE flow
    /\ Interrupted(p)
    /\ UNCHANGED <<remote, tree, repo, chunks>>

\* An operator removes the lock file of a dead process.
RepairLock ==
    /\ lock = "orphan"
    /\ lock' = "free"
    /\ UNCHANGED <<remote, tree, repo, chunks, flow, copy, worker>>

ResumeFlow(w) ==
    /\ flow[w].status = "failed"
    /\ flow' = [flow EXCEPT ![w].status = "ready"]
    /\ UNCHANGED <<remote, tree, lock, repo, chunks, copy, worker>>

Push ==
    /\ remote + 1 \in Commits
    /\ remote' = remote + 1
    /\ UNCHANGED <<tree, lock, repo, chunks, flow, copy, worker>>

-----------------------------------------------------------------------------
Job(p) ==
    \/ Acquire(p)
    \/ Mark(p) \/ Fetch(p) \/ ResetFiles(p) \/ ResetHead(p) \/ Synced(p) \/ SyncError(p)
    \/ StartIndex(p) \/ Scan(p) \/ Persist(p) \/ IndexError(p)
    \/ StartEmbedding(p) \/ PickBatch(p) \/ SaveBatch(p) \/ CloseEmbedding(p) \/ EmbedError(p)
    \/ /\ p \in Flows
       /\ \/ Verify(p)
          \/ LoadIssue(p) \/ Search(p) \/ LoadDocuments(p) \/ LoadNeighbors(p) \/ Build(p)
          \/ Target(p) \/ CreateCopy(p)

Next ==
    \/ \E p \in Processes : Job(p) \/ Raises(p) \/ Crash(p)
    \/ \E w \in Flows : ClaimStage(w) \/ ResumeFlow(w)
    \/ \E h \in Helpers : Task(h)
    \/ RepairLock
    \/ Push

Spec == Init /\ [][Next]_vars

\* A process that lives takes its next step; reads of a context come to an end.
Fairness ==
    /\ \A p \in Processes : WF_vars(Job(p))
    /\ \A w \in Flows : WF_vars(ClaimStage(w))

FairSpec == Spec /\ Fairness

-----------------------------------------------------------------------------
(* Properties *)

Steps ==
    {"idle", "verify", "sync", "index", "embed", "clone", "verifying", "marking",
     "opening", "starting", "cloning", "fetching", "files", "head", "synced", "sync_error",
     "scanning", "persisting", "index_error", "picking", "asking", "closing", "embed_error",
     "loading", "searching", "neighbors", "target"}

Trees == [head : Commits \cup {None}, files : Commits \cup {None}]

Columns == [local : {"pending", "syncing", "ready", "error"},
            index : {"pending", "indexing", "ready", "error"},
            embedding : {"pending", "embedding", "ready", "error"}]

Vectors == {"pending", "embedding", "ready", "error"}

FlowRows == [stage : DOMAIN NextStage \cup {"built"},
             status : {"ready", "active", "failed", "blocked"},
             source : Commits \cup {None}, context : SUBSET Chunks]

Jobs == [pc : Steps, commit : Commits \cup {None},
         batch : SUBSET Chunks, found : SUBSET Chunks]

(* Type invariant: the columns, the rows and the jobs have their types, and the
   chunks that have a row are chunks. *)
TypeOK ==
    /\ remote \in Commits
    /\ tree \in Trees
    /\ lock \in Processes \cup {"free", "orphan"}
    /\ repo \in Columns
    /\ \E S \in SUBSET Chunks : chunks \in [S -> Vectors]
    /\ flow \in [Flows -> FlowRows]
    /\ copy \in [Flows -> Commits \cup {None, Partial}]
    /\ worker \in [Processes -> Jobs]

(* workspace_sync.py:26: "Existing code context must not be considered current
   during/after a new sync".  Whenever the index is "ready" the rows are exactly
   the chunks of the checkout's HEAD, and its files are those of HEAD too: also
   after a sync, a scan or a status update that broke off half way. *)
IndexIsOfCheckout ==
    repo.index = "ready" =>
        /\ tree.files = tree.head
        /\ DOMAIN chunks = ChunksOf(tree.head)

(* Columns, rows, jobs and checkout have their types, and the index column is true. *)
WellFormed == TypeOK /\ IndexIsOfCheckout

(* Embeddings are called "ready" only while every chunk has its vector, whatever
   failed batches, re-indexing or syncs came in between. *)
VectorsComplete ==
    repo.embedding = "ready" => \A b \in DOMAIN chunks : chunks[b] = "ready"

(* A workflow that has its execution workspace has it at the commit it recorded
   when it synchronized, and its issue context quotes that commit only, although
   neither the lock nor a transaction spans the stages or the reads of a context. *)
ContextOfSource ==
    \A w \in Flows :
        flow[w].stage = "built" =>
            /\ copy[w] = flow[w].source
            /\ flow[w].context \subseteq ChunksOf(flow[w].source)

(* docs/architecture.md: "Successful batches survive later failures", and
   "Reindexing preserves unchanged records": a vector that was saved is lost only
   with the row of its chunk. *)
VectorsSurvive ==
    \A b \in DOMAIN chunks :
        chunks[b] = "ready" /\ b \in DOMAIN chunks' => chunks'[b] = "ready"

(* Vectors are neither missing where the column says "ready", nor lost once they were
   paid for, whatever failed batches, re-indexing or syncs came in between. *)
VectorsKept == [][VectorsComplete' /\ VectorsSurvive]_vars

(* Every job ends, so that the lock it holds is released: the embedding loop runs
   out of batches, and a job that finds the lock taken gives up. *)
JobsEnd == \A p \in Processes : Me(p).pc # "idle" ~> Me(p).pc = "idle"
=============================================================================
