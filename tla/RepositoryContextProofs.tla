----------------------- MODULE RepositoryContextProofs -----------------------
(***************************************************************************)
(* For every number of workflows, helpers, chunks and commits, and for     *)
(* every failure, death and push: the status columns of a repository are   *)
(* true, its vectors are kept, and a built workflow rests on one commit.   *)
(*                                                                         *)
(* Two facts carry the argument.  Whoever writes the checkout, the columns *)
(* or the rows holds the lock file, so that nobody else's job depends on   *)
(* them (Keeps).  And HEAD only moves forward (Steady): a workflow that    *)
(* finds its source at HEAD again knows that HEAD was there all along,     *)
(* although it held no lock while it read its context.                     *)
(***************************************************************************)
EXTENDS RepositoryContext, TLAPS

(* The inductive invariant *)

\* The rows are the chunks of the commit at HEAD.
Current == DOMAIN chunks = ChunksOf(tree.head)

ColumnsInv ==
    /\ tree.head <= remote
    /\ repo.local = "ready" => tree.files = tree.head
    /\ IndexIsOfCheckout
    /\ VectorsComplete

SyncSteps == {"sync", "marking", "fetching", "files", "head", "synced", "sync_error"}
IndexSteps == {"index", "opening", "scanning", "persisting", "index_error"}
EmbedSteps == {"embed", "starting", "picking", "asking", "closing", "embed_error"}
ReadSteps == {"loading", "searching", "neighbors"}
CopySteps == {"target", "clone", "cloning"}
FlowSteps == {"verify", "verifying"} \cup ReadSteps \cup CopySteps

UnderLock == (SyncSteps \cup IndexSteps \cup EmbedSteps \cup {"verifying", "cloning"})
                \ {"sync", "index", "embed"}

\* What the workflow of a job is at, and what it has found of its source.
StageInv(p) ==
    LET j == worker[p]
        f == flow[p]
    IN  /\ j.pc # "idle" => f.status = "active" /\ f.stage # "built"
        /\ j.pc \in {"verify", "verifying"} => f.stage # "sync"
        /\ j.pc \in SyncSteps => f.stage = "sync"
        /\ j.pc \in IndexSteps => f.stage = "index"
        /\ j.pc \in EmbedSteps => f.stage = "embed"
        /\ j.pc \in ReadSteps => f.stage = "context"
        /\ j.pc \in {"verify", "verifying", "loading"} => j.found = {}
        /\ j.pc \in {"searching", "neighbors"} /\ tree.head = f.source =>
              Current /\ j.found \subseteq ChunksOf(f.source)
        /\ j.pc \in CopySteps => f.stage = "workspace" /\ f.context \subseteq ChunksOf(f.source)

\* What the job of p has done under the lock.
JobInv(p) ==
    LET j == worker[p] IN
    /\ j.pc \in UnderLock => lock = p
    /\ j.pc \in {"fetching", "files", "head", "synced"} =>
          repo.local # "ready" /\ repo.index # "ready"
    /\ j.pc \in {"files", "head"} => tree.head <= j.commit /\ j.commit \in 1..remote
    /\ j.pc = "head" => tree.files = j.commit
    /\ j.pc = "synced" => tree.files = tree.head /\ tree.head # None
    /\ j.pc \in {"scanning", "persisting"} => repo.local = "ready" /\ repo.index # "ready"
    /\ j.pc = "persisting" => j.found = ChunksOf(tree.files)
    /\ j.pc \in {"picking", "asking", "closing", "embed_error"} => repo.embedding # "ready"
    /\ j.pc = "closing" => Missing = {}
    /\ \A b \in j.batch : /\ j.pc \in {"asking", "embed_error"}
                          /\ b \in DOMAIN chunks => chunks[b] # "ready"
    /\ p \notin Flows => j.pc \notin FlowSteps
    /\ p \in Flows => StageInv(p)

\* What a workflow has checkpointed.
FlowInv(w) ==
    LET f == flow[w] IN
    /\ f.stage # "sync" => f.source # None /\ f.source <= tree.head
    /\ f.stage = "workspace" /\ tree.head = f.source => f.context \subseteq ChunksOf(f.source)
    /\ f.stage = "built" => copy[w] = f.source /\ f.context \subseteq ChunksOf(f.source)

Inv ==
    /\ TypeOK
    /\ ColumnsInv
    /\ \A p \in Processes : JobInv(p)
    /\ \A w \in Flows : FlowInv(w)

\* No step takes HEAD back, and as long as it stays rows that are its chunks stay so.
Steady ==
    /\ remote <= remote'
    /\ tree.head <= tree'.head
    /\ tree.head = tree'.head /\ Current => Current'

\* What a step of others leaves to q.
Keeps(q) ==
    /\ worker'[q] = worker[q]
    /\ q \in Flows => flow'[q] = flow[q] /\ copy'[q] = copy[q]
    /\ lock = q => lock' = q /\ UNCHANGED <<tree, repo, chunks>>

-----------------------------------------------------------------------------
(* Types, and the ways a step takes a job on or ends it *)

\* No process is called like a state of the lock.
LEMMA ProcessNames ==
  \A p \in Processes : p \notin {"free", "orphan"} /\ (p \in Flows \/ p \in Helpers)
  BY HistoryAssumption DEF Processes

\* Commits are numbers from 1, and what they consist of are chunks.
LEMMA CommitTypes ==
  /\ None = 0 /\ Partial = -1
  /\ Len(History) \in Nat /\ Commits \subseteq Nat /\ None \notin Commits
  /\ \A c \in Commits : c >= 1 /\ 1..c \subseteq Commits
  /\ \A c \in Commits \cup {None} : c \in Nat /\ ChunksOf(c) \subseteq Chunks
<1>1. History \in Seq(SUBSET Chunks) /\ Len(History) \in Nat
  BY HistoryAssumption
<1>2. \A c \in Commits : History[c] \in SUBSET Chunks
  BY <1>1 DEF Commits
<1> QED BY <1>1, <1>2 DEF Commits, None, Partial, ChunksOf

\* Commits can be compared.
LEMMA Numbers == TypeOK => remote \in Nat /\ tree.head \in Nat
  BY CommitTypes DEF TypeOK, Trees

\* The stages before "built", and what follows them.
LEMMA StageTypes ==
  /\ DOMAIN NextStage = {"sync", "index", "embed", "context", "workspace"}
  /\ NextStage["sync"] = "index" /\ NextStage["index"] = "embed" /\ NextStage["embed"] = "context"
  /\ NextStage["context"] = "workspace" /\ NextStage["workspace"] = "built"
  BY DEF NextStage

\* A process without a claim has a job too, the idle one.
LEMMA NoJobType == NoJob \in Jobs /\ NoJob.pc = "idle" /\ NoJob.batch = {} /\ NoJob.found = {}
<1>1. None \in Commits \cup {None} /\ {} \in SUBSET Chunks /\ "idle" \in Steps
  BY DEF Steps
<1> QED BY <1>1, Zenon DEF NoJob, Jobs

\* Go changes the job of p alone.
LEMMA GoJob ==
  ASSUME TypeOK, NEW p \in Processes, NEW j \in Jobs, Go(p, j)
  PROVE  /\ worker' \in [Processes -> Jobs] /\ worker'[p] = j
         /\ \A q \in Processes : q # p => worker'[q] = worker[q]
  BY DEF TypeOK, Go

\* To takes it to another step.
LEMMA ToJob ==
  ASSUME TypeOK, NEW p \in Processes, NEW pc \in Steps, To(p, pc)
  PROVE  /\ worker' \in [Processes -> Jobs]
         /\ worker'[p].pc = pc /\ worker'[p].commit = worker[p].commit
         /\ worker'[p].batch = worker[p].batch /\ worker'[p].found = worker[p].found
         /\ \A q \in Processes : q # p => worker'[q] = worker[q]
<1> DEFINE j == [worker[p] EXCEPT !.pc = pc]
<1>1. worker[p] \in Jobs
  BY DEF TypeOK
<1>2. /\ j \in Jobs /\ j.pc = pc /\ j.commit = worker[p].commit
      /\ j.batch = worker[p].batch /\ j.found = worker[p].found
  BY <1>1, Zenon DEF Jobs
<1>3. Go(p, j)
  BY DEF To, Me
<1> HIDE DEF j
<1> QED BY <1>2, <1>3, GoJob

\* What has become of the workflow of p when its job has ended.
Ended(p, f, outcome) ==
    /\ flow' \in [Flows -> FlowRows]
    /\ \A w \in Flows : w # p => flow'[w] = flow[w]
    /\ p \in Flows =>
          \/ /\ outcome = "ok"
             /\ flow'[p].stage = NextStage[f.stage]
             /\ flow'[p].source = f.source /\ flow'[p].context = f.context
          \/ /\ flow'[p].stage = flow[p].stage
             /\ flow'[p].source = flow[p].source /\ flow'[p].context = flow[p].context

\* A checkpoint moves the workflow on, or leaves it where it was.
LEMMA CheckpointRow ==
  ASSUME TypeOK, NEW p \in Processes, NEW f, NEW outcome \in {"ok", "failed", "blocked"},
         Checkpoint(p, f, outcome),
         p \in Flows => f \in FlowRows /\ f.stage \in DOMAIN NextStage
  PROVE  Ended(p, f, outcome)
<1>1. flow \in [Flows -> FlowRows]
  BY DEF TypeOK
<1>2. CASE p \notin Flows
  BY <1>1, <1>2 DEF Checkpoint, Ended
<1>3. CASE p \in Flows
  <2>1. PICK o \in {outcome, "failed"} :
          flow' = [flow EXCEPT ![p] =
                      IF o = "ok" THEN [f EXCEPT !.stage = NextStage[@], !.status = "ready"]
                      ELSE [flow[p] EXCEPT !.status = o]]
    BY <1>3 DEF Checkpoint
  <2>2. CASE o = "ok"
    <3> DEFINE g == [f EXCEPT !.stage = NextStage[@], !.status = "ready"]
    <3>1. NextStage[f.stage] \in DOMAIN NextStage \cup {"built"} /\ f \in FlowRows
      BY <1>3, StageTypes
    <3>2. /\ g \in FlowRows /\ g.stage = NextStage[f.stage]
          /\ g.source = f.source /\ g.context = f.context
      BY <3>1, Zenon DEF FlowRows
    <3>3. flow' = [flow EXCEPT ![p] = g]
      BY <2>1, <2>2
    <3> HIDE DEF g
    <3> QED BY <1>1, <1>3, <2>1, <2>2, <3>2, <3>3 DEF Ended
  <2>3. CASE o # "ok"
    <3> DEFINE g == [flow[p] EXCEPT !.status = o]
    <3>1. flow[p] \in FlowRows /\ o \in {"ready", "active", "failed", "blocked"}
      BY <1>1, <1>3, <2>1, <2>3
    <3>2. /\ g \in FlowRows /\ g.stage = flow[p].stage
          /\ g.source = flow[p].source /\ g.context = flow[p].context
      BY <3>1, Zenon DEF FlowRows
    <3>3. flow' = [flow EXCEPT ![p] = g]
      BY <2>1, <2>3
    <3> HIDE DEF g
    <3> QED BY <1>1, <1>3, <3>2, <3>3 DEF Ended
  <2> QED BY <2>2, <2>3
<1> QED BY <1>2, <1>3

-----------------------------------------------------------------------------
(* How the invariant is kept *)

\* A job that a step leaves alone keeps what it has done, and its workflow too.
LEMMA OthersKeep ==
  ASSUME Inv, TypeOK', Steady, NEW q \in Processes, Keeps(q)
  PROVE  JobInv(q)' /\ (q \in Flows => FlowInv(q)')
<1>1. JobInv(q) /\ worker'[q] = worker[q] /\ (q \in Flows => FlowInv(q) /\ flow'[q] = flow[q])
  BY DEF Inv, Keeps
<1>2. /\ remote \in Nat /\ remote' \in Nat /\ tree.head \in Nat /\ tree'.head \in Nat
      /\ q \in Flows => flow[q].source \in Nat
      /\ remote <= remote' /\ tree.head <= tree'.head
      /\ worker[q] \in Jobs
  BY CommitTypes DEF Inv, TypeOK, Trees, FlowRows, Steady
<1>3. CASE lock = q
  <2>1. lock' = q /\ UNCHANGED <<tree, repo, chunks>>
    BY <1>3 DEF Keeps
  <2>2. worker[q].pc \in {"files", "head"} =>
          tree'.head <= worker[q].commit /\ worker[q].commit \in 1..remote'
    BY <1>1, <1>2, <2>1 DEF JobInv
  <2>3. q \in Flows => StageInv(q)'
    BY <1>1, <2>1 DEF JobInv, StageInv, Current
  <2>4. Missing' = Missing
    BY <2>1 DEF Missing
  <2>5. JobInv(q)'
    BY <1>1, <1>3, <2>1, <2>2, <2>3, <2>4 DEF JobInv
  <2>6. q \in Flows => FlowInv(q)'
    BY <1>1, <2>1 DEF FlowInv, Keeps
  <2> QED BY <2>5, <2>6
<1>4. CASE lock # q
  <2>1. worker[q].pc \notin UnderLock
    BY <1>1, <1>4 DEF JobInv
  <2>2. q \in Flows /\ flow[q].stage # "sync" =>
          flow[q].source # None /\ flow[q].source <= tree.head
          /\ (tree'.head = flow[q].source => tree.head = flow[q].source)
    BY <1>1, <1>2 DEF FlowInv
  <2>3. q \in Flows => StageInv(q)'
    <3>1. q \in Flows => StageInv(q)
      BY <1>1 DEF JobInv
    <3>2. ASSUME q \in Flows, worker[q].pc \in {"searching", "neighbors"},
                 tree'.head = flow[q].source
          PROVE  Current' /\ worker[q].found \subseteq ChunksOf(flow[q].source)
      <4>1. flow[q].stage = "context"
        BY <3>1, <3>2 DEF StageInv, ReadSteps
      <4>2. tree.head = flow[q].source
        BY <2>2, <3>2, <4>1
      <4> QED BY <3>1, <3>2, <4>2 DEF StageInv, Steady
    <3> QED BY <1>1, <3>1, <3>2 DEF StageInv
  <2>4. JobInv(q)'
    BY <1>1, <2>1, <2>3 DEF JobInv, UnderLock, SyncSteps, IndexSteps, EmbedSteps
  <2>5. q \in Flows => FlowInv(q)'
    BY <1>1, <1>2, <2>2 DEF FlowInv, Keeps
  <2> QED BY <2>4, <2>5
<1> QED BY <1>3, <1>4

\* So it is enough to look at the columns and at the job that moves.
LEMMA StepOf ==
  ASSUME Inv, NEW p \in Processes, TypeOK', ColumnsInv', Steady, JobInv(p)',
         p \in Flows => FlowInv(p)',
         \A q \in Processes : q # p => Keeps(q)
  PROVE  Inv'
  BY OthersKeep DEF Inv, Processes

\* And at nothing else, where no job moves.
LEMMA ElsewhereStep ==
  ASSUME Inv, TypeOK', ColumnsInv', Steady, \A q \in Processes : Keeps(q)
  PROVE  Inv'
  BY OthersKeep DEF Inv, Processes

\* A step that writes nothing but a job, and takes the lock when it is free or
\* lets its own go.
LEMMA QuietStep ==
  ASSUME Inv, NEW p \in Processes,
         UNCHANGED <<remote, tree, repo, chunks, flow, copy>>,
         worker' \in [Processes -> Jobs],
         \A q \in Processes : q # p => worker'[q] = worker[q],
         lock' \in Processes \cup {"free", "orphan"},
         lock \in Processes \ {p} => lock' = lock,
         JobInv(p)'
  PROVE  Inv'
<1>1. TypeOK'
  BY DEF Inv, TypeOK
<1>2. ColumnsInv'
  BY DEF Inv, ColumnsInv, IndexIsOfCheckout, VectorsComplete
<1>3. Steady
  BY Numbers DEF Steady, Current, Inv
<1>4. p \in Flows => FlowInv(p)'
  BY DEF Inv, FlowInv
<1>5. \A q \in Processes : q # p => Keeps(q)
  BY DEF Keeps
<1> QED BY <1>1, <1>2, <1>3, <1>4, <1>5, StepOf

\* The idle job has nothing to keep.
LEMMA IdleInv ==
  ASSUME NEW p \in Processes, worker'[p] = NoJob
  PROVE  JobInv(p)'
  BY NoJobType DEF JobInv, StageInv, UnderLock, FlowSteps, SyncSteps, IndexSteps, EmbedSteps,
                   ReadSteps, CopySteps

\* A job ends: what it wrote under the lock must be right, and what it
\* checkpoints must be so on success.
LEMMA EndStep ==
  ASSUME Inv, NEW p \in Processes, NEW f, NEW outcome \in {"ok", "failed", "blocked"},
         worker[p].pc # "idle",
         Leave(p, f, outcome),
         p \in Flows => f \in FlowRows /\ f.stage = flow[p].stage,
         remote' = remote, tree' = tree,
         repo' \in Columns, \E S \in SUBSET Chunks : chunks' \in [S -> Vectors],
         copy' \in [Flows -> Commits \cup {None, Partial}],
         \A w \in Flows : w # p => copy'[w] = copy[w],
         lock # p => UNCHANGED <<repo, chunks>>,
         ColumnsInv', Current => Current',
         p \in Flows /\ outcome = "ok" =>
            /\ f.source # None /\ f.source <= tree.head
            /\ f.stage = "context" /\ tree.head = f.source =>
                 f.context \subseteq ChunksOf(f.source)
            /\ f.stage = "workspace" =>
                 copy'[p] = f.source /\ f.context \subseteq ChunksOf(f.source)
  PROVE  Inv'
<1>1. /\ p \in Flows => flow[p].stage \in DOMAIN NextStage
      /\ Go(p, NoJob) /\ lock' = (IF lock = p THEN "free" ELSE lock) /\ Checkpoint(p, f, outcome)
  BY StageTypes DEF Leave, Release, Inv, JobInv, StageInv, TypeOK, FlowRows
<1>2. /\ worker' \in [Processes -> Jobs] /\ worker'[p] = NoJob
      /\ \A q \in Processes : q # p => worker'[q] = worker[q]
  BY <1>1, GoJob, NoJobType DEF Inv
<1>3. Ended(p, f, outcome)
  BY <1>1, CheckpointRow DEF Inv
<1>4. TypeOK'
  <2>1. lock' \in Processes \cup {"free", "orphan"}
    BY <1>1 DEF Inv, TypeOK
  <2> QED BY <1>2, <1>3, <2>1 DEF Inv, TypeOK, Ended
<1>5. Steady
  <2>1. remote <= remote' /\ tree.head <= tree'.head
    BY Numbers DEF Inv
  <2> QED BY <2>1 DEF Steady
<1>6. p \in Flows => FlowInv(p)'
  <2> SUFFICES ASSUME p \in Flows PROVE FlowInv(p)'
    OBVIOUS
  <2>1. CASE /\ outcome = "ok" /\ flow'[p].stage = NextStage[f.stage]
             /\ flow'[p].source = f.source /\ flow'[p].context = f.context
    <3>1. f.stage \in DOMAIN NextStage
      BY <1>1
    <3>2. /\ NextStage[f.stage] = "workspace" => f.stage = "context"
          /\ NextStage[f.stage] = "built" => f.stage = "workspace"
      BY <3>1, StageTypes
    <3> QED BY <2>1, <3>2 DEF FlowInv
  <2>2. CASE /\ flow'[p].stage = flow[p].stage
             /\ flow'[p].source = flow[p].source /\ flow'[p].context = flow[p].context
    <3>1. FlowInv(p) /\ flow[p].stage # "built"
      BY <1>1, StageTypes DEF Inv
    <3> QED BY <2>2, <3>1 DEF FlowInv
  <2> QED BY <1>3, <2>1, <2>2 DEF Ended
<1>7. JobInv(p)'
  BY <1>2, IdleInv
<1>8. \A q \in Processes : q # p => Keeps(q)
  BY <1>1, <1>2, <1>3 DEF Keeps, Ended
<1> QED BY <1>4, <1>5, <1>6, <1>7, <1>8, StepOf

\* A job that fails, or that may only be blocked, leaves its workflow where it was.
LEMMA FailStep ==
  ASSUME Inv, NEW p \in Processes, NEW outcome \in {"failed", "blocked"}, worker[p].pc # "idle",
         Leave(p, Unchanged(p), outcome),
         remote' = remote, tree' = tree,
         repo' \in Columns, \E S \in SUBSET Chunks : chunks' \in [S -> Vectors],
         copy' \in [Flows -> Commits \cup {None, Partial}],
         \A w \in Flows : w # p => copy'[w] = copy[w],
         lock # p => UNCHANGED <<repo, chunks>>,
         ColumnsInv', Current => Current'
  PROVE  Inv'
<1>1. p \in Flows => Unchanged(p) \in FlowRows /\ Unchanged(p).stage = flow[p].stage
  BY DEF Unchanged, Inv, TypeOK
<1> QED BY <1>1, EndStep

\* The same for a job that has written nothing.
LEMMA QuietFail ==
  ASSUME Inv, NEW p \in Processes, NEW outcome \in {"failed", "blocked"}, worker[p].pc # "idle",
         Leave(p, Unchanged(p), outcome), UNCHANGED <<remote, tree, repo, chunks>>,
         copy' \in [Flows -> Commits \cup {None, Partial}],
         \A w \in Flows : w # p => copy'[w] = copy[w]
  PROVE  Inv'
<1>1. ColumnsInv' /\ (Current => Current')
  BY DEF Inv, ColumnsInv, IndexIsOfCheckout, VectorsComplete, Current
<1>2. repo' \in Columns /\ \E S \in SUBSET Chunks : chunks' \in [S -> Vectors]
  BY DEF Inv, TypeOK
<1> QED BY <1>1, <1>2, FailStep

-----------------------------------------------------------------------------
(* Claims, the lock, failures *)

\* The first step of a job knows nothing yet.
LEMMA NewJob ==
  ASSUME NEW pc \in Steps
  PROVE  /\ [NoJob EXCEPT !.pc = pc] \in Jobs /\ [NoJob EXCEPT !.pc = pc].pc = pc
         /\ [NoJob EXCEPT !.pc = pc].batch = {} /\ [NoJob EXCEPT !.pc = pc].found = {}
  BY NoJobType, Zenon DEF Jobs

\* A claim makes the row active and begins with nothing found.
LEMMA ClaimStageInv ==
  ASSUME Inv, NEW w \in Flows, ClaimStage(w)
  PROVE  Inv'
<1> DEFINE pc == IF flow[w].stage = "sync" THEN "sync" ELSE "verify"
           j == [NoJob EXCEPT !.pc = pc]
<1>1. /\ w \in Processes /\ flow[w].stage # "built"
      /\ flow' = [flow EXCEPT ![w].status = "active"] /\ Go(w, j)
      /\ UNCHANGED <<remote, tree, lock, repo, chunks, copy>>
  BY DEF ClaimStage, Processes
<1>2. j \in Jobs /\ j.pc = pc /\ j.batch = {} /\ j.found = {}
  <2>1. pc \in Steps
    BY DEF Steps
  <2> HIDE DEF pc
  <2> QED BY <2>1, NewJob, Zenon
<1> HIDE DEF j
<1>3. /\ worker' \in [Processes -> Jobs] /\ worker'[w] = j
      /\ \A q \in Processes : q # w => worker'[q] = worker[q]
  BY <1>1, <1>2, GoJob DEF Inv
<1>4. /\ flow' \in [Flows -> FlowRows] /\ flow'[w].status = "active"
      /\ flow'[w].stage = flow[w].stage /\ flow'[w].source = flow[w].source
      /\ flow'[w].context = flow[w].context
      /\ \A v \in Flows : v # w => flow'[v] = flow[v]
  BY <1>1 DEF Inv, TypeOK, FlowRows
<1>5. TypeOK'
  BY <1>1, <1>3, <1>4 DEF Inv, TypeOK
<1>6. ColumnsInv'
  BY <1>1 DEF Inv, ColumnsInv, IndexIsOfCheckout, VectorsComplete
<1>7. Steady
  BY <1>1, Numbers DEF Steady, Current, Inv
<1>8. FlowInv(w)'
  BY <1>1, <1>4 DEF Inv, FlowInv
<1>9. JobInv(w)'
  BY <1>1, <1>2, <1>3, <1>4 DEF JobInv, StageInv, UnderLock, FlowSteps, SyncSteps, IndexSteps,
                              EmbedSteps, ReadSteps, CopySteps
<1>10. \A q \in Processes : q # w => Keeps(q)
  BY <1>1, <1>3, <1>4 DEF Keeps
<1> QED BY <1>1, <1>5, <1>6, <1>7, <1>8, <1>9, <1>10, StepOf

\* A standalone task has no workflow to agree with.
LEMMA TaskInv ==
  ASSUME Inv, NEW h \in Helpers, Task(h)
  PROVE  Inv'
<1>1. /\ h \in Processes
      /\ h \notin Flows
      /\ UNCHANGED <<remote, tree, lock, repo, chunks, flow, copy>>
  BY HistoryAssumption DEF Processes, Task
<1>2. PICK pc \in {"sync", "index", "embed"} : Go(h, [NoJob EXCEPT !.pc = pc])
  BY DEF Task
<1> DEFINE j == [NoJob EXCEPT !.pc = pc]
<1>3. j \in Jobs /\ j.pc = pc /\ j.batch = {} /\ j.found = {}
  <2>1. pc \in Steps
    BY DEF Steps
  <2> QED BY <2>1, NewJob, Zenon
<1>4. Go(h, j)
  BY <1>2
<1> HIDE DEF j
<1>5. /\ worker' \in [Processes -> Jobs] /\ worker'[h] = j
      /\ \A q \in Processes : q # h => worker'[q] = worker[q]
  BY <1>1, <1>3, <1>4, GoJob DEF Inv
<1>6. JobInv(h)'
  BY <1>1, <1>3, <1>5 DEF JobInv, UnderLock, FlowSteps, SyncSteps, IndexSteps, EmbedSteps,
                         ReadSteps, CopySteps
<1> QED BY <1>1, <1>5, <1>6, QuietStep DEF Inv, TypeOK

\* The lock is given to one job, and only when it is free.
LEMMA AcquireInv ==
  ASSUME Inv, NEW p \in Processes, Acquire(p)
  PROVE  Inv'
<1>1. /\ worker[p].pc \in {"verify", "sync", "index", "embed", "clone"}
      /\ UNCHANGED <<remote, tree, repo, chunks, copy>>
  BY DEF Acquire, Locked, Me
<1>2. CASE lock = "free"
  <2> DEFINE pc == Locked[worker[p].pc]
  <2>1. lock' = p /\ To(p, pc) /\ flow' = flow
    BY <1>2 DEF Acquire, Me
  <2>2. \/ worker[p].pc = "verify" /\ pc = "verifying"
        \/ worker[p].pc = "sync" /\ pc = "marking"
        \/ worker[p].pc = "index" /\ pc = "opening"
        \/ worker[p].pc = "embed" /\ pc = "starting"
        \/ worker[p].pc = "clone" /\ pc = "cloning"
    BY <1>1 DEF Locked
  <2>3. pc \in Steps
    BY <2>2 DEF Steps
  <2> HIDE DEF pc
  <2>4. /\ worker' \in [Processes -> Jobs] /\ worker'[p].pc = pc
        /\ worker'[p].batch = worker[p].batch /\ worker'[p].found = worker[p].found
        /\ \A q \in Processes : q # p => worker'[q] = worker[q]
    BY <2>1, <2>3, ToJob DEF Inv
  <2>5. JobInv(p)
    BY DEF Inv
  <2>6. JobInv(p)'
    BY <1>1, <2>1, <2>2, <2>4, <2>5 DEF JobInv, StageInv, FlowSteps, SyncSteps, IndexSteps,
                                       EmbedSteps, ReadSteps, CopySteps
  <2> QED BY <1>1, <1>2, <2>1, <2>4, <2>6, ProcessNames, QuietStep
<1>3. CASE lock # "free"
  <2>1. Leave(p, Unchanged(p), "failed")
    BY <1>3 DEF Acquire, Fail
  <2> QED BY <1>1, <2>1, QuietFail DEF Inv, TypeOK
<1> QED BY <1>2, <1>3

\* A failure breaks nothing: its handler runs under the same lock.
LEMMA RaisesInv ==
  ASSUME Inv, NEW p \in Processes, Raises(p)
  PROVE  Inv'
<1>1. /\ worker[p].pc \notin {"idle", "sync_error", "index_error", "embed_error"}
      /\ UNCHANGED <<remote, tree, repo, chunks>>
      /\ JobInv(p)
  BY DEF Raises, Me, Inv
<1>2. /\ copy' \in [Flows -> Commits \cup {None, Partial}]
      /\ \A w \in Flows : w # p => copy'[w] = copy[w]
      /\ worker[p].pc # "cloning" => copy' = copy
  BY DEF Raises, Interrupted, Me, Inv, TypeOK
<1>3. DOMAIN Handler = {"marking", "fetching", "files", "head", "synced", "scanning",
                       "persisting", "picking", "asking", "closing"}
  BY DEF Handler
<1>4. CASE worker[p].pc \in DOMAIN Handler
  <2> DEFINE pc == Handler[worker[p].pc]
  <2>1. To(p, pc) /\ UNCHANGED <<lock, flow>> /\ copy' = copy
    BY <1>2, <1>3, <1>4 DEF Raises, Me
  <2>2. \/ /\ worker[p].pc \in {"marking", "fetching", "files", "head", "synced"}
           /\ pc = "sync_error"
        \/ worker[p].pc \in {"scanning", "persisting"} /\ pc = "index_error"
        \/ worker[p].pc \in {"picking", "asking", "closing"} /\ pc = "embed_error"
    BY <1>3, <1>4 DEF Handler
  <2>3. pc \in Steps
    BY <2>2 DEF Steps
  <2> HIDE DEF pc
  <2>4. /\ worker' \in [Processes -> Jobs] /\ worker'[p].pc = pc
        /\ worker'[p].batch = worker[p].batch
        /\ \A q \in Processes : q # p => worker'[q] = worker[q]
    BY <2>1, <2>3, ToJob DEF Inv
  <2>5. JobInv(p)'
    BY <1>1, <2>1, <2>2, <2>4 DEF JobInv, StageInv, UnderLock, FlowSteps, SyncSteps, IndexSteps,
                                 EmbedSteps, ReadSteps, CopySteps
  <2> QED BY <1>1, <2>1, <2>4, <2>5, QuietStep DEF Inv, TypeOK
<1>5. CASE worker[p].pc \notin DOMAIN Handler
  <2>1. Leave(p, Unchanged(p), "failed")
    BY <1>5 DEF Raises, Fail, Me
  <2> QED BY <1>1, <1>2, <2>1, QuietFail
<1> QED BY <1>4, <1>5

\* A process that dies leaves the lock orphaned, and what it wrote as it is.
LEMMA CrashInv ==
  ASSUME Inv, NEW p \in Processes, Crash(p)
  PROVE  Inv'
<1>1. /\ worker[p].pc # "idle" /\ Go(p, NoJob)
      /\ lock' = (IF lock = p THEN "orphan" ELSE lock)
      /\ flow' = (IF p \in Flows THEN [flow EXCEPT ![p].status = "failed"] ELSE flow)
      /\ UNCHANGED <<remote, tree, repo, chunks>>
      /\ JobInv(p)
  BY DEF Crash, Me, Inv
<1>2. /\ copy' \in [Flows -> Commits \cup {None, Partial}]
      /\ \A w \in Flows : w # p => copy'[w] = copy[w]
  BY DEF Crash, Interrupted, Me, Inv, TypeOK
<1>3. /\ worker' \in [Processes -> Jobs] /\ worker'[p] = NoJob
      /\ \A q \in Processes : q # p => worker'[q] = worker[q]
  BY <1>1, GoJob, NoJobType DEF Inv
<1>4. /\ flow' \in [Flows -> FlowRows]
      /\ p \in Flows => /\ flow'[p].stage = flow[p].stage /\ flow'[p].source = flow[p].source
                        /\ flow'[p].context = flow[p].context
      /\ \A v \in Flows : v # p => flow'[v] = flow[v]
  BY <1>1 DEF Inv, TypeOK, FlowRows
<1>5. lock' \in Processes \cup {"free", "orphan"}
  BY <1>1 DEF Inv, TypeOK
<1>6. TypeOK'
  BY <1>1, <1>2, <1>3, <1>4, <1>5 DEF Inv, TypeOK
<1>7. ColumnsInv'
  BY <1>1 DEF Inv, ColumnsInv, IndexIsOfCheckout, VectorsComplete
<1>8. Steady
  BY <1>1, Numbers DEF Steady, Current, Inv
<1>9. p \in Flows => FlowInv(p)'
  <2>1. p \in Flows => flow[p].stage # "built" /\ FlowInv(p)
    BY <1>1 DEF JobInv, StageInv, Inv
  <2> QED BY <1>1, <1>4, <2>1 DEF FlowInv
<1>10. JobInv(p)'
  BY <1>3, IdleInv
<1>11. \A q \in Processes : q # p => Keeps(q)
  BY <1>1, <1>2, <1>3, <1>4 DEF Keeps
<1> QED BY <1>6, <1>7, <1>8, <1>9, <1>10, <1>11, StepOf

\* An operator removes an orphaned lock only, and a push moves the branch on.
LEMMA OperatorInv ==
  ASSUME Inv, RepairLock \/ Push
  PROVE  Inv'
<1>1. /\ UNCHANGED <<tree, repo, chunks, flow, copy, worker>>
      /\ \/ lock = "orphan" /\ lock' = "free" /\ remote' = remote
         \/ lock' = lock /\ remote' = remote + 1 /\ remote' \in Commits
  BY DEF RepairLock, Push
<1>2. remote \in Nat /\ remote <= remote' /\ tree.head \in Nat
  BY <1>1, Numbers DEF Inv
<1>3. TypeOK'
  BY <1>1 DEF Inv, TypeOK
<1>4. tree.head <= remote'
  BY <1>1, <1>2 DEF Inv, ColumnsInv
<1>5. ColumnsInv'
  BY <1>1, <1>4 DEF Inv, ColumnsInv, IndexIsOfCheckout, VectorsComplete
<1>6. Steady
  BY <1>1, <1>2 DEF Steady, Current
<1>7. \A q \in Processes : Keeps(q)
  BY <1>1, ProcessNames DEF Keeps
<1> QED BY <1>3, <1>5, <1>6, <1>7, ElsewhereStep

\* Only a failed stage is resumed, and then no job of the workflow is under way.
LEMMA ResumeFlowInv ==
  ASSUME Inv, NEW w \in Flows, ResumeFlow(w)
  PROVE  Inv'
<1>1. /\ w \in Processes /\ flow[w].status = "failed"
      /\ flow' = [flow EXCEPT ![w].status = "ready"]
      /\ UNCHANGED <<remote, tree, lock, repo, chunks, copy, worker>>
  BY DEF ResumeFlow, Processes
<1>2. /\ flow' \in [Flows -> FlowRows]
      /\ flow'[w].stage = flow[w].stage /\ flow'[w].source = flow[w].source
      /\ flow'[w].context = flow[w].context
      /\ \A v \in Flows : v # w => flow'[v] = flow[v]
  BY <1>1 DEF Inv, TypeOK, FlowRows
<1>3. TypeOK'
  BY <1>1, <1>2 DEF Inv, TypeOK
<1>4. ColumnsInv'
  BY <1>1 DEF Inv, ColumnsInv, IndexIsOfCheckout, VectorsComplete
<1>5. Steady
  BY <1>1, Numbers DEF Steady, Current, Inv
<1>6. FlowInv(w)'
  BY <1>1, <1>2 DEF Inv, FlowInv
<1>7. JobInv(w)'
  <2>1. JobInv(w) /\ worker[w].pc = "idle"
    BY <1>1 DEF Inv, JobInv, StageInv
  <2> QED BY <1>1, <2>1 DEF JobInv, StageInv, UnderLock, FlowSteps, SyncSteps, IndexSteps,
                           EmbedSteps, ReadSteps, CopySteps
<1>8. \A q \in Processes : q # w => Keeps(q)
  BY <1>1, <1>2 DEF Keeps
<1> QED BY <1>1, <1>3, <1>4, <1>5, <1>6, <1>7, <1>8, StepOf

-----------------------------------------------------------------------------
(* Synchronization *)

\* A step that writes under the lock: what it wrote must be right.
LEMMA WriteStep ==
  ASSUME Inv, NEW p \in Processes, lock = p,
         UNCHANGED <<remote, lock, flow, copy>>,
         worker' \in [Processes -> Jobs],
         \A q \in Processes : q # p => worker'[q] = worker[q],
         tree' \in Trees, repo' \in Columns, \E S \in SUBSET Chunks : chunks' \in [S -> Vectors],
         ColumnsInv', tree.head <= tree'.head,
         tree.head = tree'.head /\ Current => Current',
         JobInv(p)'
  PROVE  Inv'
<1>1. TypeOK'
  BY DEF Inv, TypeOK
<1>2. Steady
  BY Numbers DEF Steady, Inv
<1>3. p \in Flows => FlowInv(p)'
  <2>1. p \in Flows => FlowInv(p) /\ flow[p].source \in Nat
    BY CommitTypes DEF Inv, TypeOK, FlowRows
  <2>2. tree.head \in Nat /\ tree'.head \in Nat
    BY CommitTypes DEF Inv, TypeOK, Trees
  <2> QED BY <2>1, <2>2 DEF FlowInv
<1>4. \A q \in Processes : q # p => Keeps(q)
  BY ProcessNames DEF Keeps
<1> QED BY <1>1, <1>2, <1>3, <1>4, StepOf

\* Nothing is current while the checkout moves.
LEMMA MarkInv ==
  ASSUME Inv, NEW p \in Processes, Mark(p)
  PROVE  Inv'
<1>1. /\ worker[p].pc = "marking" /\ repo' = Marked("syncing") /\ To(p, "fetching")
      /\ UNCHANGED <<remote, tree, lock, chunks, flow, copy>>
      /\ JobInv(p) /\ lock = p
  BY DEF Mark, Me, Inv, JobInv, UnderLock, SyncSteps
<1>2. /\ worker' \in [Processes -> Jobs] /\ worker'[p].pc = "fetching"
      /\ worker'[p].batch = worker[p].batch
      /\ \A q \in Processes : q # p => worker'[q] = worker[q]
  BY <1>1, ToJob DEF Inv, Steps
<1>3. /\ repo' \in Columns /\ repo'.local = "syncing" /\ repo'.index = "pending"
      /\ repo'.embedding = "pending"
  BY <1>1 DEF Marked, Columns
<1>4. ColumnsInv' /\ tree' \in Trees /\ \E S \in SUBSET Chunks : chunks' \in [S -> Vectors]
  BY <1>1, <1>3 DEF Inv, ColumnsInv, IndexIsOfCheckout, VectorsComplete, TypeOK
<1>5. JobInv(p)'
  BY <1>1, <1>2, <1>3 DEF JobInv, StageInv, UnderLock, FlowSteps, SyncSteps, IndexSteps,
                          EmbedSteps, ReadSteps, CopySteps
<1>6. tree.head <= tree'.head /\ (Current => Current')
  BY <1>1, Numbers DEF Current, Inv
<1> QED BY <1>1, <1>2, <1>3, <1>4, <1>5, <1>6, WriteStep

\* What is fetched is where the branch is, and HEAD is not beyond it.
LEMMA FetchInv ==
  ASSUME Inv, NEW p \in Processes, Fetch(p)
  PROVE  Inv'
<1> DEFINE j == [worker[p] EXCEPT !.pc = "files", !.commit = remote]
<1>1. /\ worker[p].pc = "fetching" /\ Go(p, j)
      /\ tree' = (IF tree.head = None THEN [tree EXCEPT !.head = remote] ELSE tree)
      /\ UNCHANGED <<remote, lock, repo, chunks, flow, copy>>
      /\ JobInv(p) /\ lock = p /\ worker[p] \in Jobs
  BY DEF Fetch, Me, Inv, JobInv, UnderLock, SyncSteps, TypeOK
<1>2. j \in Jobs /\ j.pc = "files" /\ j.commit = remote /\ j.batch = worker[p].batch
  <2>1. remote \in Commits \cup {None} /\ "files" \in Steps
    BY DEF Inv, TypeOK, Steps
  <2> QED BY <1>1, <2>1, Zenon DEF Jobs
<1> HIDE DEF j
<1>3. /\ worker' \in [Processes -> Jobs] /\ worker'[p] = j
      /\ \A q \in Processes : q # p => worker'[q] = worker[q]
  BY <1>1, <1>2, GoJob DEF Inv
<1>4. /\ tree' \in Trees /\ tree.head <= tree'.head /\ tree'.head <= remote
      /\ tree.head # None => tree' = tree
      /\ tree.head = None => tree'.head # tree.head
      /\ remote \in 1..remote
  <2>1. remote \in Commits /\ tree \in Trees /\ tree.head <= remote
    BY DEF Inv, TypeOK, ColumnsInv
  <2>2. remote >= 1 /\ remote \in Nat /\ tree.head \in Nat
    BY <2>1, CommitTypes, Numbers DEF Inv
  <2> QED BY <1>1, <2>1, <2>2 DEF Trees, None
<1>5. repo.local # "ready" /\ repo.index # "ready"
  BY <1>1 DEF JobInv
<1>6. /\ ColumnsInv' /\ repo' \in Columns
      /\ \E S \in SUBSET Chunks : chunks' \in [S -> Vectors]
  BY <1>1, <1>4, <1>5 DEF Inv, ColumnsInv, IndexIsOfCheckout, VectorsComplete, TypeOK
<1>7. JobInv(p)'
  BY <1>1, <1>2, <1>3, <1>4, <1>5 DEF JobInv, StageInv, UnderLock, FlowSteps, SyncSteps,
                                     IndexSteps, EmbedSteps, ReadSteps, CopySteps
<1>8. tree.head = tree'.head /\ Current => Current'
  BY <1>1, <1>4 DEF Current
<1> QED BY <1>1, <1>3, <1>4, <1>6, <1>7, <1>8, WriteStep

\* The files are those of the fetched commit, and then HEAD is.
LEMMA ResetInv ==
  ASSUME Inv, NEW p \in Processes, ResetFiles(p) \/ ResetHead(p)
  PROVE  Inv'
<1> DEFINE c == worker[p].commit
           pc == IF worker[p].pc = "files" THEN "head" ELSE "synced"
<1>1. /\ worker[p].pc \in {"files", "head"} /\ To(p, pc)
      /\ worker[p].pc = "files" => tree' = [tree EXCEPT !.files = c]
      /\ worker[p].pc = "head" => tree' = [tree EXCEPT !.head = c]
      /\ UNCHANGED <<remote, lock, repo, chunks, flow, copy>>
      /\ JobInv(p) /\ tree \in Trees /\ worker[p] \in Jobs
  BY DEF ResetFiles, ResetHead, Me, Inv, TypeOK
<1>2. /\ lock = p /\ repo.local # "ready" /\ repo.index # "ready"
      /\ tree.head <= c /\ c \in 1..remote /\ (worker[p].pc = "head" => tree.files = c)
  BY <1>1 DEF JobInv, UnderLock, SyncSteps
<1>3. /\ worker' \in [Processes -> Jobs] /\ worker'[p].pc = pc /\ worker'[p].commit = c
      /\ worker'[p].batch = worker[p].batch
      /\ \A q \in Processes : q # p => worker'[q] = worker[q]
  BY <1>1, ToJob DEF Inv, Steps
<1>4. /\ remote \in Nat /\ tree.head \in Nat /\ c \in Commits \cup {None} /\ c # None
      /\ tree.head <= remote
  BY <1>1, <1>2, Numbers DEF Inv, Jobs, None, ColumnsInv
<1>5. /\ tree' \in Trees /\ tree.head <= tree'.head /\ tree'.head <= remote
      /\ tree'.head <= c /\ tree'.files = c /\ (worker[p].pc = "head" => tree'.head = c)
  BY <1>1, <1>2, <1>4 DEF Trees
<1> HIDE DEF c
<1>6. /\ ColumnsInv' /\ repo' \in Columns
      /\ \E S \in SUBSET Chunks : chunks' \in [S -> Vectors]
  BY <1>1, <1>2, <1>5 DEF Inv, ColumnsInv, IndexIsOfCheckout, VectorsComplete, TypeOK
<1>7. JobInv(p)'
  BY <1>1, <1>2, <1>3, <1>4, <1>5 DEF JobInv, StageInv, UnderLock, FlowSteps, SyncSteps,
                                     IndexSteps, EmbedSteps, ReadSteps, CopySteps
<1>8. tree.head = tree'.head /\ Current => Current'
  BY <1>1 DEF Current
<1> QED BY <1>1, <1>2, <1>3, <1>5, <1>6, <1>7, <1>8, WriteStep

\* When a sync is done files and HEAD agree, and that is the workflow's source.
LEMMA SyncedInv ==
  ASSUME Inv, NEW p \in Processes, Synced(p)
  PROVE  Inv'
<1> DEFINE f == IF p \in Flows THEN [flow[p] EXCEPT !.source = tree.head] ELSE Unchanged(p)
<1>1. /\ worker[p].pc = "synced" /\ repo' = Marked("ready") /\ Leave(p, f, "ok")
      /\ UNCHANGED <<remote, tree, chunks, copy>>
      /\ JobInv(p)
  BY DEF Synced, Me, Inv
<1>2. /\ lock = p
      /\ tree.files = tree.head
      /\ tree.head # None
      /\ p \in Flows => flow[p].stage = "sync"
  BY <1>1 DEF JobInv, StageInv, UnderLock, SyncSteps
<1>3. p \in Flows => /\ f \in FlowRows /\ f.stage = flow[p].stage /\ f.source = tree.head
  <2>1. tree.head \in Commits \cup {None} /\ (p \in Flows => flow[p] \in FlowRows)
    BY DEF Inv, TypeOK, Trees
  <2> QED BY <2>1 DEF FlowRows
<1>4. /\ repo' \in Columns /\ repo'.index = "pending" /\ repo'.embedding = "pending"
  BY <1>1 DEF Marked, Columns
<1>5. ColumnsInv' /\ (Current => Current')
  BY <1>1, <1>2, <1>4 DEF Inv, ColumnsInv, IndexIsOfCheckout, VectorsComplete, Current
<1> HIDE DEF f
<1>6. tree.head <= tree.head
  BY Numbers DEF Inv
<1> QED BY <1>1, <1>2, <1>3, <1>4, <1>5, <1>6, EndStep DEF Inv, TypeOK

\* The error of a sync says nothing that is not true.
LEMMA SyncErrorInv ==
  ASSUME Inv, NEW p \in Processes, SyncError(p)
  PROVE  Inv'
<1>1. /\ worker[p].pc = "sync_error" /\ Leave(p, Unchanged(p), "failed")
      /\ repo' = Marked("error") \/ repo' = repo
      /\ UNCHANGED <<remote, tree, chunks, copy>>
      /\ JobInv(p) /\ lock = p
  BY DEF SyncError, Fail, Me, Inv, JobInv, UnderLock, SyncSteps
<1>2. repo' \in Columns /\ ColumnsInv' /\ (Current => Current')
  BY <1>1 DEF Inv, ColumnsInv, IndexIsOfCheckout, VectorsComplete,
     TypeOK, Marked, Columns, Current
<1> QED BY <1>1, <1>2, FailStep DEF Inv, TypeOK

-----------------------------------------------------------------------------
(* Indexing *)

\* The rows are a function on chunks.
LEMMA RowsType ==
  ASSUME TypeOK
  PROVE  DOMAIN chunks \subseteq Chunks /\ \A b \in DOMAIN chunks : chunks[b] \in Vectors
  BY DEF TypeOK

\* Only a checkout whose files are HEAD's is scanned.
LEMMA StartIndexInv ==
  ASSUME Inv, NEW p \in Processes, StartIndex(p)
  PROVE  Inv'
<1>1. /\ worker[p].pc = "opening" /\ UNCHANGED <<remote, tree, chunks, copy>>
      /\ JobInv(p) /\ lock = p
  BY DEF StartIndex, Me, Inv, JobInv, UnderLock, IndexSteps
<1>2. CASE repo.local = "ready"
  <2>1. /\ repo' = [repo EXCEPT !.index = "indexing"]
        /\ To(p, "scanning")
        /\ UNCHANGED <<lock, flow>>
    BY <1>2 DEF StartIndex
  <2>2. /\ worker' \in [Processes -> Jobs] /\ worker'[p].pc = "scanning"
        /\ worker'[p].batch = worker[p].batch
        /\ \A q \in Processes : q # p => worker'[q] = worker[q]
    BY <2>1, ToJob DEF Inv, Steps
  <2>3. /\ repo' \in Columns /\ repo'.local = "ready" /\ repo'.index = "indexing"
        /\ repo'.embedding = repo.embedding
    BY <1>2, <2>1 DEF Inv, TypeOK, Columns
  <2>4. ColumnsInv' /\ tree' \in Trees /\ \E S \in SUBSET Chunks : chunks' \in [S -> Vectors]
    BY <1>1, <1>2, <2>3 DEF Inv, ColumnsInv, IndexIsOfCheckout, VectorsComplete, TypeOK
  <2>5. JobInv(p)'
    BY <1>1, <2>1, <2>2, <2>3 DEF JobInv, StageInv, UnderLock, FlowSteps, SyncSteps, IndexSteps,
                                 EmbedSteps, ReadSteps, CopySteps
  <2>6. tree.head <= tree'.head /\ (Current => Current')
    BY <1>1, Numbers DEF Current, Inv
  <2> QED BY <1>1, <2>1, <2>2, <2>3, <2>4, <2>5, <2>6, WriteStep
<1>3. CASE repo.local # "ready"
  <2>1. Leave(p, Unchanged(p), "failed") /\ repo' = repo
    BY <1>3 DEF StartIndex, Fail
  <2> QED BY <1>1, <2>1, QuietFail DEF Inv, TypeOK
<1> QED BY <1>2, <1>3

\* What is found is what the files consist of.
LEMMA ScanInv ==
  ASSUME Inv, NEW p \in Processes, Scan(p)
  PROVE  Inv'
<1> DEFINE found == ChunksOf(tree.files)
           j == [worker[p] EXCEPT !.pc = "persisting", !.commit = tree.head, !.found = found]
<1>1. /\ worker[p].pc = "scanning" /\ Go(p, j)
      /\ UNCHANGED <<remote, tree, lock, repo, chunks, flow, copy>>
      /\ JobInv(p) /\ lock = p /\ worker[p] \in Jobs
  BY DEF Scan, Me, Inv, JobInv, UnderLock, IndexSteps, TypeOK
<1>2. tree.head \in Commits \cup {None} /\ found \in SUBSET Chunks /\ "persisting" \in Steps
  BY CommitTypes DEF Inv, TypeOK, Trees, Steps
<1> HIDE DEF found
<1>3. j \in Jobs /\ j.pc = "persisting" /\ j.found = found /\ j.batch = worker[p].batch
  BY <1>1, <1>2, Zenon DEF Jobs
<1> HIDE DEF j
<1>4. /\ worker' \in [Processes -> Jobs] /\ worker'[p] = j
      /\ \A q \in Processes : q # p => worker'[q] = worker[q]
  BY <1>1, <1>3, GoJob DEF Inv
<1>5. JobInv(p)'
  BY <1>1, <1>3, <1>4 DEF JobInv, StageInv, UnderLock, FlowSteps, SyncSteps, IndexSteps,
                         EmbedSteps, ReadSteps, CopySteps, found
<1> QED BY <1>1, <1>4, <1>5, QuietStep DEF Inv, TypeOK

\* Reconciliation keeps the vector of every chunk that stays.
LEMMA ReconciledRows ==
  ASSUME TypeOK, NEW found \in SUBSET Chunks
  PROVE  /\ Reconciled(found) \in [found -> Vectors]
         /\ \A b \in found : b \in DOMAIN chunks => Reconciled(found)[b] = chunks[b]
  BY RowsType DEF Reconciled, Vectors

\* The rows become the chunks of HEAD before the index is called ready.
LEMMA PersistInv ==
  ASSUME Inv, NEW p \in Processes, Persist(p)
  PROVE  Inv' /\ VectorsSurvive
<1> DEFINE outcome == IF SameRevision(p, worker[p].commit) THEN "ok" ELSE "blocked"
<1>1. /\ worker[p].pc = "persisting" /\ chunks' = Reconciled(worker[p].found)
      /\ repo' = [repo EXCEPT !.index = "ready", !.embedding = "pending"]
      /\ Leave(p, Unchanged(p), outcome)
      /\ UNCHANGED <<remote, tree, copy>>
      /\ JobInv(p) /\ worker[p] \in Jobs
  BY DEF Persist, Me, Inv, TypeOK
<1>2. /\ lock = p /\ repo.local = "ready" /\ worker[p].found = ChunksOf(tree.files)
      /\ p \in Flows => flow[p].stage = "index"
  BY <1>1 DEF JobInv, StageInv, UnderLock, IndexSteps
<1>3. tree.files = tree.head
  BY <1>2 DEF Inv, ColumnsInv
<1>4. worker[p].found \in SUBSET Chunks
  BY <1>1 DEF Jobs
<1>5. /\ chunks' \in [worker[p].found -> Vectors] /\ DOMAIN chunks' = worker[p].found
      /\ \A b \in worker[p].found : b \in DOMAIN chunks => chunks'[b] = chunks[b]
  BY <1>1, <1>4, ReconciledRows DEF Inv
<1>6. VectorsSurvive
  BY <1>5 DEF VectorsSurvive
<1>7. repo' \in Columns /\ repo'.local = repo.local /\ repo'.embedding = "pending"
  BY <1>1 DEF Inv, TypeOK, Columns
<1>8. ColumnsInv' /\ Current'
  BY <1>1, <1>2, <1>3, <1>5, <1>7 DEF Inv, ColumnsInv, IndexIsOfCheckout, VectorsComplete, Current
<1>9. p \in Flows => /\ Unchanged(p) = flow[p] /\ flow[p] \in FlowRows
                     /\ flow[p].source # None /\ flow[p].source <= tree.head
  BY <1>2 DEF Unchanged, Inv, TypeOK, FlowInv
<1> HIDE DEF outcome
<1>10. outcome \in {"ok", "failed", "blocked"}
  BY DEF outcome
<1> QED BY <1>1, <1>2, <1>4, <1>5, <1>6, <1>7, <1>8, <1>9, <1>10, EndStep DEF Inv, TypeOK

\* The error of an index says nothing that is not true.
LEMMA IndexErrorInv ==
  ASSUME Inv, NEW p \in Processes, IndexError(p)
  PROVE  Inv'
<1>1. /\ worker[p].pc = "index_error" /\ Leave(p, Unchanged(p), "failed")
      /\ repo' = [repo EXCEPT !.index = "error"] \/ repo' = repo
      /\ UNCHANGED <<remote, tree, chunks, copy>>
      /\ JobInv(p) /\ lock = p
  BY DEF IndexError, Fail, Me, Inv, JobInv, UnderLock, IndexSteps
<1>2. /\ repo' \in Columns /\ repo'.local = repo.local /\ repo'.embedding = repo.embedding
      /\ repo'.index \in {repo.index, "error"}
  BY <1>1 DEF Inv, TypeOK, Columns
<1>3. ColumnsInv' /\ (Current => Current')
  BY <1>1, <1>2 DEF Inv, ColumnsInv, IndexIsOfCheckout, VectorsComplete, Current
<1> QED BY <1>1, <1>2, <1>3, FailStep DEF Inv, TypeOK

-----------------------------------------------------------------------------
(* Embeddings *)

\* A stamp changes the rows that it names.
LEMMA StampedRows ==
  ASSUME TypeOK, NEW S, NEW status \in Vectors
  PROVE  /\ \E T \in SUBSET Chunks : Stamp(S, status) \in [T -> Vectors]
         /\ DOMAIN Stamp(S, status) = DOMAIN chunks
         /\ \A b \in DOMAIN chunks :
               Stamp(S, status)[b] = IF b \in S THEN status ELSE chunks[b]
<1>1. Stamp(S, status) \in [DOMAIN chunks -> Vectors]
  BY RowsType DEF Stamp
<1> QED BY <1>1, RowsType DEF Stamp

\* While vectors are made the column does not call them ready.
LEMMA StartEmbeddingInv ==
  ASSUME Inv, NEW p \in Processes, StartEmbedding(p)
  PROVE  Inv'
<1>1. /\ worker[p].pc = "starting" /\ UNCHANGED <<remote, tree, chunks, copy>>
      /\ JobInv(p) /\ lock = p
  BY DEF StartEmbedding, Me, Inv, JobInv, UnderLock, EmbedSteps
<1>2. CASE repo.index = "ready"
  <2>1. /\ repo' = [repo EXCEPT !.embedding = "embedding"] /\ To(p, "picking")
        /\ UNCHANGED <<lock, flow>>
    BY <1>2 DEF StartEmbedding
  <2>2. /\ worker' \in [Processes -> Jobs] /\ worker'[p].pc = "picking"
        /\ worker'[p].batch = worker[p].batch
        /\ \A q \in Processes : q # p => worker'[q] = worker[q]
    BY <2>1, ToJob DEF Inv, Steps
  <2>3. /\ repo' \in Columns /\ repo'.local = repo.local /\ repo'.index = repo.index
        /\ repo'.embedding = "embedding"
    BY <2>1 DEF Inv, TypeOK, Columns
  <2>4. ColumnsInv' /\ tree' \in Trees /\ \E S \in SUBSET Chunks : chunks' \in [S -> Vectors]
    BY <1>1, <2>3 DEF Inv, ColumnsInv, IndexIsOfCheckout, VectorsComplete, TypeOK
  <2>5. JobInv(p)'
    BY <1>1, <2>1, <2>2, <2>3 DEF JobInv, StageInv, UnderLock, FlowSteps, SyncSteps, IndexSteps,
                                 EmbedSteps, ReadSteps, CopySteps
  <2>6. tree.head <= tree'.head /\ (Current => Current')
    BY <1>1, Numbers DEF Current, Inv
  <2> QED BY <1>1, <2>1, <2>2, <2>3, <2>4, <2>5, <2>6, WriteStep
<1>3. CASE repo.index # "ready"
  <2>1. Leave(p, Unchanged(p), "failed") /\ repo' = repo
    BY <1>3 DEF StartEmbedding, Fail
  <2> QED BY <1>1, <2>1, QuietFail DEF Inv, TypeOK
<1> QED BY <1>2, <1>3

\* A step of the embedding loop: rows are stamped, and none is lost.
LEMMA BatchStep ==
  ASSUME Inv, NEW p \in Processes, lock = p, repo.embedding # "ready",
         UNCHANGED <<remote, tree, lock, repo, flow, copy>>,
         NEW S, NEW status \in Vectors, chunks' = Stamp(S, status),
         worker' \in [Processes -> Jobs],
         \A q \in Processes : q # p => worker'[q] = worker[q],
         JobInv(p)'
  PROVE  Inv'
<1>1. /\ \E T \in SUBSET Chunks : chunks' \in [T -> Vectors]
      /\ DOMAIN chunks' = DOMAIN chunks
  BY StampedRows DEF Inv
<1>2. ColumnsInv' /\ (Current => Current')
  BY <1>1 DEF Inv, ColumnsInv, IndexIsOfCheckout, VectorsComplete, Current
<1> QED BY <1>1, <1>2, Numbers, WriteStep DEF Inv, TypeOK

\* A batch is of rows that have no vector.
LEMMA PickBatchInv ==
  ASSUME Inv, NEW p \in Processes, PickBatch(p)
  PROVE  Inv' /\ VectorsSurvive
<1>1. /\ worker[p].pc = "picking" /\ UNCHANGED <<remote, tree, lock, repo, flow, copy>>
      /\ JobInv(p) /\ lock = p /\ repo.embedding # "ready" /\ worker[p] \in Jobs
  BY DEF PickBatch, Me, Inv, JobInv, UnderLock, EmbedSteps, TypeOK
<1>2. CASE Missing = {} /\ To(p, "closing") /\ chunks' = chunks
  <2>1. /\ worker' \in [Processes -> Jobs] /\ worker'[p].pc = "closing"
        /\ worker'[p].batch = worker[p].batch
        /\ \A q \in Processes : q # p => worker'[q] = worker[q]
    BY <1>2, ToJob DEF Inv, Steps
  <2>2. JobInv(p)'
    BY <1>1, <1>2, <2>1 DEF JobInv, StageInv, UnderLock, FlowSteps, SyncSteps, IndexSteps,
                           EmbedSteps, ReadSteps, CopySteps, Missing
  <2>3. VectorsSurvive
    BY <1>2 DEF VectorsSurvive
  <2> QED BY <1>1, <1>2, <2>1, <2>2, <2>3, QuietStep DEF Inv, TypeOK
<1>3. ASSUME NEW S \in SUBSET Missing, chunks' = Stamp(S, "embedding"),
             Go(p, [worker[p] EXCEPT !.pc = "asking", !.batch = S])
      PROVE  Inv' /\ VectorsSurvive
  <2> DEFINE j == [worker[p] EXCEPT !.pc = "asking", !.batch = S]
  <2>1. S \in SUBSET Chunks /\ "asking" \in Steps
    BY RowsType DEF Missing, Inv, Steps
  <2>2. j \in Jobs /\ j.pc = "asking" /\ j.batch = S
    BY <1>1, <2>1, Zenon DEF Jobs
  <2>3. Go(p, j)
    BY <1>3
  <2> HIDE DEF j
  <2>4. /\ worker' \in [Processes -> Jobs] /\ worker'[p] = j
        /\ \A q \in Processes : q # p => worker'[q] = worker[q]
    BY <2>2, <2>3, GoJob DEF Inv
  <2>5. /\ DOMAIN chunks' = DOMAIN chunks
        /\ \A b \in DOMAIN chunks : chunks'[b] = IF b \in S THEN "embedding" ELSE chunks[b]
        /\ \A b \in S : b \in DOMAIN chunks /\ chunks[b] # "ready"
    BY <1>3, StampedRows DEF Inv, Vectors, Missing
  <2>6. VectorsSurvive
    BY <2>5 DEF VectorsSurvive
  <2>7. JobInv(p)'
    BY <1>1, <2>2, <2>4, <2>5 DEF JobInv, StageInv, UnderLock, FlowSteps, SyncSteps, IndexSteps,
                                 EmbedSteps, ReadSteps, CopySteps
  <2> QED BY <1>1, <1>3, <2>4, <2>6, <2>7, BatchStep DEF Vectors
<1> QED BY <1>2, <1>3 DEF PickBatch, Me

\* A batch is saved as a whole, or not at all.
LEMMA SaveBatchInv ==
  ASSUME Inv, NEW p \in Processes, SaveBatch(p)
  PROVE  Inv' /\ VectorsSurvive
<1>1. /\ worker[p].pc = "asking" /\ UNCHANGED <<remote, tree, lock, repo, flow, copy>>
      /\ JobInv(p) /\ lock = p /\ repo.embedding # "ready" /\ worker[p] \in Jobs
  BY DEF SaveBatch, Me, Inv, JobInv, UnderLock, EmbedSteps, TypeOK
<1>2. CASE worker[p].batch \subseteq DOMAIN chunks
  <2> DEFINE j == [worker[p] EXCEPT !.pc = "picking", !.batch = {}]
  <2>1. chunks' = Stamp(worker[p].batch, "ready") /\ Go(p, j)
    BY <1>2 DEF SaveBatch, Me
  <2>2. {} \in SUBSET Chunks /\ "picking" \in Steps
    BY DEF Steps
  <2>3. j \in Jobs /\ j.pc = "picking" /\ j.batch = {}
    BY <1>1, <2>2, Zenon DEF Jobs
  <2> HIDE DEF j
  <2>4. /\ worker' \in [Processes -> Jobs] /\ worker'[p] = j
        /\ \A q \in Processes : q # p => worker'[q] = worker[q]
    BY <2>1, <2>3, GoJob DEF Inv
  <2>5. VectorsSurvive
    BY <2>1, StampedRows DEF Inv, Vectors, VectorsSurvive
  <2>6. JobInv(p)'
    BY <1>1, <2>3, <2>4 DEF JobInv, StageInv, UnderLock, FlowSteps, SyncSteps, IndexSteps,
                           EmbedSteps, ReadSteps, CopySteps
  <2> QED BY <1>1, <2>1, <2>4, <2>5, <2>6, BatchStep DEF Vectors
<1>3. CASE ~(worker[p].batch \subseteq DOMAIN chunks)
  <2>1. To(p, "embed_error") /\ chunks' = chunks
    BY <1>3 DEF SaveBatch, Me
  <2>2. /\ worker' \in [Processes -> Jobs] /\ worker'[p].pc = "embed_error"
        /\ worker'[p].batch = worker[p].batch
        /\ \A q \in Processes : q # p => worker'[q] = worker[q]
    BY <2>1, ToJob DEF Inv, Steps
  <2>3. JobInv(p)'
    BY <1>1, <2>1, <2>2 DEF JobInv, StageInv, UnderLock, FlowSteps, SyncSteps, IndexSteps,
                           EmbedSteps, ReadSteps, CopySteps
  <2>4. VectorsSurvive
    BY <2>1 DEF VectorsSurvive
  <2> QED BY <1>1, <2>1, <2>2, <2>3, <2>4, QuietStep DEF Inv, TypeOK
<1> QED BY <1>2, <1>3

\* The column says ready when nothing is missing.
LEMMA CloseEmbeddingInv ==
  ASSUME Inv, NEW p \in Processes, CloseEmbedding(p)
  PROVE  Inv'
<1>1. /\ worker[p].pc = "closing" /\ repo' = [repo EXCEPT !.embedding = "ready"]
      /\ Leave(p, Unchanged(p), "ok") /\ UNCHANGED <<remote, tree, chunks, copy>>
      /\ JobInv(p) /\ lock = p
  BY DEF CloseEmbedding, Done, Me, Inv, JobInv, UnderLock, EmbedSteps
<1>2. Missing = {} /\ (p \in Flows => flow[p].stage = "embed")
  BY <1>1 DEF JobInv, StageInv, EmbedSteps
<1>3. /\ repo' \in Columns /\ repo'.local = repo.local /\ repo'.index = repo.index
  BY <1>1 DEF Inv, TypeOK, Columns
<1>4. \A b \in DOMAIN chunks : chunks[b] = "ready"
  BY <1>2 DEF Missing
<1>5. ColumnsInv' /\ (Current => Current')
  BY <1>1, <1>3, <1>4 DEF Inv, ColumnsInv, IndexIsOfCheckout, VectorsComplete, Current
<1>6. p \in Flows => /\ Unchanged(p) = flow[p] /\ flow[p] \in FlowRows
                     /\ flow[p].source # None /\ flow[p].source <= tree.head
  BY <1>2 DEF Unchanged, Inv, TypeOK, FlowInv
<1> QED BY <1>1, <1>2, <1>3, <1>5, <1>6, EndStep DEF Inv, TypeOK

\* Rows that are given up had no vector.
LEMMA EmbedErrorInv ==
  ASSUME Inv, NEW p \in Processes, EmbedError(p)
  PROVE  Inv' /\ VectorsSurvive
<1>1. /\ worker[p].pc = "embed_error" /\ Leave(p, Unchanged(p), "failed")
      /\ UNCHANGED <<remote, tree, copy>>
      /\ JobInv(p) /\ lock = p /\ repo.embedding # "ready"
  BY DEF EmbedError, Fail, Me, Inv, JobInv, UnderLock, EmbedSteps
<1>2. CASE repo' = [repo EXCEPT !.embedding = "error"] /\ chunks' = Stamp(worker[p].batch, "error")
  <2>1. /\ repo' \in Columns /\ repo'.local = repo.local /\ repo'.index = repo.index
        /\ repo'.embedding = "error"
    BY <1>2 DEF Inv, TypeOK, Columns
  <2>2. /\ \E T \in SUBSET Chunks : chunks' \in [T -> Vectors]
        /\ DOMAIN chunks' = DOMAIN chunks
        /\ \A b \in DOMAIN chunks :
              chunks'[b] = IF b \in worker[p].batch THEN "error" ELSE chunks[b]
    BY <1>2, StampedRows DEF Inv, Vectors
  <2>3. VectorsSurvive
    BY <1>1, <2>2 DEF VectorsSurvive, JobInv
  <2>4. ColumnsInv' /\ (Current => Current')
    BY <1>1, <2>1, <2>2 DEF Inv, ColumnsInv, IndexIsOfCheckout, VectorsComplete, Current
  <2> QED BY <1>1, <2>1, <2>2, <2>3, <2>4, FailStep DEF Inv, TypeOK
<1>3. CASE UNCHANGED <<repo, chunks>>
  <2>1. VectorsSurvive
    BY <1>3 DEF VectorsSurvive
  <2> QED BY <1>1, <1>3, <2>1, QuietFail DEF Inv, TypeOK
<1> QED BY <1>2, <1>3 DEF EmbedError, Me

-----------------------------------------------------------------------------
(* Contexts and execution workspaces *)

\* A workflow whose checkout is verified goes on to its own stage.
LEMMA VerifyInv ==
  ASSUME Inv, NEW w \in Flows, Verify(w)
  PROVE  Inv'
<1>1. /\ w \in Processes /\ worker[w].pc = "verifying" /\ worker[w].found = {}
      /\ UNCHANGED <<remote, tree, repo, chunks, copy>>
      /\ JobInv(w) /\ FlowInv(w) /\ lock = w
      /\ flow[w].stage # "sync" /\ flow[w].stage # "built" /\ flow[w] \in FlowRows
  BY DEF Verify, Me, Inv, JobInv, StageInv, UnderLock, Processes, TypeOK
<1>2. CASE SameRevision(w, tree.head)
  <2> DEFINE pc == CASE flow[w].stage = "context" -> "loading"
                     [] flow[w].stage = "workspace" -> "target"
                     [] OTHER -> flow[w].stage
  <2>1. lock' = "free" /\ To(w, pc) /\ flow' = flow
    BY <1>1, <1>2 DEF Verify, Release
  <2>2. \/ flow[w].stage = "context" /\ pc = "loading"
        \/ flow[w].stage = "workspace" /\ pc = "target"
        \/ flow[w].stage = "index" /\ pc = "index"
        \/ flow[w].stage = "embed" /\ pc = "embed"
    BY <1>1, StageTypes DEF FlowRows
  <2>3. pc \in Steps
    BY <2>2 DEF Steps
  <2> HIDE DEF pc
  <2>4. /\ worker' \in [Processes -> Jobs] /\ worker'[w].pc = pc
        /\ worker'[w].batch = worker[w].batch /\ worker'[w].found = {}
        /\ \A q \in Processes : q # w => worker'[q] = worker[q]
    BY <1>1, <2>1, <2>3, ToJob DEF Inv
  <2>5. tree.head = flow[w].source
    BY <1>2 DEF SameRevision
  <2>6. flow[w].stage = "workspace" => flow[w].context \subseteq ChunksOf(flow[w].source)
    BY <1>1, <2>5 DEF FlowInv
  <2>7. JobInv(w)'
    BY <1>1, <2>1, <2>2, <2>4, <2>6 DEF JobInv, StageInv, UnderLock, FlowSteps, SyncSteps,
                                     IndexSteps, EmbedSteps, ReadSteps, CopySteps
  <2> QED BY <1>1, <2>1, <2>4, <2>7, QuietStep DEF Inv, TypeOK
<1>3. CASE ~SameRevision(w, tree.head)
  <2>1. Leave(w, Unchanged(w), "blocked")
    BY <1>3 DEF Verify, Unchanged
  <2> QED BY <1>1, <2>1, QuietFail DEF Inv, TypeOK
<1> QED BY <1>2, <1>3

\* When the index is ready the rows are of HEAD.
LEMMA LoadIssueInv ==
  ASSUME Inv, NEW w \in Flows, LoadIssue(w)
  PROVE  Inv'
<1>1. /\ w \in Processes /\ worker[w].pc = "loading" /\ worker[w].found = {}
      /\ UNCHANGED <<remote, tree, repo, chunks, copy>>
      /\ JobInv(w)
  BY DEF LoadIssue, Me, Inv, JobInv, StageInv, Processes
<1>2. CASE repo.index = "ready"
  <2>1. To(w, "searching") /\ UNCHANGED <<lock, flow>>
    BY <1>2 DEF LoadIssue
  <2>2. /\ worker' \in [Processes -> Jobs] /\ worker'[w].pc = "searching"
        /\ worker'[w].batch = worker[w].batch /\ worker'[w].found = {}
        /\ \A q \in Processes : q # w => worker'[q] = worker[q]
    BY <1>1, <2>1, ToJob DEF Inv, Steps
  <2>3. Current
    BY <1>2 DEF Inv, ColumnsInv, IndexIsOfCheckout, Current
  <2>4. JobInv(w)'
    BY <1>1, <2>1, <2>2, <2>3 DEF JobInv, StageInv, UnderLock, FlowSteps, SyncSteps, IndexSteps,
                                 EmbedSteps, ReadSteps, CopySteps, Current
  <2> QED BY <1>1, <2>1, <2>2, <2>4, QuietStep DEF Inv, TypeOK
<1>3. CASE repo.index # "ready"
  <2>1. Leave(w, Unchanged(w), "failed")
    BY <1>3 DEF LoadIssue, Fail
  <2> QED BY <1>1, <2>1, QuietFail DEF Inv, TypeOK
<1> QED BY <1>2, <1>3

\* Whatever is read comes from rows that are the source's as long as HEAD is.
LEMMA ReadStep ==
  ASSUME Inv, NEW w \in Flows, worker[w].pc \in {"searching", "neighbors"},
         NEW pc \in {"searching", "neighbors"}, NEW found \in SUBSET Chunks,
         found \subseteq worker[w].found \cup DOMAIN chunks,
         Go(w, [worker[w] EXCEPT !.pc = pc, !.found = found]),
         UNCHANGED <<remote, tree, lock, repo, chunks, flow, copy>>
  PROVE  Inv'
<1> DEFINE j == [worker[w] EXCEPT !.pc = pc, !.found = found]
<1>1. w \in Processes /\ JobInv(w) /\ worker[w] \in Jobs
  BY DEF Inv, Processes, TypeOK
<1>2. j \in Jobs /\ j.pc = pc /\ j.found = found /\ j.batch = worker[w].batch
  <2>1. pc \in Steps
    BY DEF Steps
  <2> QED BY <1>1, <2>1, Zenon DEF Jobs
<1>3. Go(w, j)
  OBVIOUS
<1> HIDE DEF j
<1>4. /\ worker' \in [Processes -> Jobs] /\ worker'[w] = j
      /\ \A q \in Processes : q # w => worker'[q] = worker[q]
  BY <1>1, <1>2, <1>3, GoJob DEF Inv
<1>5. tree.head = flow[w].source => Current /\ found \subseteq ChunksOf(flow[w].source)
  BY <1>1 DEF JobInv, StageInv, Current
<1>6. JobInv(w)'
  BY <1>1, <1>2, <1>4, <1>5 DEF JobInv, StageInv, UnderLock, FlowSteps, SyncSteps, IndexSteps,
                               EmbedSteps, ReadSteps, CopySteps, Current
<1> QED BY <1>1, <1>4, <1>6, QuietStep DEF Inv, TypeOK

\* Searches, documents and neighbors are such reads.
LEMMA ReadInv ==
  ASSUME Inv, NEW w \in Flows, Search(w) \/ LoadDocuments(w) \/ LoadNeighbors(w)
  PROVE  Inv'
<1>1. /\ worker[w].pc \in {"searching", "neighbors"} /\ worker[w] \in Jobs
      /\ worker[w].found \in SUBSET Chunks /\ DOMAIN chunks \in SUBSET Chunks
      /\ UNCHANGED <<remote, tree, lock, repo, chunks, flow, copy>>
  <2>1. worker[w] \in Jobs
    BY DEF Inv, TypeOK, Processes
  <2> QED BY <2>1, RowsType DEF Search, LoadDocuments, LoadNeighbors, Me, Inv, Jobs
<1>2. PICK found \in SUBSET Chunks, pc \in {"searching", "neighbors"} :
        /\ found \subseteq worker[w].found \cup DOMAIN chunks
        /\ Go(w, [worker[w] EXCEPT !.pc = pc, !.found = found])
  <2>1. CASE LoadDocuments(w)
    <3> DEFINE found == worker[w].found \cap DOMAIN chunks
    <3>1. Go(w, [worker[w] EXCEPT !.pc = "neighbors", !.found = found])
      BY <2>1 DEF LoadDocuments, Me
    <3>2. found \in SUBSET Chunks /\ found \subseteq worker[w].found \cup DOMAIN chunks
      BY <1>1
    <3> QED BY <3>1, <3>2
  <2>2. CASE Search(w) \/ LoadNeighbors(w)
    <3>1. PICK hits \in SUBSET DOMAIN chunks :
            Go(w, [worker[w] EXCEPT !.found = worker[w].found \cup hits])
      BY <2>2 DEF Search, LoadNeighbors, Me
    <3> DEFINE found == worker[w].found \cup hits
    <3>2. found \in SUBSET Chunks /\ found \subseteq worker[w].found \cup DOMAIN chunks
      BY <1>1
    <3>3. [worker[w] EXCEPT !.found = found] = [worker[w] EXCEPT !.pc = worker[w].pc, !.found = found]
      BY <1>1 DEF Jobs
    <3>4. Go(w, [worker[w] EXCEPT !.pc = worker[w].pc, !.found = found])
      BY <3>1, <3>3
    <3> QED BY <1>1, <3>2, <3>4
  <2> QED BY <2>1, <2>2
<1> QED BY <1>1, <1>2, ReadStep

\* The context that is built quotes the source, if HEAD is still the source.
LEMMA BuildInv ==
  ASSUME Inv, NEW w \in Flows, Build(w)
  PROVE  Inv'
<1> DEFINE f == [flow[w] EXCEPT !.context = worker[w].found]
<1>1. /\ w \in Processes /\ worker[w].pc = "neighbors" /\ Leave(w, f, "ok")
      /\ UNCHANGED <<remote, tree, repo, chunks, copy>>
      /\ JobInv(w) /\ FlowInv(w) /\ worker[w] \in Jobs /\ flow[w] \in FlowRows
  BY DEF Build, Me, Inv, Processes, TypeOK
<1>2. /\ f \in FlowRows /\ f.stage = flow[w].stage /\ f.source = flow[w].source
      /\ f.context = worker[w].found
  <2>1. worker[w].found \in SUBSET Chunks
    BY <1>1 DEF Jobs
  <2> QED BY <1>1, <2>1, Zenon DEF FlowRows
<1>3. /\ flow[w].stage = "context"
      /\ tree.head = flow[w].source => worker[w].found \subseteq ChunksOf(flow[w].source)
  BY <1>1 DEF JobInv, StageInv, ReadSteps
<1>4. flow[w].source # None /\ flow[w].source <= tree.head
  BY <1>1, <1>3 DEF FlowInv
<1>5. ColumnsInv' /\ (Current => Current')
  BY <1>1 DEF Inv, ColumnsInv, IndexIsOfCheckout, VectorsComplete, Current
<1> HIDE DEF f
<1> QED BY <1>1, <1>2, <1>3, <1>4, <1>5, EndStep DEF Inv, TypeOK

\* A workflow is built only with a copy of its source.
LEMMA BuiltStep ==
  ASSUME Inv, NEW w \in Flows, worker[w].pc \in CopySteps,
         NEW outcome \in {"ok", "failed", "blocked"}, Leave(w, flow[w], outcome),
         UNCHANGED <<remote, tree, repo, chunks>>,
         copy' \in [Flows -> Commits \cup {None, Partial}],
         \A v \in Flows : v # w => copy'[v] = copy[v],
         outcome = "ok" => copy'[w] = flow[w].source
  PROVE  Inv'
<1>1. /\ w \in Processes /\ JobInv(w) /\ FlowInv(w) /\ flow[w] \in FlowRows
      /\ worker[w].pc # "idle"
  BY DEF Inv, Processes, TypeOK, CopySteps
<1>2. flow[w].stage = "workspace" /\ flow[w].context \subseteq ChunksOf(flow[w].source)
  BY <1>1 DEF JobInv, StageInv
<1>3. flow[w].source # None /\ flow[w].source <= tree.head
  BY <1>1, <1>2 DEF FlowInv
<1>4. ColumnsInv' /\ (Current => Current')
  BY DEF Inv, ColumnsInv, IndexIsOfCheckout, VectorsComplete, Current
<1> QED BY <1>1, <1>2, <1>3, <1>4, EndStep DEF Inv, TypeOK

\* A copy that is there already is taken if it is of the source.
LEMMA TargetInv ==
  ASSUME Inv, NEW w \in Flows, Target(w)
  PROVE  Inv'
<1>1. /\ w \in Processes /\ worker[w].pc = "target" /\ worker[w].pc \in CopySteps
      /\ UNCHANGED <<remote, tree, repo, chunks, copy>>
      /\ JobInv(w) /\ copy \in [Flows -> Commits \cup {None, Partial}]
  BY DEF Target, Me, Inv, Processes, CopySteps, TypeOK
<1>2. CASE copy[w] = None
  <2>1. To(w, "clone") /\ UNCHANGED <<lock, flow>>
    BY <1>2, CommitTypes DEF Target
  <2>2. /\ worker' \in [Processes -> Jobs] /\ worker'[w].pc = "clone"
        /\ worker'[w].batch = worker[w].batch
        /\ \A q \in Processes : q # w => worker'[q] = worker[q]
    BY <1>1, <2>1, ToJob DEF Inv, Steps
  <2>3. JobInv(w)'
    BY <1>1, <2>1, <2>2 DEF JobInv, StageInv, UnderLock, FlowSteps, SyncSteps, IndexSteps,
                           EmbedSteps, ReadSteps, CopySteps
  <2> QED BY <1>1, <2>1, <2>2, <2>3, QuietStep DEF Inv, TypeOK
<1>3. CASE copy[w] = Partial
  <2>1. Leave(w, flow[w], "failed") \/ Leave(w, flow[w], "blocked")
    BY <1>3, CommitTypes DEF Target, Fail, Unchanged
  <2> QED BY <1>1, <2>1, BuiltStep
<1>4. CASE copy[w] # None /\ copy[w] # Partial
  <2> DEFINE outcome == IF SameRevision(w, copy[w]) THEN "ok" ELSE "blocked"
  <2>1. Leave(w, flow[w], outcome)
    BY <1>4 DEF Target
  <2>2. outcome = "ok" => copy'[w] = flow[w].source
    BY <1>1 DEF SameRevision
  <2>3. outcome \in {"ok", "failed", "blocked"}
    OBVIOUS
  <2> HIDE DEF outcome
  <2> QED BY <1>1, <2>1, <2>2, <2>3, BuiltStep
<1> QED BY <1>2, <1>3, <1>4

\* A copy is made of HEAD, and accepted if that is the source.
LEMMA CreateCopyInv ==
  ASSUME Inv, NEW w \in Flows, CreateCopy(w)
  PROVE  Inv'
<1> DEFINE outcome == IF SameRevision(w, tree.head) THEN "ok" ELSE "blocked"
<1>1. /\ worker[w].pc \in CopySteps /\ copy' = [copy EXCEPT ![w] = tree.head]
      /\ Leave(w, flow[w], outcome)
      /\ UNCHANGED <<remote, tree, repo, chunks>>
      /\ tree.head \in Commits \cup {None}
  BY DEF CreateCopy, Me, CopySteps, Inv, TypeOK, Trees
<1>2. /\ copy' \in [Flows -> Commits \cup {None, Partial}] /\ copy'[w] = tree.head
      /\ \A v \in Flows : v # w => copy'[v] = copy[v]
  BY <1>1 DEF Inv, TypeOK
<1>3. outcome = "ok" => copy'[w] = flow[w].source
  BY <1>2 DEF SameRevision
<1>4. outcome \in {"ok", "failed", "blocked"}
  OBVIOUS
<1> HIDE DEF outcome
<1> QED BY <1>1, <1>2, <1>3, <1>4, BuiltStep

-----------------------------------------------------------------------------
(* The theorems *)

\* At first there is no checkout, no row and no job.
LEMMA InitInv == Init => Inv
<1> SUFFICES ASSUME Init PROVE Inv
  OBVIOUS
<1>1. /\ remote \in Commits /\ tree \in Trees /\ repo \in Columns /\ tree.head = None
      /\ chunks \in [{} -> Vectors]
      /\ repo.index = "pending" /\ repo.local = "pending" /\ repo.embedding = "pending"
  BY DEF Init, Trees, Columns
<1>2. /\ flow \in [Flows -> FlowRows]
      /\ \A w \in Flows : flow[w].stage = "sync"
  BY StageTypes DEF Init, FlowRows
<1>3. worker \in [Processes -> Jobs] /\ copy \in [Flows -> Commits \cup {None, Partial}]
  BY NoJobType DEF Init
<1>4. TypeOK
  BY <1>1, <1>2, <1>3 DEF Init, TypeOK
<1>5. ColumnsInv
  BY <1>1, <1>4, Numbers DEF ColumnsInv, IndexIsOfCheckout, VectorsComplete, None
<1>6. \A p \in Processes : JobInv(p)
  BY NoJobType DEF Init, JobInv, StageInv, UnderLock, FlowSteps, SyncSteps, IndexSteps,
                   EmbedSteps, ReadSteps, CopySteps
<1>7. \A w \in Flows : FlowInv(w)
  BY <1>2 DEF FlowInv
<1> QED BY <1>4, <1>5, <1>6, <1>7 DEF Inv

\* Every step keeps the invariant, and the vectors.
LEMMA NextInv ==
  ASSUME Inv, [Next]_vars
  PROVE  Inv' /\ VectorsSurvive
<1>1. CASE UNCHANGED vars
  <2>1. UNCHANGED <<remote, tree, lock, repo, chunks, flow, copy, worker>>
    BY <1>1 DEF vars
  <2>2. TypeOK' /\ ColumnsInv' /\ Steady
    BY <2>1, Numbers DEF Inv, TypeOK, ColumnsInv, IndexIsOfCheckout, VectorsComplete, Steady, Current
  <2>3. \A q \in Processes : Keeps(q)
    BY <2>1 DEF Keeps
  <2> QED BY <2>1, <2>2, <2>3, ElsewhereStep DEF VectorsSurvive
<1>2. ASSUME NEW p \in Processes, Job(p)
      PROVE  Inv' /\ VectorsSurvive
  <2>1. CASE Persist(p) \/ PickBatch(p) \/ SaveBatch(p) \/ EmbedError(p)
    BY <2>1, PersistInv, PickBatchInv, SaveBatchInv, EmbedErrorInv
  <2>2. CASE ~(Persist(p) \/ PickBatch(p) \/ SaveBatch(p) \/ EmbedError(p))
    <3>1. chunks' = chunks
      BY <1>2, <2>2 DEF Job, Acquire, Mark, Fetch, ResetFiles, ResetHead, Synced, SyncError,
         StartIndex, Scan, IndexError, StartEmbedding, CloseEmbedding, Verify, LoadIssue, Search,
         LoadDocuments, LoadNeighbors, Build, Target, CreateCopy
    <3>2. Inv'
      BY <1>2, <2>2, AcquireInv, MarkInv, FetchInv, ResetInv, SyncedInv, SyncErrorInv,
         StartIndexInv, ScanInv, IndexErrorInv, StartEmbeddingInv, CloseEmbeddingInv, VerifyInv,
         LoadIssueInv, ReadInv, BuildInv, TargetInv, CreateCopyInv DEF Job
    <3> QED BY <3>1, <3>2 DEF VectorsSurvive
  <2> QED BY <2>1, <2>2
<1>3. CASE \/ \E p \in Processes : Raises(p) \/ Crash(p)
           \/ \E w \in Flows : ClaimStage(w) \/ ResumeFlow(w)
           \/ \E h \in Helpers : Task(h)
           \/ RepairLock \/ Push
  <2>1. chunks' = chunks
    BY <1>3 DEF Raises, Crash, ClaimStage, ResumeFlow, Task, RepairLock, Push
  <2>2. Inv'
    BY <1>3, RaisesInv, CrashInv, ClaimStageInv, ResumeFlowInv, TaskInv, OperatorInv
  <2> QED BY <2>1, <2>2 DEF VectorsSurvive
<1> QED BY <1>1, <1>2, <1>3 DEF Next

\* The invariant holds.
LEMMA InvCorrect == Spec => []Inv
  BY InitInv, NextInv, PTL DEF Spec

\* Columns, rows, jobs and checkout keep their types, and whenever the index is
\* called ready the rows are the chunks of HEAD and the files are HEAD's: also
\* after a sync, a scan or a status update that broke off half way
\* (WorkspaceSync.update_status, IndexingService).
THEOREM WellFormedCorrect == Spec => []WellFormed
<1>1. Inv => WellFormed
  BY DEF Inv, ColumnsInv, WellFormed
<1> QED BY <1>1, InvCorrect, PTL

\* A workflow that has its execution workspace has it at the commit it recorded
\* when it synchronized, and its issue context quotes that commit only, whatever
\* other workflows and tasks did to the repository between its stages
\* (WorkflowStages, IssueContextService).
THEOREM ContextOfSourceCorrect == Spec => []ContextOfSource
<1>1. Inv => ContextOfSource
  BY DEF Inv, FlowInv, ContextOfSource
<1> QED BY <1>1, InvCorrect, PTL

\* The embedding column says ready only while every chunk has its vector, and a
\* vector is lost only with the row of its chunk, through failed batches,
\* re-indexing and syncs (EmbeddingService, IndexingService).
THEOREM VectorsKeptCorrect == Spec => VectorsKept
<1>1. Inv /\ [Next]_vars => [VectorsComplete' /\ VectorsSurvive]_vars
  BY NextInv DEF Inv, ColumnsInv
<1> QED BY <1>1, InvCorrect, PTL DEF Spec, VectorsKept
=============================================================================
