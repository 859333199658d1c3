--------------------------- MODULE CommandRunner ---------------------------
(***************************************************************************)
(* One call of DockerCLI.run (app/sandbox/runner.py): a child process, two *)
(* threads that drain its pipes, and the caller that waits with a timeout, *)
(* kills, and joins the threads before it reads what they have kept.       *)
(*                                                                         *)
(* Simplifications.                                                        *)
(*  - Output is counted in bytes; what the bytes are does not matter.      *)
(*  - The child starts no process that inherits its pipes.                 *)
(*  - A soft time limit interrupts the caller at most once, while it waits *)
(*    for the child or for the threads.                                    *)
(***************************************************************************)
EXTENDS Naturals, Sequences

CONSTANTS
    Streams,    \* the pipes of the child
    Limit,      \* output_limit, for each stream
    Block,      \* what one read asks for (8192)
    PipeSize,   \* what a pipe holds while nobody reads
    MaxOutput   \* bound: the bytes a child writes

ASSUME RunnerAssumption ==
    /\ Limit \in Nat /\ MaxOutput \in Nat
    /\ Block \in Nat \ {0} /\ PipeSize \in Nat \ {0}

VARIABLES
    script,     \* what the child has still to write: a stream for each byte
    hangs,      \* the child does not end by itself
    process,    \* "running", "exited" by itself or "killed"
    wrote,      \* bytes the child has written to each stream
    pipe,       \* bytes in each pipe
    held,       \* bytes the pending read of each thread has gathered
    buffers,    \* bytes kept
    truncated,
    threads,    \* "draining" or "ended"
    caller,     \* "waiting", "killing", "joining", "returned" or "raised"
    expired,    \* TimeoutExpired was caught
    broken      \* the soft time limit has interrupted the caller

childVars == <<script, hangs, process, wrote>>
readVars == <<pipe, held, buffers, truncated, threads>>
callVars == <<caller, expired, broken>>
runnerVars == <<childVars, readVars, callVars>>

None == [s \in Streams |-> 0]

RunnerInit ==
    /\ script \in UNION {[1..n -> Streams] : n \in 0..MaxOutput}
    /\ hangs \in BOOLEAN
    /\ process = "running"
    /\ wrote = None /\ pipe = None /\ held = None /\ buffers = None
    /\ truncated = [s \in Streams |-> FALSE]
    /\ threads = [s \in Streams |-> "draining"]
    /\ caller = "waiting" /\ expired = FALSE /\ broken = FALSE

-----------------------------------------------------------------------------
(* The child *)

\* It blocks while the pipe it wants to write to is full.
Write ==
    /\ process = "running" /\ script # <<>>
    /\ LET s == Head(script)
       IN  /\ pipe[s] < PipeSize
           /\ pipe' = [pipe EXCEPT ![s] = @ + 1]
           /\ wrote' = [wrote EXCEPT ![s] = @ + 1]
    /\ script' = Tail(script)
    /\ UNCHANGED <<hangs, process, held, buffers, truncated, threads, callVars>>

ChildExits ==
    /\ process = "running" /\ script = <<>> /\ ~hangs
    /\ process' = "exited"
    /\ UNCHANGED <<script, hangs, wrote, readVars, callVars>>

-----------------------------------------------------------------------------
(* A thread *)

EndOfFile(s) == process # "running" /\ pipe[s] = 0

\* Variant with a bug: nothing is read that would not be kept.
GatherWithinLimit(s) ==
    /\ threads[s] = "draining" /\ pipe[s] > 0 /\ buffers[s] + held[s] < Limit
    /\ pipe' = [pipe EXCEPT ![s] = @ - 1]
    /\ held' = [held EXCEPT ![s] = @ + 1]
    /\ UNCHANGED <<childVars, buffers, truncated, threads, callVars>>

\* read gathers bytes until it has a block or the pipe has ended.
Gather(s) ==
    /\ threads[s] = "draining" /\ pipe[s] > 0 /\ held[s] < Block
    /\ pipe' = [pipe EXCEPT ![s] = @ - 1]
    /\ held' = [held EXCEPT ![s] = @ + 1]
    /\ UNCHANGED <<childVars, buffers, truncated, threads, callVars>>

Least(a, b) == IF a < b THEN a ELSE b

\* max(0, output_limit - len(buffers[index])).
Remaining(s) == IF Limit > buffers[s] THEN Limit - buffers[s] ELSE 0

\* read returns and the loop body keeps what fits.
Keep(s) ==
    /\ threads[s] = "draining"
    /\ held[s] > 0 /\ (held[s] = Block \/ EndOfFile(s))
    /\ buffers' = [buffers EXCEPT ![s] = @ + Least(held[s], Remaining(s))]
    /\ truncated' = [truncated EXCEPT ![s] = @ \/ held[s] > Remaining(s)]
    /\ held' = [held EXCEPT ![s] = 0]
    /\ UNCHANGED <<childVars, pipe, threads, callVars>>

\* read returns nothing: the thread closes the stream and ends.
EndThread(s) ==
    /\ threads[s] = "draining" /\ held[s] = 0 /\ EndOfFile(s)
    /\ threads' = [threads EXCEPT ![s] = "ended"]
    /\ UNCHANGED <<childVars, pipe, held, buffers, truncated, callVars>>

-----------------------------------------------------------------------------
(* The caller *)

\* process.wait returns.
Reap ==
    /\ caller = "waiting" /\ process # "running"
    /\ caller' = "joining"
    /\ UNCHANGED <<childVars, readVars, expired, broken>>

\* process.wait raises TimeoutExpired; the child may still end before the kill.
Timeout ==
    /\ caller = "waiting" /\ process = "running"
    /\ caller' = "killing" /\ expired' = TRUE
    /\ UNCHANGED <<childVars, readVars, broken>>

\* The soft time limit of the task is raised inside wait or join.  In wait the
\* finally clause kills and joins first; out of join it leaves at once.
Interrupt ==
    /\ caller \in {"waiting", "joining"} /\ ~broken
    /\ broken' = TRUE
    /\ caller' = IF caller = "waiting" THEN "killing" ELSE "raised"
    /\ UNCHANGED <<childVars, readVars, expired>>

\* process.kill and process.wait; a child that has ended is left alone.
Kill ==
    /\ caller = "killing"
    /\ process' = IF process = "running" THEN "killed" ELSE process
    /\ caller' = "joining"
    /\ UNCHANGED <<script, hangs, wrote, readVars, expired, broken>>

\* Variant with a bug: the result is built without waiting for the threads.
JoinedAtOnce == TRUE

Joined == \A s \in Streams : threads[s] = "ended"

Return ==
    /\ caller = "joining" /\ Joined
    /\ caller' = IF broken THEN "raised" ELSE "returned"
    /\ UNCHANGED <<childVars, readVars, expired, broken>>

-----------------------------------------------------------------------------

ThreadStep(s) == Gather(s) \/ Keep(s) \/ EndThread(s)

RunnerNext ==
    \/ Write
    \/ ChildExits
    \/ \E s \in Streams : ThreadStep(s)
    \/ Reap
    \/ Timeout
    \/ Interrupt
    \/ Kill
    \/ Return

RunnerSpec == RunnerInit /\ [][RunnerNext]_runnerVars

\* Threads and the caller run, and the timeout comes.  The child owes nothing.
Fairness ==
    /\ \A s \in Streams : WF_runnerVars(ThreadStep(s))
    /\ WF_runnerVars(Reap) /\ WF_runnerVars(Timeout)
    /\ WF_runnerVars(Kill) /\ WF_runnerVars(Return)

FairSpec == RunnerSpec /\ Fairness

-----------------------------------------------------------------------------
TypeOK ==
    /\ script \in Seq(Streams)
    /\ hangs \in BOOLEAN
    /\ process \in {"running", "exited", "killed"}
    /\ wrote \in [Streams -> Nat] /\ pipe \in [Streams -> Nat]
    /\ held \in [Streams -> Nat] /\ buffers \in [Streams -> Nat]
    /\ truncated \in [Streams -> BOOLEAN]
    /\ threads \in [Streams -> {"draining", "ended"}]
    /\ caller \in {"waiting", "killing", "joining", "returned", "raised"}
    /\ expired \in BOOLEAN /\ broken \in BOOLEAN

(* A CommandResult is of the whole run: whatever the threads, the child, the
   kill and the timeout did in between, each stream is what the child wrote to
   it, cut at the limit and marked exactly if it was cut; a result that does not
   say "timed out" is of a child that ended by itself after all its output. *)
OutputFaithful ==
    caller = "returned" =>
        /\ \A s \in Streams :
              /\ buffers[s] = Least(wrote[s], Limit)
              /\ truncated[s] <=> wrote[s] > Limit
        /\ ~expired => process = "exited" /\ script = <<>>

(* However the call ends, interrupted in its clean-up included, the child has
   ended before it (the finally clause). *)
NoOrphan == caller \in {"returned", "raised"} => process # "running"

ResultFaithful == OutputFaithful /\ NoOrphan

(* A call ends although the child may hang or be blocked on a full pipe. *)
RunReturns == <>(caller \in {"returned", "raised"})
=============================================================================
