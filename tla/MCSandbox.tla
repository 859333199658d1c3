----------------------------- MODULE MCSandbox -----------------------------
(***************************************************************************)
(* The Docker sandbox for TLC: the tests of a task in their containers     *)
(* (Sandbox), and one of the commands they run with its pipes and threads  *)
(* (CommandRunner), each in behaviours of its own.                         *)
(***************************************************************************)
EXTENDS Sandbox, CommandRunner

VARIABLE part

\* Two lists can be run, one of which names a command twice; one has a command
\* that is not allowed, and one a command without image.
MCRequired == {<<"a", "b">>, <<"a", "a">>, <<"a", "c">>, <<"d">>}
MCAllowed == {"a", "b", "d"}
MCImages == {"a", "b", "c"}

\* What is not looked at has come to its end.
NoCommand ==
    /\ script = <<>> /\ hangs = FALSE /\ process = "exited"
    /\ wrote = None /\ pipe = None /\ held = None /\ buffers = None
    /\ truncated = [s \in Streams |-> FALSE]
    /\ threads = [s \in Streams |-> "ended"]
    /\ caller = "returned" /\ expired = FALSE /\ broken = FALSE

NoTests ==
    /\ task = "stopped" /\ agents = <<>> /\ locked = FALSE /\ tainted = FALSE
    /\ boxes = <<>> /\ worker = Idle

MCInit ==
    \/ part = "command" /\ RunnerInit /\ NoTests
    \/ part = "tests" /\ Init /\ NoCommand

MCNext ==
    \/ part = "command" /\ RunnerNext /\ UNCHANGED <<part, vars>>
    \/ part = "tests" /\ Next /\ UNCHANGED <<part, runnerVars>>

MCSpec == MCInit /\ [][MCNext]_<<part, vars, runnerVars>> /\ Fairness
=============================================================================
