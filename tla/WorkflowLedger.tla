--------------------------- MODULE WorkflowLedger ---------------------------
(***************************************************************************)
(* What the durable workflow promises its callers, with no messages,       *)
(* workers, leases, tokens or generations: each workflow is a ledger with  *)
(* at most one stage in flight, stages complete in order, each stage is    *)
(* begun a bounded number of times, and whatever is waiting or in flight   *)
(* moves on in the end.  Workflow implements it (see MCWorkflow).          *)
(***************************************************************************)
EXTENDS Naturals, Sequences

CONSTANTS
    Workflows,      \* identifiers
    Stages,         \* stage names in order, the last one is "done"
    AttemptLimit    \* how often a stage may be begun before it completes

VARIABLE ledger     \* stage, state and number of begun attempts per workflow

Init == ledger = [w \in Workflows |->
                    [stage |-> Stages[1], state |-> "absent", tries |-> 0]]

\* The stages that may follow s: s itself, the next one, or "done" when only
\* an unwanted publication is left.
Follows(s) ==
    LET i == CHOOSE i \in 1..Len(Stages) : Stages[i] = s
    IN  {s, Stages[i + 1]} \cup (IF Stages[i + 1] = "publish" THEN {"done"} ELSE {})

Move(w, from, to) ==
    /\ ledger[w].state \in from
    /\ ledger' = [ledger EXCEPT ![w].state = to]

Open(w) == Move(w, {"absent"}, "waiting")

Begin(w) ==
    /\ ledger[w].state = "waiting"
    /\ ledger[w].tries < AttemptLimit
    /\ ledger' = [ledger EXCEPT ![w] =
          [stage |-> @.stage, state |-> "active", tries |-> @.tries + 1]]

Complete(w) ==
    /\ ledger[w].state = "active"
    /\ \E s \in Follows(ledger[w].stage) :
          ledger' = [ledger EXCEPT ![w] =
              [stage |-> s, state |-> IF s = "done" THEN "done" ELSE "waiting",
               tries |-> 0]]

\* Attempts end without success: each of them is left for a client to reopen or
\* is blocked.  One pass of a supervisor may end several at once.
Interrupt(S) ==
    /\ \A w \in S : ledger[w].state = "active"
    /\ \E to \in [S -> {"stopped", "blocked"}] :
          ledger' = [w \in Workflows |->
              IF w \in S THEN [ledger[w] EXCEPT !.state = to[w]] ELSE ledger[w]]

\* A failed attempt is retried within the limit, or ends like an interrupted one.
Fail(w) ==
    \/ ledger[w].tries < AttemptLimit /\ Move(w, {"active"}, "waiting")
    \/ Interrupt({w})

Reopen(w) == ledger[w].tries < AttemptLimit /\ Move(w, {"stopped"}, "waiting")

Abandon(w) == Move(w, {"waiting", "stopped", "blocked"}, "cancelled")

Next ==
    \/ \E w \in Workflows :
          Open(w) \/ Begin(w) \/ Complete(w) \/ Fail(w) \/ Reopen(w) \/ Abandon(w)
    \/ \E S \in SUBSET Workflows : Interrupt(S)

\* Whatever waits is begun or abandoned, and whatever is in flight ends.
Progress ==
    \A w \in Workflows :
        /\ WF_ledger(Begin(w))
        /\ WF_ledger(Complete(w) \/ Fail(w))

Spec == Init /\ [][Next]_ledger

FairSpec == Spec /\ Progress
=============================================================================
