---------------------------- MODULE MCExecution ----------------------------
(* TLC instances of Execution: plans of one and two tasks. *)
EXTENDS Execution

CONSTANTS a, b, r1, r2

OneTask == {[t \in {a} |-> {}]}

\* Independent tasks, and one that waits for the other.
PairPlans == {[t \in {a, b} |-> IF t = b /\ chained THEN {a} ELSE {}] : chained \in BOOLEAN}

HeapOfOne == <<r1>>
HeapOfTwo == <<r1, r2>>
=============================================================================
