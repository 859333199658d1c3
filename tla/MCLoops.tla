------------------------------ MODULE MCLoops ------------------------------
(***************************************************************************)
(* The loops under the stages for TLC, each in behaviours of its own: the  *)
(* cutting of a file into chunks (Chunking), the scheduling pass           *)
(* (PlanPass), the reading of a patch (PatchFormat), and the requests to a *)
(* provider with their retries (ProviderCalls).                            *)
(***************************************************************************)
EXTENDS Chunking, ProviderCalls, PlanPass, PatchFormat

VARIABLE part

-----------------------------------------------------------------------------
(* Values of the constants *)

AllStates == TaskStates

\* "P" is "p" in another case, and "u" is a path that is refused.
MCPaths == {"p", "P", "q", "u"}
MCFolded == [x \in MCPaths |-> IF x = "P" THEN "p" ELSE x]

\* Every file of up to three lines of 1, 3 or 5 characters, the last being over the
\* limit, and every one of four lines of 1 or 3.
Total(sizes, i) == FoldLeft(LAMBDA a, b : a + b, 0, SubSeq(sizes, 1, i))

FilesOf(n, characters) ==
    {[lines |-> n, offset |-> [i \in 0..n |-> Total(sizes, i)], blank |-> b, tops |-> t] :
        sizes \in [1..n -> characters], b \in SUBSET (1..n), t \in SUBSET (0..n)}

MCFiles == FilesOf(4, {1, 3}) \cup UNION {FilesOf(n, {1, 3, 5}) : n \in 0..3}

-----------------------------------------------------------------------------
(* One part moves; the others have come to their end. *)

NoChunks ==
    /\ file = [lines |-> 0, offset |-> [i \in {0} |-> 0], blank |-> {}, tops |-> {}]
    /\ start = 0 /\ end = 0 /\ size = 0 /\ chunks = <<>> /\ chunking = "returned"

NoPass ==
    /\ deps = [k \in Keys |-> {}] /\ pc = "refused" /\ ordered = <<>>
    /\ given = NoStates /\ updated = NoStates /\ at = 0

NoPatch ==
    /\ declared = <<>> /\ read = <<>> /\ expects = "accepted"
    /\ section = NoSection /\ output = <<>>

NoCalls ==
    /\ stage = "issue" /\ plan = NoPlan /\ requests = 0
    /\ row = [status |-> "completed", attempts |-> 0, claims |-> 0, token |-> 0, waits |-> FALSE]
    /\ worker = [w \in Workers |-> Idle]

MCInit ==
    \/ part = "chunks" /\ Init /\ NoPass /\ NoPatch /\ NoCalls
    \/ part = "pass" /\ PassInit /\ NoChunks /\ NoPatch /\ NoCalls
    \/ part = "patch" /\ PatchInit /\ NoChunks /\ NoPass /\ NoCalls
    \/ part = "calls" /\ CallsInit /\ NoChunks /\ NoPass /\ NoPatch

MCNext ==
    \/ part = "chunks" /\ Next /\ UNCHANGED <<part, passVars, patchVars, callVars>>
    \/ part = "pass" /\ PassNext /\ UNCHANGED <<part, vars, patchVars, callVars>>
    \/ part = "patch" /\ PatchNext /\ UNCHANGED <<part, vars, passVars, callVars>>
    \/ part = "calls" /\ CallsNext /\ UNCHANGED <<part, vars, passVars, patchVars>>

MCSpec == MCInit /\ [][MCNext]_<<part, vars, passVars, patchVars, callVars>>
=============================================================================
