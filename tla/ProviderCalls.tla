--------------------------- MODULE ProviderCalls ---------------------------
(***************************************************************************)
(* The stages of a workflow that are requests to a provider, and the three *)
(* layers that repeat requests: the client, the planner and the workflow.  *)
(*                                                                         *)
(*   app/integrations/github/client.py         stage "issue"               *)
(*   app/integrations/llm/openai_embeddings.py stage "context"             *)
(*   app/integrations/llm/openai_provider.py   stage "plan"                *)
(*   app/agents/planner.py, app/services/plans.py                          *)
(*   app/orchestration/failures.py, workflow.py, workflow_stages.py        *)
(*                                                                         *)
(* Simplifications.                                                        *)
(*  - One workflow at one stage.  Its row has what the requests depend on; *)
(*    module Workflow has the rest of the protocol.                        *)
(*  - A reply is one of the classes that the code treats differently.      *)
(*  - How long a wait is does not matter, only what follows it.            *)
(***************************************************************************)
EXTENDS Naturals

CONSTANTS
    Workers,            \* Celery worker processes
    AttemptLimit,       \* WORKFLOW_STAGE_ATTEMPTS
    LLMRetries,         \* LLM_MAX_RETRIES
    ValidationRetries,  \* PLANNER_VALIDATION_RETRIES
    EmbeddingRetries,   \* EMBEDDING_MAX_RETRIES
    Queries             \* CONTEXT_MAX_QUERIES

\* The bounds of the settings in core/config.py.
ASSUME CallsAssumption ==
    /\ AttemptLimit \in Nat \ {0} /\ Queries \in Nat \ {0}
    /\ LLMRetries \in Nat /\ ValidationRetries \in Nat /\ EmbeddingRetries \in Nat

VARIABLES
    stage,      \* "issue", "context" or "plan"
    row,        \* the WorkflowRun row
    plan,       \* who inserted the plan (its id is derived from the workflow's),
                \* and how many claims there had been by then; or NoPlan
    requests,   \* how many requests the provider has had
    worker      \* what each worker holds

callVars == <<stage, row, plan, requests, worker>>

NoPlan == [by |-> 0, claims |-> 0]

Idle == [pc |-> "idle", token |-> 0, calls |-> 0, tries |-> 0, outcome |-> "ok"]

CallsInit ==
    /\ stage \in {"issue", "context", "plan"}
    /\ row = [status |-> "pending", attempts |-> 0, claims |-> 0, token |-> 0,
              waits |-> FALSE]
    /\ plan = NoPlan
    /\ requests = 0
    /\ worker = [w \in Workers |-> Idle]

\* How often the client repeats a request, and how many calls of the client a
\* stage makes at most: one for each query, one for each try of the planner.
Retries ==
    CASE stage = "issue" -> 0
      [] stage = "context" -> EmbeddingRetries
      [] stage = "plan" -> LLMRetries

Calls ==
    CASE stage = "issue" -> 1
      [] stage = "context" -> Queries
      [] stage = "plan" -> ValidationRetries + 1

Put(w, x) == worker' = [worker EXCEPT ![w] = x]
Ends(w, outcome) == Put(w, [worker[w] EXCEPT !.pc = "finish", !.outcome = outcome])

-----------------------------------------------------------------------------
(* The row *)

Claim(w) ==
    /\ worker[w].pc = "idle"
    /\ row.status = "pending" /\ ~row.waits
    /\ row' = [row EXCEPT !.status = "running", !.attempts = @ + 1,
                          !.claims = @ + 1, !.token = row.claims + 1]
    /\ Put(w, [Idle EXCEPT !.pc = "start", !.token = row.claims + 1])
    /\ UNCHANGED <<stage, plan, requests>>

Owns(w) == row.status = "running" /\ row.token = worker[w].token

RetryLeft == row.attempts < AttemptLimit

\* WorkflowRecords.finish.
Finish(w) ==
    /\ worker[w].pc = "finish"
    /\ row' =
          IF ~Owns(w) THEN row
          ELSE IF worker[w].outcome = "transient" /\ RetryLeft
          THEN [row EXCEPT !.status = "pending", !.token = 0, !.waits = TRUE]
          ELSE [row EXCEPT !.status = IF worker[w].outcome = "ok" THEN "completed" ELSE "failed",
                           !.token = 0]
    /\ Put(w, Idle)
    /\ UNCHANGED <<stage, plan, requests>>

\* retry_at has passed.
Due ==
    /\ row.waits
    /\ row' = [row EXCEPT !.waits = FALSE]
    /\ UNCHANGED <<stage, plan, requests, worker>>

\* The recovery pass finds the lease expired, whatever became of the worker.
Expire ==
    /\ row.status = "running"
    /\ row' = [row EXCEPT !.status = "failed", !.token = 0]
    /\ UNCHANGED <<stage, plan, requests, worker>>

\* Variant with a bug: a resumption starts the count of attempts again.
ResumedAfresh == [row EXCEPT !.status = "pending", !.attempts = 0]

Resumed == [row EXCEPT !.status = "pending"]

Resume ==
    /\ row.status = "failed" /\ RetryLeft
    /\ row' = Resumed
    /\ UNCHANGED <<stage, plan, requests, worker>>

-----------------------------------------------------------------------------
(* A stage *)

\* The read of the plan, under an id derived from the workflow's.
ExistingPlan == stage = "plan" /\ plan # NoPlan

Start(w) ==
    /\ worker[w].pc = "start"
    /\ IF ExistingPlan
       THEN Ends(w, "ok")
       ELSE Put(w, [worker[w] EXCEPT !.pc = "ask"])
    /\ UNCHANGED <<stage, row, plan, requests>>

\* The request of a worker is sent and answered, or not.
Asks(w) ==
    /\ worker[w].pc = "ask"
    /\ requests' = requests + 1
    /\ UNCHANGED <<stage, row, plan>>

\* Another call of the client is left to this stage.
CallAgain(w) == worker[w].calls + 1 < Calls

\* The next call of the client: the next query, or the planner with feedback.
NextCall(w) ==
    Put(w, [worker[w] EXCEPT !.calls = @ + 1, !.tries = 0])

\* An answer that decodes.  A stage may have fewer queries than the limit.
Good(w) ==
    /\ Asks(w)
    /\ \/ stage = "plan" /\ Put(w, [worker[w] EXCEPT !.pc = "create"])
       \/ stage = "context" /\ CallAgain(w) /\ NextCall(w)
       \/ stage # "plan" /\ Ends(w, "ok")

\* An answer that does not decode or validate: the planner asks again with the
\* feedback, PlannerValidationError at last; the other clients raise.
Invalid(w) ==
    /\ Asks(w)
    /\ IF stage = "plan" /\ CallAgain(w) THEN NextCall(w) ELSE Ends(w, "failed")

\* 401, 403, 404, refused, incomplete.
Rejected(w) ==
    /\ Asks(w)
    /\ Ends(w, "failed")

\* Any other 4xx is github_response_error with status 502, which is retried.
Odd(w) ==
    /\ Asks(w)
    /\ Ends(w, IF stage = "issue" THEN "transient" ELSE "failed")

\* provider_failure: an EmbeddingError is none of its cases.
GivenUp(w) == Ends(w, IF stage = "context" THEN "failed" ELSE "transient")

MayTryAgain(w) == worker[w].tries < Retries

\* No answer, 408 or 5xx: the client sleeps, or gives up at its last try.
Down(w) ==
    /\ Asks(w)
    /\ IF MayTryAgain(w) THEN Put(w, [worker[w] EXCEPT !.pc = "sleep"]) ELSE GivenUp(w)

\* An answer that asks for a delay: up to a minute the clients with retries sleep it
\* in full; GitHub's is left to the workflow, but none of more than an hour.
Limited(w) ==
    /\ Asks(w)
    /\ \E delay \in {"minute", "hour", "longer"} :
          IF MayTryAgain(w) /\ delay = "minute"
          THEN Put(w, [worker[w] EXCEPT !.pc = "sleep"])
          ELSE IF stage = "issue" /\ delay = "longer"
          THEN Ends(w, "failed")
          ELSE GivenUp(w)

\* The sleep of the client is over.
WakeUp(w) ==
    /\ worker[w].pc = "sleep"
    /\ Put(w, [worker[w] EXCEPT !.pc = "ask", !.tries = @ + 1])
    /\ UNCHANGED <<stage, row, plan, requests>>

\* INSERT under the id of the workflow's plan: a second one violates the key.
Inserted(w) ==
    IF plan = NoPlan THEN [by |-> worker[w].token, claims |-> row.claims] ELSE plan

\* PlanService.create.  The insert, or its transaction, may fail.
Create(w) ==
    /\ worker[w].pc = "create"
    /\ \/ /\ plan' = Inserted(w)
          /\ Ends(w, IF plan = NoPlan THEN "ok" ELSE "failed")
       \/ plan' = plan /\ Ends(w, "failed")
    /\ UNCHANGED <<stage, row, requests>>

-----------------------------------------------------------------------------
(* The environment *)

\* The soft time limit ends the stage: no failure of a provider.
SoftTimeLimit(w) ==
    /\ worker[w].pc \in {"start", "ask", "sleep", "create"}
    /\ Ends(w, "failed")
    /\ UNCHANGED <<stage, row, plan, requests>>

Die(w) ==
    /\ worker[w].pc # "idle"
    /\ Put(w, Idle)
    /\ UNCHANGED <<stage, row, plan, requests>>

-----------------------------------------------------------------------------

Reply(w) ==
    \/ Good(w)
    \/ Invalid(w)
    \/ Rejected(w)
    \/ Odd(w)
    \/ Down(w)
    \/ Limited(w)

WorkerStep(w) == Start(w) \/ Reply(w) \/ WakeUp(w) \/ Create(w) \/ Finish(w)

CallsNext ==
    \/ \E w \in Workers : Claim(w) \/ WorkerStep(w) \/ SoftTimeLimit(w) \/ Die(w)
    \/ Due
    \/ Expire
    \/ Resume

CallsSpec == CallsInit /\ [][CallsNext]_callVars

-----------------------------------------------------------------------------
(* Properties *)

\* What one claim may ask, and what the attempts of a stage may ask together.
PerClaim == Calls * (Retries + 1)

(* The three layers of retries multiply and no more: whatever dies, expires or is
   resumed, and although a worker whose claim was lost goes on asking, a stage
   costs at most PerClaim requests for each of its attempts; and a claim made after
   there was a plan asks for nothing. *)
RequestsBounded ==
    /\ requests <= AttemptLimit * PerClaim
    /\ plan # NoPlan => requests <= plan.claims * PerClaim
=============================================================================
