----------------------------- MODULE MCWorkflow -----------------------------
(***************************************************************************)
(* Instances of Workflow for TLC.                                          *)
(***************************************************************************)
EXTENDS Workflow, TLC

\* One stage of each kind: retried automatically, source changing, and retried
\* only by hand, which is also the optional one.
MCStages == <<"plan", "implement", "publish", "done">>

\* A shorter workflow for the liveness runs, and the shortest for two of them.
MCShortStages == <<"plan", "implement", "done">>
MCOneStage == <<"plan", "done">>

WorkerSymmetry == Permutations(Workers)
=============================================================================
