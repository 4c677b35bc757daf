----------------------------- MODULE EngineDocs -----------------------------
(***************************************************************************)
(* What workflows/README.md says of a step's retry, against what           *)
(* Engine::execute does.                                                   *)
(***************************************************************************)
EXTENDS Engine

CONSTANT Until   \* RetryConfig::until; no definition of the engine reads it

(***************************************************************************)
(* "Condition expression that stops retrying when truthy": spawn_step is   *)
(* not called again for a step whose until holds on the outputs so far.    *)
(***************************************************************************)
UntilStopsRetrying ==
  [][\A s \in Step : attempts'[s] > attempts[s] /\ attempts[s] > 0 =>
       ~EvaluateCondition(Until[s])]_vars
=============================================================================
