----------------------------- MODULE LiveViewMC -----------------------------
(***************************************************************************)
(* A workflow of two steps for TLC: the first may fail or be retried and   *)
(* the second depends on its output.                                       *)
(***************************************************************************)
EXTENDS LiveView, TLC

CONSTANTS a, b

PairDependsOn   == a :> {} @@ b :> {a}
PairCondition   == a :> Always @@ b :> a
PairOnFailure   == a :> "notify" @@ b :> "stop"
PairMaxAttempts == a :> 2 @@ b :> 1
=============================================================================
