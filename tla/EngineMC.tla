------------------------------ MODULE EngineMC ------------------------------
(***************************************************************************)
(* A workflow for TLC.  It joins a path of one step and one of two, so that*)
(* results, panics and retries of different steps mix, and one step that   *)
(* is never run.  It has conditions on outputs, all three failure policies,*)
(* a step with max_attempts 0, one that is retried, and one whose retry    *)
(* interval makes execute panic.                                           *)
(***************************************************************************)
EXTENDS Engine, WorkflowFile, TLC

CONSTANTS a, b, c, d, e

MCFile ==
  [named |-> TRUE,
   steps |-> <<[name |-> d, dependsOn |-> {b, c}],
               [name |-> a, dependsOn |-> {}],
               [name |-> c, dependsOn |-> {a}],
               [name |-> b, dependsOn |-> {}],
               [name |-> e, dependsOn |-> {}]>>]

MCDependsOn   == DependenciesOf(MCFile)
MCCondition   == a :> Always @@ b :> Always @@ c :> a @@ d :> c @@ e :> Never
MCOnFailure   == a :> "notify" @@ b :> "stop" @@ c :> "continue" @@ d :> "notify" @@ e :> "stop"
MCMaxAttempts == a :> 0 @@ b :> 2 @@ c :> 3 @@ d :> 1 @@ e :> 1

-----------------------------------------------------------------------------
\* Loading, on every file of at most three steps with two names, and one more in dependencies.

SmallFile == [named : BOOLEAN,
              steps : UNION {[1..n -> [name : {a, b}, dependsOn : SUBSET {a, b, c}]] : n \in 0..3}]

\* A file is handed to the engine if it is a non-empty list of different
\* steps, in some order of which every step comes after those it depends on.
HasRunningOrder(w) ==
  LET n == Len(w.steps) IN
  /\ Cardinality(Names(w)) = n
  /\ \E order \in Permutations(1..n) : \A i \in 1..n : \A dep \in w.steps[i].dependsOn :
       \E j \in 1..n : w.steps[j].name = dep /\ order[j] < order[i]

ASSUME LoadingChecked ==
  /\ Accepted(MCFile)
  /\ \A w \in SmallFile : Accepted(w) <=> w.named /\ w.steps # <<>> /\ HasRunningOrder(w)
=============================================================================
