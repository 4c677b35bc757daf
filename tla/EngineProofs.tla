---------------------------- MODULE EngineProofs ----------------------------
(***************************************************************************)
(* The safety of Engine::execute, for every accepted workflow, and what it *)
(* may take for granted of the workflows handed to it.                     *)
(***************************************************************************)
EXTENDS Engine, WorkflowFile, FiniteSetTheorems, TLAPS

Entry == [step : Step, result : Result]

-----------------------------------------------------------------------------
\* How the steps that have a result waiting change with the queue of results.

Distinct == \A i, j \in DOMAIN results : results[i].step = results[j].step => i = j

LEMMA ReturnedOfAppend ==
  ASSUME results \in Seq(Entry), NEW s \in Step, NEW r \in Result,
         results' = Append(results, [step |-> s, result |-> r]),
         s \notin Returned, Distinct
  PROVE  Returned' = Returned \cup {s} /\ Distinct'
<1>1. /\ DOMAIN results' = 1..(Len(results) + 1)
      /\ DOMAIN results = 1..Len(results)
      /\ Len(results) \in Nat
      /\ \A i \in 1..Len(results) : results'[i] = results[i]
      /\ results'[Len(results) + 1].step = s
  OBVIOUS
<1>2. \A x \in Returned' : x \in Returned \cup {s}
  BY <1>1 DEF Returned
<1>3. \A x \in Returned : x \in Returned'
  <2>1. SUFFICES ASSUME NEW i \in DOMAIN results
                 PROVE  results[i].step \in Returned'
    BY DEF Returned
  <2>2. i \in DOMAIN results' /\ results'[i] = results[i]
    BY <1>1
  <2> QED BY <2>2 DEF Returned
<1>4. s \in Returned'
  <2>1. Len(results) + 1 \in DOMAIN results'
    BY <1>1
  <2> QED BY <2>1, <1>1 DEF Returned
<1>5. \A i \in DOMAIN results : results[i].step # s
  BY DEF Returned
<1>6. Distinct'
  BY <1>1, <1>5 DEF Distinct
<1> QED BY <1>2, <1>3, <1>4, <1>6

\* Taking the head off the queue takes exactly its step out of Returned.
LEMMA ReturnedOfTail ==
  ASSUME results \in Seq(Entry), results # <<>>, results' = Tail(results), Distinct
  PROVE  Returned' = Returned \ {Head(results).step} /\ Distinct'
<1>1. /\ DOMAIN results' = 1..(Len(results) - 1)
      /\ DOMAIN results = 1..Len(results)
      /\ Len(results) \in Nat \ {0}
      /\ \A i \in 1..(Len(results) - 1) : results'[i] = results[i + 1]
      /\ Head(results) = results[1]
  OBVIOUS
<1>2. \A x \in Returned' : x \in Returned \ {Head(results).step}
  <2>1. SUFFICES ASSUME NEW i \in DOMAIN results'
                 PROVE  results'[i].step \in Returned \ {Head(results).step}
    BY DEF Returned
  <2>2. i + 1 \in DOMAIN results /\ 1 \in DOMAIN results /\ i + 1 # 1
    BY <1>1
  <2>3. results'[i].step = results[i + 1].step
    BY <1>1
  <2> QED BY <1>1, <2>2, <2>3 DEF Returned, Distinct
<1>3. \A x \in Returned \ {Head(results).step} : x \in Returned'
  <2>1. SUFFICES ASSUME NEW i \in DOMAIN results, results[i].step # results[1].step
                 PROVE  results[i].step \in Returned'
    BY <1>1 DEF Returned
  <2>2. i - 1 \in DOMAIN results' /\ results'[i - 1] = results[i]
    BY <1>1, <2>1
  <2> QED BY <2>2 DEF Returned
<1>4. Distinct'
  BY <1>1 DEF Distinct
<1> QED BY <1>2, <1>3, <1>4

\* The step at the head of the queue is one of those with a result.
LEMMA HeadIsReturned ==
  ASSUME results \in Seq(Entry), results # <<>>
  PROVE  /\ Head(results) \in Entry
         /\ Head(results).step \in Returned
<1>1. 1 \in DOMAIN results /\ Head(results) = results[1]
  OBVIOUS
<1> QED BY <1>1 DEF Returned

-----------------------------------------------------------------------------
\* Type correctness.
LEMMA FailStepType ==
  ASSUME TypeOK, NEW s \in Step, FailStep(s)
  PROVE  /\ status' \in [Step -> Status] /\ events' \in Seq(Event)
         /\ completed' \subseteq Step /\ outcome' \in Outcome
<1>1. FailureEvents(s) \in Seq(Event)
  <2>1. OnFailure[s] \in {"stop", "notify", "continue"}
    BY WorkflowAssumption
  <2>2. \A w \in {"failed", "notify"}, x \in {s, Workflow} : [what |-> w, about |-> x] \in Event
    BY DEF Event
  <2>a. CASE OnFailure[s] = "notify"
    BY <2>a, <2>2 DEF FailureEvents
  <2>b. CASE OnFailure[s] = "continue"
    BY <2>b, <2>2 DEF FailureEvents
  <2>c. CASE OnFailure[s] = "stop"
    BY <2>c, <2>2 DEF FailureEvents
  <2> QED BY <2>1, <2>a, <2>b, <2>c
<1> QED BY <1>1 DEF TypeOK, FailStep, Status, Outcome

\* An event about a step or the workflow keeps events a sequence of events.
LEMMA EmitType ==
  ASSUME TypeOK, NEW x \in Step \cup {Workflow},
         NEW w \in {"started", "running", "completed", "failed", "skipped", "notify"},
         Emit(w, x)
  PROVE  events' \in Seq(Event)
BY DEF TypeOK, Emit, Event

\* The end of an attempt (handle_step_result and what follows) keeps the types.
LEMMA AttemptOverType ==
  ASSUME TypeOK, NEW s \in Step, NEW r \in Result, NEW n, results # <<>>,
         AttemptOver(s, r, n), attempts' \in [Step -> Nat]
  PROVE  TypeOK'
<1>1. outputs' \in [Step -> OutputOf]
  BY DEF AttemptOver, RecordOutput, Result, TypeOK
<1>2. /\ todo' \subseteq Step /\ spawned' \subseteq Step
      /\ running' \subseteq Step /\ panicked' \subseteq Step
  BY DEF AttemptOver, TypeOK
<1>3. Tail(results) \in Seq([step : Step, result : Result])
  BY DEF TypeOK
<1>a. CASE CompleteStep(s) /\ results' = Tail(results) /\ pc' = "results"
  <2>1. events' \in Seq(Event)
    BY <1>a, EmitType DEF CompleteStep
  <2> QED BY <1>a, <1>1, <1>2, <1>3, <2>1 DEF CompleteStep, TypeOK, Status, PC
<1>b. CASE pc' = "retry" /\ UNCHANGED <<status, completed, events, outcome, results>>
  BY <1>b, <1>1, <1>2 DEF TypeOK, PC
<1>c. CASE /\ FailStep(s) /\ results' = Tail(results)
           /\ pc' = IF OnFailure[s] = "stop" THEN "end" ELSE "results"
  BY <1>c, <1>1, <1>2, <1>3, FailStepType DEF TypeOK, PC
<1> QED BY <1>a, <1>b, <1>c DEF AttemptOver

\* Every step of execute keeps the types.
LEMMA TypeStep == TypeOK /\ [Next]_vars => TypeOK'
<1> SUFFICES ASSUME TypeOK, [Next]_vars PROVE TypeOK'
  OBVIOUS
<1>1. CASE BeginBatch
  BY <1>1 DEF BeginBatch, TypeOK, PC, ReadySteps
<1>2. CASE NothingReady
  <2>1. events' \in Seq(Event)
    BY <1>2, EmitType DEF NothingReady, TypeOK
  <2> QED BY <1>2, <2>1 DEF NothingReady, TypeOK, PC, Outcome
<1>3. ASSUME NEW s \in Step, SkipStep(s) PROVE TypeOK'
  <2>1. events' \in Seq(Event)
    BY <1>3, EmitType DEF SkipStep
  <2> QED BY <1>3, <2>1 DEF SkipStep, TypeOK, Status
<1>4. ASSUME NEW s \in Step, SpawnStep(s) PROVE TypeOK'
  <2>1. events' \in Seq(Event)
    BY <1>4, EmitType DEF SpawnStep
  <2> QED BY <1>4, <2>1 DEF SpawnStep, TypeOK, Status
<1>5. CASE EndLaunch
  BY <1>5 DEF EndLaunch, TypeOK, PC
<1>6. ASSUME NEW s \in Step, NEW r \in Result, JoinReturned(s, r) PROVE TypeOK'
  BY <1>6 DEF JoinReturned, TypeOK
<1>7. ASSUME NEW s \in Step, JoinPanicked(s) PROVE TypeOK'
  BY <1>7 DEF JoinPanicked, TypeOK
<1>8. CASE EndJoin
  BY <1>8 DEF EndJoin, TypeOK, PC
<1>9. ASSUME NEW s \in Step, HandlePanic(s) PROVE TypeOK'
  BY <1>9, FailStepType DEF HandlePanic, TypeOK, PC
<1>10. CASE EndPanics
  BY <1>10 DEF EndPanics, TypeOK, PC
<1>11. CASE ProcessResult
  <2>1. Head(results).step \in Step /\ Head(results).result \in Result
    BY <1>11, HeadIsReturned DEF ProcessResult, TypeOK, Entry
  <2> QED BY <1>11, <2>1, AttemptOverType DEF ProcessResult, TypeOK
<1>12. CASE IntervalPanicked
  BY <1>12 DEF IntervalPanicked, Unwind, TypeOK, PC, Outcome
<1>13. ASSUME NEW s \in Step, NEW r \in Result, RetryStep(s, r) PROVE TypeOK'
  <2>0. results # <<>>
    BY <1>13 DEF RetryStep, TypeOK
  <2>2. attempts' \in [Step -> Nat]
    BY <1>13 DEF RetryStep, TypeOK
  <2> QED BY <1>13, <2>0, <2>2, AttemptOverType DEF RetryStep
<1>14. CASE RetryPanicked
  <2>1. Head(results).step \in Step
    BY <1>14, HeadIsReturned DEF RetryPanicked, TypeOK, Entry
  <2>2. attempts' \in [Step -> Nat]
    BY <1>14, <2>1 DEF RetryPanicked, TypeOK
  <2> QED BY <1>14, <2>2 DEF RetryPanicked, Unwind, TypeOK, PC, Outcome
<1>15. CASE EndResults
  BY <1>15 DEF EndResults, TypeOK, PC
<1>16. CASE UNCHANGED vars
  BY <1>16 DEF vars, TypeOK
<1> QED BY <1>1, <1>2, <1>3, <1>4, <1>5, <1>6, <1>7, <1>8, <1>9, <1>10, <1>11, <1>12,
           <1>13, <1>14, <1>15, <1>16 DEF Next, Terminated

\* The state in which execute enters its loop is well typed.
LEMMA InitType == Init => TypeOK
BY DEF Init, TypeOK, PC, Status, OutputOf, Outcome, Event

(***************************************************************************)
(* Type correctness: the statuses, sets and queues of execute keep their   *)
(* types through every batch, retry and panic.                             *)
(***************************************************************************)
THEOREM TypeCorrect == Spec => []TypeOK
BY InitType, TypeStep, PTL DEF Spec

-----------------------------------------------------------------------------
\* The inductive invariant.
IInv ==
  /\ TypeOK
  /\ Bookkeeping
  /\ DependenciesSettled
  /\ ConditionNotStale
  /\ CompletedMeansAllSettled
  /\ AttemptsBounded
  /\ NoFalseDeadlock

\* A running step settles: nothing else changes, its dependents go on unless it stops the run.
LEMMA Settling ==
  ASSUME IInv, outcome = "none", NEW s \in Step, status[s] = "running",
         FailStep(s) \/ CompleteStep(s)
  PROVE  /\ status'[s] \in {"failed", "completed"}
         /\ \A x \in Step \ {s} : status'[x] = status[x]
         /\ completed \subseteq completed'
         /\ outcome' = IF status'[s] = "failed" /\ OnFailure[s] = "stop"
                         THEN "failed" ELSE "none"
         /\ CompletedMeansSettled'
         /\ DependenciesSettled'
<1>1. /\ status'[s] \in {"failed", "completed"}
      /\ \A x \in Step \ {s} : status'[x] = status[x]
      /\ completed' = IF status'[s] = "failed" /\ OnFailure[s] = "stop"
                        THEN completed ELSE completed \cup {s}
      /\ outcome' = IF status'[s] = "failed" /\ OnFailure[s] = "stop"
                      THEN "failed" ELSE "none"
  BY DEF FailStep, CompleteStep, IInv, TypeOK
<1>2. CompletedMeansSettled'
  BY <1>1 DEF CompletedMeansSettled, Stopped, Settled, IInv, Bookkeeping
<1>3. DependenciesSettled'
  <2>1. \A x, d \in Step : status[x] # "pending" /\ d \in DependsOn[x] => d # s
    BY DEF IInv, DependenciesSettled, Settled
  <2>2. \A x \in Step : DependsOn[x] \subseteq Step
    BY WorkflowAssumption
  <2> QED BY <1>1, <2>1, <2>2 DEF IInv, DependenciesSettled
<1> QED BY <1>1, <1>2, <1>3

\* The output of a running step is not one that a condition was decided on.
LEMMA SettlingKeepsDecisions ==
  ASSUME IInv, NEW s \in Step, status[s] = "running",
         status'[s] # "pending", status'[s] # "skipped",
         \A x \in Step \ {s} : status'[x] = status[x],
         \A x \in Step \ {s} : outputs'[x] = outputs[x]
  PROVE  ConditionNotStale'
<1> SUFFICES ASSUME NEW x \in Step, status'[x] # "pending", Condition[x] \in DependsOn[x]
             PROVE  status'[x] = "skipped" <=> ~IsTruthy(outputs'[Condition[x]])
  BY DEF ConditionNotStale, IsTruthy
<1>1. status[x] # "pending"
  OBVIOUS
<1>2. Condition[x] \in Step
  BY WorkflowAssumption
<1>3. Condition[x] # s
  BY <1>1, <1>2 DEF IInv, DependenciesSettled, Settled
<1>4. outputs'[Condition[x]] = outputs[Condition[x]]
  BY <1>2, <1>3
<1>5. status[x] = "skipped" <=> ~IsTruthy(outputs[Condition[x]])
  BY <1>1 DEF IInv, ConditionNotStale
<1> QED BY <1>4, <1>5

\* With nothing ready and nothing stopped, every step is in completed.
LEMMA NothingLeft ==
  ASSUME IInv, ReadySteps = {}
  PROVE  completed = Step
<1> DEFINE T == Step \ completed
<1> SUFFICES ASSUME T # {} PROVE FALSE
  BY DEF IInv, TypeOK
<1>1. PICK s \in T : DependsOn[s] \cap T = {}
  BY AcyclicAssumption
<1>2. DependsOn[s] \subseteq completed
  BY <1>1, WorkflowAssumption
<1> QED BY <1>2 DEF ReadySteps
-----------------------------------------------------------------------------
\* Every action preserves the invariant.

\* The invariant holds when execute enters its loop.
LEMMA InitIInv == Init => IInv
<1> SUFFICES ASSUME Init PROVE IInv
  OBVIOUS
<1>1. TypeOK
  BY InitType
<1>2. Bookkeeping
  BY DEF Init, Bookkeeping, Control, OneResultEach, RunningMeansInHand, InHand, LaunchIsReady,
         CompletedMeansSettled, Settled, Stopped, AttemptsCounted, Returned
<1>3. AttemptsBounded
  BY WorkflowAssumption DEF Init, AttemptsBounded
<1> QED BY <1>1, <1>2, <1>3
        DEF IInv, Init, DependenciesSettled, ConditionNotStale, CompletedMeansAllSettled,
            NoFalseDeadlock

\* The actions that only move execute from one loop to the next.
LEMMA LoopSteps ==
  ASSUME IInv, TypeOK',
         BeginBatch \/ EndLaunch \/ EndJoin \/ EndPanics \/ EndResults
  PROVE  IInv'
<1>1. UNCHANGED <<completed, status, outputs, attempts, outcome, results, running>>
  BY DEF BeginBatch, EndLaunch, EndJoin, EndPanics, EndResults
<1>2. Returned' = Returned
  BY <1>1 DEF Returned
<1>3. /\ DependenciesSettled' /\ ConditionNotStale' /\ CompletedMeansAllSettled'
      /\ AttemptsBounded' /\ NoFalseDeadlock' /\ CompletedMeansSettled'
  BY <1>1 DEF IInv, Bookkeeping, DependenciesSettled, ConditionNotStale, IsTruthy, AttemptsBounded,
              CompletedMeansAllSettled, NoFalseDeadlock, CompletedMeansSettled, Stopped
<1>4. Control' /\ OneResultEach'
  <2>1. results = <<>> => Returned = {}
    BY DEF Returned
  <2> QED BY <1>1, <1>2, <2>1 DEF IInv, TypeOK, Bookkeeping, Control, OneResultEach,
                    BeginBatch, EndLaunch, EndJoin, EndPanics, EndResults
<1>5. RunningMeansInHand'
  BY <1>1, <1>2 DEF IInv, TypeOK, Bookkeeping, Control, RunningMeansInHand, InHand, Returned,
                    BeginBatch, EndLaunch, EndJoin, EndPanics, EndResults
<1>6. LaunchIsReady'
  <2>1. ASSUME BeginBatch, NEW s \in ReadySteps PROVE status[s] = "pending"
    <3>1. s \in Step \ completed /\ status[s] \in Status
      BY DEF ReadySteps, IInv, TypeOK
    <3>2. outcome = "none" /\ InHand = {}
      BY <2>1 DEF BeginBatch, IInv, Bookkeeping, Control, InHand
    <3>3. status[s] # "running"
      BY <3>1, <3>2 DEF IInv, Bookkeeping, RunningMeansInHand
    <3>4. status[s] \notin Settled
      BY <3>1, <3>2 DEF IInv, Bookkeeping, CompletedMeansSettled
    <3> QED BY <3>1, <3>3, <3>4 DEF Status, Settled
  <2> QED BY <1>1, <2>1 DEF IInv, Bookkeeping, Control, LaunchIsReady, ReadySteps,
                    BeginBatch, EndLaunch, EndJoin, EndPanics, EndResults
<1>7. AttemptsCounted'
  BY <1>1 DEF IInv, Bookkeeping, AttemptsCounted, BeginBatch, EndLaunch, EndJoin, EndPanics,
              EndResults
<1> QED BY <1>3, <1>4, <1>5, <1>6, <1>7 DEF IInv, Bookkeeping
\* No step is ready: execute returns, and everything has settled.
LEMMA NothingReadyStep ==
  ASSUME IInv, TypeOK', NothingReady
  PROVE  IInv'
<1>1. completed = Step
  BY NothingLeft DEF NothingReady
<1>2. outcome' = "completed" /\ pc' = "end" /\ outcome = "none"
  BY <1>1 DEF NothingReady, AllAccounted, IInv, Bookkeeping, Control
<1>3. UNCHANGED <<completed, status, outputs, attempts, results, running, panicked, todo>>
  BY DEF NothingReady
<1>4. Returned' = Returned
  BY <1>3 DEF Returned
<1>5. Control' /\ OneResultEach'
  BY <1>2, <1>3, <1>4 DEF IInv, Bookkeeping, Control, OneResultEach, NothingReady
<1>6. RunningMeansInHand' /\ LaunchIsReady' /\ AttemptsCounted' /\ NoFalseDeadlock'
  BY <1>2, <1>3 DEF IInv, Bookkeeping, RunningMeansInHand, LaunchIsReady, AttemptsCounted,
                    NoFalseDeadlock
<1>7. CompletedMeansSettled' /\ CompletedMeansAllSettled'
  BY <1>1, <1>2, <1>3 DEF IInv, Bookkeeping, CompletedMeansSettled, Stopped,
                          CompletedMeansAllSettled
<1>8. DependenciesSettled' /\ ConditionNotStale' /\ AttemptsBounded'
  BY <1>3 DEF IInv, DependenciesSettled, ConditionNotStale, IsTruthy, AttemptsBounded
<1> QED BY <1>5, <1>6, <1>7, <1>8 DEF IInv, Bookkeeping

\* A step of the launch loop, before its condition is evaluated.
LEMMA LaunchFacts ==
  ASSUME IInv, pc = "launch", NEW s \in todo
  PROVE  /\ s \in Step /\ status[s] = "pending" /\ outcome = "none"
         /\ s \notin completed /\ s \notin spawned /\ InHand = spawned
         /\ \A d \in DependsOn[s] : d \in Step /\ d # s /\ d \in completed /\ status[d] \in Settled
<1>1. s \in Step /\ status[s] = "pending" /\ outcome = "none" /\ InHand = spawned
  BY DEF IInv, TypeOK, Bookkeeping, LaunchIsReady, Control, InHand
<1>2. s \notin completed
  BY <1>1 DEF IInv, Bookkeeping, CompletedMeansSettled, Settled
<1>3. s \notin spawned
  BY <1>1 DEF IInv, Bookkeeping, RunningMeansInHand
<1>4. \A d \in DependsOn[s] : d \in Step /\ d \in completed
  BY <1>1, WorkflowAssumption DEF IInv, Bookkeeping, LaunchIsReady
<1>5. \A d \in DependsOn[s] : status[d] \in Settled
  BY <1>4 DEF IInv, Bookkeeping, CompletedMeansSettled
<1> QED BY <1>1, <1>2, <1>3, <1>4, <1>5

\* What taking up a ready step, by a skip or a launch, leaves true of the others.
LEMMA TakingUp ==
  ASSUME IInv, pc = "launch", NEW s \in todo, NEW st \in {"skipped", "running"},
         status' = [status EXCEPT ![s] = st],
         completed \subseteq completed', outputs' = outputs,
         st = "skipped" <=> ~EvaluateCondition(Condition[s])
  PROVE  DependenciesSettled' /\ ConditionNotStale'
<1>1. /\ status'[s] = st
      /\ \A x \in Step \ {s} : status'[x] = status[x]
  BY LaunchFacts DEF IInv, TypeOK
<1>2. DependenciesSettled'
  <2>1. ASSUME NEW x \in Step \ {s}, status[x] # "pending", NEW d \in DependsOn[x]
        PROVE  d \in Step \ {s} /\ d \in completed /\ status[d] \in Settled
    <3>1. d \in Step
      BY WorkflowAssumption
    <3>2. d \in completed /\ status[d] \in Settled
      BY <2>1 DEF IInv, DependenciesSettled
    <3> QED BY <3>1, <3>2, LaunchFacts
  <2> QED BY <1>1, <2>1, LaunchFacts DEF DependenciesSettled
<1>3. ConditionNotStale'
  <2> SUFFICES ASSUME NEW x \in Step, status'[x] # "pending", Condition[x] \in DependsOn[x]
               PROVE  status'[x] = "skipped" <=> ~IsTruthy(outputs[Condition[x]])
    BY DEF ConditionNotStale, IsTruthy
  <2>1. CASE x = s
    <3>1. Condition[s] \in Step /\ Condition[s] # Always /\ Condition[s] # Never
      BY <2>1, LaunchFacts, WorkflowAssumption
    <3> QED BY <2>1, <1>1, <3>1 DEF EvaluateCondition
  <2>2. CASE x # s
    BY <2>2, <1>1 DEF IInv, ConditionNotStale
  <2> QED BY <2>1, <2>2
<1> QED BY <1>2, <1>3

\* A step skipped on its condition keeps the invariant.
LEMMA SkipStepStep ==
  ASSUME IInv, TypeOK', NEW s \in Step, SkipStep(s)
  PROVE  IInv'
<1>1. s \in todo /\ pc = "launch"
  BY DEF SkipStep
<1>2. DependenciesSettled' /\ ConditionNotStale'
  BY <1>1, TakingUp DEF SkipStep
<1>3. /\ status'[s] = "skipped" /\ outcome' = "none" /\ completed' = completed \cup {s}
      /\ \A x \in Step \ {s} : status'[x] = status[x]
  BY <1>1, LaunchFacts DEF SkipStep, IInv, TypeOK
<1>4. UNCHANGED <<pc, results, running, panicked, spawned, attempts, outcome>>
  BY DEF SkipStep
<1>5. Returned' = Returned
  BY <1>4 DEF Returned
<1>6. Control' /\ OneResultEach'
  BY <1>1, <1>4, <1>5 DEF IInv, Bookkeeping, Control, OneResultEach
<1>7. RunningMeansInHand'
  <2>1. InHand' = spawned
    BY <1>1, <1>4 DEF InHand
  <2> QED BY <1>1, <1>3, <2>1, LaunchFacts DEF IInv, Bookkeeping, RunningMeansInHand
<1>8. LaunchIsReady'
  BY <1>1, <1>3 DEF IInv, TypeOK, Bookkeeping, LaunchIsReady, SkipStep
<1>9. CompletedMeansSettled'
  BY <1>3, <1>4 DEF IInv, Bookkeeping, CompletedMeansSettled, Stopped, Settled
<1>10. AttemptsCounted'
  BY <1>1, <1>3, <1>4 DEF IInv, Bookkeeping, AttemptsCounted
<1>11. AttemptsBounded' /\ NoFalseDeadlock' /\ CompletedMeansAllSettled'
  BY <1>3, <1>4 DEF IInv, AttemptsBounded, NoFalseDeadlock, CompletedMeansAllSettled
<1> QED BY <1>2, <1>6, <1>7, <1>8, <1>9, <1>10, <1>11 DEF IInv, Bookkeeping

\* A launched step keeps the invariant.
LEMMA SpawnStepStep ==
  ASSUME IInv, TypeOK', NEW s \in Step, SpawnStep(s)
  PROVE  IInv'
<1>1. s \in todo /\ pc = "launch"
  BY DEF SpawnStep
<1>2. DependenciesSettled' /\ ConditionNotStale'
  BY <1>1, TakingUp DEF SpawnStep
<1>3. /\ status'[s] = "running" /\ outcome' = "none"
      /\ \A x \in Step \ {s} : status'[x] = status[x]
  BY <1>1, LaunchFacts DEF SpawnStep, IInv, TypeOK
<1>4. /\ UNCHANGED <<pc, results, panicked, outcome, completed>>
      /\ spawned' = spawned \cup {s} /\ running' = running \cup {s}
  BY DEF SpawnStep
<1>5. results = <<>> /\ Returned = {} /\ Returned' = {}
  BY <1>1, <1>4 DEF Returned, IInv, Bookkeeping, Control
<1>6. Control' /\ OneResultEach'
  BY <1>1, <1>4, <1>5 DEF IInv, Bookkeeping, Control, OneResultEach
<1>7. RunningMeansInHand'
  <2>1. InHand' = spawned \cup {s}
    BY <1>1, <1>4 DEF InHand
  <2> QED BY <1>1, <1>3, <2>1, LaunchFacts DEF IInv, Bookkeeping, RunningMeansInHand
<1>8. LaunchIsReady'
  BY <1>1, <1>3, <1>4 DEF IInv, TypeOK, Bookkeeping, LaunchIsReady, SpawnStep
<1>9. CompletedMeansSettled'
  BY <1>1, <1>3, <1>4, LaunchFacts DEF IInv, Bookkeeping, CompletedMeansSettled, Stopped, Settled
<1>10. attempts[s] = 0 /\ attempts'[s] = 1 /\ \A x \in Step \ {s} : attempts'[x] = attempts[x]
  BY <1>1, LaunchFacts DEF SpawnStep, IInv, TypeOK, Bookkeeping, AttemptsCounted
<1>11. AttemptsCounted'
  BY <1>1, <1>3, <1>4, <1>10 DEF IInv, Bookkeeping, AttemptsCounted
<1>12. AttemptsBounded'
  BY <1>10, WorkflowAssumption DEF IInv, AttemptsBounded
<1>13. NoFalseDeadlock' /\ CompletedMeansAllSettled'
  BY <1>3 DEF IInv, NoFalseDeadlock, CompletedMeansAllSettled
<1> QED BY <1>2, <1>6, <1>7, <1>8, <1>9, <1>11, <1>12, <1>13 DEF IInv, Bookkeeping
\* join_next: a task leaves the JoinSet, with a result or without.
LEMMA JoinStep ==
  ASSUME IInv, TypeOK', NEW s \in Step,
         (\E r \in Result : JoinReturned(s, r)) \/ JoinPanicked(s)
  PROVE  IInv'
<1>1. /\ pc = "join" /\ s \in running /\ running' = running \ {s}
      /\ UNCHANGED <<pc, completed, status, outputs, todo, spawned, panicked, attempts,
                     outcome>>
  BY DEF JoinReturned, JoinPanicked
<1>2. s \notin Returned /\ Distinct /\ results \in Seq(Entry)
  BY <1>1 DEF IInv, Bookkeeping, OneResultEach, Distinct, TypeOK, Entry
<1>3. Returned' \in {Returned, Returned \cup {s}} /\ Distinct'
  <2>1. CASE JoinPanicked(s)
    BY <2>1, <1>2 DEF JoinPanicked, Returned, Distinct
  <2>2. ASSUME NEW r \in Result, JoinReturned(s, r)
        PROVE  Returned' = Returned \cup {s} /\ Distinct'
    BY <2>2, <1>2, ReturnedOfAppend DEF JoinReturned
  <2> QED BY <2>1, <2>2
<1>4. Control'
  BY <1>1, <1>3 DEF IInv, Bookkeeping, Control
<1>5. OneResultEach'
  <2>1. panicked' = {}
    BY <1>1 DEF IInv, Bookkeeping, Control
  <2> QED BY <1>1, <1>3, <2>1 DEF IInv, Bookkeeping, OneResultEach, Distinct
<1>6. RunningMeansInHand'
  BY <1>1 DEF IInv, Bookkeeping, RunningMeansInHand, InHand
<1>7. LaunchIsReady' /\ CompletedMeansSettled' /\ AttemptsCounted'
  BY <1>1 DEF IInv, Bookkeeping, LaunchIsReady, CompletedMeansSettled, Stopped, AttemptsCounted
<1>8. /\ DependenciesSettled' /\ ConditionNotStale' /\ CompletedMeansAllSettled'
      /\ AttemptsBounded' /\ NoFalseDeadlock'
  BY <1>1 DEF IInv, DependenciesSettled, ConditionNotStale, IsTruthy, CompletedMeansAllSettled,
              AttemptsBounded, NoFalseDeadlock
<1> QED BY <1>4, <1>5, <1>6, <1>7, <1>8 DEF IInv, Bookkeeping

\* A panicked step that is settled keeps the invariant.
LEMMA HandlePanicStep ==
  ASSUME IInv, TypeOK', NEW s \in Step, HandlePanic(s)
  PROVE  IInv'
<1>1. /\ pc = "panics" /\ s \in panicked /\ panicked' = panicked \ {s} /\ FailStep(s)
      /\ UNCHANGED <<outputs, todo, spawned, running, results, attempts>>
  BY DEF HandlePanic
<1>2. outcome = "none" /\ InHand = panicked \cup Returned /\ status[s] = "running"
  BY <1>1 DEF IInv, Bookkeeping, Control, InHand, RunningMeansInHand
<1>3. Returned' = Returned /\ s \notin Returned
  BY <1>1 DEF Returned, IInv, Bookkeeping, OneResultEach
<1>4. /\ status'[s] = "failed"
      /\ outcome' = IF OnFailure[s] = "stop" THEN "failed" ELSE "none"
      /\ pc' = IF OnFailure[s] = "stop" THEN "end" ELSE "panics"
  BY <1>1, <1>2, Settling DEF HandlePanic, FailStep, IInv, TypeOK
<1>5. /\ CompletedMeansSettled' /\ DependenciesSettled'
      /\ \A x \in Step \ {s} : status'[x] = status[x]
  BY <1>1, <1>2, Settling
<1>6. Control' /\ OneResultEach'
  BY <1>1, <1>3, <1>4 DEF IInv, Bookkeeping, Control, OneResultEach
<1>7. RunningMeansInHand'
  <2> SUFFICES ASSUME outcome' = "none"
               PROVE  \A x \in Step : status'[x] = "running" <=> x \in InHand'
    BY DEF RunningMeansInHand
  <2>1. pc' = "panics" /\ InHand' = (panicked \ {s}) \cup Returned
    BY <1>1, <1>3, <1>4 DEF InHand
  <2> QED BY <2>1, <1>2, <1>3, <1>4, <1>5 DEF IInv, Bookkeeping, RunningMeansInHand
<1>8. LaunchIsReady'
  BY <1>1 DEF IInv, Bookkeeping, Control, LaunchIsReady
<1>9. AttemptsCounted' /\ AttemptsBounded'
  BY <1>1, <1>2, <1>4, <1>5 DEF IInv, Bookkeeping, AttemptsCounted, AttemptsBounded
<1>10. ConditionNotStale'
  BY <1>1, <1>2, <1>4, <1>5, SettlingKeepsDecisions
<1>11. CompletedMeansAllSettled' /\ NoFalseDeadlock'
  BY <1>4 DEF CompletedMeansAllSettled, NoFalseDeadlock
<1> QED BY <1>5, <1>6, <1>7, <1>8, <1>9, <1>10, <1>11 DEF IInv, Bookkeeping

\* Attempt n of the step at the head of the results has come back.
LEMMA AttemptOverStep ==
  ASSUME IInv, TypeOK', NEW s \in Step, NEW r \in Result, NEW n \in Nat,
         results # <<>>, s = Head(results).step, pc \in {"results", "retry"},
         AttemptOver(s, r, n),
         attempts'[s] = n, n = 1 \/ n <= MaxAttempts[s],
         \A x \in Step \ {s} : attempts'[x] = attempts[x]
  PROVE  IInv'
<1>1. /\ UNCHANGED <<todo, spawned, running, panicked>>
      /\ \A x \in Step \ {s} : outputs'[x] = outputs[x]
  BY DEF AttemptOver, RecordOutput, IInv, TypeOK
<1>2. /\ outcome = "none" /\ panicked = {} /\ running = {} /\ todo = {}
      /\ InHand = Returned /\ s \in Returned /\ status[s] = "running"
  <2>1. s \in Returned
    BY HeadIsReturned DEF IInv, TypeOK, Entry
  <2> QED BY <2>1 DEF IInv, Bookkeeping, Control, InHand, RunningMeansInHand
<1>3. Distinct /\ results \in Seq(Entry)
  BY DEF IInv, Bookkeeping, OneResultEach, Distinct, TypeOK, Entry
<1>4. AttemptsBounded'
  <2> SUFFICES ASSUME NEW x \in Step
               PROVE  attempts'[x] <= IF MaxAttempts[x] = 0 THEN 1 ELSE MaxAttempts[x]
    BY DEF AttemptsBounded
  <2>1. CASE x = s
    <3>1. MaxAttempts[s] \in Nat
      BY WorkflowAssumption
    <3> QED BY <2>1, <3>1
  <2>2. CASE x # s
    BY <2>2 DEF IInv, AttemptsBounded
  <2> QED BY <2>1, <2>2
<1>5. \A x \in Step \ {s} : /\ status[x] = "pending" => attempts'[x] = 0
                            /\ status[x] = "running" => attempts'[x] = 1
  BY <1>2 DEF IInv, Bookkeeping, AttemptsCounted
<1>a. CASE /\ ~r.ok /\ n < MaxAttempts[s] /\ pc' = "retry"
           /\ UNCHANGED <<status, completed, events, outcome, results>>
  <2>1. Returned' = Returned
    BY <1>a DEF Returned
  <2>2. Control' /\ OneResultEach' /\ LaunchIsReady'
    BY <1>a, <1>1, <1>2, <2>1 DEF IInv, Bookkeeping, Control, OneResultEach, LaunchIsReady
  <2>3. RunningMeansInHand'
    <3>1. InHand' = Returned
      BY <1>a, <1>1, <1>2, <2>1 DEF InHand
    <3> QED BY <1>a, <1>2, <3>1 DEF IInv, Bookkeeping, RunningMeansInHand
  <2>4. CompletedMeansSettled' /\ DependenciesSettled'
    BY <1>a DEF IInv, Bookkeeping, CompletedMeansSettled, Stopped, DependenciesSettled
  <2>5. AttemptsCounted'
    BY <1>a, <1>2, <1>5 DEF AttemptsCounted
  <2>6. ConditionNotStale'
    BY <1>a, <1>1, <1>2, SettlingKeepsDecisions
  <2>7. CompletedMeansAllSettled' /\ NoFalseDeadlock'
    BY <1>a, <1>2 DEF CompletedMeansAllSettled, NoFalseDeadlock
  <2> QED BY <1>4, <2>2, <2>3, <2>4, <2>5, <2>6, <2>7 DEF IInv, Bookkeeping
<1>b. CASE /\ FailStep(s) \/ CompleteStep(s)
           /\ results' = Tail(results)
           /\ pc' = IF outcome' = "none" THEN "results" ELSE "end"
  <2>1. Returned' = Returned \ {s} /\ Distinct'
    BY <1>b, <1>3, ReturnedOfTail
  <2>2. /\ status'[s] \in {"failed", "completed"} /\ outcome' \in {"none", "failed"}
        /\ \A x \in Step \ {s} : status'[x] = status[x]
        /\ CompletedMeansSettled' /\ DependenciesSettled'
    BY <1>b, <1>2, Settling
  <2>3. Control' /\ OneResultEach' /\ LaunchIsReady'
    BY <1>b, <1>1, <1>2, <2>1, <2>2 DEF Control, OneResultEach, LaunchIsReady, Distinct
  <2>4. RunningMeansInHand'
    <3> SUFFICES ASSUME outcome' = "none"
                 PROVE  \A x \in Step : status'[x] = "running" <=> x \in InHand'
      BY DEF RunningMeansInHand
    <3>1. InHand' = Returned \ {s}
      BY <1>b, <1>1, <1>2, <2>1 DEF InHand
    <3> QED BY <1>2, <2>2, <3>1 DEF IInv, Bookkeeping, RunningMeansInHand
  <2>5. AttemptsCounted'
    BY <1>b, <1>5, <2>2 DEF AttemptsCounted
  <2>6. ConditionNotStale'
    BY <1>1, <1>2, <2>2, SettlingKeepsDecisions
  <2>7. CompletedMeansAllSettled' /\ NoFalseDeadlock'
    BY <2>2 DEF CompletedMeansAllSettled, NoFalseDeadlock
  <2> QED BY <1>4, <2>2, <2>3, <2>4, <2>5, <2>6, <2>7 DEF IInv, Bookkeeping
<1> QED BY <1>2, <1>a, <1>b, Settling DEF AttemptOver, CompleteStep, FailStep

\* A panic of execute itself: it is over, whatever it had in hand.
LEMMA UnwindStep ==
  ASSUME IInv, TypeOK', results # <<>>,
         IntervalPanicked \/ RetryPanicked
  PROVE  IInv'
<1>1. /\ pc \in {"results", "retry"} /\ pc' = "end" /\ outcome' = "panicked"
      /\ UNCHANGED <<completed, status, outputs, todo, spawned, running, results, panicked>>
  BY DEF IntervalPanicked, RetryPanicked, Unwind
<1>2. Returned' = Returned /\ outcome = "none"
  BY <1>1 DEF Returned, IInv, Bookkeeping, Control
<1>3. Control' /\ OneResultEach' /\ RunningMeansInHand' /\ LaunchIsReady'
  BY <1>1, <1>2 DEF IInv, Bookkeeping, Control, OneResultEach, RunningMeansInHand, LaunchIsReady
<1>4. CompletedMeansSettled' /\ DependenciesSettled' /\ ConditionNotStale'
  BY <1>1, <1>2 DEF IInv, Bookkeeping, CompletedMeansSettled, Stopped, DependenciesSettled,
                    ConditionNotStale, IsTruthy
<1>5. AttemptsCounted' /\ AttemptsBounded'
  <2>1. CASE UNCHANGED attempts
    BY <1>1, <2>1 DEF IInv, Bookkeeping, AttemptsCounted, AttemptsBounded
  <2>2. CASE RetryPanicked
    <3> DEFINE s == Head(results).step
    <3>1. s \in Step /\ s \in Returned
      BY HeadIsReturned DEF IInv, TypeOK, Entry
    <3>2. status[s] = "running" /\ attempts[s] < MaxAttempts[s]
      BY <2>2, <3>1, <1>2 DEF RetryPanicked, IInv, Bookkeeping, RunningMeansInHand, InHand,
                             AttemptsCounted
    <3>3. /\ attempts'[s] = attempts[s] + 1
          /\ \A x \in Step \ {s} : attempts'[x] = attempts[x]
      BY <2>2, <3>1 DEF RetryPanicked, IInv, TypeOK
    <3>4. attempts[s] \in Nat /\ MaxAttempts[s] \in Nat
      BY <3>1, WorkflowAssumption DEF IInv, TypeOK
    <3> HIDE DEF s
    <3>5. AttemptsBounded'
      BY <3>1, <3>2, <3>3, <3>4 DEF IInv, AttemptsBounded
    <3>6. AttemptsCounted'
      BY <1>1, <3>2, <3>3 DEF IInv, Bookkeeping, AttemptsCounted
    <3> QED BY <3>5, <3>6
  <2> QED BY <2>1, <2>2 DEF IntervalPanicked
<1>6. CompletedMeansAllSettled' /\ NoFalseDeadlock'
  BY <1>1 DEF CompletedMeansAllSettled, NoFalseDeadlock
<1> QED BY <1>3, <1>4, <1>5, <1>6 DEF IInv, Bookkeeping
-----------------------------------------------------------------------------
\* The invariant is inductive: one case per action of execute.
LEMMA NextIInv == IInv /\ [Next]_vars => IInv'
<1> SUFFICES ASSUME IInv, [Next]_vars PROVE IInv'
  OBVIOUS
<1>0. TypeOK'
  BY TypeStep DEF IInv
<1>1. CASE BeginBatch \/ EndLaunch \/ EndJoin \/ EndPanics \/ EndResults
  BY <1>0, <1>1, LoopSteps
<1>2. CASE NothingReady
  BY <1>0, <1>2, NothingReadyStep
<1>3. ASSUME NEW s \in Step, SkipStep(s) \/ SpawnStep(s) PROVE IInv'
  BY <1>0, <1>3, SkipStepStep, SpawnStepStep
<1>4. ASSUME NEW s \in Step, NEW r \in Result, JoinReturned(s, r) PROVE IInv'
  BY <1>0, <1>4, JoinStep
<1>5. ASSUME NEW s \in Step, JoinPanicked(s) PROVE IInv'
  BY <1>0, <1>5, JoinStep
<1>6. ASSUME NEW s \in Step, HandlePanic(s) PROVE IInv'
  BY <1>0, <1>6, HandlePanicStep
<1>7. CASE ProcessResult
  <2> DEFINE s == Head(results).step
             r == Head(results).result
  <2>1. results # <<>> /\ pc = "results" /\ outcome = "none"
    BY <1>7 DEF ProcessResult, IInv, Bookkeeping, Control
  <2>2. s \in Step /\ r \in Result /\ s \in Returned
    BY <2>1, HeadIsReturned DEF IInv, TypeOK, Entry
  <2>3. attempts[s] = 1 /\ attempts' = attempts
    BY <1>7, <2>1, <2>2 DEF ProcessResult, IInv, Bookkeeping, RunningMeansInHand, InHand,
                            AttemptsCounted
  <2> QED BY <1>0, <1>7, <2>1, <2>2, <2>3, AttemptOverStep DEF ProcessResult
<1>8. ASSUME NEW s \in Step, NEW r \in Result, RetryStep(s, r) PROVE IInv'
  <2>1. results # <<>> /\ pc = "retry" /\ outcome = "none" /\ s = Head(results).step
    BY <1>8 DEF RetryStep, IInv, TypeOK, Bookkeeping, Control
  <2>2. s \in Returned
    BY <2>1, HeadIsReturned DEF IInv, TypeOK, Entry
  <2>3. attempts[s] < MaxAttempts[s]
    BY <2>1, <2>2 DEF IInv, Bookkeeping, RunningMeansInHand, InHand, AttemptsCounted
  <2>4. /\ attempts[s] \in Nat /\ MaxAttempts[s] \in Nat
        /\ attempts'[s] = attempts[s] + 1
        /\ \A x \in Step \ {s} : attempts'[x] = attempts[x]
    BY <1>8, WorkflowAssumption DEF RetryStep, IInv, TypeOK
  <2>5. attempts[s] + 1 \in Nat /\ attempts[s] + 1 <= MaxAttempts[s]
    BY <2>3, <2>4
  <2> QED BY <1>0, <1>8, <2>1, <2>4, <2>5, AttemptOverStep DEF RetryStep
<1>9. CASE IntervalPanicked \/ RetryPanicked
  <2>1. results # <<>>
    BY <1>9 DEF IntervalPanicked, RetryPanicked, IInv, TypeOK
  <2> QED BY <1>0, <1>9, <2>1, UnwindStep
<1>10. CASE UNCHANGED vars
  <2>1. Returned' = Returned
    BY <1>10 DEF Returned, vars
  <2> QED BY <1>0, <1>10, <2>1
     DEF vars, IInv, Bookkeeping, Control, OneResultEach, RunningMeansInHand, InHand, LaunchIsReady,
         CompletedMeansSettled, Stopped, AttemptsCounted, DependenciesSettled, ConditionNotStale,
         IsTruthy, CompletedMeansAllSettled, AttemptsBounded, NoFalseDeadlock
<1> QED BY <1>1, <1>2, <1>3, <1>4, <1>5, <1>6, <1>7, <1>8, <1>9, <1>10 DEF Next, Terminated

\* What execute's bookkeeping, the settled dependencies and the decided conditions amount to
\* together is invariant; every theorem below is read off it.
THEOREM Invariant == Spec => []IInv
BY InitIInv, NextIInv, PTL DEF Spec

(***************************************************************************)
(* The sets of a batch account for exactly the running steps, and          *)
(* completed for exactly the settled ones that did not stop the run.       *)
(***************************************************************************)
THEOREM BookkeepingHolds == Spec => []Bookkeeping
<1>1. IInv => Bookkeeping
  BY DEF IInv
<1> QED BY <1>1, Invariant, PTL

(***************************************************************************)
(* ready_steps never lets a step be taken up before its dependencies.      *)
(***************************************************************************)
THEOREM DependenciesFirst == Spec => []DependenciesSettled
<1>1. IInv => DependenciesSettled
  BY DEF IInv
<1> QED BY <1>1, Invariant, PTL

(***************************************************************************)
(* A condition on a dependency is decided on that step's final output.     *)
(***************************************************************************)
THEOREM ConditionsHold == Spec => []ConditionNotStale
<1>1. IInv => ConditionNotStale
  BY DEF IInv
<1> QED BY <1>1, Invariant, PTL

(***************************************************************************)
(* The error "deadlock detected" is unreachable: with an acyclic graph and *)
(* no stopped step, some step is ready until completed holds them all.     *)
(***************************************************************************)
THEOREM DeadlockUnreachable == Spec => []NoFalseDeadlock
<1>1. IInv => NoFalseDeadlock
  BY DEF IInv
<1> QED BY <1>1, Invariant, PTL

(***************************************************************************)
(* A run that completes has settled every step, and stopped at none.       *)
(***************************************************************************)
THEOREM CompletionIsTotal == Spec => []CompletedMeansAllSettled
<1>1. IInv => CompletedMeansAllSettled
  BY DEF IInv
<1> QED BY <1>1, Invariant, PTL

(***************************************************************************)
(* No step is spawned more often than its retry configuration allows.      *)
(***************************************************************************)
THEOREM RetriesBounded == Spec => []AttemptsBounded
<1>1. IInv => AttemptsBounded
  BY DEF IInv
<1> QED BY <1>1, Invariant, PTL

-----------------------------------------------------------------------------
\* What a step of execute does to a step and its output.
LEMMA SettledStaysSettled ==
  ASSUME IInv, [Next]_vars, NEW s \in Step, status[s] \in Settled
  PROVE  /\ status'[s] = status[s] /\ outputs'[s] = outputs[s] /\ attempts'[s] = attempts[s]
         /\ s \in completed => s \in completed'
<1>0. status[s] # "pending" /\ status[s] # "running"
  BY DEF Settled
<1>1. \A x \in todo : x # s
  BY <1>0 DEF IInv, Bookkeeping, LaunchIsReady
<1>2. outcome = "none" => s \notin InHand
  BY <1>0 DEF IInv, Bookkeeping, RunningMeansInHand
<1>3. ASSUME pc \in {"results", "retry"}, results # <<>>
      PROVE  s # Head(results).step
  <2>1. Head(results).step \in InHand /\ outcome = "none"
    BY <1>3, HeadIsReturned DEF IInv, TypeOK, Entry, Bookkeeping, Control, InHand
  <2> QED BY <2>1, <1>2
<1>4. ASSUME NEW x \in Step, NEW r \in Result, NEW n, x # s, AttemptOver(x, r, n)
      PROVE  /\ status'[s] = status[s] /\ outputs'[s] = outputs[s]
             /\ s \in completed => s \in completed'
  BY <1>4 DEF AttemptOver, RecordOutput, CompleteStep, FailStep, IInv, TypeOK
<1>5. CASE \/ BeginBatch \/ NothingReady \/ EndLaunch \/ EndJoin \/ EndPanics \/ EndResults
           \/ IntervalPanicked \/ UNCHANGED vars
           \/ \E x \in Step, r \in Result : JoinReturned(x, r)
           \/ \E x \in Step : JoinPanicked(x)
  BY <1>5 DEF BeginBatch, NothingReady, EndLaunch, EndJoin, EndPanics, EndResults,
              IntervalPanicked, Unwind, vars, JoinReturned, JoinPanicked
<1>6. ASSUME NEW x \in Step, SkipStep(x) \/ SpawnStep(x)
      PROVE  /\ status'[s] = status[s] /\ outputs'[s] = outputs[s]
             /\ attempts'[s] = attempts[s] /\ (s \in completed => s \in completed')
  BY <1>1, <1>6 DEF SkipStep, SpawnStep, IInv, TypeOK
<1>7. ASSUME NEW x \in Step, HandlePanic(x)
      PROVE  /\ status'[s] = status[s] /\ outputs'[s] = outputs[s]
             /\ attempts'[s] = attempts[s] /\ (s \in completed => s \in completed')
  <2>1. x \in InHand /\ outcome = "none"
    BY <1>7 DEF HandlePanic, InHand, IInv, Bookkeeping, Control
  <2> QED BY <1>2, <1>7, <2>1 DEF HandlePanic, FailStep, IInv, TypeOK
<1>8. CASE ProcessResult
  <2>1. Head(results).step \in Step /\ Head(results).result \in Result
    BY <1>8, HeadIsReturned DEF ProcessResult, IInv, TypeOK, Entry
  <2> QED BY <1>3, <1>4, <1>8, <2>1 DEF ProcessResult
<1>9. ASSUME NEW x \in Step, NEW r \in Result, RetryStep(x, r)
      PROVE  /\ status'[s] = status[s] /\ outputs'[s] = outputs[s]
             /\ attempts'[s] = attempts[s] /\ (s \in completed => s \in completed')
  <2>1. x # s
    BY <1>3, <1>9 DEF RetryStep, IInv, TypeOK
  <2> QED BY <1>4, <1>9, <2>1 DEF RetryStep, IInv, TypeOK
<1>10. CASE RetryPanicked
  <2>1. s # Head(results).step
    BY <1>3, <1>10 DEF RetryPanicked, IInv, TypeOK
  <2> QED BY <1>10, <2>1 DEF RetryPanicked, Unwind, IInv, TypeOK
<1> QED BY <1>5, <1>6, <1>7, <1>8, <1>9, <1>10 DEF Next, Terminated

(***************************************************************************)
(* Once settled, a step is never run, restated or given another output.    *)
(***************************************************************************)
THEOREM SettledOnce == Spec => SettledForGood
<1>1. IInv /\ [Next]_vars =>
        [\A s \in Step : status[s] \in Settled =>
           /\ status'[s] = status[s] /\ outputs'[s] = outputs[s]
           /\ attempts'[s] = attempts[s] /\ (s \in completed => s \in completed')]_vars
  BY SettledStaysSettled
<1> QED BY <1>1, Invariant, PTL DEF Spec, SettledForGood
-----------------------------------------------------------------------------
\* The refinement: what each action does to the contract's two variables.

LEMMA LaunchImplementsTakeUp ==
  ASSUME IInv, NEW s \in Step, SkipStep(s) \/ SpawnStep(s)
  PROVE  Contract!TakeUp(s)
<1>1. s \in todo /\ pc = "launch"
  BY DEF SkipStep, SpawnStep
<1>2. outcome = "none" /\ status[s] = "pending" /\ Contract!Free(s)
  BY <1>1, LaunchFacts DEF Contract!Free, Contract!Settled, Settled
<1> QED BY <1>2 DEF SkipStep, SpawnStep, Contract!TakeUp, Contract!Becomes

LEMMA FailStepImplementsFail ==
  ASSUME NEW s \in Step, outcome = "none", status[s] = "running", FailStep(s)
  PROVE  Contract!Fail(s)
BY DEF FailStep, Contract!Fail, Contract!Becomes

LEMMA AttemptImplementsSettling ==
  ASSUME NEW s \in Step, NEW r \in Result, NEW n,
         outcome = "none", status[s] = "running", AttemptOver(s, r, n)
  PROVE  Contract!Succeed(s) \/ Contract!Fail(s) \/ UNCHANGED Contract!vars
BY FailStepImplementsFail
   DEF AttemptOver, CompleteStep, Contract!Succeed, Contract!Becomes, Contract!vars

LEMMA HeadRuns ==
  ASSUME IInv, pc \in {"results", "retry"}, results # <<>>
  PROVE  /\ Head(results).step \in Step /\ Head(results).result \in Result
         /\ status[Head(results).step] = "running" /\ outcome = "none"
<1>1. /\ Head(results).step \in Returned
      /\ Head(results).step \in Step /\ Head(results).result \in Result
  BY HeadIsReturned DEF IInv, TypeOK, Entry
<1> QED BY <1>1 DEF IInv, Bookkeeping, Control, RunningMeansInHand, InHand

LEMMA StepImplementsContract == IInv /\ [Next]_vars => [Contract!Next]_(Contract!vars)
<1> SUFFICES ASSUME IInv, [Next]_vars PROVE Contract!Next \/ UNCHANGED Contract!vars
  OBVIOUS
<1>1. CASE \/ BeginBatch \/ EndLaunch \/ EndJoin \/ EndPanics \/ EndResults \/ UNCHANGED vars
           \/ \E x \in Step, r \in Result : JoinReturned(x, r)
           \/ \E x \in Step : JoinPanicked(x)
  BY <1>1 DEF BeginBatch, EndLaunch, EndJoin, EndPanics, EndResults, vars, JoinReturned,
              JoinPanicked, Contract!vars
<1>2. CASE NothingReady
  <2>1. completed = Step
    BY <1>2, NothingLeft DEF NothingReady
  <2>2. \A s \in Step : status[s] \in Contract!Settled
    BY <2>1 DEF IInv, Bookkeeping, CompletedMeansSettled, Settled, Contract!Settled
  <2>3. outcome = "none" /\ outcome' = "completed" /\ UNCHANGED status
    BY <1>2, <2>1 DEF NothingReady, AllAccounted, IInv, Bookkeeping, Control
  <2> QED BY <2>2, <2>3 DEF Contract!Complete, Contract!Next
<1>3. ASSUME NEW s \in Step, SkipStep(s) \/ SpawnStep(s) PROVE Contract!Next
  BY <1>3, LaunchImplementsTakeUp DEF Contract!Next
<1>4. ASSUME NEW s \in Step, HandlePanic(s) PROVE Contract!Next
  <2>1. outcome = "none" /\ status[s] = "running"
    BY <1>4 DEF HandlePanic, IInv, Bookkeeping, Control, RunningMeansInHand, InHand
  <2> QED BY <1>4, <2>1, FailStepImplementsFail DEF HandlePanic, Contract!Next
<1>5. CASE ProcessResult
  BY <1>5, HeadRuns, AttemptImplementsSettling DEF ProcessResult, Contract!Next
<1>6. ASSUME NEW s \in Step, NEW r \in Result, RetryStep(s, r)
      PROVE  Contract!Next \/ UNCHANGED Contract!vars
  <2>1. outcome = "none" /\ status[s] = "running"
    BY <1>6, HeadRuns DEF RetryStep, IInv, TypeOK
  <2> QED BY <1>6, <2>1, AttemptImplementsSettling DEF RetryStep, Contract!Next
<1>7. CASE IntervalPanicked \/ RetryPanicked
  <2>1. pc \in {"results", "retry"} /\ results # <<>>
    BY <1>7 DEF IntervalPanicked, RetryPanicked, IInv, TypeOK
  <2>2. outcome = "none" /\ outcome' = "panicked" /\ UNCHANGED status
    BY <1>7, <2>1, HeadRuns DEF IntervalPanicked, RetryPanicked, Unwind
  <2> QED BY <2>1, <2>2, HeadRuns DEF Contract!Crash, Contract!Next
<1> QED BY <1>1, <1>2, <1>3, <1>4, <1>5, <1>6, <1>7 DEF Next, Terminated

(***************************************************************************)
(* The engine implements the contract, for every workflow it accepts.      *)
(***************************************************************************)
THEOREM ImplementsContract == Spec => ContractSpec
<1>1. Init => Contract!Init
  BY DEF Init, Contract!Init
<1> QED BY <1>1, StepImplementsContract, Invariant, PTL DEF Spec, ContractSpec, Contract!Spec
-----------------------------------------------------------------------------
\* What a subscriber is told.

\* What the first n events of q say of step s: the last status event about it, or "none".
StatusOf(e, s) == e.about = s /\ e.what \in Status

Says(q, n, s, v) ==
  IF v = "none"
    THEN \A i \in 1..n : ~StatusOf(q[i], s)
    ELSE \E i \in 1..n : /\ q[i] = [what |-> v, about |-> s]
                         /\ \A j \in (i + 1)..n : ~StatusOf(q[j], s)

Shown(s) == IF status[s] = "pending" THEN "none" ELSE status[s]

\* The events about the whole workflow, except the one that it has started.
Ends(q) == {i \in DOMAIN q : q[i].about = Workflow /\ i > 1}

\* The events tell each change once and the outcome last, begin with the start of the
\* workflow, and the last one about a step is its status.
EventsInv ==
  /\ EachChangeAnnouncedOnce
  /\ OutcomeAnnouncedLast
  /\ Len(events) > 0 /\ events[1] = [what |-> "started", about |-> Workflow]
  /\ \A s \in Step : status[s] = "running" => attempts[s] > 0
  /\ \A s \in Step : Says(events, Len(events), s, Shown(s))

LEMMA TallyOfAppend ==
  ASSUME NEW q \in Seq(Event), NEW x \in Event, NEW y \in Event
  PROVE  /\ Tally(q, x) \in Nat
         /\ Tally(Append(q, y), x) = IF y = x THEN Tally(q, x) + 1 ELSE Tally(q, x)
<1> DEFINE I == {i \in DOMAIN q : q[i] = x}
           J == {i \in DOMAIN Append(q, y) : Append(q, y)[i] = x}
           n == Len(q) + 1
<1>1. IsFiniteSet(I) /\ n \notin I
  <2>1. I \in SUBSET (1..Len(q)) /\ Len(q) \in Nat
    OBVIOUS
  <2>2. IsFiniteSet(1..Len(q))
    BY <2>1, FS_Interval
  <2>3. n \notin I
    BY <2>1
  <2> HIDE DEF I
  <2>4. IsFiniteSet(I)
    BY <2>1, <2>2, FS_Subset
  <2> QED BY <2>3, <2>4
<1>2. J = IF y = x THEN I \cup {n} ELSE I
  OBVIOUS
<1>3. Tally(q, x) = Cardinality(I) /\ Tally(Append(q, y), x) = Cardinality(J)
  BY DEF Tally
<1> HIDE DEF I, J, n
<1>4. Cardinality(I) \in Nat /\ Cardinality(I \cup {n}) = Cardinality(I) + 1
  BY <1>1, FS_CardinalityType, FS_AddElement
<1> QED BY <1>2, <1>3, <1>4

\* Of an event that was told at most once and is not told: there is none, or just one.
LEMMA OnceIsUnique ==
  ASSUME NEW q \in Seq(Event), NEW x \in Event
  PROVE  /\ Tally(q, x) = 0 => \A i \in DOMAIN q : q[i] # x
         /\ Tally(q, x) = 1 => \A i, j \in DOMAIN q : q[i] = x /\ q[j] = x => i = j
<1> DEFINE I == {i \in DOMAIN q : q[i] = x}
<1>1. IsFiniteSet(I)
  <2>1. I \in SUBSET (1..Len(q)) /\ Len(q) \in Nat
    OBVIOUS
  <2>2. IsFiniteSet(1..Len(q))
    BY <2>1, FS_Interval
  <2> HIDE DEF I
  <2> QED BY <2>1, <2>2, FS_Subset
<1>2. Tally(q, x) = Cardinality(I)
  BY DEF Tally
<1>3. \A i \in DOMAIN q : q[i] = x <=> i \in I
  OBVIOUS
<1> HIDE DEF I
<1>4. Cardinality(I) = 0 => I = {}
  BY <1>1, FS_EmptySet
<1>5. Cardinality(I) = 1 => \E i : I = {i}
  BY <1>1, FS_Singleton
<1> QED BY <1>2, <1>3, <1>4, <1>5

\* What a step of execute may tell: nothing; that the workflow is complete; or what has
\* become of one step, followed by the consequence its policy demands.
Quiet ==
  /\ UNCHANGED <<status, events>>
  /\ outcome' = outcome \/ {outcome, outcome'} \cap {"completed", "failed"} = {}
  /\ \A s \in Step : attempts'[s] > 0 <=> attempts[s] > 0

TellsEnd ==
  /\ UNCHANGED <<status, attempts>>
  /\ outcome = "none" /\ outcome' = "completed"
  /\ Emit("completed", Workflow)

Consequence(s, w) == IF w = "failed" THEN OnFailure[s] ELSE "continue"

Tells(s, w) ==
  /\ status[s] \notin Settled \cup {w}
  /\ status' = [status EXCEPT ![s] = w]
  /\ w = "running" => ~(attempts[s] > 0)
  /\ \A x \in Step : attempts'[x] > 0 <=> attempts[x] > 0 \/ (x = s /\ w = "running")
  /\ outcome = "none" /\ outcome' = IF Consequence(s, w) = "stop" THEN "failed" ELSE "none"
  /\ LET told == Append(events, [what |-> w, about |-> s]) IN
     events' = CASE Consequence(s, w) = "continue" -> told
                 [] Consequence(s, w) = "notify" ->
                      Append(told, [what |-> "notify", about |-> s])
                 [] Consequence(s, w) = "stop" ->
                      Append(told, [what |-> "failed", about |-> Workflow])

Change == {"running", "completed", "failed", "skipped"}

LEMMA FailTells ==
  ASSUME IInv, NEW s \in Step, FailStep(s), outcome = "none", status[s] = "running",
         \A x \in Step : attempts'[x] > 0 <=> attempts[x] > 0
  PROVE  Tells(s, "failed")
<1>1. OnFailure[s] \in {"stop", "notify", "continue"}
  BY WorkflowAssumption
<1>2. events \in Seq(Event)
  BY DEF IInv, TypeOK
<1> DEFINE told == Append(events, [what |-> "failed", about |-> s])
<1>3. events' = CASE OnFailure[s] = "continue" -> told
                  [] OnFailure[s] = "notify" -> Append(told, [what |-> "notify", about |-> s])
                  [] OnFailure[s] = "stop" ->
                       Append(told, [what |-> "failed", about |-> Workflow])
  <2>1. ASSUME NEW x, NEW y
        PROVE  /\ events \o <<x>> = Append(events, x)
               /\ events \o <<x, y>> = Append(Append(events, x), y)
    BY <1>2
  <2> QED BY <1>1, <2>1 DEF FailStep, FailureEvents
<1> QED BY <1>1, <1>3 DEF FailStep, Tells, Consequence, Settled

LEMMA AttemptTells ==
  ASSUME IInv, NEW s \in Step, NEW r \in Result, NEW n, AttemptOver(s, r, n),
         outcome = "none", status[s] = "running",
         \A x \in Step : attempts'[x] > 0 <=> attempts[x] > 0
  PROVE  Quiet \/ \E w \in Change : Tells(s, w)
<1>1. CASE CompleteStep(s)
  BY <1>1 DEF CompleteStep, Emit, Tells, Change, Consequence, Settled
<1>2. CASE UNCHANGED <<status, completed, events, outcome, results>>
  BY <1>2 DEF Quiet
<1>3. CASE FailStep(s)
  BY <1>3, FailTells DEF Change
<1> QED BY <1>1, <1>2, <1>3 DEF AttemptOver

LEMMA StepTells ==
  ASSUME IInv, EventsInv, [Next]_vars
  PROVE  Quiet \/ TellsEnd \/ \E s \in Step, w \in Change : Tells(s, w)
<1>1. CASE \/ BeginBatch \/ EndLaunch \/ EndJoin \/ EndPanics \/ EndResults \/ UNCHANGED vars
           \/ \E x \in Step, r \in Result : JoinReturned(x, r)
           \/ \E x \in Step : JoinPanicked(x)
  BY <1>1 DEF BeginBatch, EndLaunch, EndJoin, EndPanics, EndResults, vars, JoinReturned,
              JoinPanicked, Quiet
<1>2. CASE NothingReady
  <2>1. completed = Step /\ outcome = "none"
    BY <1>2, NothingLeft DEF NothingReady, IInv, Bookkeeping, Control
  <2> QED BY <1>2, <2>1 DEF NothingReady, AllAccounted, TellsEnd
<1>3. ASSUME NEW s \in Step, SkipStep(s) \/ SpawnStep(s)
      PROVE  \E w \in Change : Tells(s, w)
  <2>1. status[s] = "pending" /\ outcome = "none" /\ attempts[s] = 0
    BY <1>3, LaunchFacts DEF SkipStep, SpawnStep, IInv, Bookkeeping, AttemptsCounted
  <2>2. CASE SkipStep(s)
    BY <2>1, <2>2 DEF SkipStep, Emit, Tells, Change, Consequence, Settled
  <2>3. CASE SpawnStep(s)
    <3>1. attempts' = [attempts EXCEPT ![s] = 1] /\ attempts \in [Step -> Nat]
      BY <2>1, <2>3 DEF SpawnStep, IInv, TypeOK
    <3> QED BY <2>1, <2>3, <3>1 DEF SpawnStep, Emit, Tells, Change, Consequence, Settled
  <2> QED BY <1>3, <2>2, <2>3
<1>4. ASSUME NEW s \in Step, HandlePanic(s) PROVE Tells(s, "failed")
  <2>1. outcome = "none" /\ status[s] = "running"
    BY <1>4 DEF HandlePanic, IInv, Bookkeeping, Control, RunningMeansInHand, InHand
  <2> QED BY <1>4, <2>1, FailTells DEF HandlePanic
<1>5. CASE ProcessResult
  BY <1>5, HeadRuns, AttemptTells DEF ProcessResult
<1>6. ASSUME pc = "retry", attempts' = [attempts EXCEPT ![Head(results).step] = @ + 1]
      PROVE  \A x \in Step : attempts'[x] > 0 <=> attempts[x] > 0
  <2>1. Head(results).step \in Step /\ status[Head(results).step] = "running"
    BY <1>6, HeadRuns DEF IInv, TypeOK
  <2>2. attempts[Head(results).step] > 0 /\ attempts \in [Step -> Nat]
    BY <2>1 DEF EventsInv, IInv, TypeOK
  <2> QED BY <1>6, <2>1, <2>2
<1>7. ASSUME NEW s \in Step, NEW r \in Result, RetryStep(s, r)
      PROVE  Quiet \/ \E w \in Change : Tells(s, w)
  <2>1. results # <<>> /\ s = Head(results).step /\ pc = "retry"
    BY <1>7 DEF RetryStep, IInv, TypeOK
  <2>2. outcome = "none" /\ status[s] = "running"
    BY <2>1, HeadRuns
  <2> QED BY <1>6, <1>7, <2>1, <2>2, AttemptTells DEF RetryStep
<1>8. CASE IntervalPanicked \/ RetryPanicked
  <2>1. pc \in {"results", "retry"} /\ results # <<>>
    BY <1>8 DEF IntervalPanicked, RetryPanicked, IInv, TypeOK
  <2>2. outcome = "none" /\ outcome' = "panicked" /\ UNCHANGED <<status, events>>
    BY <1>8, <2>1, HeadRuns DEF IntervalPanicked, RetryPanicked, Unwind
  <2>3. \A x \in Step : attempts'[x] > 0 <=> attempts[x] > 0
    BY <1>6, <1>8 DEF IntervalPanicked, RetryPanicked
  <2> QED BY <2>2, <2>3 DEF Quiet
<1> QED BY <1>1, <1>2, <1>3, <1>4, <1>5, <1>7, <1>8 DEF Next, Terminated, Change

\* One more event: what the events say of a step, and the events about the workflow.
LEMMA SaysOfAppend ==
  ASSUME NEW q \in Seq(Event), NEW y \in Event, NEW s \in Step, NEW v, Says(q, Len(q), s, v)
  PROVE  Says(Append(q, y), Len(Append(q, y)), s, IF StatusOf(y, s) THEN y.what ELSE v)
<1> DEFINE n == Len(q)
           t == Append(q, y)
<1>1. n \in Nat /\ Len(t) = n + 1 /\ t[n + 1] = y /\ \A i \in 1..n : t[i] = q[i]
  OBVIOUS
<1>2. CASE StatusOf(y, s)
  <2>1. y = [what |-> y.what, about |-> s] /\ y.what # "none"
    BY <1>2 DEF StatusOf, Event, Status
  <2> HIDE DEF t, n
  <2>2. n + 1 \in 1..(n + 1) /\ (n + 1 + 1)..(n + 1) = {}
    BY <1>1
  <2>3. \E i \in 1..(n + 1) : /\ t[i] = [what |-> y.what, about |-> s]
                              /\ \A j \in (i + 1)..(n + 1) : ~StatusOf(t[j], s)
    BY <1>1, <2>1, <2>2
  <2>4. Says(t, Len(t), s, y.what)
    BY <1>1, <2>1, <2>3 DEF Says
  <2> QED BY <1>2, <2>4 DEF t
<1>3. CASE ~StatusOf(y, s)
  <2> HIDE DEF t, n
  <2>1. CASE v = "none"
    <3>1. \A i \in 1..n : ~StatusOf(q[i], s)
      BY <2>1 DEF Says, n
    <3>2. \A i \in 1..(n + 1) : i = n + 1 \/ i \in 1..n
      BY <1>1
    <3>3. \A i \in 1..(n + 1) : ~StatusOf(t[i], s)
      BY <1>1, <1>3, <3>1, <3>2
    <3> QED BY <1>1, <1>3, <2>1, <3>3 DEF Says, t
  <2>2. CASE v # "none"
    <3>1. PICK i \in 1..n : /\ q[i] = [what |-> v, about |-> s]
                            /\ \A j \in (i + 1)..n : ~StatusOf(q[j], s)
      BY <2>2 DEF Says, n
    <3>2. i \in 1..(n + 1) /\ \A j \in (i + 1)..(n + 1) : 
             j = n + 1 \/ (j \in (i + 1)..n /\ j \in 1..n)
      BY <1>1
    <3>3. /\ t[i] = [what |-> v, about |-> s]
          /\ \A j \in (i + 1)..(n + 1) : ~StatusOf(t[j], s)
      BY <1>1, <1>3, <3>1, <3>2
    <3> QED BY <1>1, <1>3, <2>2, <3>2, <3>3 DEF Says, t
  <2> QED BY <2>1, <2>2
<1> QED BY <1>2, <1>3

LEMMA EndsOfAppend ==
  ASSUME NEW q \in Seq(Event), Len(q) > 0, NEW y \in Event
  PROVE  /\ Ends(Append(q, y)) = Ends(q) \cup (IF y.about = Workflow THEN {Len(q) + 1} ELSE {})
         /\ Append(q, y)[1] = q[1] /\ Len(Append(q, y)) = Len(q) + 1
         /\ Append(q, y)[Len(q) + 1] = y
<1>1. /\ DOMAIN q = 1..Len(q) /\ Len(q) \in Nat
      /\ DOMAIN Append(q, y) = 1..(Len(q) + 1)
      /\ \A i \in 1..Len(q) : Append(q, y)[i] = q[i]
      /\ Append(q, y)[Len(q) + 1] = y
  OBVIOUS
<1>2. \A i : i \in Ends(Append(q, y)) <=>
               i \in Ends(q) \/ (i = Len(q) + 1 /\ y.about = Workflow)
  BY <1>1 DEF Ends
<1> QED BY <1>1, <1>2

LEMMA OutcomeByEnds ==
  OutcomeAnnouncedLast <=>
    IF outcome \in {"completed", "failed"}
      THEN Ends(events) = {Len(events)} /\ events[Len(events)].what = outcome
      ELSE Ends(events) = {}
BY DEF OutcomeAnnouncedLast, Ends

\* A step that is told keeps what the events tell in agreement with the state.
LEMMA TellingKeeps ==
  ASSUME IInv, TypeOK', EventsInv, NEW s \in Step, NEW w \in Change, Tells(s, w)
  PROVE  EventsInv'
<1> DEFINE y1 == [what |-> w, about |-> s]
           y2 == IF Consequence(s, w) = "notify" THEN [what |-> "notify", about |-> s]
                                                 ELSE [what |-> "failed", about |-> Workflow]
           q1 == Append(events, y1)
<1>1. /\ events \in Seq(Event) /\ y1 \in Event /\ y2 \in Event /\ q1 \in Seq(Event)
      /\ status \in [Step -> Status]
  BY DEF IInv, TypeOK, Event, Change
<1>2. Consequence(s, w) \in {"stop", "notify", "continue"}
  BY WorkflowAssumption DEF Consequence
<1>3. events' = IF Consequence(s, w) = "continue" THEN q1 ELSE Append(q1, y2)
  BY <1>2 DEF Tells
<1>4. ASSUME NEW e \in Event
      PROVE  /\ Tally(events, e) \in Nat
             /\ Tally(events', e) = Tally(events, e) + (IF y1 = e THEN 1 ELSE 0)
                 + (IF Consequence(s, w) # "continue" /\ y2 = e THEN 1 ELSE 0)
  <2> HIDE DEF y1, y2
  <2>1. /\ Tally(events, e) \in Nat
        /\ Tally(q1, e) = IF y1 = e THEN Tally(events, e) + 1 ELSE Tally(events, e)
    BY <1>1, TallyOfAppend
  <2> HIDE DEF q1
  <2>2. Tally(Append(q1, y2), e) = IF y2 = e THEN Tally(q1, e) + 1 ELSE Tally(q1, e)
    BY <1>1, TallyOfAppend
  <2> QED BY <1>3, <2>1, <2>2
<1>5. /\ \A x \in Step : status'[x] = IF x = s THEN w ELSE status[x]
      /\ status[s] \notin Settled \cup {w}
      /\ w = "running" => ~(attempts[s] > 0)
      /\ \A x \in Step : attempts'[x] > 0 <=> attempts[x] > 0 \/ (x = s /\ w = "running")
      /\ outcome = "none" /\ outcome' = IF Consequence(s, w) = "stop" THEN "failed" ELSE "none"
  BY <1>1 DEF Tells
<1>6. EachChangeAnnouncedOnce'
  <2> SUFFICES ASSUME NEW x \in Step
               PROVE  /\ Once([what |-> "running", about |-> x], attempts[x] > 0)'
                      /\ \A v \in {"completed", "failed", "skipped"} :
                           Once([what |-> v, about |-> x], status[x] = v)'
                      /\ Once([what |-> "notify", about |-> x],
                              status[x] = "failed" /\ OnFailure[x] = "notify")'
    BY DEF EachChangeAnnouncedOnce
  <2>1. x # Workflow /\ s # Workflow
    BY WorkflowAssumption
  <2>2. ASSUME NEW v \in Change \cup {"notify"}
        PROVE  /\ Tally(events, [what |-> v, about |-> x]) \in Nat
               /\ Tally(events', [what |-> v, about |-> x]) =
                    Tally(events, [what |-> v, about |-> x]) +
                      (IF x = s /\ (v = w \/ (v = "notify" /\ Consequence(s, w) = "notify"))
                         THEN 1 ELSE 0)
    <3> DEFINE e == [what |-> v, about |-> x]
    <3>1. e \in Event
      BY DEF Event, Change
    <3>2. /\ y1 = e <=> x = s /\ v = w
          /\ (Consequence(s, w) # "continue" /\ y2 = e) <=>
               x = s /\ v = "notify" /\ Consequence(s, w) = "notify"
      BY <1>2, <2>1
    <3>3. w # "notify"
      BY DEF Change
    <3> HIDE DEF e, y1, y2
    <3>4. Tally(events, e) \in Nat /\ Tally(events', e) = Tally(events, e)
             + (IF y1 = e THEN 1 ELSE 0)
             + (IF Consequence(s, w) # "continue" /\ y2 = e THEN 1 ELSE 0)
      BY <1>4, <3>1
    <3>5. Tally(events', e) = Tally(events, e) +
            (IF x = s /\ (v = w \/ (v = "notify" /\ Consequence(s, w) = "notify")) THEN 1 ELSE 0)
      BY <3>2, <3>3, <3>4
    <3> QED BY <3>4, <3>5 DEF e
  <2>3. /\ Tally(events, [what |-> "running", about |-> x]) = IF attempts[x] > 0 THEN 1 ELSE 0
        /\ \A v \in {"completed", "failed", "skipped"} :
             Tally(events, [what |-> v, about |-> x]) = IF status[x] = v THEN 1 ELSE 0
        /\ Tally(events, [what |-> "notify", about |-> x]) =
             IF status[x] = "failed" /\ OnFailure[x] = "notify" THEN 1 ELSE 0
    BY DEF EventsInv, EachChangeAnnouncedOnce, Once, Times
  <2>4. Tally(events', [what |-> "running", about |-> x]) = IF attempts'[x] > 0 THEN 1 ELSE 0
    BY <1>5, <2>2, <2>3 DEF Change
  <2>5. ASSUME NEW v \in {"completed", "failed", "skipped"}
        PROVE  Tally(events', [what |-> v, about |-> x]) = IF status'[x] = v THEN 1 ELSE 0
    BY <1>5, <2>2, <2>3 DEF Change, Settled
  <2>6. Tally(events', [what |-> "notify", about |-> x]) =
             IF status'[x] = "failed" /\ OnFailure[x] = "notify" THEN 1 ELSE 0
    BY <1>5, <2>2, <2>3 DEF Change, Settled, Consequence
  <2> QED BY <2>4, <2>5, <2>6 DEF Once, Times
<1>7. Len(events) \in Nat /\ Len(events) > 0 /\ s # Workflow
  BY <1>1, WorkflowAssumption DEF EventsInv
<1>8. /\ Ends(q1) = {} /\ q1[1] = events[1] /\ Len(q1) = Len(events) + 1
  <2>1. Ends(events) = {}
    BY <1>5, OutcomeByEnds DEF EventsInv
  <2> QED BY <1>1, <1>7, <2>1, EndsOfAppend
<1>9. /\ Ends(Append(q1, y2)) = IF Consequence(s, w) = "notify" THEN {} ELSE {Len(q1) + 1}
      /\ Append(q1, y2)[1] = q1[1] /\ Len(Append(q1, y2)) = Len(q1) + 1
      /\ Append(q1, y2)[Len(q1) + 1] = y2
  <2> HIDE DEF q1, y2
  <2>1. /\ Ends(Append(q1, y2)) = Ends(q1) \cup (IF y2.about = Workflow THEN {Len(q1) + 1} ELSE {})
        /\ Append(q1, y2)[1] = q1[1] /\ Len(Append(q1, y2)) = Len(q1) + 1
        /\ Append(q1, y2)[Len(q1) + 1] = y2
    BY <1>1, <1>7, <1>8, EndsOfAppend
  <2>2. y2.about = Workflow <=> Consequence(s, w) # "notify"
    BY <1>7 DEF y2
  <2> QED BY <1>8, <2>1, <2>2
<1>10. OutcomeAnnouncedLast'
  <2>1. Ends(events') = Ends(events)'
    BY DEF Ends
  <2> HIDE DEF q1
  <2>2. IF outcome' \in {"completed", "failed"}
          THEN Ends(events') = {Len(events')} /\ events'[Len(events')].what = outcome'
          ELSE Ends(events') = {}
    BY <1>2, <1>3, <1>5, <1>8, <1>9
  <2> QED BY <2>1, <2>2 DEF OutcomeAnnouncedLast, Ends
<1>11. Len(events') > 0 /\ events'[1] = [what |-> "started", about |-> Workflow]
  <2> HIDE DEF q1, y2
  <2> QED BY <1>3, <1>7, <1>8, <1>9 DEF EventsInv
<1>12. \A x \in Step : status'[x] = "running" => attempts'[x] > 0
  BY <1>5 DEF EventsInv
<1>13. ASSUME NEW x \in Step PROVE Says(events', Len(events'), x, Shown(x)')
  <2>1. /\ StatusOf(y1, x) <=> x = s
        /\ ~StatusOf(y2, x)
        /\ Shown(x)' = IF x = s THEN y1.what ELSE Shown(x)
    BY <1>5, WorkflowAssumption DEF StatusOf, Status, Change, Shown
  <2> HIDE DEF y1, y2
  <2>2. Says(events, Len(events), x, Shown(x))
    BY DEF EventsInv
  <2>3. Says(q1, Len(q1), x, Shown(x)')
    BY <1>1, <2>1, <2>2, SaysOfAppend
  <2> HIDE DEF q1
  <2>4. Says(Append(q1, y2), Len(Append(q1, y2)), x, Shown(x)')
    BY <1>1, <2>1, <2>3, SaysOfAppend
  <2> QED BY <1>3, <2>3, <2>4
<1> QED BY <1>6, <1>10, <1>11, <1>12, <1>13 DEF EventsInv, Says, StatusOf

LEMMA QuietKeeps ==
  ASSUME IInv, EventsInv, Quiet
  PROVE  EventsInv'
<1>1. EachChangeAnnouncedOnce'
  <2>1. events' = events
    BY DEF Quiet
  <2>2. \A s \in Step : /\ status'[s] = status[s]
                        /\ attempts'[s] > 0 <=> attempts[s] > 0
    BY DEF Quiet
  <2> SUFFICES ASSUME NEW s \in Step
               PROVE  /\ Once([what |-> "running", about |-> s], attempts[s] > 0)'
                      /\ \A w \in {"completed", "failed", "skipped"} :
                           Once([what |-> w, about |-> s], status[s] = w)'
                      /\ Once([what |-> "notify", about |-> s],
                              status[s] = "failed" /\ OnFailure[s] = "notify")'
    BY DEF EachChangeAnnouncedOnce
  <2>3. /\ Tally(events, [what |-> "running", about |-> s]) = IF attempts[s] > 0 THEN 1 ELSE 0
        /\ \A w \in {"completed", "failed", "skipped"} :
             Tally(events, [what |-> w, about |-> s]) = IF status[s] = w THEN 1 ELSE 0
        /\ Tally(events, [what |-> "notify", about |-> s]) =
             IF status[s] = "failed" /\ OnFailure[s] = "notify" THEN 1 ELSE 0
    BY DEF EventsInv, EachChangeAnnouncedOnce, Once, Times
  <2>4. ASSUME NEW e PROVE Tally(events', e) = Tally(events, e)
    BY <2>1
  <2>5. Tally(events', [what |-> "running", about |-> s]) = IF attempts'[s] > 0 THEN 1 ELSE 0
    BY <2>2, <2>3, <2>4
  <2>6. \A w \in {"completed", "failed", "skipped"} :
          Tally(events', [what |-> w, about |-> s]) = IF status'[s] = w THEN 1 ELSE 0
    BY <2>2, <2>3, <2>4
  <2>7. Tally(events', [what |-> "notify", about |-> s]) =
             IF status'[s] = "failed" /\ OnFailure[s] = "notify" THEN 1 ELSE 0
    BY <2>2, <2>3, <2>4
  <2> QED BY <2>5, <2>6, <2>7 DEF Once, Times
<1>2. OutcomeAnnouncedLast'
  BY DEF EventsInv, OutcomeAnnouncedLast, Quiet
<1>3. \A s \in Step : Says(events', Len(events'), s, Shown(s)')
  BY DEF EventsInv, Says, Shown, Quiet
<1> QED BY <1>1, <1>2, <1>3 DEF EventsInv, Quiet, Says, Shown, StatusOf

\* An event that is neither a step's status, nor a notification, nor about the workflow.
LEMMA ExtraEvent ==
  ASSUME IInv, EventsInv, NEW y \in Event, events' = Append(events, y),
         y.about \in Step => y.what \notin Change \cup {"notify", "pending"},
         UNCHANGED <<status, attempts>>,
         IF y.about = Workflow
           THEN outcome = "none" /\ outcome' \in {"completed", "failed"} /\ y.what = outcome'
           ELSE outcome' = outcome /\ outcome \notin {"completed", "failed"}
  PROVE  EventsInv'
<1>1. events \in Seq(Event) /\ Len(events) \in Nat /\ Len(events) > 0
  BY DEF IInv, TypeOK, EventsInv
<1>2. y.about \in Step \cup {Workflow} /\ Workflow \notin Step
  BY WorkflowAssumption DEF Event
<1>3. EachChangeAnnouncedOnce'
  <2>1. ASSUME NEW x \in Step, NEW v \in Change \cup {"notify"}
        PROVE  Tally(events', [what |-> v, about |-> x]) = Tally(events, [what |-> v, about |-> x])
    <3> DEFINE e == [what |-> v, about |-> x]
    <3>1. e \in Event /\ y # e
      BY <1>2 DEF Event, Change
    <3> HIDE DEF e
    <3>2. Tally(events', e) = Tally(events, e)
      BY <1>1, <3>1, TallyOfAppend
    <3> QED BY <3>2 DEF e
  <2>2. \A x \in Step, v \in Change \cup {"notify"} :
          Times([what |-> v, about |-> x])' = Times([what |-> v, about |-> x])
    BY <2>1 DEF Times
  <2>3. Change \cup {"notify"} = {"running", "completed", "failed", "skipped", "notify"}
    BY DEF Change
  <2>4. EachChangeAnnouncedOnce
    BY DEF EventsInv
  <2>5. UNCHANGED <<status, attempts>>
    OBVIOUS
  <2> QED BY <2>2, <2>3, <2>4, <2>5, ZenonT(40) DEF EachChangeAnnouncedOnce, Once
<1>4. /\ Ends(events') = Ends(events) \cup (IF y.about = Workflow THEN {Len(events')} ELSE {})
      /\ events'[1] = events[1] /\ Len(events') = Len(events) + 1 /\ events'[Len(events')] = y
  BY <1>1, EndsOfAppend
<1>5. OutcomeAnnouncedLast'
  <2>1. Ends(events) = {}
    BY OutcomeByEnds DEF EventsInv
  <2>2. IF outcome' \in {"completed", "failed"}
          THEN Ends(events') = {Len(events')} /\ events'[Len(events')].what = outcome'
          ELSE Ends(events') = {}
    BY <1>4, <2>1
  <2> QED BY <2>2 DEF OutcomeAnnouncedLast, Ends
<1>6. ASSUME NEW x \in Step PROVE Says(events', Len(events'), x, Shown(x)')
  <2>1. ~StatusOf(y, x) /\ Shown(x)' = Shown(x)
    BY <1>2 DEF StatusOf, Status, Change, Shown
  <2>2. Says(events, Len(events), x, Shown(x))
    BY DEF EventsInv
  <2> QED BY <1>1, <2>1, <2>2, SaysOfAppend
<1>7. \A s \in Step : status'[s] = "running" => attempts'[s] > 0
  BY DEF EventsInv
<1> QED BY <1>1, <1>3, <1>4, <1>5, <1>6, <1>7 DEF EventsInv, Says, StatusOf

LEMMA InitEventsInv == Init => EventsInv
<1> SUFFICES ASSUME Init PROVE EventsInv
  OBVIOUS
<1> DEFINE first == [what |-> "started", about |-> Workflow]
<1>1. events = <<first>> /\ Len(events) = 1 /\ DOMAIN events = {1} /\ events[1] = first
  BY DEF Init
<1>2. ASSUME NEW x \in Step, NEW v PROVE Times([what |-> v, about |-> x]) = 0
  <2> DEFINE I == {i \in DOMAIN events : events[i] = [what |-> v, about |-> x]}
  <2>1. I = {}
    BY <1>1, WorkflowAssumption
  <2> HIDE DEF I
  <2>2. Cardinality(I) = 0
    BY <2>1, FS_EmptySet
  <2> QED BY <2>2 DEF I, Times, Tally
<1>3. EachChangeAnnouncedOnce
  BY <1>2 DEF EachChangeAnnouncedOnce, Once, Init
<1>4. OutcomeAnnouncedLast
  BY <1>1, OutcomeByEnds DEF Ends, Init
<1>5. \A s \in Step : Says(events, Len(events), s, Shown(s))
  BY <1>1, WorkflowAssumption DEF Says, Shown, StatusOf, Init
<1> QED BY <1>1, <1>3, <1>4, <1>5 DEF EventsInv, Init

LEMMA NextEventsInv == IInv /\ EventsInv /\ [Next]_vars => EventsInv'
<1> SUFFICES ASSUME IInv, EventsInv, [Next]_vars PROVE EventsInv'
  OBVIOUS
<1>1. TypeOK'
  BY TypeStep DEF IInv
<1>2. CASE TellsEnd
  <2> DEFINE y == [what |-> "completed", about |-> Workflow]
  <2>1. y \in Event /\ events' = Append(events, y) /\ Workflow \notin Step
    BY <1>2, WorkflowAssumption DEF Event, TellsEnd, Emit
  <2> QED BY <1>2, <2>1, ExtraEvent DEF TellsEnd
<1> QED BY <1>1, <1>2, StepTells, TellingKeeps, QuietKeeps

(***************************************************************************)
(* Whatever the workflow, a subscriber that misses nothing hears of every  *)
(* change of a step exactly once, and of the end once and last.            *)
(***************************************************************************)
THEOREM EventsTellAll == Spec => []EventsTell
<1>1. EventsInv => EventsTell
  BY DEF EventsInv, EventsTell
<1>2. Init => IInv /\ EventsInv
  BY InitIInv, InitEventsInv
<1>3. IInv /\ EventsInv /\ [Next]_vars => (IInv /\ EventsInv)'
  BY NextIInv, NextEventsInv
<1> QED BY <1>1, <1>2, <1>3, PTL DEF Spec

-----------------------------------------------------------------------------
\* What serde makes of a file: every list is there, and may be empty.
Parsed(w, Name) == w.steps \in Seq([name : Name, dependsOn : SUBSET Name])

\* Without duplicates a step is the node of its name.
LEMMA NodeOfStep ==
  ASSUME NEW w, NEW Name, Parsed(w, Name), ~HasDuplicate(w), NEW i \in DOMAIN w.steps
  PROVE  Node(w, w.steps[i].name) = i
<1> DEFINE IsNode(n) == /\ w.steps[n].name = w.steps[i].name
                        /\ \A j \in DOMAIN w.steps : w.steps[j].name = w.steps[i].name => j <= n
<1>1. i \in Nat
  BY DEF Parsed
<1>2. IsNode(i)
  BY <1>1 DEF HasDuplicate
<1>3. \A n \in DOMAIN w.steps : IsNode(n) => n = i
  BY DEF HasDuplicate
<1> QED BY <1>2, <1>3 DEF Node

\* Then the edges between two steps are the dependencies of the one on the other.
LEMMA EdgeIsDependency ==
  ASSUME NEW w, NEW Name, Parsed(w, Name), ~HasDuplicate(w), ~HasUnknown(w),
         NEW k \in DOMAIN w.steps, NEW i \in DOMAIN w.steps
  PROVE  <<k, i>> \in Graph(w).edges <=> w.steps[k].name \in w.steps[i].dependsOn
<1> DEFINE EdgesOf(n) == {<<Node(w, d), Node(w, w.steps[n].name)>> : d \in w.steps[n].dependsOn}
<1>1. Graph(w).edges = UNION {EdgesOf(n) : n \in DOMAIN w.steps}
  BY DEF Graph
<1>2. \A n \in DOMAIN w.steps : Node(w, w.steps[n].name) = n
  BY NodeOfStep
<1>3. w.steps[k].name \in w.steps[i].dependsOn => <<k, i>> \in EdgesOf(i)
  BY <1>2
<1>4. ASSUME NEW n \in DOMAIN w.steps, <<k, i>> \in EdgesOf(n)
      PROVE  w.steps[k].name \in w.steps[i].dependsOn
  <2>1. PICK d \in w.steps[n].dependsOn : <<k, i>> = <<Node(w, d), Node(w, w.steps[n].name)>>
    BY <1>4
  <2>2. n = i
    BY <2>1, <1>2
  <2>3. PICK m \in DOMAIN w.steps : w.steps[m].name = d
    BY <2>1 DEF HasUnknown, Names
  <2>4. m = k
    BY <2>1, <2>3, <1>2
  <2> QED BY <2>1, <2>2, <2>3, <2>4
<1> QED BY <1>1, <1>3, <1>4

(***************************************************************************)
(* The engine sees of every step the dependencies its file gives it.       *)
(***************************************************************************)
THEOREM DependenciesAreTheFiles ==
  ASSUME NEW w, NEW Name, Parsed(w, Name), Accepted(w), NEW i \in DOMAIN w.steps
  PROVE  DependenciesOf(w)[w.steps[i].name] = w.steps[i].dependsOn
<1>1. ~HasDuplicate(w) /\ ~HasUnknown(w)
  BY DEF Accepted, Validate
<1>2. w.steps[i].name \in Names(w) /\ Node(w, w.steps[i].name) = i
  BY <1>1, NodeOfStep DEF Names
<1>3. DependenciesOf(w)[w.steps[i].name] =
        {w.steps[m].name : m \in {k \in DOMAIN w.steps : <<k, i>> \in Graph(w).edges}}
  BY <1>2 DEF DependenciesOf
<1>4. {k \in DOMAIN w.steps : <<k, i>> \in Graph(w).edges} =
        {k \in DOMAIN w.steps : w.steps[k].name \in w.steps[i].dependsOn}
  BY <1>1, EdgeIsDependency
<1>5. w.steps[i].dependsOn \subseteq Names(w)
  BY <1>1 DEF HasUnknown
<1>6. \A d \in w.steps[i].dependsOn : \E k \in DOMAIN w.steps : w.steps[k].name = d
  BY <1>5 DEF Names
<1>7. {w.steps[m].name : m \in {k \in DOMAIN w.steps : w.steps[k].name \in w.steps[i].dependsOn}}
        = w.steps[i].dependsOn
  BY <1>6
<1> QED BY <1>3, <1>4, <1>7

(***************************************************************************)
(* validate and from_workflow establish what Engine assumes of the steps   *)
(* and their dependencies: they are finitely many, every dependency is a   *)
(* step, and the dependencies are acyclic.                                 *)
(***************************************************************************)
THEOREM AcceptedIsRunnable ==
  ASSUME NEW w, NEW Name, Parsed(w, Name), Accepted(w)
  PROVE  /\ IsFiniteSet(Names(w))
         /\ DependenciesOf(w) \in [Names(w) -> SUBSET Names(w)]
         /\ \A T \in SUBSET Names(w) :
              T # {} => \E s \in T : DependenciesOf(w)[s] \cap T = {}
<1>1. ~HasDuplicate(w) /\ ~HasUnknown(w) /\ HasOrder(Graph(w))
  BY DEF Accepted, Validate, FromWorkflow
<1>2. IsFiniteSet(Names(w))
  <2>1. DOMAIN w.steps = 1..Len(w.steps) /\ Len(w.steps) \in Nat
    BY DEF Parsed
  <2>2. IsFiniteSet(DOMAIN w.steps)
    BY <2>1, FS_Interval, SMTT(40)
  <2> DEFINE f == [i \in DOMAIN w.steps |-> w.steps[i].name]
  <2>3. f \in Surjection(DOMAIN w.steps, Names(w))
    BY DEF Surjection, Names
  <2> QED BY <2>2, <2>3, FS_Surjection
<1>3. DependenciesOf(w) \in [Names(w) -> SUBSET Names(w)]
  BY DEF DependenciesOf, Names
<1>4. ASSUME NEW T \in SUBSET Names(w), T # {}
      PROVE  \E s \in T : DependenciesOf(w)[s] \cap T = {}
  <2> DEFINE N == {i \in DOMAIN w.steps : w.steps[i].name \in T}
  <2>1. N \in SUBSET Graph(w).nodes /\ N # {}
    BY <1>4 DEF Names, Graph
  <2>2. PICK n \in N : \A m \in N : <<m, n>> \notin Graph(w).edges
    BY <2>1, <1>1 DEF HasOrder
  <2>3. \A m \in N : w.steps[m].name \notin w.steps[n].dependsOn
    BY <2>2, <1>1, EdgeIsDependency
  <2>4. DependenciesOf(w)[w.steps[n].name] = w.steps[n].dependsOn
    BY DependenciesAreTheFiles
  <2>5. w.steps[n].dependsOn \cap T = {}
    BY <2>3 DEF Names
  <2> QED BY <2>4, <2>5
<1> QED BY <1>2, <1>3, <1>4

\* A workflow of one step that depends on nothing is accepted.
LEMMA SingleStepAccepted ==
  ASSUME NEW name PROVE Accepted(SingleStep(name))
<1> DEFINE w == SingleStep(name)
<1>1. /\ w.named /\ DOMAIN w.steps = {1} /\ w.steps # <<>>
      /\ w.steps[1].name = name /\ w.steps[1].dependsOn = {}
  BY DEF SingleStep
<1>2. Validate(w)
  BY <1>1 DEF Validate, HasDuplicate, HasUnknown, HasSelfDependency
<1>3. Graph(w).edges = {}
  BY <1>1 DEF Graph
<1>4. FromWorkflow(w)
  BY <1>1, <1>3 DEF FromWorkflow, HasOrder, HasUnknown
<1> QED BY <1>2, <1>4 DEF Accepted

(***************************************************************************)
(* Whatever a session is made from in the user interface, what it starts   *)
(* with passes validate; a file that does not load gives a workflow that   *)
(* runs, "so the session still starts".  The only thing the engine can     *)
(* still refuse is a file with a cycle, which validate lets through.       *)
(***************************************************************************)
THEOREM OnlyCyclesRefused ==
  ASSUME NEW source,
         LET w == WorkflowFromSource(source) IN ~Accepted(w)
  PROVE  /\ source.kind = "workflow" /\ Validate(source.workflow)
         /\ ~HasOrder(Graph(source.workflow))
<1>1. source.kind = "workflow" /\ Validate(source.workflow)
  BY SingleStepAccepted DEF WorkflowFromSource
<1>2. WorkflowFromSource(source) = source.workflow
  BY <1>1 DEF WorkflowFromSource
<1> QED BY <1>1, <1>2 DEF Accepted, FromWorkflow, Validate
=============================================================================
