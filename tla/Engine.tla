------------------------------- MODULE Engine -------------------------------
(***************************************************************************)
(* The workflow engine: Engine::execute of crates/core/src/engine.rs,      *)
(* together with WorkflowDag::ready_steps of crates/core/src/dag.rs.       *)
(*                                                                         *)
(* One run of execute is a sequential task that works in batches: it       *)
(* computes the ready steps, launches all of them on a JoinSet, waits for  *)
(* every task, settles the panicked ones, then goes through the results in *)
(* the order in which the tasks finished and retries the failed ones one   *)
(* after the other.  The steps' agents run concurrently; all that execute  *)
(* sees of them is when each one returns, and what.                        *)
(***************************************************************************)
EXTENDS Naturals, Sequences, FiniteSets

CONSTANTS
  Step,         \* the names of the workflow's steps
  DependsOn,    \* Step::depends_on, the predecessors in the DAG
  Condition,    \* Step::condition: Always, Never, or the step it refers to
  OnFailure,    \* Step::on_failure, with its default "stop"
  MaxAttempts,  \* RetryConfig::max_attempts, with its default 1
  BadInterval,  \* the steps whose retry interval makes parse_duration panic
  Always,       \* no condition, "true", or text the evaluator does not know
  Never,        \* "false", or "steps.<name>" for a name that is no step
  Workflow      \* the subject of the events that concern the whole workflow

ASSUME WorkflowAssumption ==
  /\ IsFiniteSet(Step)
  /\ DependsOn \in [Step -> SUBSET Step]
  /\ Condition \in [Step -> Step \cup {Always, Never}]
  /\ OnFailure \in [Step -> {"stop", "notify", "continue"}]
  /\ MaxAttempts \in [Step -> Nat]
  /\ BadInterval \subseteq Step
  /\ Always \notin Step /\ Never \notin Step /\ Workflow \notin Step
  /\ Always # Never

(***************************************************************************)
(* WorkflowDag::from_workflow rejects a cyclic graph.  For a finite graph  *)
(* that is: every non-empty set of steps has one that depends on no member *)
(* of the set.                                                             *)
(***************************************************************************)
ASSUME AcyclicAssumption ==
  \A T \in SUBSET Step : T # {} => \E s \in T : DependsOn[s] \cap T = {}

VARIABLES
  pc,         \* where execute is
  completed,  \* the steps that no longer hold back their dependents
  status,     \* StepStatus of every step
  outputs,    \* WorkflowContext::step_outputs
  todo,       \* the ready steps the launch loop has not reached yet
  spawned,    \* spawned_steps of the current batch
  running,    \* the tasks still in the JoinSet
  results,    \* first_attempt_results still to be processed, in join order
  panicked,   \* the panicked steps still to be settled
  attempts,   \* how often spawn_step was called for a step
  outcome,    \* what execute returned, "none" while it runs
  events      \* everything sent on event_tx, oldest first

vars == <<pc, completed, status, outputs, todo, spawned, running, results,
          panicked, attempts, outcome, events>>

PC       == {"ready", "launch", "join", "panics", "results", "retry", "end"}
Status   == {"pending", "running", "completed", "failed", "skipped"}
Settled  == {"completed", "failed", "skipped"}
Outcome  == {"none", "completed", "failed", "deadlock", "panicked"}
Output   == {"empty", "falsy", "truthy"}
OutputOf == Output \cup {"none"}

(***************************************************************************)
(* The outcome of an attempt: Ok(StepResult) with exit code 0 (ok), or     *)
(* another one (not ok, with an output all the same), or Err (no output).  *)
(***************************************************************************)
Result == {r \in [ok : BOOLEAN, output : OutputOf] : r.ok => r.output # "none"}

\* EngineEvent.  What an agent puts out goes through the same channel, but is sent by its
\* spawner and not by execute (see module LiveView).
Event == [what : {"started", "running", "completed", "failed", "skipped", "notify", "output"},
          about : Step \cup {Workflow}]

Emit(what, about) == events' = Append(events, [what |-> what, about |-> about])

Returned == {results[i].step : i \in DOMAIN results}

IsTruthy(o) == o = "truthy"

EvaluateCondition(c) ==
  CASE c = Always -> TRUE
    [] c = Never  -> FALSE
    [] OTHER      -> IsTruthy(outputs[c])

\* Slips: one dependency is enough; only success counts.
ReadyOnAnyDependency ==
  {s \in Step \ completed : DependsOn[s] = {} \/ DependsOn[s] \cap completed # {}}
ReadyAfterSuccess ==
  {s \in Step \ completed : \A d \in DependsOn[s] : status[d] = "completed"}

ReadySteps == {s \in Step \ completed : DependsOn[s] \subseteq completed}

AllAccounted == \A s \in Step : s \in completed \/ status[s] \in {"skipped", "failed"}

-----------------------------------------------------------------------------
Init ==
  /\ pc = "ready"
  /\ completed = {}
  /\ status = [s \in Step |-> "pending"]
  /\ outputs = [s \in Step |-> "none"]
  /\ todo = {} /\ spawned = {} /\ running = {} /\ panicked = {}
  /\ results = <<>>
  /\ attempts = [s \in Step |-> 0]
  /\ outcome = "none"
  /\ events = <<[what |-> "started", about |-> Workflow]>>

BeginBatch ==
  /\ pc = "ready"
  /\ ReadySteps # {}
  /\ todo' = ReadySteps
  /\ spawned' = {}
  /\ pc' = "launch"
  /\ UNCHANGED <<completed, status, outputs, running, results, panicked,
                 attempts, outcome, events>>

\* No step is ready: the workflow is over, or the engine gives up without an event.
NothingReady ==
  /\ pc = "ready"
  /\ ReadySteps = {}
  /\ pc' = "end"
  /\ IF Cardinality(completed) = Cardinality(Step) \/ AllAccounted
       THEN outcome' = "completed" /\ Emit("completed", Workflow)
       ELSE outcome' = "deadlock" /\ UNCHANGED events
  /\ UNCHANGED <<completed, status, outputs, todo, spawned, running, results,
                 panicked, attempts>>

SkipStep(s) ==
  /\ pc = "launch"
  /\ s \in todo
  /\ ~EvaluateCondition(Condition[s])
  /\ todo' = todo \ {s}
  /\ status' = [status EXCEPT ![s] = "skipped"]
  /\ completed' = completed \cup {s}
  /\ Emit("skipped", s)
  /\ UNCHANGED <<pc, outputs, spawned, running, results, panicked, attempts, outcome>>

SpawnStep(s) ==
  /\ pc = "launch"
  /\ s \in todo
  /\ EvaluateCondition(Condition[s])
  /\ todo' = todo \ {s}
  /\ status' = [status EXCEPT ![s] = "running"]
  /\ attempts' = [attempts EXCEPT ![s] = @ + 1]
  /\ spawned' = spawned \cup {s}
  /\ running' = running \cup {s}
  /\ Emit("running", s)
  /\ UNCHANGED <<pc, completed, outputs, results, panicked, outcome>>

EndLaunch ==
  /\ pc = "launch"
  /\ todo = {}
  /\ pc' = "join"
  /\ UNCHANGED <<completed, status, outputs, todo, spawned, running, results,
                 panicked, attempts, outcome, events>>

\* join_next yields the tasks in the order in which they finish.
JoinReturned(s, r) ==
  /\ pc = "join"
  /\ s \in running
  /\ running' = running \ {s}
  /\ results' = Append(results, [step |-> s, result |-> r])
  /\ UNCHANGED <<pc, completed, status, outputs, todo, spawned, panicked,
                 attempts, outcome, events>>

\* A JoinError does not say which task panicked.
JoinPanicked(s) ==
  /\ pc = "join"
  /\ s \in running
  /\ running' = running \ {s}
  /\ UNCHANGED <<pc, completed, status, outputs, todo, spawned, results,
                 panicked, attempts, outcome, events>>

EndJoin ==
  /\ pc = "join"
  /\ running = {}
  /\ panicked' = spawned \ Returned
  /\ pc' = "panics"
  /\ UNCHANGED <<completed, status, outputs, todo, spawned, running, results,
                 attempts, outcome, events>>

(***************************************************************************)
(* What the engine does with a step that has failed for good: "stop" ends  *)
(* the run at once, the other two policies let the dependents go on.       *)
(***************************************************************************)
\* Slip: the workflow's end is told before the step's.
FailureEventsSwapped(s) ==
  IF OnFailure[s] = "stop"
    THEN <<[what |-> "failed", about |-> Workflow], [what |-> "failed", about |-> s]>>
    ELSE <<[what |-> "failed", about |-> s]>>

FailureEvents(s) ==
  CASE OnFailure[s] = "notify" ->
         <<[what |-> "failed", about |-> s], [what |-> "notify", about |-> s]>>
    [] OnFailure[s] = "continue" -> <<[what |-> "failed", about |-> s]>>
    [] OnFailure[s] = "stop" ->
         <<[what |-> "failed", about |-> s], [what |-> "failed", about |-> Workflow]>>

FailStep(s) ==
  /\ status' = [status EXCEPT ![s] = "failed"]
  /\ events' = events \o FailureEvents(s)
  /\ IF OnFailure[s] = "stop"
       THEN outcome' = "failed" /\ UNCHANGED completed
       ELSE completed' = completed \cup {s} /\ UNCHANGED outcome

CompleteStep(s) ==
  /\ status' = [status EXCEPT ![s] = "completed"]
  /\ completed' = completed \cup {s}
  /\ Emit("completed", s)
  /\ UNCHANGED outcome

\* Slip: a panicked "stop" step is treated like any other.
HandlePanicGoesOn(s) ==
  /\ pc = "panics"
  /\ s \in panicked
  /\ panicked' = panicked \ {s}
  /\ status' = [status EXCEPT ![s] = "failed"]
  /\ completed' = completed \cup {s}
  /\ Emit("failed", s)
  /\ UNCHANGED <<pc, outputs, todo, spawned, running, results, attempts, outcome>>

HandlePanic(s) ==
  /\ pc = "panics"
  /\ s \in panicked
  /\ panicked' = panicked \ {s}
  /\ FailStep(s)
  /\ pc' = IF OnFailure[s] = "stop" THEN "end" ELSE "panics"
  /\ UNCHANGED <<outputs, todo, spawned, running, results, attempts>>

EndPanics ==
  /\ pc = "panics"
  /\ panicked = {}
  /\ pc' = "results"
  /\ UNCHANGED <<completed, status, outputs, todo, spawned, running, results,
                 panicked, attempts, outcome, events>>

(***************************************************************************)
(* Attempt number n of step s, the head of results, has returned r.  The   *)
(* output of a failed attempt is kept too; an Err leaves the old one.      *)
(***************************************************************************)
RecordOutput(s, r) ==
  outputs' = IF r.output = "none" THEN outputs ELSE [outputs EXCEPT ![s] = r.output]

AttemptOver(s, r, n) ==
  /\ RecordOutput(s, r)
  /\ \/ /\ r.ok
        /\ CompleteStep(s)
        /\ results' = Tail(results)
        /\ pc' = "results"
     \/ /\ ~r.ok
        /\ n < MaxAttempts[s]
        /\ pc' = "retry"
        /\ UNCHANGED <<status, completed, events, outcome, results>>
     \/ /\ ~r.ok
        /\ n >= MaxAttempts[s]
        /\ FailStep(s)
        /\ results' = Tail(results)
        /\ pc' = IF OnFailure[s] = "stop" THEN "end" ELSE "results"
  /\ UNCHANGED <<todo, spawned, running, panicked>>

ProcessResult ==
  /\ pc = "results"
  /\ results # <<>>
  /\ Head(results).step \notin BadInterval
  /\ AttemptOver(Head(results).step, Head(results).result, 1)
  /\ UNCHANGED attempts

\* A panic on execute's own stack unwinds it: it returns nothing and emits nothing.
Unwind ==
  /\ outcome' = "panicked"
  /\ pc' = "end"
  /\ UNCHANGED <<completed, status, outputs, todo, spawned, running, results,
                 panicked, events>>

\* The interval is parsed before the result is looked at, a success included.
IntervalPanicked ==
  /\ pc = "results"
  /\ results # <<>>
  /\ Head(results).step \in BadInterval
  /\ Unwind
  /\ UNCHANGED attempts

\* Slips: the attempt is counted after the comparison, or never.
RetryStepForever(s, r) ==
  /\ pc = "retry"
  /\ s = Head(results).step
  /\ UNCHANGED attempts
  /\ AttemptOver(s, r, 1)
RetryStepOnceMore(s, r) ==
  /\ pc = "retry"
  /\ s = Head(results).step
  /\ attempts' = [attempts EXCEPT ![s] = @ + 1]
  /\ AttemptOver(s, r, attempts[s])

\* After the interval the engine runs the step again and awaits it itself.
RetryStep(s, r) ==
  /\ pc = "retry"
  /\ s = Head(results).step
  /\ attempts' = [attempts EXCEPT ![s] = @ + 1]
  /\ AttemptOver(s, r, attempts[s] + 1)

\* There is no task boundary around a retry: its panic unwinds execute.
RetryPanicked ==
  /\ pc = "retry"
  /\ attempts' = [attempts EXCEPT ![Head(results).step] = @ + 1]
  /\ Unwind

EndResults ==
  /\ pc = "results"
  /\ results = <<>>
  /\ pc' = "ready"
  /\ UNCHANGED <<completed, status, outputs, todo, spawned, running, results,
                 panicked, attempts, outcome, events>>

Terminated == pc = "end" /\ UNCHANGED vars

Next ==
  \/ BeginBatch \/ NothingReady
  \/ \E s \in Step : SkipStep(s) \/ SpawnStep(s)
  \/ EndLaunch
  \/ \E s \in Step, r \in Result : JoinReturned(s, r)
  \/ \E s \in Step : JoinPanicked(s)
  \/ EndJoin
  \/ \E s \in Step : HandlePanic(s)
  \/ EndPanics
  \/ ProcessResult
  \/ IntervalPanicked
  \/ \E s \in Step, r \in Result : RetryStep(s, r)
  \/ RetryPanicked
  \/ EndResults
  \/ Terminated

Spec == Init /\ [][Next]_vars

(***************************************************************************)
(* execute is one task: it is never left unscheduled for ever, and every   *)
(* future an AgentSpawner returns resolves or panics in the end.           *)
(***************************************************************************)
FairSpec == Spec /\ WF_vars(Next)

-----------------------------------------------------------------------------
TypeOK ==
  /\ pc \in PC
  /\ completed \subseteq Step
  /\ status \in [Step -> Status]
  /\ outputs \in [Step -> OutputOf]
  /\ todo \subseteq Step /\ spawned \subseteq Step
  /\ running \subseteq Step /\ panicked \subseteq Step
  /\ results \in Seq([step : Step, result : Result])
  /\ pc = "retry" => results # <<>>
  /\ attempts \in [Step -> Nat]
  /\ outcome \in Outcome
  /\ events \in Seq(Event)

(***************************************************************************)
(* A step is looked at only after everything it depends on has settled and *)
(* been allowed to let its dependents go on, whatever retries, panics and  *)
(* skips happened on the way (the batches of execute and ready_steps).     *)
(***************************************************************************)
DependenciesSettled ==
  \A s \in Step : status[s] # "pending" =>
    \A d \in DependsOn[s] : status[d] \in Settled /\ d \in completed

(***************************************************************************)
(* The decision a condition takes on the output of a dependency is never   *)
(* overtaken: a step was skipped exactly when that output, as it stands at *)
(* any later time, is not truthy.  execute evaluates the condition before  *)
(* the launch and keeps writing outputs, also of failed attempts, after it.*)
(***************************************************************************)
ConditionNotStale ==
  \A s \in Step :
    (status[s] # "pending" /\ Condition[s] \in DependsOn[s]) =>
      (status[s] = "skipped" <=> ~IsTruthy(outputs[Condition[s]]))

(***************************************************************************)
(* The branch "deadlock detected" of execute is dead code: no policy, skip *)
(* or panic leaves an accepted workflow without a ready step before every  *)
(* step is accounted for.                                                  *)
(***************************************************************************)
NoFalseDeadlock == outcome # "deadlock"

(***************************************************************************)
(* Ok(context) and WorkflowCompleted mean that every step has settled and  *)
(* that no step with the policy "stop" failed.                             *)
(***************************************************************************)
CompletedMeansAllSettled ==
  outcome = "completed" =>
    \A s \in Step : /\ status[s] \in Settled
                    /\ ~(status[s] = "failed" /\ OnFailure[s] = "stop")

(***************************************************************************)
(* spawn_step is called at most max_attempts times for a step (once, if    *)
(* max_attempts is 0), over the launch and all the retries together.       *)
(***************************************************************************)
AttemptsBounded ==
  \A s \in Step : attempts[s] <= IF MaxAttempts[s] = 0 THEN 1 ELSE MaxAttempts[s]

Tally(q, e) == Cardinality({i \in DOMAIN q : q[i] = e})

Times(e) == Tally(events, e)

Once(e, p) == Times(e) = IF p THEN 1 ELSE 0

\* A subscriber that sees every event hears of each change of a step once: one Running
\* however many attempts, one final status, and a NotificationRequired exactly for the
\* failed steps that ask for it.
EachChangeAnnouncedOnce ==
  \A s \in Step :
    /\ Once([what |-> "running", about |-> s], attempts[s] > 0)
    /\ \A w \in {"completed", "failed", "skipped"} :
         Once([what |-> w, about |-> s], status[s] = w)
    /\ Once([what |-> "notify", about |-> s],
            status[s] = "failed" /\ OnFailure[s] = "notify")

\* The run is announced as over at most once, by its last event, and that event says
\* what execute returned; only a panic ends a run silently.
OutcomeAnnouncedLast ==
  LET Over == {i \in DOMAIN events : events[i].about = Workflow /\ i > 1} IN
  IF outcome \in {"completed", "failed"}
    THEN Over = {Len(events)} /\ events[Len(events)].what = outcome
    ELSE Over = {}

(***************************************************************************)
(* A subscriber that sees every event hears of each change of a step once, *)
(* and at the end, once and last, how the workflow ended, over every       *)
(* interleaving of steps, retries, skips and panics.                       *)
(***************************************************************************)
EventsTell == EachChangeAnnouncedOnce /\ OutcomeAnnouncedLast

(***************************************************************************)
(* A settled step is left alone: it is not run again, its status and its   *)
(* output stay as they are, and it never stops letting its dependents go.  *)
(***************************************************************************)
SettledForGood ==
  [][\A s \in Step : status[s] \in Settled =>
       /\ status'[s] = status[s] /\ outputs'[s] = outputs[s]
       /\ attempts'[s] = attempts[s] /\ (s \in completed => s \in completed')]_vars

-----------------------------------------------------------------------------
\* The parts of the invariant that the proofs rest on.

\* What each place of execute leaves behind in its local variables.
Control ==
  /\ pc = "end" <=> outcome # "none"
  /\ pc # "launch" => todo = {}
  /\ pc \notin {"launch", "join"} => running = {}
  /\ pc \notin {"panics", "end"} => panicked = {}
  /\ pc \in {"ready", "launch"} => results = <<>>
  /\ pc = "launch" => running = spawned
  /\ pc = "join" => running \cup Returned \subseteq spawned

OneResultEach ==
  /\ \A i, j \in DOMAIN results : results[i].step = results[j].step => i = j
  /\ running \cap Returned = {}
  /\ pc # "end" => panicked \cap Returned = {}

\* The steps whose attempt has been launched and not been settled.
InHand ==
  CASE pc \in {"launch", "join"}              -> spawned
    [] pc \in {"panics", "results", "retry"} -> panicked \cup Returned
    [] OTHER                                 -> {}

RunningMeansInHand ==
  outcome = "none" => \A s \in Step : status[s] = "running" <=> s \in InHand

LaunchIsReady ==
  \A s \in todo : status[s] = "pending" /\ DependsOn[s] \subseteq completed

Stopped(s) == status[s] = "failed" /\ OnFailure[s] = "stop"

CompletedMeansSettled ==
  /\ \A s \in Step : s \in completed <=> status[s] \in Settled /\ ~Stopped(s)
  /\ outcome # "failed" => \A s \in Step : ~Stopped(s)

AttemptsCounted ==
  /\ \A s \in Step : status[s] = "pending" => attempts[s] = 0
  /\ outcome = "none" =>
       \A s \in Step : status[s] = "running" =>
         IF pc = "retry" /\ s = Head(results).step
           THEN attempts[s] < MaxAttempts[s]
           ELSE attempts[s] = 1

(***************************************************************************)
(* The bookkeeping of execute agrees with itself between any two steps:    *)
(* the local sets of a batch partition the steps marked as running, and    *)
(* completed is exactly what the statuses and the policies say.            *)
(***************************************************************************)
Bookkeeping ==
  /\ Control
  /\ OneResultEach
  /\ RunningMeansInHand
  /\ LaunchIsReady
  /\ CompletedMeansSettled
  /\ AttemptsCounted

-----------------------------------------------------------------------------
(***************************************************************************)
(* execute returns if its agents do, whatever they return and however      *)
(* often they fail.                                                        *)
(***************************************************************************)
Termination == <>(pc = "end")

(***************************************************************************)
(* The engine implements the contract: batches, the join, the sequential   *)
(* retries and the context are invisible in what it does to the steps.     *)
(* Its statuses and its outcome are the contract's as they are.            *)
(***************************************************************************)
Contract == INSTANCE WorkflowContract WITH Step <- Step, DependsOn <- DependsOn,
  OnFailure <- OnFailure, status <- status, outcome <- outcome

ContractSpec == Contract!Spec

=============================================================================
