-------------------------- MODULE WorkflowContract --------------------------
(***************************************************************************)
(* What Engine::execute (crates/core/src/engine.rs) promises of a workflow *)
(* and its steps, without saying how: a step may be taken up as soon as    *)
(* its dependencies have settled, it settles once, a failed "stop" step    *)
(* ends the run, and the run completes when nothing is left.  There are no *)
(* batches here, no attempts, no context and no events.                    *)
(***************************************************************************)
EXTENDS FiniteSets

CONSTANTS Step, DependsOn, OnFailure

VARIABLES status, outcome

vars == <<status, outcome>>

Settled == {"completed", "failed", "skipped"}

Free(s) == \A d \in DependsOn[s] : status[d] \in Settled

Becomes(s, st) == status' = [status EXCEPT ![s] = st]

Init ==
  /\ status = [s \in Step |-> "pending"]
  /\ outcome = "none"

TakeUp(s) ==
  /\ outcome = "none"
  /\ status[s] = "pending"
  /\ Free(s)
  /\ Becomes(s, "running") \/ Becomes(s, "skipped")
  /\ UNCHANGED outcome

Succeed(s) ==
  /\ outcome = "none"
  /\ status[s] = "running"
  /\ Becomes(s, "completed")
  /\ UNCHANGED outcome

Fail(s) ==
  /\ outcome = "none"
  /\ status[s] = "running"
  /\ Becomes(s, "failed")
  /\ outcome' = IF OnFailure[s] = "stop" THEN "failed" ELSE "none"

Complete ==
  /\ outcome = "none"
  /\ \A s \in Step : status[s] \in Settled
  /\ outcome' = "completed"
  /\ UNCHANGED status

Crash ==
  /\ outcome = "none"
  /\ \E s \in Step : status[s] = "running"
  /\ outcome' = "panicked"
  /\ UNCHANGED status

Next ==
  \/ \E s \in Step : TakeUp(s) \/ Succeed(s) \/ Fail(s)
  \/ Complete
  \/ Crash

Spec == Init /\ [][Next]_vars

=============================================================================
