----------------------------- MODULE SessionsMC -----------------------------
(***************************************************************************)
(* Two roles for TLC.                                                      *)
(***************************************************************************)
EXTENDS Sessions, TLC

CONSTANTS coder, tester

RoleSymmetry == Permutations({coder, tester})

\* Sessions with up to three steps, in any states, with the status that update_step gave
\* them last.
StepStatus == {"pending", "running", "completed", "failed", "skipped"}
StepsOf    == UNION {[1..n -> StepStatus] : n \in 0..3}
Updated    == {UpdateStep([steps |-> steps, status |-> "running"], 1, status) :
                 steps \in StepsOf, status \in StepStatus}

\* A session is completed when all its steps are done, and running as long as one runs or
\* none has failed; a failed step tells on it although others still have their turn.
ASSUME StatusOfSteps ==
  \A s \in Updated :
    LET Some(status) == \E id \in DOMAIN s.steps : s.steps[id] = status
    IN  /\ s.status = "completed" <=> ~Some("running") /\ ~Some("pending") /\ ~Some("failed")
        /\ s.status = "failed" <=> Some("failed") /\ ~Some("running")
        /\ Some("running") => s.status = "running"

\* After a shutdown nothing runs, the session included, and marking it again changes
\* nothing; a session that had ended is as it was.
ASSUME NothingRunsAfter ==
  \A s \in Updated :
    LET marked == MarkStepsInterrupted(s)
    IN  /\ marked.status # "running" /\ \A id \in DOMAIN marked.steps : marked.steps[id] # "running"
        /\ MarkStepsInterrupted(marked) = marked
        /\ s.status # "running" => marked = s
=============================================================================
