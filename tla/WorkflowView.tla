---------------------------- MODULE WorkflowView ----------------------------
(***************************************************************************)
(* What a session's pane shows beside its terminal: the selected step and  *)
(* its state (ui/src/components/workflow_view.rs), and the toasts that the *)
(* notifications of a running workflow, and other parts of the program,    *)
(* put up (toast.rs).                                                      *)
(*                                                                         *)
(* One WorkflowView is mounted while a session's pane is shown; it is used *)
(* again when another session is, and goes when none is.                   *)
(***************************************************************************)
EXTENDS Naturals, Sequences, SequencesExt

CONSTANTS
  ViewSession,   \* the sessions with a tab
  ViewStep,      \* the steps of their workflows
  AutoDismiss,   \* AUTO_DISMISS_SECS, in polls of the container
  MaxNotes,      \* bound: notifications, of all sessions
  MaxOther,      \* bound: toasts put up by other parts of the program
  MaxVisits      \* bound: changes of the pane

VARIABLES
  notes,     \* the notifications of a session's live state
  pane,      \* the session whose pane is shown, or "none"
  chosen,    \* selected_step
  counted,   \* shown_count, for the session of prev_session_id
  toasts,    \* the toasts that are up
  nextToast, \* NEXT_TOAST_ID
  others,    \* toasts by other parts so far
  visits,    \* changes of the pane so far
  fired      \* history: the notifications put up since the pane last changed

viewVars == <<notes, pane, chosen, counted, toasts, nextToast, others, visits, fired>>

NoSession == "none"
NoStep == "none"
Level == {"success", "warning", "error"}
Toast(id, level) == [id |-> id, level |-> level, age |-> 0, exiting |-> FALSE]

ViewInit ==
  /\ notes = [s \in ViewSession |-> <<>>]
  /\ pane = NoSession /\ chosen = NoStep
  /\ counted = 0
  /\ toasts = <<>> /\ nextToast = 1
  /\ others = 0 /\ visits = 0 /\ fired = <<>>

-----------------------------------------------------------------------------
NotesSoFar == FoldFunction(LAMBDA list, n : Len(list) + n, 0, notes)

\* The engine bridge: a notification, of a failure or a milder one.
Notified(s) ==
  /\ NotesSoFar < MaxNotes
  /\ \E level \in {"warning", "error"} : notes' = [notes EXCEPT ![s] = Append(@, level)]
  /\ UNCHANGED <<pane, chosen, counted, toasts, nextToast, others, visits, fired>>

\* push_toast.
PushToasts(levels) ==
  /\ toasts' = toasts \o [i \in DOMAIN levels |-> Toast(nextToast + i - 1, levels[i])]
  /\ nextToast' = nextToast + Len(levels)

\* Slip: the count of another session's notifications is kept.
ShowSessionKeepsCount(s) ==
  /\ pane # s
  /\ visits < MaxVisits /\ visits' = visits + 1
  /\ pane' = s
  /\ chosen' = IF pane = NoSession THEN NoStep ELSE chosen
  /\ LET old == IF pane = NoSession THEN 0 ELSE counted
         new == SubSeq(notes[s], old + 1, Len(notes[s]))
     IN  PushToasts(new) /\ fired' = new /\ counted' = old + Len(new)
  /\ UNCHANGED <<notes, others>>

\* Another session's pane, and its first render.  A new component selects no step and has
\* counted nothing; one that stays keeps the step, and counts anew for another session.
ShowSession(s) ==
  /\ pane # s
  /\ visits < MaxVisits /\ visits' = visits + 1
  /\ pane' = s
  /\ chosen' = IF pane = NoSession THEN NoStep ELSE chosen
  /\ PushToasts(notes[s])
  /\ counted' = Len(notes[s]) /\ fired' = notes[s]
  /\ UNCHANGED <<notes, others>>

ShowHome ==
  /\ pane # NoSession
  /\ visits < MaxVisits /\ visits' = visits + 1
  /\ pane' = NoSession /\ fired' = <<>>
  /\ UNCHANGED <<notes, chosen, counted, toasts, nextToast, others>>

\* A click on a step selects it, a second one deselects it.
SelectStep(p) ==
  /\ pane # NoSession
  /\ chosen' = IF chosen = p THEN NoStep ELSE p
  /\ UNCHANGED <<notes, pane, counted, toasts, nextToast, others, visits, fired>>

-----------------------------------------------------------------------------
\* A render puts up the notifications that were not counted yet.
RenderView ==
  /\ pane # NoSession
  /\ Len(notes[pane]) > counted
  /\ LET new == SubSeq(notes[pane], counted + 1, Len(notes[pane]))
     IN  PushToasts(new) /\ fired' = fired \o new
  /\ counted' = Len(notes[pane])
  /\ UNCHANGED <<notes, pane, chosen, others, visits>>

\* Saving an issue, removing a label and creating a session report what came of it.
PushOther ==
  /\ others < MaxOther /\ others' = others + 1
  /\ \E level \in Level : PushToasts(<<level>>)
  /\ UNCHANGED <<notes, pane, chosen, counted, visits, fired>>

\* Slip: only what reports a success goes by itself.
PolledOnlySuccess(toast) ==
  IF toast.level = "success" /\ ~toast.exiting /\ toast.age + 1 >= AutoDismiss
  THEN [toast EXCEPT !.exiting = TRUE, !.age = 0]
  ELSE IF toast.level # "success" THEN toast ELSE [toast EXCEPT !.age = @ + 1]

\* The container's poll: a toast that is not an error starts to leave at its age, and one
\* that was leaving is gone by the next poll, since the animation is shorter.
Polled(toast) ==
  IF toast.level # "error" /\ ~toast.exiting /\ toast.age + 1 >= AutoDismiss
  THEN [toast EXCEPT !.exiting = TRUE, !.age = 0]
  ELSE IF toast.level = "error" THEN toast ELSE [toast EXCEPT !.age = @ + 1]

Remains(toast) == ~(toast.exiting /\ toast.age > 0)

PollToasts ==
  /\ toasts # <<>>
  /\ toasts' = SelectSeq([i \in DOMAIN toasts |-> Polled(toasts[i])], Remains)
  /\ UNCHANGED <<notes, pane, chosen, counted, nextToast, others, visits, fired>>

Dismiss(i) ==
  /\ toasts' = SelectSeq(toasts, LAMBDA t : t.id # toasts[i].id)
  /\ UNCHANGED <<notes, pane, chosen, counted, nextToast, others, visits, fired>>

-----------------------------------------------------------------------------
System == RenderView \/ PollToasts

ViewNext ==
  \/ System
  \/ \E s \in ViewSession : Notified(s) \/ ShowSession(s)
  \/ \E p \in ViewStep : SelectStep(p)
  \/ ShowHome \/ PushOther
  \/ \E i \in DOMAIN toasts : Dismiss(i)

\* Changed signals are rendered, and the container's task sleeps for a bounded time.
Fairness == WF_viewVars(System)
ViewSpec == ViewInit /\ [][ViewNext]_viewVars

-----------------------------------------------------------------------------
(***************************************************************************)
(* While a session's pane stays, each of its notifications is put up once  *)
(* and in order, and none of another session is, whichever panes were      *)
(* shown before and whatever their counts were.                            *)
(***************************************************************************)
NotedOnce ==
  pane # NoSession =>
    counted <= Len(notes[pane]) /\ fired = SubSeq(notes[pane], 1, counted)

(***************************************************************************)
(* Every toast but an error goes by itself, also while others are put up   *)
(* and removed around it: there is always a time when only errors are left.*)
(***************************************************************************)
ToastsGo == []<>(\A i \in DOMAIN toasts : toasts[i].level = "error")

-----------------------------------------------------------------------------
(***************************************************************************)
(* What is shown of the selected step: its live status and output where    *)
(* there is a live state, else those of the newest attempt the session was *)
(* saved with, else that it is pending.  The attempt is the saved one.     *)
(***************************************************************************)
NoInfo == [status |-> "none", output |-> "none"]

Newest(saved) == CHOOSE step \in saved : \A other \in saved : other.attempt <= step.attempt

SelectedInfo(live, saved) ==
  LET step == IF saved = {} THEN [attempt |-> 1, status |-> "none", output |-> "none"]
                            ELSE Newest(saved)
      status == IF live.status # "none" THEN live.status ELSE step.status
  IN  IF status = "none"
      THEN [attempt |-> 1, status |-> "Pending", output |-> "none"]
      ELSE [attempt |-> step.attempt, status |-> status,
            output |-> IF live.output # "none" THEN live.output ELSE step.output]
=============================================================================
