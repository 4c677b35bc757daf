------------------------------ MODULE LiveView ------------------------------
(***************************************************************************)
(* What a session's tab shows of a running workflow: the engine (module    *)
(* Engine), the broadcast channel its events go through, and the listener  *)
(* of crates/ui/src/engine_bridge.rs that applies them to the session's    *)
(* SessionLiveState, from WorkflowRunner::start until the tab is closed.   *)
(*                                                                         *)
(* The agents' output goes through the same channel, so that a listener    *)
(* that is slow is overtaken; it then goes on with the oldest event kept.  *)
(*                                                                         *)
(* A step that has settled puts out nothing more.  Left out is the one     *)
(* path on which it may: when waiting for the agent fails (WaitFails of    *)
(* module Spawner), spawn_step returns and its forwarder goes on, so that  *)
(* its output could even overtake WorkflowFailed in the channel.           *)
(***************************************************************************)
EXTENDS Engine

CONSTANTS
  Capacity,   \* of the engine's broadcast channel (256)
  MaxOutputs  \* bound: AgentOutput events

ASSUME LiveViewAssumption ==
  Capacity \in Nat \ {0} /\ MaxOutputs \in Nat

VARIABLES
  receiver,  \* where the receiver that start returned is
  position,  \* how many events it has taken or missed
  lagged,    \* has it missed any?
  live,      \* the session's entry in the live states
  tab,       \* is the session's tab open?
  sent       \* AgentOutput events sent so far

viewVars == <<receiver, position, lagged, live, tab, sent>>

allVars == <<vars, viewVars>>

\* SessionLiveState: what it says of each step and of the workflow.
LiveState == [steps : [Step -> Status \cup {"none"}],
              workflow : {"none", "running", "completed", "failed"},
              notifications : Seq(Step \cup {Workflow})]

Default == [steps |-> [s \in Step |-> "none"], workflow |-> "none", notifications |-> <<>>]

Absent == [steps |-> <<>>, workflow |-> "absent", notifications |-> <<>>]

OrDefault == IF live = Absent THEN Default ELSE live

ViewInit ==
  /\ Init
  /\ receiver = "returned" /\ position = 0 /\ lagged = FALSE
  /\ live = Absent /\ tab = "open" /\ sent = 0

\* A step of the engine's task.
EngineStep == Next /\ pc # "end" /\ UNCHANGED viewVars

\* A running agent's output, forwarded by its spawner.
AgentOutput(s) ==
  /\ s \in running \/ (pc = "retry" /\ s = Head(results).step)
  /\ sent < MaxOutputs
  /\ sent' = sent + 1
  /\ events' = Append(events, [what |-> "output", about |-> s])
  /\ UNCHANGED <<pc, completed, status, outputs, todo, spawned, running, results,
                 panicked, attempts, outcome, receiver, position, lagged, live, tab>>

\* The task that awaited start puts the receiver into the map, tab or no tab.
Insert ==
  /\ receiver = "returned"
  /\ receiver' = "queued"
  /\ UNCHANGED <<vars, position, lagged, live, tab, sent>>

\* The coroutine polls the map and gives a new receiver a listener.
Poll ==
  /\ receiver = "queued"
  /\ receiver' = "listening"
  /\ live' = OrDefault
  /\ UNCHANGED <<vars, position, lagged, tab, sent>>

Overtaken == Len(events) - position > Capacity

Show(state, e) ==
  CASE e.about = Workflow /\ e.what = "started" ->
         [state EXCEPT !.workflow = "running", !.steps = Default.steps]
    [] e.about = Workflow /\ e.what = "completed" -> [state EXCEPT !.workflow = "completed"]
    [] e.about = Workflow /\ e.what = "failed" ->
         [state EXCEPT !.workflow = "failed", !.notifications = Append(@, Workflow)]
    [] e.about # Workflow /\ e.what = "notify" ->
         [state EXCEPT !.notifications = Append(@, e.about)]
    [] e.about # Workflow /\ e.what \in Status -> [state EXCEPT !.steps[e.about] = e.what]
    [] OTHER -> state

Take ==
  /\ receiver = "listening"
  /\ position < Len(events) /\ ~Overtaken
  /\ live' = Show(OrDefault, events[position + 1])
  /\ position' = position + 1
  /\ UNCHANGED <<vars, receiver, lagged, tab, sent>>

\* Slips: after a lag the listener goes on with the next event to come, starts over, or waits.
LagToNewest ==
  /\ receiver = "listening" /\ Overtaken
  /\ position' = Len(events)
  /\ lagged' = TRUE
  /\ UNCHANGED <<vars, receiver, live, tab, sent>>
LagFromStart ==
  /\ receiver = "listening" /\ Overtaken /\ ~lagged
  /\ position' = 0
  /\ lagged' = TRUE
  /\ live' = Default
  /\ UNCHANGED <<vars, receiver, tab, sent>>
LagStays ==
  /\ receiver = "listening" /\ Overtaken
  /\ lagged' = TRUE
  /\ UNCHANGED <<vars, receiver, position, live, tab, sent>>

Lag ==
  /\ receiver = "listening" /\ Overtaken
  /\ position' = Len(events) - Capacity
  /\ lagged' = TRUE
  /\ UNCHANGED <<vars, receiver, live, tab, sent>>

\* execute has returned, its task has dropped the engine and the spawner's sender.
Closed ==
  /\ receiver = "listening"
  /\ position = Len(events) /\ pc = "end"
  /\ receiver' = "ended"
  /\ UNCHANGED <<vars, position, lagged, live, tab, sent>>

\* Closing the tab removes a receiver still in the map and the live state.
CloseTab ==
  /\ tab = "open"
  /\ tab' = "closed"
  /\ live' = Absent
  /\ receiver' = IF receiver = "queued" THEN "ended" ELSE receiver
  /\ UNCHANGED <<vars, position, lagged, sent>>

Listener == Insert \/ Poll \/ Take \/ Lag \/ Closed

ViewNext ==
  \/ EngineStep
  \/ \E s \in Step : AgentOutput(s)
  \/ Insert \/ Poll \/ Take \/ Lag \/ Closed
  \/ CloseTab

ViewSpec == ViewInit /\ [][ViewNext]_allVars

\* The engine's task and the user interface's tasks are scheduled.
ViewFairSpec == ViewSpec /\ WF_allVars(EngineStep) /\ WF_allVars(Listener)

-----------------------------------------------------------------------------

\* What the workflow's status looks like once everything said has been heard.
Heard == CASE outcome \in {"completed", "failed"} -> outcome
           [] OTHER                               -> "running"

\* A listener that has missed nothing and has caught up shows each step as it is, and
\* the workflow as execute left it.  A run that a panic ended is shown as running for
\* good: nothing announces it.
CaughtUpAgrees ==
  (receiver \in {"listening", "ended"} /\ tab = "open" /\ position = Len(events) /\ ~lagged) =>
    /\ \A s \in Step : live.steps[s] = IF status[s] = "pending" THEN "none" ELSE status[s]
    /\ live.workflow = Heard

\* However many events were missed, a tab that is still open in the end shows how the
\* workflow ended: its last event is always among those kept.
EndIsShown ==
  (receiver = "ended" /\ tab = "open" /\ outcome \in {"completed", "failed"}) =>
    live.workflow = outcome

(***************************************************************************)
(* A tab shows the steps and the workflow as they are when its listener    *)
(* has missed nothing and caught up; and whatever it missed, how the       *)
(* workflow ended.                                                         *)
(***************************************************************************)
ViewAgrees == CaughtUpAgrees /\ EndIsShown

(***************************************************************************)
(* A step shown as settled stays shown so, whatever is missed after it.    *)
(***************************************************************************)
SettledStaysShown ==
  [][\A s \in Step :
       (live # Absent /\ live' # Absent /\ live.steps[s] \in Settled) =>
         live'.steps[s] = live.steps[s]]_allVars

(***************************************************************************)
(* Once execute is over the listener ends too, however far behind it is,   *)
(* and whether or not the tab was closed meanwhile: no task is left behind.*)
(***************************************************************************)
ListenerEnds == pc = "end" ~> receiver = "ended"
=============================================================================
