--------------------------- MODULE LiveViewProofs ---------------------------
(***************************************************************************)
(* What a session's tab shows of its workflow, for every workflow, every   *)
(* capacity of the channel and any amount of output.                       *)
(***************************************************************************)
EXTENDS LiveView, EngineProofs

-----------------------------------------------------------------------------
\* The engine's invariants survive the output that goes through its channel.
EngineInv == IInv /\ EventsInv

LEMMA OutputKeepsEngine ==
  ASSUME EngineInv, NEW s \in Step, AgentOutput(s)
  PROVE  EngineInv'
<1> DEFINE y == [what |-> "output", about |-> s]
<1>1. y \in Event /\ events' = Append(events, y) /\ y.about # Workflow
  BY WorkflowAssumption DEF AgentOutput, Event
<1>2. outcome = "none"
  BY DEF AgentOutput, EngineInv, IInv, Bookkeeping, Control
<1>3. UNCHANGED <<pc, completed, status, outputs, todo, spawned, running, results,
                  panicked, attempts, outcome>>
  BY DEF AgentOutput
<1>4. Returned' = Returned
  BY <1>3 DEF Returned
<1>5. TypeOK'
  BY <1>1, <1>3 DEF EngineInv, IInv, TypeOK
<1>6. IInv'
  BY <1>3, <1>4, <1>5
     DEF EngineInv, IInv, Bookkeeping, Control, OneResultEach, RunningMeansInHand, InHand,
         LaunchIsReady, CompletedMeansSettled, Stopped, AttemptsCounted, DependenciesSettled,
         ConditionNotStale, IsTruthy, CompletedMeansAllSettled, AttemptsBounded, NoFalseDeadlock
<1>7. EventsInv'
  BY <1>1, <1>2, <1>3, ExtraEvent DEF EngineInv, Change
<1> QED BY <1>6, <1>7 DEF EngineInv

LEMMA EngineInvStep == EngineInv /\ [ViewNext]_allVars => EngineInv'
<1> SUFFICES ASSUME EngineInv, [ViewNext]_allVars PROVE EngineInv'
  OBVIOUS
<1>1. CASE [Next]_vars
  BY <1>1, NextIInv, NextEventsInv DEF EngineInv
<1>2. ASSUME NEW s \in Step, AgentOutput(s) PROVE EngineInv'
  BY <1>2, OutputKeepsEngine
<1> QED BY <1>1, <1>2 DEF ViewNext, EngineStep, Insert, Poll, Take, Lag, Closed, CloseTab, allVars

\* Events are only ever added.
LEMMA EventsGrow ==
  ASSUME EngineInv, [ViewNext]_allVars
  PROVE  /\ Len(events) \in Nat /\ Len(events') \in Nat /\ Len(events) <= Len(events')
         /\ \A i \in 1..Len(events) : events'[i] = events[i]
<1>0. events \in Seq(Event)
  BY DEF EngineInv, IInv, TypeOK
<1>1. ASSUME NEW q, events' = events \o q, q \in Seq(Event)
      PROVE  /\ Len(events) \in Nat /\ Len(events') \in Nat /\ Len(events) <= Len(events')
             /\ \A i \in 1..Len(events) : events'[i] = events[i]
  BY <1>0, <1>1
<1>2. ASSUME NEW y \in Event
      PROVE  Append(events, y) = events \o <<y>> /\ <<y>> \in Seq(Event)
  BY <1>0
<1>3. ASSUME NEW y \in Event, NEW z \in Event
      PROVE  Append(Append(events, y), z) = events \o <<y, z>> /\ <<y, z>> \in Seq(Event)
  BY <1>0
<1>4. events = events \o <<>> /\ <<>> \in Seq(Event)
  BY <1>0
<1>5. \A w \in Change \cup {"notify"}, x \in Step \cup {Workflow} :
         [what |-> w, about |-> x] \in Event
  BY DEF Event, Change
<1>6. CASE [Next]_vars
  <2>1. Quiet \/ TellsEnd \/ \E s \in Step, w \in Change : Tells(s, w)
    BY <1>6, StepTells DEF EngineInv
  <2>2. CASE Quiet
    BY <1>1, <1>4, <2>2 DEF Quiet
  <2>3. CASE TellsEnd
    BY <1>1, <1>2, <1>5, <2>3 DEF TellsEnd, Emit, Change
  <2>4. ASSUME NEW s \in Step, NEW w \in Change, Tells(s, w)
        PROVE  \E q \in Seq(Event) : events' = events \o q
    <3>1. Consequence(s, w) \in {"stop", "notify", "continue"}
      BY WorkflowAssumption DEF Consequence
    <3> DEFINE y == [what |-> w, about |-> s]
    <3>2. \/ events' = Append(events, y)
          \/ events' = Append(Append(events, y), [what |-> "notify", about |-> s])
          \/ events' = Append(Append(events, y), [what |-> "failed", about |-> Workflow])
      BY <2>4, <3>1 DEF Tells
    <3>3. /\ y \in Event /\ [what |-> "notify", about |-> s] \in Event
          /\ [what |-> "failed", about |-> Workflow] \in Event
      BY <1>5 DEF Change
    <3> QED BY <1>2, <1>3, <3>2, <3>3
  <2> QED BY <1>1, <2>1, <2>2, <2>3, <2>4
<1>7. ASSUME NEW s \in Step, AgentOutput(s)
      PROVE  /\ Len(events) \in Nat /\ Len(events') \in Nat /\ Len(events) <= Len(events')
             /\ \A i \in 1..Len(events) : events'[i] = events[i]
  <2>1. [what |-> "output", about |-> s] \in Event
    BY DEF Event
  <2> QED BY <1>1, <1>2, <1>7, <2>1 DEF AgentOutput
<1>8. [Next]_vars \/ \E s \in Step : AgentOutput(s)
  BY DEF ViewNext, EngineStep, Insert, Poll, Take, Lag, Closed, CloseTab, allVars
<1> QED BY <1>6, <1>7, <1>8

-----------------------------------------------------------------------------
\* The listener's invariant.

Listens == receiver \in {"listening", "ended"} /\ tab = "open"

\* What the first n events say of the workflow.
WorkflowSays(n) ==
  IF n = 0 THEN "none"
    ELSE IF n > 1 /\ events[n].about = Workflow THEN events[n].what ELSE "running"

ViewType ==
  /\ receiver \in {"returned", "queued", "listening", "ended"}
  /\ position \in Nat /\ position <= Len(events)
  /\ live # Absent => live \in LiveState

\* A listener begins with nothing, and ends when there is nothing more to come.
Lifecycle ==
  /\ receiver \in {"returned", "queued"} => position = 0 /\ live = Absent
  /\ Listens => live # Absent
  /\ receiver = "ended" /\ tab = "open" => pc = "end" /\ position = Len(events)

\* What is shown of a step has been heard; it is all there is to hear unless some was missed.
ShownWasHeard ==
  live # Absent => \A s \in Step :
    live.steps[s] # "none" =>
      \E i \in 1..position : events[i] = [what |-> live.steps[s], about |-> s]

HeardIsShown ==
  Listens /\ ~lagged =>
    /\ \A s \in Step : Says(events, position, s, live.steps[s])
    /\ live.workflow = WorkflowSays(position)

\* Whoever has heard the last event shows it, whatever it missed before.
LastIsShown ==
  Listens /\ position = Len(events) /\ outcome \in {"completed", "failed"} =>
    live.workflow = outcome

ViewInv == ViewType /\ Lifecycle /\ ShownWasHeard /\ HeardIsShown /\ LastIsShown

LEMMA AbsentIsNone == Absent \notin LiveState /\ Default \in LiveState /\ Default # Absent
BY DEF Absent, Default, LiveState

\* An event about the workflow is the first one, which starts it, or the last.
LEMMA WorkflowEvents ==
  ASSUME EngineInv, NEW i \in 1..Len(events), events[i].about = Workflow
  PROVE  \/ i = 1 /\ events[i].what = "started"
         \/ i > 1 /\ i = Len(events) /\ events[i].what = outcome /\ outcome \in {"completed", "failed"}
<1>1. DOMAIN events = 1..Len(events) /\ Len(events) \in Nat
  BY DEF EngineInv, IInv, TypeOK
<1>2. i > 1 => i \in Ends(events)
  BY <1>1 DEF Ends
<1>3. i = 1 \/ i > 1
  BY <1>1
<1> QED BY <1>2, <1>3, OutcomeByEnds DEF EngineInv, EventsInv

\* The events have one last word about a step.
LEMMA SaysUnique ==
  ASSUME NEW n \in Nat, NEW s, NEW v \in Status \cup {"none"}, NEW w \in Status \cup {"none"},
         Says(events, n, s, v), Says(events, n, s, w)
  PROVE  v = w
<1>1. \A x \in Status : x # "none" /\ StatusOf([what |-> x, about |-> s], s)
  BY DEF Status, StatusOf
<1>2. CASE v = "none" \/ w = "none"
  BY <1>1, <1>2 DEF Says
<1>3. CASE v # "none" /\ w # "none"
  <2>1. PICK i \in 1..n : /\ events[i] = [what |-> v, about |-> s]
                          /\ \A k \in (i + 1)..n : ~StatusOf(events[k], s)
    BY <1>3 DEF Says
  <2>2. PICK j \in 1..n : /\ events[j] = [what |-> w, about |-> s]
                          /\ \A k \in (j + 1)..n : ~StatusOf(events[k], s)
    BY <1>3 DEF Says
  <2>3. StatusOf(events[i], s) /\ StatusOf(events[j], s)
    BY <1>1, <1>3, <2>1, <2>2
  <2>4. i = j
    <3>1. i \notin (j + 1)..n /\ j \notin (i + 1)..n
      BY <2>1, <2>2, <2>3
    <3> QED BY <3>1
  <2> QED BY <2>1, <2>2, <2>4
<1> QED BY <1>2, <1>3

\* Nothing is said of a step after it has settled.
LEMMA SettledIsLast ==
  ASSUME EngineInv, NEW s \in Step, NEW i \in 1..Len(events), events[i].about = s,
         events[i].what \in Settled, NEW j \in 1..Len(events), j > i
  PROVE  ~StatusOf(events[j], s)
<1> DEFINE w == events[i].what
<1>1. events \in Seq(Event) /\ DOMAIN events = 1..Len(events) /\ Len(events) \in Nat
  BY DEF EngineInv, IInv, TypeOK
<1>2. events[i] = [what |-> w, about |-> s] /\ [what |-> w, about |-> s] \in Event
  <2>1. events[i] \in Event
    BY <1>1
  <2>2. \A e \in Event : e = [what |-> e.what, about |-> e.about]
    BY DEF Event
  <2> QED BY <2>1, <2>2
<1>3. w \in {"completed", "failed", "skipped"} /\ w # "pending" /\ w # "none"
  BY DEF Settled
<1> HIDE DEF w
<1>4. Tally(events, [what |-> w, about |-> s]) = IF status[s] = w THEN 1 ELSE 0
  BY <1>3 DEF EngineInv, EventsInv, EachChangeAnnouncedOnce, Once, Times
<1>5. /\ Tally(events, [what |-> w, about |-> s]) = 1 /\ status[s] = w
      /\ \A k \in 1..Len(events) : events[k] = [what |-> w, about |-> s] => k = i
  BY <1>1, <1>2, <1>4, OnceIsUnique
<1>6. Says(events, Len(events), s, w)
  BY <1>3, <1>5 DEF EngineInv, EventsInv, Shown
<1>7. PICK k \in 1..Len(events) : /\ events[k] = [what |-> w, about |-> s]
                                  /\ \A l \in (k + 1)..Len(events) : ~StatusOf(events[l], s)
  BY <1>3, <1>6 DEF Says
<1>8. j \in (i + 1)..Len(events)
  BY <1>1
<1> QED BY <1>5, <1>7, <1>8

\* A step of the engine, or more output, changes nothing of what has been heard.
LEMMA EngineKeepsView ==
  ASSUME EngineInv, EngineInv', ViewInv, [ViewNext]_allVars,
         UNCHANGED <<receiver, position, lagged, live, tab>>,
         pc = "end" => UNCHANGED events /\ pc' = pc
  PROVE  ViewInv'
<1>1. /\ Len(events) \in Nat /\ Len(events') \in Nat /\ Len(events) <= Len(events')
      /\ \A i \in 1..Len(events) : events'[i] = events[i]
  BY EventsGrow
<1>2. UNCHANGED <<receiver, position, lagged, live, tab>>
  OBVIOUS
<1>3. position \in Nat /\ position <= Len(events)
  BY DEF ViewInv, ViewType
<1>4. \A i \in 1..position : events'[i] = events[i]
  BY <1>1, <1>3
<1>5. ViewType' /\ Lifecycle'
  BY <1>1, <1>2, <1>3 DEF ViewInv, ViewType, Lifecycle, Listens, LiveState, Absent
<1>6. ShownWasHeard'
  BY <1>2, <1>4 DEF ViewInv, ShownWasHeard, Absent
<1>7. HeardIsShown'
  <2>1. SUFFICES ASSUME Listens, ~lagged
                 PROVE  /\ \A s \in Step : Says(events', position, s, live.steps[s])
                        /\ live.workflow = WorkflowSays(position)'
    BY <1>2 DEF HeardIsShown, Listens, Says, StatusOf
  <2>2. /\ \A s \in Step : Says(events, position, s, live.steps[s])
        /\ live.workflow = WorkflowSays(position)
    BY <2>1 DEF ViewInv, HeardIsShown
  <2>3. WorkflowSays(position)' = WorkflowSays(position)
    <3>1. position > 1 => position \in 1..position
      BY <1>3
    <3> QED BY <1>2, <1>4, <3>1 DEF WorkflowSays
  <2>4. ASSUME NEW s \in Step PROVE Says(events', position, s, live.steps[s])
    <3>1. Says(events, position, s, live.steps[s])
      BY <2>2
    <3>2. \A i \in 1..position : \A j \in (i + 1)..position : j \in 1..position
      BY <1>3
    <3> QED BY <1>4, <3>1, <3>2 DEF Says
  <2> QED BY <2>2, <2>3, <2>4
<1>8. LastIsShown'
  <2>1. SUFFICES ASSUME Listens, position = Len(events'), outcome' \in {"completed", "failed"}
                 PROVE  live.workflow = outcome'
    BY <1>2 DEF LastIsShown, Listens
  <2>2. Len(events') = Len(events)
    BY <1>1, <1>3, <2>1
  <2>3. /\ Ends(events') = {Len(events')} /\ events'[Len(events')].what = outcome'
    BY <2>1 DEF EngineInv, EventsInv, OutcomeAnnouncedLast, Ends
  <2>4. Len(events) > 1 /\ Len(events) \in 1..Len(events) /\ events'[Len(events)].about = Workflow
    BY <1>1, <2>2, <2>3 DEF Ends
  <2>5. events[Len(events)].what = outcome /\ outcome \in {"completed", "failed"}
    BY <1>1, <2>4, WorkflowEvents
  <2>6. outcome = outcome'
    BY <1>1, <2>2, <2>3, <2>4, <2>5
  <2> QED BY <2>1, <2>2, <2>5, <2>6 DEF ViewInv, LastIsShown
<1> QED BY <1>5, <1>6, <1>7, <1>8 DEF ViewInv

\* An event that is taken: shown of each step and of the workflow is what it says.
LEMMA WhatIsShown ==
  ASSUME NEW state \in LiveState, NEW e \in Event
  PROVE  /\ Show(state, e) \in LiveState
         /\ \A s \in Step :
              Show(state, e).steps[s] = IF e.about = Workflow /\ e.what = "started" THEN "none"
                                          ELSE IF StatusOf(e, s) THEN e.what ELSE state.steps[s]
         /\ Show(state, e).workflow =
              IF e.about # Workflow THEN state.workflow
                ELSE IF e.what = "started" THEN "running"
                ELSE IF e.what \in {"completed", "failed"} THEN e.what ELSE state.workflow
<1>0. Workflow \notin Step /\ e.about \in Step \cup {Workflow}
  BY WorkflowAssumption DEF Event
<1>1. CASE e.about = Workflow
  <2>1. \A s \in Step : ~StatusOf(e, s)
    BY <1>0, <1>1 DEF StatusOf
  <2>2. CASE e.what = "started"
    BY <1>1, <2>1, <2>2 DEF Show, LiveState, Default
  <2>3. CASE e.what = "completed"
    BY <1>1, <2>1, <2>3 DEF Show, LiveState
  <2>4. CASE e.what = "failed"
    <3> DEFINE q == Append(state.notifications, Workflow)
    <3>1. q \in Seq(Step \cup {Workflow})
      BY DEF LiveState
    <3>2. Show(state, e) = [state EXCEPT !.workflow = "failed", !.notifications = q]
      BY <1>1, <2>4, Zenon DEF Show
    <3> HIDE DEF q
    <3> QED BY <1>1, <2>1, <2>4, <3>1, <3>2 DEF LiveState
  <2>5. CASE e.what \notin {"started", "completed", "failed"}
    <3>1. Show(state, e) = state
      BY <1>1, <2>5 DEF Show
    <3> QED BY <1>1, <2>1, <2>5, <3>1
  <2> QED BY <2>2, <2>3, <2>4, <2>5
<1>2. CASE e.about # Workflow
  <2>1. e.about \in Step
    BY <1>0, <1>2
  <2>2. CASE e.what \in Status
    <3>1. Show(state, e) = [state EXCEPT !.steps[e.about] = e.what]
      BY <1>2, <2>2 DEF Show, Status
    <3> QED BY <1>2, <2>1, <2>2, <3>1, SMTT(40) DEF LiveState, StatusOf
  <2>3. CASE e.what = "notify"
    <3> DEFINE q == Append(state.notifications, e.about)
    <3>1. q \in Seq(Step \cup {Workflow})
      BY <2>1 DEF LiveState
    <3>2. e.what \notin Status
      BY <2>3 DEF Status
    <3>3. Show(state, e) = [state EXCEPT !.notifications = q]
      BY <1>2, <2>3, <3>2, Zenon DEF Show
    <3> HIDE DEF q
    <3> QED BY <1>2, <2>1, <2>3, <3>1, <3>3 DEF LiveState, StatusOf, Status
  <2>4. CASE e.what \notin Status \cup {"notify"}
    <3>1. Show(state, e) = state
      BY <1>2, <2>4 DEF Show
    <3> QED BY <1>2, <2>4, <3>1 DEF StatusOf
  <2> QED BY <2>2, <2>3, <2>4
<1> QED BY <1>1, <1>2

LEMMA TakeKeepsView ==
  ASSUME EngineInv, ViewInv, Take
  PROVE  ViewInv'
<1> DEFINE y == events[position + 1]
           n == position + 1
<1>1. /\ events \in Seq(Event) /\ Len(events) \in Nat /\ position \in Nat /\ n \in 1..Len(events)
      /\ y \in Event /\ receiver = "listening"
  BY DEF Take, ViewInv, ViewType, EngineInv, IInv, TypeOK
<1>2. /\ events' = events /\ position' = n /\ live' = Show(OrDefault, y)
      /\ UNCHANGED <<outcome, pc, receiver, lagged, tab>>
  BY DEF Take, vars
<1>3. /\ OrDefault \in LiveState
      /\ live # Absent => OrDefault = live
      /\ live = Absent => \A s \in Step : OrDefault.steps[s] = "none"
  BY AbsentIsNone DEF ViewInv, ViewType, OrDefault, Default
<1> HIDE DEF y, n
<1>4. /\ live' \in LiveState
      /\ \A s \in Step :
           live'.steps[s] = IF y.about = Workflow /\ y.what = "started" THEN "none"
                              ELSE IF StatusOf(y, s) THEN y.what ELSE OrDefault.steps[s]
      /\ live'.workflow =
           IF y.about # Workflow THEN OrDefault.workflow
             ELSE IF y.what = "started" THEN "running"
             ELSE IF y.what \in {"completed", "failed"} THEN y.what ELSE OrDefault.workflow
  BY <1>1, <1>2, <1>3, WhatIsShown
<1>5. live' # Absent
  BY <1>4, AbsentIsNone
<1>6. ViewType'
  BY <1>1, <1>2, <1>4 DEF ViewType, LiveState, Absent
<1>7. Lifecycle'
  <2>1. receiver' = "listening" /\ live' # Absent
    BY <1>1, <1>2, <1>5
  <2> QED BY <2>1 DEF Lifecycle, Absent
<1>8. ShownWasHeard'
  <2>1. SUFFICES ASSUME NEW s \in Step, live'.steps[s] # "none"
                 PROVE  \E i \in 1..n : events[i] = [what |-> live'.steps[s], about |-> s]
    BY <1>2 DEF ShownWasHeard
  <2>2. CASE StatusOf(y, s)
    <3>1. y = [what |-> y.what, about |-> s] /\ y = events[n] /\ n \in 1..n
      BY <1>1, <2>2 DEF StatusOf, Event, y, n
    <3>2. live'.steps[s] = y.what
      BY <1>4, <2>1, <2>2
    <3> QED BY <3>1, <3>2
  <2>3. CASE ~StatusOf(y, s)
    <3>1. live'.steps[s] = OrDefault.steps[s]
      BY <1>4, <2>1, <2>3
    <3>2. live # Absent /\ live'.steps[s] = live.steps[s]
      BY <1>3, <2>1, <3>1
    <3>3. PICK i \in 1..position : events[i] = [what |-> live.steps[s], about |-> s]
      BY <2>1, <3>2 DEF ViewInv, ShownWasHeard
    <3>4. i \in 1..n
      BY <1>1 DEF n
    <3> QED BY <3>2, <3>3, <3>4
  <2> QED BY <2>2, <2>3
<1>9. HeardIsShown'
  <2>1. SUFFICES ASSUME Listens, ~lagged
                 PROVE  /\ \A s \in Step : Says(events, n, s, live'.steps[s])
                        /\ live'.workflow = WorkflowSays(n)
    BY <1>2 DEF HeardIsShown, Listens, WorkflowSays, Says, StatusOf
  <2>2. /\ \A s \in Step : Says(events, position, s, live.steps[s])
        /\ live.workflow = WorkflowSays(position)
        /\ OrDefault = live
    BY <1>3, <2>1 DEF ViewInv, HeardIsShown, Lifecycle
  <2>3. y.about = Workflow =>
          \/ n = 1 /\ y.what = "started"
          \/ n > 1 /\ n = Len(events) /\ y.what = outcome /\ outcome \in {"completed", "failed"}
    BY <1>1, WorkflowEvents DEF y, n
  <2>4. ASSUME NEW s \in Step PROVE Says(events, n, s, live'.steps[s])
    <3> DEFINE q == SubSeq(events, 1, position)
    <3>1. /\ q \in Seq(Event) /\ Len(q) = position /\ \A i \in 1..position : q[i] = events[i]
          /\ Len(Append(q, y)) = n /\ \A i \in 1..n : Append(q, y)[i] = events[i]
      BY <1>1 DEF y, n
    <3>2. \A m \in {position, n} : \A i \in 1..m : \A j \in (i + 1)..m : j \in 1..m
      BY <1>1
    <3> HIDE DEF q
    <3>3. Says(q, Len(q), s, live.steps[s])
      <4>1. Says(events, position, s, live.steps[s])
        BY <2>2
      <4> QED BY <3>1, <3>2, <4>1 DEF Says
    <3>4. CASE y.about = Workflow /\ y.what = "started"
      <4>1. position = 0 /\ n = 1 /\ live'.steps[s] = "none"
        BY <1>1, <1>4, <2>3, <3>4 DEF n
      <4>2. ~StatusOf(events[1], s)
        BY <3>4, <4>1, WorkflowAssumption DEF StatusOf, y
      <4> QED BY <4>1, <4>2 DEF Says
    <3>5. CASE ~(y.about = Workflow /\ y.what = "started")
      <4>1. live'.steps[s] = IF StatusOf(y, s) THEN y.what ELSE live.steps[s]
        BY <1>4, <2>2, <3>5
      <4>2. Says(Append(q, y), n, s, live'.steps[s])
        BY <1>1, <3>1, <3>3, <4>1, SaysOfAppend
      <4> QED BY <3>1, <3>2, <4>2 DEF Says
    <3> QED BY <3>4, <3>5
  <2>5. live'.workflow = WorkflowSays(n)
    <3>1. CASE y.about = Workflow
      BY <1>1, <1>4, <2>3, <3>1 DEF WorkflowSays, y, n
    <3>2. CASE y.about # Workflow
      <4>1. position # 0
        <5>1. events[1].about = Workflow
          BY DEF EngineInv, EventsInv
        <5> QED BY <3>2, <5>1 DEF y
      <4>2. ~(position > 1 /\ events[position].about = Workflow)
        BY <1>1, WorkflowEvents DEF n
      <4>3. WorkflowSays(position) = "running" /\ WorkflowSays(n) = "running"
        BY <1>1, <3>2, <4>1, <4>2 DEF WorkflowSays, y, n
      <4> QED BY <1>4, <2>2, <3>2, <4>3
    <3> QED BY <3>1, <3>2
  <2> QED BY <2>4, <2>5
<1>10. LastIsShown'
  <2>1. SUFFICES ASSUME n = Len(events), outcome \in {"completed", "failed"}
                 PROVE  live'.workflow = outcome
    BY <1>2 DEF LastIsShown
  <2>2. Ends(events) = {Len(events)} /\ y.what = outcome
    BY <2>1, OutcomeByEnds DEF EngineInv, EventsInv, y, n
  <2>3. y.about = Workflow
    BY <2>1, <2>2 DEF Ends, y, n
  <2> QED BY <1>4, <2>1, <2>2, <2>3
<1> QED BY <1>6, <1>7, <1>8, <1>9, <1>10 DEF ViewInv

LEMMA OthersKeepView ==
  ASSUME EngineInv, ViewInv, Insert \/ Poll \/ Lag \/ Closed \/ CloseTab
  PROVE  ViewInv'
<1>1. Len(events) \in Nat /\ Capacity \in Nat \ {0} /\ position \in Nat /\ position <= Len(events)
  BY LiveViewAssumption DEF ViewInv, ViewType, EngineInv, IInv, TypeOK
<1>2. UNCHANGED <<events, outcome, pc>>
  BY DEF Insert, Poll, Lag, Closed, CloseTab, vars
<1>3. Len(events) > 0
  BY DEF EngineInv, EventsInv
<1>4. CASE Insert
  BY <1>2, <1>4 DEF Insert, ViewInv, ViewType, Lifecycle, ShownWasHeard, HeardIsShown, LastIsShown,
                    Listens, LiveState, Absent
<1>5. CASE Poll
  <2>1. /\ live' = Default /\ position' = 0 /\ position = 0 /\ receiver' = "listening"
        /\ \A s \in Step : Default.steps[s] = "none"
        /\ Default.workflow = "none"
    BY <1>5 DEF Poll, ViewInv, Lifecycle, OrDefault, Default
  <2> HIDE DEF Default
  <2>2. ViewType' /\ Lifecycle' /\ ShownWasHeard'
    BY <1>1, <1>2, <2>1, AbsentIsNone
       DEF ViewType, Lifecycle, ShownWasHeard, LiveState, Absent
  <2>3. HeardIsShown'
    BY <2>1 DEF HeardIsShown, Says, WorkflowSays, StatusOf
  <2>4. LastIsShown'
    BY <1>2, <1>3, <2>1 DEF LastIsShown
  <2> QED BY <2>2, <2>3, <2>4 DEF ViewInv
<1>6. CASE Lag
  <2> DEFINE p == Len(events) - Capacity
  <2>1. /\ p \in Nat /\ position < p /\ p < Len(events) /\ position' = p /\ lagged'
        /\ receiver = "listening" /\ UNCHANGED <<receiver, live, tab>>
    BY <1>1, <1>6 DEF Lag, Overtaken
  <2> HIDE DEF p
  <2>2. ViewType' /\ Lifecycle' /\ HeardIsShown' /\ LastIsShown'
    BY <1>1, <1>2, <2>1 DEF ViewInv, ViewType, Lifecycle, HeardIsShown, LastIsShown, Listens,
                            LiveState, Absent
  <2>3. ShownWasHeard'
    <3>1. \A i \in 1..position : i \in 1..p
      BY <1>1, <2>1
    <3> QED BY <1>2, <2>1, <3>1 DEF ViewInv, ShownWasHeard, Absent
  <2> QED BY <2>2, <2>3 DEF ViewInv
<1>7. CASE Closed
  BY <1>1, <1>2, <1>7
     DEF Closed, ViewInv, ViewType, Lifecycle, ShownWasHeard, HeardIsShown, LastIsShown, Listens,
         LiveState, Absent, Says, WorkflowSays, StatusOf
<1>8. CASE CloseTab
  <2>1. live' = Absent /\ tab' = "closed" /\ position' = position
        /\ receiver' \in {receiver, "ended"}
    BY <1>8 DEF CloseTab
  <2> QED BY <1>1, <1>2, <2>1
     DEF ViewInv, ViewType, Lifecycle, ShownWasHeard, HeardIsShown, LastIsShown, Listens, Absent
<1> QED BY <1>4, <1>5, <1>6, <1>7, <1>8

LEMMA ViewInvStep == EngineInv /\ ViewInv /\ [ViewNext]_allVars => ViewInv'
<1> SUFFICES ASSUME EngineInv, ViewInv, [ViewNext]_allVars PROVE ViewInv'
  OBVIOUS
<1>1. EngineInv'
  BY EngineInvStep
<1>2. CASE EngineStep
  BY <1>1, <1>2, EngineKeepsView DEF EngineStep, viewVars
<1>3. ASSUME NEW s \in Step, AgentOutput(s) PROVE ViewInv'
  <2>1. pc # "end"
    BY <1>3 DEF AgentOutput, EngineInv, IInv, Bookkeeping, Control
  <2> QED BY <1>1, <1>3, <2>1, EngineKeepsView DEF AgentOutput
<1>4. CASE UNCHANGED allVars
  BY <1>1, <1>4, EngineKeepsView DEF allVars, vars, viewVars
<1> QED BY <1>2, <1>3, <1>4, TakeKeepsView, OthersKeepView DEF ViewNext

LEMMA ViewInvariant == ViewSpec => [](EngineInv /\ ViewInv)
<1>1. ViewInit => EngineInv /\ ViewInv
  <2> SUFFICES ASSUME ViewInit PROVE EngineInv /\ ViewInv
    OBVIOUS
  <2>1. EngineInv
    BY InitIInv, InitEventsInv DEF ViewInit, EngineInv
  <2>2. Len(events) \in Nat
    BY <2>1 DEF EngineInv, IInv, TypeOK
  <2> QED BY <2>1, <2>2 DEF ViewInit, ViewInv, ViewType, Lifecycle, ShownWasHeard, HeardIsShown,
                    LastIsShown, Listens
<1> QED BY <1>1, EngineInvStep, ViewInvStep, PTL DEF ViewSpec

(***************************************************************************)
(* A listener that has missed nothing and caught up shows the run as it    *)
(* is; and whatever it missed, a tab still open at the end shows how the   *)
(* workflow ended.                                                         *)
(***************************************************************************)
THEOREM ViewIsRight == ViewSpec => []ViewAgrees
<1>1. ASSUME EngineInv, ViewInv PROVE CaughtUpAgrees
  <2>1. SUFFICES ASSUME Listens, position = Len(events), ~lagged
                 PROVE  /\ \A s \in Step : live.steps[s] = Shown(s)
                        /\ live.workflow = Heard
    BY DEF CaughtUpAgrees, Listens, Shown
  <2>2. /\ \A s \in Step : Says(events, Len(events), s, live.steps[s])
        /\ live.workflow = WorkflowSays(Len(events))
        /\ live \in LiveState
    BY <1>1, <2>1 DEF ViewInv, ViewType, Lifecycle, HeardIsShown
  <2>3. ASSUME NEW s \in Step PROVE live.steps[s] = Shown(s)
    <3>1. live.steps[s] \in Status \cup {"none"} /\ Shown(s) \in Status \cup {"none"}
      BY <1>1, <2>2 DEF LiveState, Shown, EngineInv, IInv, TypeOK
    <3>2. Says(events, Len(events), s, live.steps[s]) /\ Says(events, Len(events), s, Shown(s))
      BY <1>1, <2>2 DEF EngineInv, EventsInv
    <3>3. Len(events) \in Nat
      BY <1>1 DEF EngineInv, IInv, TypeOK
    <3> QED BY <3>1, <3>2, <3>3, SaysUnique
  <2>4. live.workflow = Heard
    <3>1. CASE outcome \in {"completed", "failed"}
      BY <1>1, <2>1, <3>1 DEF ViewInv, LastIsShown, Heard
    <3>2. CASE outcome \notin {"completed", "failed"}
      <4>1. Len(events) \in Nat /\ Len(events) > 0
        BY <1>1 DEF EngineInv, IInv, TypeOK, EventsInv
      <4>2. ~(Len(events) > 1 /\ events[Len(events)].about = Workflow)
        BY <1>1, <3>2, <4>1, WorkflowEvents
      <4> QED BY <2>2, <3>2, <4>1, <4>2 DEF WorkflowSays, Heard
    <3> QED BY <3>1, <3>2
  <2> QED BY <2>3, <2>4
<1>2. ViewInv => EndIsShown
  BY DEF ViewInv, Lifecycle, LastIsShown, Listens, EndIsShown
<1>3. EngineInv /\ ViewInv => ViewAgrees
  BY <1>1, <1>2 DEF ViewAgrees
<1> QED BY <1>3, ViewInvariant, PTL

(***************************************************************************)
(* A step shown as settled stays shown so, however far behind the listener *)
(* falls.                                                                  *)
(***************************************************************************)
THEOREM SettledShownForGood == ViewSpec => SettledStaysShown
<1>1. ASSUME EngineInv, ViewInv, [ViewNext]_allVars, NEW s \in Step,
             live # Absent, live' # Absent, live.steps[s] \in Settled
      PROVE  live'.steps[s] = live.steps[s]
  <2>1. CASE UNCHANGED live
    BY <2>1
  <2>2. CASE Take
    <3> DEFINE y == events[position + 1]
    <3>1. /\ position \in Nat /\ position + 1 \in 1..Len(events) /\ y \in Event
          /\ live \in LiveState /\ live' = Show(live, y)
      BY <1>1, <2>2 DEF Take, OrDefault, ViewInv, ViewType, EngineInv, IInv, TypeOK
    <3>2. PICK i \in 1..position : events[i] = [what |-> live.steps[s], about |-> s]
      BY <1>1 DEF ViewInv, ShownWasHeard, Settled
    <3>3. i \in 1..Len(events) /\ position + 1 > i
      BY <3>1
    <3>4. ~StatusOf(y, s)
      BY <1>1, <3>1, <3>2, <3>3, SettledIsLast
    <3>5. ~(y.about = Workflow /\ y.what = "started")
      BY <1>1, <3>1, <3>3, WorkflowEvents
    <3> QED BY <3>1, <3>4, <3>5, WhatIsShown
  <2>3. CASE Poll \/ CloseTab
    BY <1>1, <2>3 DEF Poll, CloseTab, OrDefault
  <2> QED BY <1>1, <2>1, <2>2, <2>3 DEF ViewNext, EngineStep, AgentOutput, Insert, Lag, Closed, allVars,
                                  viewVars
<1>2. EngineInv /\ ViewInv /\ [ViewNext]_allVars =>
        [\A s \in Step :
          (live # Absent /\ live' # Absent /\ live.steps[s] \in Settled) =>
             live'.steps[s] = live.steps[s]]_allVars
  BY <1>1
<1> QED BY <1>2, ViewInvariant, PTL DEF ViewSpec, SettledStaysShown
=============================================================================
