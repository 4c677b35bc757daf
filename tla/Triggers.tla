------------------------------ MODULE Triggers ------------------------------
(***************************************************************************)
(* The triggers of the workflows: ManualTrigger and CronTrigger            *)
(* (crates/trigger/src/manual.rs and cron.rs) under the TriggerManager     *)
(* (manager.rs) that starts and stops them and merges their events.        *)
(*                                                                         *)
(* Every start gives a trigger a run of its own: a task (or a scheduler    *)
(* with the jobs it sets off), the channel it sends to, and a forwarder    *)
(* that hands its events on to the manager's one channel.  The runs of a   *)
(* trigger share its Notify, its stop flag and its place for a scheduler.  *)
(***************************************************************************)
EXTENDS Naturals, Sequences, FiniteSets, SequencesExt

CONSTANTS
  TriggerWorkflow,  \* the workflows that have triggers
  Manual, Cron,     \* the triggers of either kind
  BadSchedule,      \* the cron triggers whose schedule does not parse
  Offered,          \* the lists of triggers a workflow may be registered with
  Policy,           \* OverlapPolicy
  InnerCapacity,    \* of a run's channel (16)
  EventCapacity,    \* buffer_size, of the manager's channel
  MaxFires,         \* bound: fires of a trigger
  MaxCalls          \* bounds: calls of start, of stop and of register

Trigger == Manual \cup Cron

ASSUME TriggerAssumption ==
  /\ IsFiniteSet(TriggerWorkflow) /\ Manual \cap Cron = {}
  /\ Offered \in [TriggerWorkflow -> SUBSET Seq(Trigger)]

VARIABLES
  registered,  \* TriggerManager::workflows
  starting,    \* the triggers a call of start has still to start
  stopping,    \* the steps by which a call of stop has still to stop each trigger
  calls,       \* calls so far
  permit,      \* the permit that Notify holds
  waiters,     \* the runs that wait in notified(), oldest first
  flagged,     \* stop_flag
  held,        \* the run whose scheduler CronTrigger keeps, 0 for None
  runs,        \* the runs of a trigger, one for each start
  channel,     \* the manager's channel, whose receiver may be gone
  fires,       \* how often a trigger was fired, or its schedule came due
  sent,        \* the events its runs have sent
  covered      \* the last fire an event was sent for

trgVars    == <<registered, starting, stopping, calls, permit, waiters, flagged, held, runs,
                channel, fires, sent, covered>>
callVars   == <<registered, starting, stopping, calls>>
wakeVars == <<permit, waiters, flagged>>
countVars  == <<fires, sent, covered>>

\* A run: its task or scheduler, the jobs under way, its channel and its forwarder.
Run == [task : {"new", "waiting", "woken", "sending", "ticking", "ended"},
        jobs : Nat, inner : Nat, forwarder : {"idle", "holding", "ended"},
        policy : Policy, fire : Nat]

NewRun(t, policy) ==
  [task |-> IF t \in Manual THEN "new" ELSE "ticking", jobs |-> 0, inner |-> 0,
   forwarder |-> "idle", policy |-> policy, fire |-> 0]

\* A workflow without an entry is registered for nothing.
NoTriggers == [triggers |-> <<>>, policy |-> "none"]

\* The HashMap of workflows is walked in any order, a workflow's triggers in theirs.
WalkTriggers ==
  LET listed == UNION {{w} \X DOMAIN registered[w].triggers : w \in TriggerWorkflow}
      InTurn(walk) ==
        \A i, j \in DOMAIN walk : i < j /\ walk[i][1] = walk[j][1] =>
          walk[i][2] < walk[j][2] /\ \A n \in i..j : walk[n][1] = walk[i][1]
  IN  {[i \in DOMAIN walk |-> [trigger |-> registered[walk[i][1]].triggers[walk[i][2]],
                               policy  |-> registered[walk[i][1]].policy]] :
       walk \in {q \in SetToSeqs(listed) : InTurn(q)}}

TriggerInit ==
  /\ registered = [w \in TriggerWorkflow |-> NoTriggers]
  /\ starting = <<>> /\ stopping = <<>>
  /\ calls = [start |-> 0, stop |-> 0, register |-> 0]
  /\ permit = [t \in Manual |-> FALSE]
  /\ waiters = [t \in Manual |-> <<>>]
  /\ flagged = [t \in Manual |-> FALSE]
  /\ held = [t \in Cron |-> 0]
  /\ runs = [t \in Trigger |-> <<>>]
  /\ channel = [open |-> TRUE, events |-> <<>>]
  /\ fires = [t \in Trigger |-> 0] /\ sent = [t \in Trigger |-> 0]
  /\ covered = [t \in Trigger |-> 0]

-----------------------------------------------------------------------------
\* The manager.  register borrows it exclusively: no start or stop is under way.
Register(w, triggers, policy) ==
  /\ starting = <<>> /\ stopping = <<>>
  /\ calls.register < MaxCalls.register /\ calls' = [calls EXCEPT !.register = @ + 1]
  /\ registered' = [registered EXCEPT ![w] = [triggers |-> triggers, policy |-> policy]]
  /\ UNCHANGED <<starting, stopping, wakeVars, held, runs, channel, countVars>>

StartAll ==
  /\ starting = <<>>
  /\ calls.start < MaxCalls.start /\ calls' = [calls EXCEPT !.start = @ + 1]
  /\ starting' \in WalkTriggers
  /\ UNCHANGED <<registered, stopping, wakeVars, held, runs, channel, countVars>>

\* A trigger that does not start ends the call; those before it stay started.
\* A scheduler that is already held is dropped, and goes on unheard of.
StartNext ==
  /\ starting # <<>>
  /\ LET t == Head(starting).trigger
     IN  IF t \in BadSchedule
         THEN starting' = <<>> /\ UNCHANGED <<runs, held>>
         ELSE /\ starting' = Tail(starting)
              /\ runs' = [runs EXCEPT ![t] = Append(@, NewRun(t, Head(starting).policy))]
              /\ held' = IF t \in Cron THEN [held EXCEPT ![t] = Len(runs[t]) + 1] ELSE held
  /\ UNCHANGED <<registered, stopping, calls, wakeVars, channel, countVars>>

\* Slips: the task is woken before the flag is set; it is not woken.
StopStepsNotifyFirst(t) ==
  IF t \in Manual THEN <<[trigger |-> t, do |-> "notify"], [trigger |-> t, do |-> "flag"]>>
                  ELSE <<[trigger |-> t, do |-> "shutdown"]>>
StopStepsFlagOnly(t) ==
  <<[trigger |-> t, do |-> IF t \in Manual THEN "flag" ELSE "shutdown"]>>

\* Stopping a manual trigger is two steps that other threads come between.
StopSteps(t) ==
  IF t \in Manual THEN <<[trigger |-> t, do |-> "flag"], [trigger |-> t, do |-> "notify"]>>
                  ELSE <<[trigger |-> t, do |-> "shutdown"]>>

StopAll ==
  /\ stopping = <<>>
  /\ calls.stop < MaxCalls.stop /\ calls' = [calls EXCEPT !.stop = @ + 1]
  /\ \E walk \in WalkTriggers :
       stopping' = [i \in DOMAIN walk |-> StopSteps(walk[i].trigger)]
  /\ UNCHANGED <<registered, starting, wakeVars, held, runs, channel, countVars>>

\* Slip: notify_waiters wakes who waits now, and keeps nothing for who will.
NotifyWaiters(t) ==
  /\ runs' = [runs EXCEPT ![t] = [k \in DOMAIN runs[t] |->
       IF runs[t][k].task = "waiting" THEN [runs[t][k] EXCEPT !.task = "woken"] ELSE runs[t][k]]]
  /\ waiters' = [waiters EXCEPT ![t] = <<>>]
  /\ UNCHANGED permit

\* tokio's Notify: the oldest waiter is woken, or else one permit is kept.
NotifyOne(t) ==
  IF waiters[t] = <<>>
  THEN /\ permit' = [permit EXCEPT ![t] = TRUE]
       /\ UNCHANGED <<waiters, runs>>
  ELSE /\ runs' = [runs EXCEPT ![t][Head(waiters[t])].task = "woken"]
       /\ waiters' = [waiters EXCEPT ![t] = Tail(@)]
       /\ UNCHANGED permit

StopNext ==
  /\ stopping # <<>>
  /\ LET steps == Head(stopping)
         t     == Head(steps).trigger
     IN  /\ stopping' = IF Len(steps) = 1 THEN Tail(stopping)
                                          ELSE [stopping EXCEPT ![1] = Tail(steps)]
         /\ \/ /\ Head(steps).do = "flag"
               /\ flagged' = [flagged EXCEPT ![t] = TRUE]
               /\ UNCHANGED <<permit, waiters, held, runs>>
            \/ /\ Head(steps).do = "notify"
               /\ NotifyOne(t)
               /\ UNCHANGED <<flagged, held>>
            \/ /\ Head(steps).do = "shutdown"
               /\ runs' = IF held[t] = 0 THEN runs
                                         ELSE [runs EXCEPT ![t][held[t]].task = "ended"]
               /\ held' = [held EXCEPT ![t] = 0]
               /\ UNCHANGED wakeVars
  /\ UNCHANGED <<registered, starting, calls, channel, countVars>>

-----------------------------------------------------------------------------
\* A manual trigger's task: wait for a notification, look at the flag, send.
Fire(t) ==
  /\ fires[t] < MaxFires /\ fires' = [fires EXCEPT ![t] = @ + 1]
  /\ NotifyOne(t)
  /\ UNCHANGED <<callVars, flagged, held, channel, sent, covered>>

AwaitFire(t, k) ==
  /\ runs[t][k].task = "new"
  /\ IF permit[t]
     THEN /\ permit' = [permit EXCEPT ![t] = FALSE]
          /\ runs' = [runs EXCEPT ![t][k].task = "woken"]
          /\ UNCHANGED waiters
     ELSE /\ waiters' = [waiters EXCEPT ![t] = Append(@, k)]
          /\ runs' = [runs EXCEPT ![t][k].task = "waiting"]
          /\ UNCHANGED permit
  /\ UNCHANGED <<callVars, flagged, held, channel, countVars>>

CheckFlag(t, k) ==
  /\ runs[t][k].task = "woken"
  /\ runs' = [runs EXCEPT ![t][k] = IF flagged[t]
                THEN [@ EXCEPT !.task = "ended"]
                ELSE [@ EXCEPT !.task = "sending", !.fire = fires[t]]]
  /\ UNCHANGED <<callVars, wakeVars, held, channel, countVars>>

\* What is sent waits for room; it fails once the forwarder is gone.
SendEvent(t, k, done, failed) ==
  \/ /\ runs[t][k].forwarder = "ended"
     /\ runs' = [runs EXCEPT ![t][k] = failed]
     /\ UNCHANGED <<sent, covered>>
  \/ /\ runs[t][k].forwarder # "ended" /\ runs[t][k].inner < InnerCapacity
     /\ runs' = [runs EXCEPT ![t][k] = [done EXCEPT !.inner = @ + 1]]
     /\ sent' = [sent EXCEPT ![t] = @ + 1]
     /\ covered' = [covered EXCEPT ![t] = IF runs[t][k].fire > @ THEN runs[t][k].fire ELSE @]

SendFire(t, k) ==
  /\ runs[t][k].task = "sending"
  /\ SendEvent(t, k, [runs[t][k] EXCEPT !.task = "new"], [runs[t][k] EXCEPT !.task = "ended"])
  /\ UNCHANGED <<callVars, wakeVars, held, channel, fires>>

\* A scheduler that ticks sets off a job; its jobs go on when it is shut down.
ComeDue(t, k) ==
  /\ runs[t][k].task = "ticking"
  /\ fires[t] < MaxFires /\ fires' = [fires EXCEPT ![t] = @ + 1]
  /\ runs' = [runs EXCEPT ![t][k].jobs = @ + 1]
  /\ UNCHANGED <<callVars, wakeVars, held, channel, sent, covered>>

JobSends(t, k) ==
  /\ runs[t][k].jobs > 0
  /\ LET done == [runs[t][k] EXCEPT !.jobs = @ - 1] IN SendEvent(t, k, done, done)
  /\ UNCHANGED <<callVars, wakeVars, held, channel, fires>>

Task(t, k) == AwaitFire(t, k) \/ CheckFlag(t, k) \/ SendFire(t, k) \/ JobSends(t, k)

-----------------------------------------------------------------------------
\* The forwarder puts the workflow's policy on every event.
TakeEvent(t, k) ==
  /\ runs[t][k].forwarder = "idle" /\ runs[t][k].inner > 0
  /\ runs' = [runs EXCEPT ![t][k].inner = @ - 1, ![t][k].forwarder = "holding"]
  /\ UNCHANGED <<callVars, wakeVars, held, channel, countVars>>

ForwardEvent(t, k) ==
  /\ runs[t][k].forwarder = "holding"
  /\ \/ /\ channel.open /\ Len(channel.events) < EventCapacity
        /\ channel' = [channel EXCEPT !.events =
                         Append(@, [trigger |-> t, policy |-> runs[t][k].policy])]
        /\ runs' = [runs EXCEPT ![t][k].forwarder = "idle"]
     \/ /\ ~channel.open
        /\ runs' = [runs EXCEPT ![t][k].inner = 0, ![t][k].forwarder = "ended"]
        /\ UNCHANGED channel
  /\ UNCHANGED <<callVars, wakeVars, held, countVars>>

\* The channel of a run closes when its task and its jobs have ended.
ForwarderEnds(t, k) ==
  /\ runs[t][k].forwarder = "idle" /\ runs[t][k].inner = 0
  /\ runs[t][k].task = "ended" /\ runs[t][k].jobs = 0
  /\ runs' = [runs EXCEPT ![t][k].forwarder = "ended"]
  /\ UNCHANGED <<callVars, wakeVars, held, channel, countVars>>

Forwarder(t, k) == TakeEvent(t, k) \/ ForwardEvent(t, k) \/ ForwarderEnds(t, k)

\* Whoever took the receiver.
Receive ==
  /\ channel.open /\ channel.events # <<>>
  /\ channel' = [channel EXCEPT !.events = Tail(@)]
  /\ UNCHANGED <<callVars, wakeVars, held, runs, countVars>>

CloseChannel ==
  /\ channel.open
  /\ channel' = [open |-> FALSE, events |-> <<>>]
  /\ UNCHANGED <<callVars, wakeVars, held, runs, countVars>>

-----------------------------------------------------------------------------
\* What goes on by itself once a call was made.
TriggerSystem ==
  \/ StartNext \/ StopNext \/ Receive
  \/ \E t \in Trigger : \E k \in DOMAIN runs[t] : Task(t, k) \/ Forwarder(t, k)

TriggerNext ==
  \/ \E w \in TriggerWorkflow, p \in Policy : \E q \in Offered[w] : Register(w, q, p)
  \/ StartAll \/ StopAll
  \/ \E t \in Manual : Fire(t)
  \/ \E t \in Cron : \E k \in DOMAIN runs[t] : ComeDue(t, k)
  \/ TriggerSystem
  \/ CloseChannel

TriggerSpec == TriggerInit /\ [][TriggerNext]_trgVars

(***************************************************************************)
(* tokio polls a task that can go on, a call that was made goes on, and    *)
(* what subscribed receives until it is dropped.  Every fire makes for     *)
(* finitely many steps, so that fairness to all of them together is enough *)
(* here; the runtime is fair to each task.                                 *)
(***************************************************************************)
TriggerFairness == WF_trgVars(TriggerSystem)

-----------------------------------------------------------------------------
(***************************************************************************)
(* A trigger's runs never send more events than it was fired: although     *)
(* stop wakes the same task with the same Notify, and two starts share it. *)
(***************************************************************************)
EventsAreFired == \A t \in Trigger : sent[t] <= fires[t]

(***************************************************************************)
(* A trigger that was started and is fired sends an event for this fire or *)
(* for a later one, even when the fire meets its task on the way to        *)
(* waiting, or waiting for room in a full channel; unless it is stopped    *)
(* before, or nobody receives any more.  (A trigger that is fired before   *)
(* it is started sends the event when it is.)                              *)
(***************************************************************************)
FireIsSent ==
  \A t \in Manual :
    (covered[t] < fires[t] /\ runs[t] # <<>>)
      ~> (covered[t] = fires[t] \/ flagged[t] \/ ~channel.open)

(***************************************************************************)
(* A manual trigger that was started once ends when it is stopped, with    *)
(* its forwarder, whatever it is doing then: the flag and the notification *)
(* reach it also when it is not waiting.  (Started twice, it has two tasks *)
(* and stop wakes one.)                                                    *)
(***************************************************************************)
StopEnds ==
  \A t \in Manual :
    (flagged[t] /\ Len(runs[t]) = 1) ~>
      (Len(runs[t]) # 1 \/ runs[t][1].forwarder = "ended")
=============================================================================
