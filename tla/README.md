# Verification of fridi

fridi runs workflows of AI agents: a workflow file lists steps with dependencies,
every step is an agent process on a pseudo terminal, and the program keeps
sessions on disk, shows running workflows in tabs, lets agents talk to each other
through a tool server, and shows what there is to do on GitHub. This directory
holds TLA+ models of the program, the TLC configurations that check them on small
instances, and theorems about them whose proofs TLAPS checks. `PROJECT.json` lists
the runs, for every definition the source lines it stands for, the hazards of the
code with the properties aimed at them, the findings and the theorems.

To check: `tlc -config Engine.cfg EngineMC` (module and configuration of each run
are in the table below) and `tlapm EngineProofs.tla`.

Contents: [parts](#the-parts-of-the-system), [modules](#modules-and-code),
[runs](#the-runs), [fairness](#fairness), [proofs](#what-is-proved),
[where the code and its words part](#where-the-code-and-its-words-part),
[left out](#what-is-not-modelled).

## The parts of the system

Paths are relative to `src/crates/`.

**Workflow engine** (`core/src/engine.rs`). State: the set of steps that no longer
hold back their dependents, a status per step, the outputs recorded in the
`WorkflowContext`, and an event channel. One operation, `Engine::execute`: while
steps are ready, launch a batch of them (a false condition skips one), join all its
tasks, settle the panicked ones, then the returned ones in the order they were
joined, retrying the failed ones one after the other. It calls an `AgentSpawner` per
step and sends events to the command line and the user interface. Hard: agents of
a batch end in any order; a task may panic, also during a retry; `stop`, `continue`
and `notify` mix in one batch; conditions read outputs recorded during earlier
batches; a retry interval that makes `parse_duration` panic unwinds `execute`. Correct
means: nothing is launched before its dependencies settled; a condition holds for
what its step recorded in the end; `completed` means all steps are settled; a step
settles once, and everything is announced once, in order; the deadlock error never
occurs; `execute` returns if the agents do.

**Loading and DAG** (`core/src/schema.rs`, `core/src/dag.rs`,
`ui/src/workflow_runner.rs`). No lasting state: `validate`, `WorkflowDag::from_workflow`
and `WorkflowDag::ready_steps` decide which workflows reach the engine. Correct means: an
accepted workflow has known, acyclic dependencies, and the graph has the edges of
the file. The engine relies on both.

**Step spawner and PTY** (`cli/src/spawner.rs`, `agent/src/pty.rs`). State: the agent's
process, the slave side other processes may hold, a reader thread with its
collected output, a bounded broadcast channel of output, a forwarder task that
turns it into events, a registry of resizers. `spawn_step` starts the agent,
writes the prompt, waits, joins the reader and the forwarder and returns a
`StepResult`. Hard: the child may exit while its children still write; the
forwarder may lag; who holds the channel's last sender decides who can end.

**Sessions and orchestrator** (`core/src/session.rs`, `core/src/orchestrator.rs`).
State: a `Session` and agent counts in memory, `session.json` on disk, written
through a temporary file and a rename. Operations: create, save, spawn an agent
(with an id made of role and number), end, start again on a loaded session
(`Orchestrator::new`; the models call it a resumption), recover, delete. The command
line and the user interface are two processes on one directory. Hard: a crash or a
failed write between any two steps; ids after a resumption; recovery of a session
somebody is running; deletion next to a save.

**Message broker and tool server** (`mcp/src/broker.rs`, `mcp/src/server.rs`).
State behind one mutex: mailboxes, registered agents and their status, and the
tools each may call. Outside the lock: two unbounded channels (statuses, results)
and a bounded one of spawn requests. Hard: calls of several threads interleave
between the lock and the channels; the spawn channel may be full, or unread.

**Tool server process** (`mcp/src/transport.rs`, `mcp/src/main.rs`). A loop that
reads a JSON-RPC line, handles it and writes a line. Hard: notifications, bad lines,
a blank line, failed writes and the end of stdin in any order.

**Live view** (`ui/src/engine_bridge.rs`, `ui/src/app.rs`). A listener per tab that
takes events from the engine's channel (256 slots) and shows them. Hard: the
listener is overtaken and misses events; the tab is closed while the workflow goes
on; events come before the listener's entry exists.

**Tabs and window state** (`ui/src/app.rs`, `core/src/window_state.rs`). State: tabs
and the shown pane in memory, the open sessions and the active one in a file, the
sessions on disk. Hard: every handler writes two or three of these, each write can
fail, the program can end between them, and indices into the tabs outlive a closing.

**Backlog** (`core/src/backlog.rs`, `ui/src/components/backlog_tab.rs` and
`quick_capture.rs`, `cli/src/main.rs`). A file of prioritised items, the copy a tab made
when it was opened, a capture dialog that loads, adds and saves behind the tab's back, and a
command that does so from another process. Nothing is locked or written through a rename.
Hard: a save that breaks off, a load in the middle of another process's write, a save of
the other process between one's load and save, copies out of date. The
lines themselves carry marks, tags and a comment with the context, which have to come
back as they were written.

**Dashboard** (`ui/src/components/home_dashboard.rs`). State: a cached overview that
outlives the page, fetches that overlap, edited issue bodies not saved yet, the task
that saves them, a label being removed, an automatic pick. Everything awaits the
`gh` command. Hard: fetches overtake saves, the page is left while tasks run, errors
replace what was shown.

**Command line** (`cli/src/main.rs`, `cli/src/run.rs`). `run` uses the session
store and the engine, `backlog` the backlog; the rest parses arguments and prints.

**Triggers** (`trigger/src`). A manager's table of workflows, one `Notify` and one stop
flag for each manual trigger, a scheduler for each cron trigger, a channel and a
forwarder for each start, and the one channel all events come out of. Operations:
register, start, stop, fire. Hard: fires and stops share one notification; a start that
fails half-way; full channels; a receiver that is gone.

**Notifications** (`notify/src`). The backends a configuration builds, each behind a rate
limiter that remembers when it last let a subject through. Hard: calls overlap, and a
call is recorded before it is known to succeed.

**GitHub and project overview** (`core/src/github.rs`, `core/src/project_overview.rs`,
the helpers of `home_dashboard.rs`). No lasting state: the repository of a remote's URL,
the state of a pull request's checks, branches by age, task lists in issue bodies.

**Agent definitions** (`agent/src`, with the loaders of `orchestrator.rs` and
`session_creator.rs`). No lasting state: directories read into lists, definitions
checked, prompts and arguments made from them.

**Terminal, view and dialogs** (`ui/src/components/terminal_view.rs`,
`workflow_view.rs`, `toast.rs`, `session_creator.rs`, `command_palette.rs`,
`quick_capture.rs`, `app.rs`). The terminal of a step keeps how much of the output it
has written, whether the web view's terminal is ready, and tasks that create and dispose
of it; scripts run later, in the web view. The view keeps the selected step and how many
notifications became toasts. The dialogs keep what is shown, lists and filters. Hard:
another step is selected while scripts are on their way; another session is shown by the
same component; Escape arrives twice.

How they interact: the command line or the user interface loads a workflow, creates
a session through the orchestrator, and starts the engine with the step spawner; the
engine's events go to the terminal or, through a listener, to a tab; tabs and
sessions meet in the window state's file and in `SessionStore`; agents reach the
broker by their own tool server process.

## Modules and code

In every module an action is one stretch of code that no other actor can see the
middle of: what runs under one lock, between two awaits, or between two system
calls. Definitions carry the names of the code where they can. Operators under a
comment that starts with *Slip* are plausible mistakes; no specification uses them, and
`PROJECT.json` names for every property the mistake under which TLC finds it
violated.

| Module | Models | Composes |
|---|---|---|
| `Engine` | `Engine::execute`, `ready_steps`, conditions | `WorkflowContract` (refinement) |
| `WorkflowContract` | what a workflow promises, without batches, tasks or retries | |
| `EngineMC`, `EngineDocs`, `EngineDocsMC` | instances; the documented `retry.until` | `Engine`, `WorkflowFile` |
| `WorkflowFile` | `validate`, `from_workflow` | |
| `Spawner` | `spawn_step` with the PTY | |
| `Sessions`, `SessionsMC` | the orchestrator, `SessionStore`, two processes | |
| `Broker`, `BrokerMC` | the broker and the permission checks, by several threads | |
| `McpProcess` | the tool server's loop | `Broker` |
| `LiveView`, `LiveViewMC` | the event channel, the listener, the tab | `Engine` |
| `Tabs`, `TabsMC` | the handlers of `App`, `WindowState` | |
| `Backlog` | the file, the tab's copy, the dialog, the command | |
| `BacklogText` | a line of the backlog, written and read | |
| `Dashboard`, `DashboardMC` | the page, its tasks, GitHub as far as it is used | |
| `Triggers` | the manager, manual and cron triggers, channels | |
| `Notifier` | the backends, their limiters, templates | |
| `Terminal` | `TerminalView` and the web view | |
| `WorkflowView` | the selected step, notifications, toasts | |
| `Dialogs` | creator, palette, capture, question; the keyboard | |
| `Overview`, `Directories` | functions: GitHub and overview; directories, definitions, variables | |
| `TextsMC` | `BacklogText`, `Overview`, `Directories` over short inputs | these three |
| `PartsMC` | seven parts side by side | `McpProcess`, `Backlog`, `Notifier`, `WorkflowView`, `Triggers`, `Terminal`, `Dialogs`, `TextsMC` |
| `EngineProofs` (with `WorkflowFile`), `SpawnerProofs`, `SessionsProofs`, `LiveViewProofs`, `TabsProofs`, `DashboardProofs` | theorems about the module of that name | |
| `BrokerProofs` | theorems about the broker and the tool server | `McpProcess` |
| `PartsProofs` | theorems about six parts | `Backlog`, `Notifier`, `WorkflowView`, `Dialogs`, `Triggers`, `Terminal` |

**Engine.** `pc` walks through the phases of one turn of the loop: `ready`, `launch`
(`SkipStep`, `SpawnStep` in any order over the ready steps), `join` (`JoinReturned`,
`JoinPanicked`: an agent's result is known when its task is joined), `panics`,
`results` (`ProcessResult` for the head of `first_attempt_results`), `retry`, `end`.
`completed`, `status`, `outputs`, `spawned`, `running`, `results` and `panicked` are
the locals of the same name or role; `attempts` and `events` record calls of
`spawn_step` and the sends on `event_tx`. Outputs are `truthy` or `falsy`, which is
all a condition tells apart. `BadInterval` holds the steps whose retry interval makes
`parse_duration` panic, because it ends in a character of several bytes; any other that
does not parse counts as a minute.

**WorkflowFile.** A workflow is a sequence of named steps with sets of names they
depend on. `HasOrder` says what petgraph's `toposort` decides: some order of the
nodes respects all edges. `Accepted` is what both checks let through.

**Spawner.** `task` is `spawn_step`; `child` and `slaveOpen` distinguish the agent's
exit from the last process that holds its terminal; `written`, `collected`,
`received` count chunks, `forwarded` lists those sent on. A receiver `Lagged` when
more than `Capacity` messages are waiting. `handle` is the `AgentHandle` that owns a
sender of the channel until `spawn_step` drops it on its return.

**Sessions.** `runner` is the process that executes the workflow, `ui` one that
recovers sessions when it starts and writes them back. Each save is four steps:
create the directory, write the temporary file (possibly only a part of it), rename,
or fail. `starts` and `overlapped` are history.

**Broker.** A call takes the lock, changes the mailboxes or agents and leaves what it
has to send in `unsent`; `Deliver` sends it afterwards, in order, and blocks on a full
spawn channel. `accepted` and `taken` record what `send_message` accepted and
`read_messages` returned. **McpProcess** drives the same actions from a loop that
reads a line, handles it and writes the answer; `lines` and `answers` are history.

**LiveView.** `position` is how far the listener has read in the engine's `events`,
with the `AgentOutput`s in between; `Lag` skips to the oldest message still held.
`live` is the session's entry in the live states, which `CloseTab` removes and a
later event can bring back.

**Tabs.** `handler` holds what is left of a handler between its writes: the session's
file, the window's file, the removal of a directory. `pane` and `pending` are numbers
of tabs, as in the code. Workflows that go on after their tab was closed save their
sessions (`WorkflowSaves`).

**Backlog.** `tab`, `capture` and `command` hold what the tab, the dialog and the command
have loaded from `file`, each with a note whether it may differ from the file. The dialog
and the command load (`CaptureLoads`, `CommandLoads`) and save (`CaptureSaves`,
`CommandSaves`) in steps between which the other process may do anything; the handlers of
the user interface run on one thread, so none runs within another (`UiIdle`). `writing` is a
save that has truncated the file, of which a load meanwhile sees some `Beginning`;
`WriteBreaksOff` and `ProgramEnds` leave one for good. Items are numbered as they are added. **BacklogText**
keeps the characters that matter to the parser: marks, `#`, spaces, the parts of `<!--`
and `-->`.

**Dashboard.** Each task of the page is a variable with the point it has reached:
`fetch`, `save`, `removal`, `pick`. `remote` is GitHub, with a version counted up by
every write. Leaving the page cancels the page's tasks but not the `gh` processes they
have started: `orphans` and `orphanRemoval` may still take effect.

**Triggers.** Each start gives a trigger a record in `runs`: its task (or a scheduler with
the jobs it set off), the length of its channel, its forwarder. `permit` and `waiters` are
tokio's `Notify`; `StopSteps` is the order in which a stop sets the flag and notifies.
`fires`, `sent` and `covered` count. `starting` and `stopping` are what is left of a call of
the manager's: the triggers still to start, the steps still to take for each to stop.

**Notifier.** `sends` lists the calls with how far each is: `asked`, then refused or let
through by `Check` under the limiter's lock, then sent or failed. `now` advances by
`Tick`; `lastSent` is the limiter's map.

**Terminal.** `written`, `ready` and `firstId` are the component's own; `tasks` are its
spawned tasks, `webview` the scripts handed over and not yet run, `xterm` what each
terminal in the page shows. A byte of output is its number.

**WorkflowView.** `counted` is `shown_count`, `notes` the sessions' notifications,
`toasts` what is up, each with its age in polls of the container.

**Dialogs.** `showing` is the set of dialogs; a key press leaves an event for the focused
dialog and a message in `keys`, handled in either order.

**Overview**, **Directories**: operators only, named after the functions.

## The runs

| Run | Module, configuration | Instance | Distinct states |
|---|---|---|---|
| `engine` | `EngineMC`, `Engine.cfg` | five steps; see below | 53 615 |
| `docs_until` | `EngineDocsMC`, `EngineDocsUntil.cfg` | three steps like the shipped `pr-babysitter` | violated |
| `spawner_forward` | `Spawner`, `SpawnerForward.cfg` | channel of 2, up to 5 chunks | 2 346 |
| `spawner_drain` | `Spawner`, `SpawnerDrain.cfg` | channel of 2, up to 3 chunks | violated |
| `sessions` | `SessionsMC`, `Sessions.cfg` | 2 roles, 2 agents of each, 3 starts | 334 845 |
| `sessions_two_processes` | `SessionsMC`, `SessionsTwoProcesses.cfg` | 2 roles, 1 agent of each, 3 starts | violated |
| `broker_threads` | `BrokerMC`, `BrokerThreads.cfg` | 2 agents, 2 threads, spawn channel of 1 | 317 263 |
| `live_view` | `LiveViewMC`, `LiveView.cfg` | 2 steps, channel of 2, 2 outputs | 99 283 |
| `tabs` | `TabsMC`, `Tabs.cfg` | 3 sessions | 24 557 |
| `dashboard` | `DashboardMC`, `Dashboard.cfg` | an issue with 2 boxes, 6 events | 944 764 |
| `parts` | `PartsMC`, `Parts.cfg` | see below | 411 299 |
| `terminal_full` | `Terminal`, `TerminalFull.cfg` | buffer of 2 bytes, 3 bytes of output | violated |

**engine.** Step `d` waits for `b` and for `c`, which waits for `a`, so that the first
batch has three steps, one of them (`e`) skipped by its condition, and outputs decide
whether `c` and `d` run. There is a step of each failure policy, `max_attempts` from none
to three, and an interval that panics (`d`): a failing step meets each policy alone,
next to one that returns and next to one that panics. The properties say: dependencies settle first
(`DependenciesSettled`); a step's condition agrees with what is recorded at the end
(`ConditionNotStale`: no later retry changes it behind its back); the deadlock error is
unreachable (`NoFalseDeadlock`); a step is tried no more often than its file allows
(`AttemptsBounded`); every change is announced once and the outcome last (`EventsTell`, the conjunction of
`EachChangeAnnouncedOnce` and `OutcomeAnnouncedLast`); `execute` ends (`Termination`); and
the engine implements `WorkflowContract` (`ContractSpec`), in which a settled step stays
settled and a workflow completes only with all steps settled. The module also checks
(`LoadingChecked`), for every file of up to three steps, that loading accepts exactly
those whose steps have some running order.

**spawner_forward.** With and without an event sender (a choice of the initial state):
the result holds all chunks (`OutputComplete`), what is forwarded is what was written
with nothing out of order and no hole (`ForwardedIsPrefix`), and without a sender
`spawn_step` returns (`StepReturns`). `OkOnlyAfterLag` records the consequence of the finding below:
with a sender, a step succeeds only if the forwarder missed output. Five chunks over a
channel of two allow a lag twice and chunks after it.

**sessions.** Failed and partial writes, the ends of both processes, resumptions,
deletion: `IdsKept` says that `session.json` is never a partial file, that an id an
agent was given is in the file (`IssuedIsPersisted`) and that it is never given again
(`NoIdReissued`, over up to three starts); the file's status agrees with the running process's while no user
interface recovered it in between (`StatusAgreesAlone`). The roles are interchangeable,
so the symmetry is sound; the run has no liveness. The module `SessionsMC` also checks what
only tests call: `derive_status`, `update_step` and `mark_interrupted` over the steps of
a session.

**broker_threads.** Messages are handed out once and in the order they were accepted
(`MailKept`, with the spawn channel's capacity); a `completed` status follows its result (`ResultComesFirst`);
only coordinators get a spawn request through (`SpawnsAreCoordinators`), also when an
agent is registered again in another role; calls return while somebody receives spawn
requests (`CallsReturn`), which the full channel of one makes necessary.

**live_view.** A channel of two is overtaken in most behaviours. `ViewAgrees`: a listener that missed
nothing shows what the engine has (`CaughtUpAgrees`), and whatever it missed, it learns how
the workflow ended (`EndIsShown`), because the last event is never overtaken; a settled
step never shows as running again (`SettledStaysShown`); the listener ends after the
workflow (`ListenerEnds`). No output of a step comes after the step has failed. In the code
it can on one path: when waiting for the agent fails (`Spawner`'s `WaitFails`,
`spawner.rs:203`), `spawn_step` returns and leaves its forwarder running, whose output could
overtake `WorkflowFailed` in the channel. `LiveView` leaves that path out, so its properties
and theorems do not speak of it.

**tabs.** `PaneAgrees`: the shown pane exists (`PaneShowsTab`), and the close dialog closes the
tab it asked about (`PendingIsAskedFor`); closing another tab leaves the shown one shown
(`ShownStays`); between handlers the window in memory restores the tabs as they are
(`RestoredAsLeft`); a tab whose closing was saved does not come back
(`ClosedStaysClosed`), whatever fails and wherever the program ends. Three sessions
give a tab on either side of the one that is closed.

**dashboard.** `PageAgrees`: what is shown is what GitHub had at the version shown
(`CurrentViewAgrees`), and no indicator stands there without a task that clears it
(`NothingStuck`); an edit not saved is kept through fetches and failures (`PendingKept`); once nothing
more happens the page shows what GitHub has (`CatchesUp`). Six events are enough for an
edit, its save, an edit by somebody else, a failure, a departure and a return.

**parts.** Seven parts that share no state with each other are checked side by side: the
initial state chooses one (`part`), and only its actions follow. So the states are those
of each part alone, and no product of them. Its properties:

* the tool server (4 lines, spawn channel of 2, nobody receives): `ServerAgrees`, requests
  are answered once and in turn, and the last announced status of an agent is the stored
  one, which it need not be when several threads call, because `update_status` announces
  outside the lock;
* the backlog (2 items of 2 priorities, which is an order to keep and one to lose; 3
  items alone have 3.1 million states and agree): `BacklogAgrees`, items are in the order of
  their adding wherever they are held and a tab that is not out of date shows the file;
  `ItemsKept`, a save that completes loses items only if its copy was out of date, which
  the dialog's and the command's become when the other process writes between their load
  and their save (two items are enough: one of each);
  `ClickHitsRow`, a click ticks the row that is shown;
* triggers (a workflow with a manual trigger or two schedules of which the second is bad,
  channels of 1, 2 fires, 2 starts, a stop): `EventsAreFired`, no more events than fires;
  `FireIsSent`, a fire of a running trigger leads to an event, also when it meets the
  task away from its wait; `StopEnds`, a stopped trigger's task and forwarder end;
* notifiers (every environment, 3 calls, interval of 2, clock up to 3): `WindowKept`,
  what is let through is the interval apart, and nothing is refused without reason;
* a terminal (2 steps, buffer of 2, 3 bytes, 3 clicks): `ShowsOutput`, where no click came
  before the last terminal was ready, bytes are shown once and in order, and in the end
  all of them (the theorem `TerminalShowsOutput` is the one for more clicks);
  `BecomesReady`, no order of mounting, switching and scripts leaves the component waiting;
* a session's view (2 sessions, 2 notifications in all, 2 changes of the pane): `NotedOnce`, a notification is
  put up once, in order, for its own session; `ToastsGo`, toasts but errors go by
  themselves;
* the dialogs (2 keys, 4 clicks): `DialogsAgree`, Escape takes away the
  dialog it was pressed in, in whichever order its two handlers run, and no more than one
  beside it; and a list is filtered only by what was typed for it.

Its assumptions (`ASSUME` in `PartsMC` and `TextsMC`) check the functions over all short
inputs: templates and escaping, filters, the palette's parser, auto-pick, the newest
attempt; CI status, repository URLs, branch ages, boxes and their count, sync labels, times;
directories, definitions, prompts, variables; and that a line of the backlog that was
written is read back (`BacklogRoundTrip`) with the exceptions below.

**The four violated runs** are disagreements of the code with its own words.
`docs_until`: `retry.until` "stops retrying when truthy" (`workflows/README.md:71`), but
nothing reads it. `spawner_drain`: "Wait for the forwarder to finish draining"
(`spawner.rs:207`) waits for a channel to close whose sender `spawn_step` still holds;
unless the forwarder lagged it waits for ever. `sessions_two_processes`: "marking any
that were `Running` as `Interrupted`" (`session.rs:285`) also marks the session of a
process that is running. `terminal_full`: "Older output is discarded when this limit is
exceeded" (`engine_bridge.rs:10`); the terminal takes the buffer's length for the amount
of output (`terminal_view.rs:277`), so that once the buffer is full it shows nothing newer.

**Deadlock** is checked in `engine` and `docs_until` (`Terminated` is the only stop, by
design), `broker_threads` and `tabs`. It is off where the system stops: a spawner that
has returned, a deleted session, a tool server whose stdin ended, a listener of a
workflow that ended; and where a bound has been reached: `MaxEvents` and those of `parts`.

## Fairness

* `Engine`: `WF(Next)`. `execute` is one task. The runtime polls it, and the futures of
  the spawner are taken to resolve; the model joins their results by nondeterminism.
* `Spawner`: weak fairness of the task, the reader thread and the forwarder, which the
  operating system and the runtime schedule, and of the exits of the agent and of the
  last process on its terminal. The last two are assumptions about agents:
  `StepReturns` says what `spawn_step` adds to them. Failures are not fair.
* `Broker`: strong fairness of `Deliver`, because a full channel serves its waiting
  senders first come, first served, so none is passed over for ever; weak fairness of
  receiving (`CallsReturn` says: while somebody receives). `McpProcess` states no
  liveness: nothing receives the spawn requests there.
* `LiveView`: weak fairness of the engine and of the listener; none of the user.
* `Dashboard`: weak fairness of the poll's timer and of each task's next await. A task's
  failure is an event, and events are finitely many, so `CatchesUp` speaks of what
  happens after the last failure.
* `Triggers`: weak fairness of `System`, all that goes on by itself once a call was made:
  tokio polls what can go on, and what subscribed receives. Every fire makes for finitely
  many steps, so fairness to all of them together is enough here. `Terminal`: weak fairness
  of the user interface's thread and the web view, whose scripts are finitely many.
  `WorkflowView`: weak fairness of rendering and of the container's timer. No user is
  assumed to do anything.
* `Sessions`, `Tabs`, `Backlog`, `Notifier`, `Dialogs` state safety only: their steps wait
  for a caller.

## What is proved

`EngineProofs` (from `WorkflowAssumption`: the constants are of their types, steps
finite; and `AcyclicAssumption`: some ranking of the steps has dependencies below
dependents). A property alone is not inductive. The invariant that is, `IInv`, adds to
`TypeOK`:

* `Bookkeeping`, which ties the locals to each other: where `pc` is, which of `todo`,
  `spawned`, `running`, `results`, `panicked` can be nonempty (`Control`); a step has at
  most one result (`OneResultEach`); `running` statuses are exactly those of the steps
  in hand (`RunningMeansInHand`); what is about to be launched is ready
  (`LaunchIsReady`); `completed` holds only settled steps, and which
  (`CompletedMeansSettled`); the attempts of a step before, in and after its batch
  (`AttemptsCounted`);
* the properties `DependenciesSettled`, `ConditionNotStale`,
  `CompletedMeansAllSettled` (a workflow completes only with all steps settled),
  `AttemptsBounded` and `NoFalseDeadlock` themselves.

`Invariant` shows it preserved action by action; `TypeCorrect`, `BookkeepingHolds`,
`DependenciesFirst`, `ConditionsHold`, `DeadlockUnreachable`, `CompletionIsTotal` and
`RetriesBounded` follow. `DeadlockUnreachable` is where acyclicity is used: among the
steps not completed one of least rank would have to be ready (`NothingLeft`).
`SettledOnce` is the action property `SettledForGood`: a settled step keeps its status,
its output and its attempts. `ImplementsContract` shows, under
`IInv`, that every step of the engine is a step of `WorkflowContract` or a stutter.

The last part of `EngineProofs` closes the gap below these assumptions, for any workflow of any
size: the graph's edges are the file's dependencies (`DependenciesAreTheFiles`), a
workflow that loading accepts has dependencies among its own steps and an order
(`AcceptedIsRunnable`), and one that `validate` accepts and loading still refuses has
no such order (`OnlyCyclesRefused`).

`SpawnerProofs` (from `SpawnerAssumption`) proves `IInv == TypeOK /\ ReaderInv /\ TaskInv
/\ ForwarderInv` (and with it `TypeCorrect`): what the reader has collected and when it may end, what must have
ended at each point of the task, and that the forwarder has forwarded a prefix exactly
as long as it has not lagged. `NoOutputLost`, `NoHoleForwarded` and `OkNeedsLag` follow,
for every capacity of the channel and every amount of output.

`SessionsProofs` (from `SessionsAssumption`) proves `IdsKept` for any roles and bounds.
`IInv` is `Types /\ Control /\ Counted`, and, as long as no user interface recovered the
session while it ran, `Recorded /\ Distinct`. `Control` says who saves and what a
temporary file holds when it is renamed; `Counted` that no agent in memory has a number
still to be given; `Recorded` that the ids returned are in memory, in the file, and in
the copy a user interface will write back, so that whatever the next start reads covers
them; `CountsCover` is what `build_agent_counts` makes of that. `StatusIsKept` proves
`StatusAgreesAlone` beside it: while the process runs and nobody recovers its session,
every copy of the status is the one in memory (`AloneKeeps`).

`BrokerProofs` (from `BrokerAssumption`) proves `MailKept` for any agents and threads, with
`IInv == TypeOK /\ ExactlyOnceInOrder /\ SpawnsPermitted`. The last says that the tool
`spawn_agent` is allowed to coordinators only and that a spawn request which waits for
room belongs to one: from it follows the action property `SpawnsAreCoordinators`.
`ResultsComeFirst` proves `ResultComesFirst` with `ResultInv`: a call has only the sends of
`Waiting` before it, and the announcements made, with those that calls still owe (`Due`),
are no more than the results.

`ServerAnswersInTurn` proves `ServerAgrees` of the tool server in front of the broker, for any
number of lines, with `ServerInv`: the broker's `IInv`; `LinesInTurn` (each line read before the
current one has its answer, in that order); and `Announced`, which says of every agent that
its stored status is the last one announced, or is still waiting to be: by one call at most,
because the process has one thread.

`LiveViewProofs` proves `ViewAgrees` (`ViewIsRight`) and the action property `SettledStaysShown`
over any workflow and capacity. Its `ViewInv` stands on the engine's `EventsInv` (the list of
events tells each step's status, `EventsTellAll`): what the listener has read of that list,
without what it missed, is what the tab shows.

`DashboardProofs` proves `PageAgrees` (`PageIsKnown`) and the action property `PendingKept`
(`TicksAreKept`), for any boxes, refreshes and events. `PageInv` says that every copy of the
issue is `Known`, wherever it waits: shown, in the cache, in a fetch that has read, in a save
that has written. A copy is no newer than GitHub's, and equal to it at the same version.
`SaveIsOfPending` says that what is pending stays what is being saved; `WritesCounted` that
each version was an event of its own, including the saves that were abandoned.

`TabsProofs` (from `TabsAssumption`) proves all that the run checks, for any number of sessions:
`PaneAgrees`, `RestoredAsLeft`, `ClosedStaysClosed` and the action property `ShownStays`.
The lists of sessions are filtered by the recursive function of `Kept`; that it has values
(`StepsExist`) and what they are (`KeptFacts`, `RemoveIsKept`) is shown by induction, stated
over a set of lists (`SeqInd`) because the library's induction theorems take an operator.
`TabsInv` adds to `PaneAgrees`: `ListsFit` (each list has a session once, only sessions that were
drawn, and none whose closing was written), `HandlerFits` (a session being created is on
disk and has no tab yet, one being deleted is no longer in the window) and `SavedFits`:
also within a handler a restart would restore the tabs, and a session that runs and is in
the window is on disk. The last is why a workflow that saves its session again brings no tab
back.

`PartsProofs` has the parts that keep to themselves, each with its invariant:

* **Backlog** (any priorities, any number of items): `BacklogAgrees` and the action property
  `ItemsKept`. `BacklogInv` adds to the types that all lists are `Sound` (in order, no
  number beyond those given), `Writers` (who writes waits for it with its copy), `CopiesAgree` (a
  dialog or a command that is up to date holds the file) and `Keeps` (what is being written
  by one who is up to date has all the file has). That a
  `Beginning` of a sound list is sound is the lemma behind every torn write.
* **Notifier** (any subjects, interval and number of calls): `WindowKept`; `Remembers` says
  call by call what `LastIsNewest` says as a whole: the limiter's entry is the newest time
  it let something through.
* **WorkflowView** (any notifications and visits): `NotedOnce`; what was put up is the
  beginning of the notifications that `counted` measures.
* **Dialogs** (any lists, keys and clicks): `DialogsAgree` by `DialogInv`, which says for each
  key press still under way what it was pressed in and what may already be gone.
* **Triggers** (from `TriggerAssumption`: finitely many workflows, a trigger is manual or on a
  schedule; any channels, starts, stops and fires): `EventsAreFired` by `FiresInv`. For each
  manual trigger, the events sent, the runs that are going to send and a kept permit are
  together no more than the fires (`FiredFor`); for each schedule, the events and the jobs
  (`DueFor`). A run that is woken by a stop does not count, which needs `FlagFirst`: a stop
  sets the flag before it notifies.
* **Terminal** (from `TerminalAssumption`; any steps, any size of the buffer, any number of
  clicks): `ShowsOutput` by `TerminalInv`. While no click was too early the component is
  `Awaited` (not in the page yet), `Creating` (one task creates the terminal, its script is the
  last that was handed over) or `Streaming`: what is in the terminal and on its way
  (`Chunks`) is in order (`Ascends`), nothing is beyond `written` as long as the buffer is not full
  (`UpTo`), and each chunk goes on where the one before it ends (`GoesOn`).

Only model-checked: all liveness (`Termination`, `StepReturns`, `CallsReturn`,
`ListenerEnds`, `CatchesUp`, `FireIsSent`, `StopEnds`, `BecomesReady`, `ToastsGo`), which
needs fairness and ENABLED that the provers do not handle; `ClickHitsRow`, whose rows
come from `SetToSortSeq`, of which the library has no facts; and the functions,
which TLC evaluates on short inputs: a proof for all would need induction over each.

## Where the code and its words part

Found while modelling, besides the four violated runs; each is modelled as the code is.

* A `notify` step spawns an agent (`engine.rs:222`); `workflows/README.md:169` describes a
  notification.
* Conditions take an output that is not empty but reads like false as false
  (`engine.rs:439`); `workflows/README.md:78` says non-empty output is truthy.
* A panic during a retry unwinds `execute` (`engine.rs:317`), and so does an interval that ends
  in a character of several bytes (`split_at` in `parse_duration`, `engine.rs:457`), even if
  no retry is due (`288-293`): no event says that the workflow ended. `stop` returns before the batch's other results are looked at: their steps
  stay `running`.
* A session whose tab is closed and whose directory is removed comes back with the
  workflow's next save (`app.rs:201`, `orchestrator.rs:192`); its live state comes back
  with the next event (`app.rs:189`, `engine_bridge.rs:94`).
* Status updates are announced outside the broker's lock (`broker.rs:102`), so
  subscribers can see two of them in the wrong order.
* Spawn requests are received by nobody in the shipped tool server (`mcp/src/main.rs:36`):
  after the channel has filled, the next `spawn_agent` waits for ever.
* A blank line ends the tool server (`transport.rs:36-39`), like the end of stdin.
* After the active tab was closed the file says the last tab is active, the screen shows
  the neighbour (`window_state.rs:58-60`, `app.rs:206-219`).
* The dashboard "re-fetches when seconds_since_fetch is manually reset"
  (`home_dashboard.rs:270`), but the sleep of the poll is not interrupted by it. A failed
  refresh replaces the overview, so its "last sync failed" label cannot show next to old
  data. A fetch that read before a save and finishes after it shows the old body; a user
  who then ticks and saves undoes the first save.
* A cyclic workflow passes `validate` and fails in `start`, after its session and tab exist
  (`app.rs:303`, `workflow_runner.rs:40`).
* A check that was cancelled or timed out is marked as failed while its pull request counts
  as passed (`home_dashboard.rs:147`, `github.rs:76`). A branch is stale after 14 days,
  also when it is no older than that (`project_overview.rs:207`). A URL like
  `git@host:a/b/c` names a repository of three parts, a URL with a scheme never does
  (`github.rs:149`).
* One agent definition that does not parse leaves no agents at all (`run.rs:95`); a workflow
  that does not leaves out only itself (`session_creator.rs:434`). One failed part fails
  the whole overview (`project_overview.rs:76`).
* A variable whose value refers to itself is filled in for ever (`schema.rs:163`,
  `SelfReferenceEndless`).
* `sanitize_metadata_field` takes the marks of a comment out once, and what is left can be
  one again (`SanitizedOnce`). The command's text is not trimmed, so that a space hides its
  priority until the file is loaded (`SpaceHidesMarks`). A line with `<!-->`, which no save
  writes, panics (`backlog.rs:277`, `CutOffPanics`).
* An idea can be lost: `fridi backlog` and the dialog each load the file and save it later,
  so one that saves last drops what the other saved in between, or all that was not yet
  written when it loaded (`quick_capture.rs:15-18`, `cli/src/main.rs:63-65`,
  `backlog.rs:134`). No word of the code says otherwise.
* A limiter records a notification before it is sent: after a failure the next one is held
  back (`rate_limited.rs:32`). When one trigger fails to start, those before it go on
  without a handle (`manager.rs:58`); started twice, a manual trigger has two tasks and a
  stop wakes one. Neither `Triggers` nor cron is used outside tests.
* A click on another step before the terminal of the last one is ready: the earlier task still
  declares a terminal ready (`terminal_view.rs:238`, `252`). What is written then is lost, or
  goes to a terminal that was left behind: the one disposed of at the end is that of
  the step first shown (`terminal_view.rs:299-314`). Once the right one is created, the
  bytes are not written again.
* `escape_markdown` leaves a backslash as it is, so a text with one is not shown as
  written. The step selected in one session stays selected when another session is shown
  by the same component (`workflow_view.rs`). One Escape can close two dialogs: the focused one
  and the one below it. The creator's own prompt (`NewPrompt`) cannot be reached while the
  program offers its palette.

## What is not modelled

* **Styles** and **layout**: styles, the sidebar's and the step card's layout, the split
  pane and its resizer. They change nothing another part reads.
* In `Terminal`, the size of a terminal and its announcement to the PTY, and the branch for
  output that shrinks (`terminal_view.rs:260-276`), which a buffer that only grows to its
  limit does not reach.
* In `Backlog`, two processes that write at the same moment (each save waits for the other's
  write to end, not for its load), two commands at once, and `remove`, which only tests call. In `Tabs`, a second user interface on the same window state, and the windows of
  other repositories in it: nothing says what should hold then.
* In `Dashboard`, which rows are unfolded, and the toasts, which `WorkflowView` has.
* `run_spawn_loop`, which only tests call; `Broker` has somebody who receives instead.
* What external services do: GitHub's JSON, the answers of Slack and Telegram, what a cron
  expression means, what serde makes of YAML, git's output. Their failures are modelled.
* The command line's parsing of arguments and its printing.
* A number too large for its type, or with a `+`, in the palette (`Dialogs` has two digits).
* Session ids are distinct in the models; in the code two sessions of one name and day
  share an id with probability 2^-16.
