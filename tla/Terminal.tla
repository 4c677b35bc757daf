------------------------------ MODULE Terminal ------------------------------
(***************************************************************************)
(* TerminalView (ui/src/components/terminal_view.rs): the xterm.js         *)
(* instance that shows a step's output, and the component that writes to   *)
(* it what was added to the output since the last render.                  *)
(*                                                                         *)
(* The component runs on the UI's thread.  Scripts are handed to the       *)
(* webview and run there later, in order; a task that awaits a script goes *)
(* on some time after it ran.  When another step is selected, the          *)
(* component and its place in the page are used again under another id.    *)
(***************************************************************************)
EXTENDS Naturals, Sequences, SequencesExt

CONSTANTS
  Step,        \* the steps that can be selected
  OutputCap,   \* MAX_OUTPUT_BYTES_PER_STEP
  MaxProduced, \* bound: bytes that a step puts out
  MaxSelects   \* bound: clicks on a step

ASSUME TerminalAssumption == OutputCap \in Nat /\ MaxProduced \in Nat /\ "none" \notin Step

VARIABLES
  produced,  \* the bytes of a step's output so far, numbered from 1
  shown,     \* the step the component shows, and the id in the page; "none" if unmounted
  firstId,   \* the id that the cleanup closure captured
  mountDue,  \* whether the mounted event is still to come
  written,   \* written_len
  ready,     \* terminal_ready
  tasks,     \* the tasks that create a terminal, and how far each is
  webview,   \* the scripts that were handed over and have not run
  xterm,     \* window.fridiTerminals, and what each instance shows
  selects,   \* clicks so far
  overtaken  \* history: a selection came before the last terminal was ready

terminalVars == <<produced, shown, firstId, mountDue, written, ready, tasks, webview, xterm,
                  selects, overtaken>>

None == "none"

Script(op, id, bytes, task) == [op |-> op, id |-> id, bytes |-> bytes, task |-> task]

\* The engine bridge keeps the last bytes of an output.
Smaller(a, b) == IF a < b THEN a ELSE b
OutputLen(s) == Smaller(produced[s], OutputCap)
OutputByte(s, i) == produced[s] - OutputLen(s) + i

NoTerminal == [open |-> FALSE, bytes |-> <<>>]

TerminalInit ==
  /\ produced = [s \in Step |-> 0]
  /\ shown = None /\ firstId = None /\ mountDue = FALSE
  /\ written = 0 /\ ready = FALSE
  /\ tasks = <<>> /\ webview = <<>>
  /\ xterm = [s \in Step |-> NoTerminal]
  /\ selects = 0 /\ overtaken = FALSE

-----------------------------------------------------------------------------
\* Output arrives, whatever is selected.
Produce(s) ==
  /\ produced[s] < MaxProduced
  /\ \E n \in 1..(MaxProduced - produced[s]) : produced' = [produced EXCEPT ![s] = @ + n]
  /\ UNCHANGED <<shown, firstId, mountDue, written, ready, tasks, webview, xterm, selects, overtaken>>

\* The first render of a component: its container is not in the page yet.
Mount(s) ==
  /\ shown = None
  /\ selects < MaxSelects /\ selects' = selects + 1
  /\ shown' = s /\ firstId' = s /\ mountDue' = TRUE
  /\ written' = 0 /\ ready' = FALSE /\ overtaken' = FALSE
  /\ UNCHANGED <<produced, tasks, webview, xterm>>

OnMounted ==
  /\ mountDue /\ mountDue' = FALSE
  /\ written' = 0 /\ ready' = FALSE
  /\ tasks' = Append(tasks, [stage |-> "initialising", id |-> shown, ran |-> FALSE])
  /\ webview' = Append(webview, Script("init", shown, <<>>, Len(tasks) + 1))
  /\ UNCHANGED <<produced, shown, firstId, xterm, selects, overtaken>>

\* Slip: what was written for the last step counts as written for this one.
SwitchKeepsWritten(s) ==
  /\ shown \notin {None, s}
  /\ selects < MaxSelects /\ selects' = selects + 1
  /\ shown' = s /\ ready' = FALSE
  /\ tasks' = Append(tasks, [stage |-> "disposing", id |-> s, ran |-> FALSE])
  /\ webview' = Append(webview, Script("dispose", shown, <<>>, Len(tasks) + 1))
  /\ overtaken' = (overtaken \/ ~ready)
  /\ UNCHANGED <<produced, firstId, mountDue, written, xterm>>

\* Another step: the same component, and the same element under another id.
Switch(s) ==
  /\ shown \notin {None, s}
  /\ selects < MaxSelects /\ selects' = selects + 1
  /\ shown' = s /\ written' = 0 /\ ready' = FALSE
  /\ tasks' = Append(tasks, [stage |-> "disposing", id |-> s, ran |-> FALSE])
  /\ webview' = Append(webview, Script("dispose", shown, <<>>, Len(tasks) + 1))
  /\ overtaken' = (overtaken \/ ~ready)
  /\ UNCHANGED <<produced, firstId, mountDue, xterm>>

\* The selected step again: the component goes, and its tasks with it.  The id that is
\* disposed of is the first one; the task that does so may go with the component.
Unmount ==
  /\ shown # None
  /\ selects < MaxSelects /\ selects' = selects + 1
  /\ shown' = None /\ firstId' = None /\ mountDue' = FALSE
  /\ tasks' = [t \in DOMAIN tasks |-> [tasks[t] EXCEPT !.stage = "dropped"]]
  /\ \/ webview' = Append(webview, Script("dispose", firstId, <<>>, 0))
     \/ UNCHANGED webview
  /\ written' = 0 /\ ready' = FALSE
  /\ UNCHANGED <<produced, xterm, overtaken>>

\* A render writes what the output is longer by than it was.
WriteDelta ==
  /\ shown # None /\ ready
  /\ OutputLen(shown) > written
  /\ LET n == OutputLen(shown) - written
         delta == [i \in 1..n |-> OutputByte(shown, written + i)]
     IN  webview' = Append(webview, Script("write", shown, delta, 0))
  /\ written' = OutputLen(shown)
  /\ UNCHANGED <<produced, shown, firstId, mountDue, ready, tasks, xterm, selects, overtaken>>

\* Slip: onmounted is trusted to create the terminal after a switch, too.
TaskEndsAfterDisposing(t) ==
  /\ tasks[t].ran /\ tasks[t].stage \in {"disposing", "initialising"}
  /\ tasks' = [tasks EXCEPT ![t].stage = "done"]
  /\ ready' = (ready \/ tasks[t].stage = "initialising")
  /\ UNCHANGED <<produced, shown, firstId, mountDue, written, webview, xterm, selects, overtaken>>

\* A task goes on after its script ran: from disposing to creating, and to ready,
\* whatever is shown by then.
TaskGoesOn(t) ==
  /\ tasks[t].ran
  /\ \/ /\ tasks[t].stage = "disposing"
        /\ tasks' = [tasks EXCEPT ![t].stage = "initialising", ![t].ran = FALSE]
        /\ webview' = Append(webview, Script("init", tasks[t].id, <<>>, t))
        /\ UNCHANGED ready
     \/ /\ tasks[t].stage = "initialising"
        /\ tasks' = [tasks EXCEPT ![t].stage = "done"]
        /\ ready' = TRUE
        /\ UNCHANGED webview
  /\ UNCHANGED <<produced, shown, firstId, mountDue, written, xterm, selects, overtaken>>

-----------------------------------------------------------------------------
\* The webview: a terminal is created where its element is in the page, and what
\* is written to one that is not there is lost.
InitTerminal(id) ==
  IF shown = id THEN [xterm EXCEPT ![id] = [open |-> TRUE, bytes |-> <<>>]] ELSE xterm

DisposeTerminal(id) == [xterm EXCEPT ![id] = NoTerminal]

WriteTerminal(id, bytes) ==
  IF xterm[id].open THEN [xterm EXCEPT ![id].bytes = @ \o bytes] ELSE xterm

WebviewRuns ==
  /\ webview # <<>> /\ webview' = Tail(webview)
  /\ LET script == Head(webview)
     IN  /\ xterm' = CASE script.op = "init"    -> InitTerminal(script.id)
                       [] script.op = "dispose" -> DisposeTerminal(script.id)
                       [] script.op = "write"   -> WriteTerminal(script.id, script.bytes)
         /\ tasks' = IF script.task = 0 THEN tasks ELSE [tasks EXCEPT ![script.task].ran = TRUE]
  /\ UNCHANGED <<produced, shown, firstId, mountDue, written, ready, selects, overtaken>>

-----------------------------------------------------------------------------
TerminalSystem == OnMounted \/ WriteDelta \/ WebviewRuns \/ \E t \in DOMAIN tasks : TaskGoesOn(t)

TerminalNext == TerminalSystem \/ Unmount \/ \E s \in Step : Produce(s) \/ Mount(s) \/ Switch(s)

\* The UI's thread and the webview go on.
TerminalFairness == WF_terminalVars(TerminalSystem)
TerminalSpec == TerminalInit /\ [][TerminalNext]_terminalVars

-----------------------------------------------------------------------------
\* What a step's terminal shows is in order, and no byte of it is shown twice.
InOrderOnce(s) ==
  \A i, j \in DOMAIN xterm[s].bytes : i < j => xterm[s].bytes[i] < xterm[s].bytes[j]

\* Nothing is under way: the terminal is ready, all was written and has arrived.
Settled ==
  /\ shown # None /\ ready /\ ~overtaken /\ ~mountDue
  /\ written = OutputLen(shown) /\ webview = <<>>

(***************************************************************************)
(* Where no selection came before the last terminal was ready, a terminal  *)
(* that is ready shows its step's bytes in their order and none twice,     *)
(* whatever other terminals were left behind; and when the output fits     *)
(* into the buffer, it comes to show all of them: written_len is reset     *)
(* exactly when what was written is disposed of.  (After a selection that  *)
(* was too early, a task of the earlier one declares a terminal ready that *)
(* is not: what is written then goes to one that was left behind, or is    *)
(* lost.)                                                                  *)
(***************************************************************************)
ShowsOutput ==
  /\ shown # None /\ ready /\ ~overtaken => InOrderOnce(shown)
  /\ Settled /\ produced[shown] <= OutputCap =>
       xterm[shown].bytes = [i \in 1..produced[shown] |-> i]

\* The bridge discards older output at its limit: what a settled terminal shows ends
\* with the newest byte (engine_bridge.rs:9-10).
NewestIsShown ==
  Settled /\ produced[shown] > 0 =>
    /\ xterm[shown].bytes # <<>>
    /\ Last(xterm[shown].bytes) = produced[shown]

(***************************************************************************)
(* A step that is shown gets a terminal that is written to, unless it is   *)
(* deselected: no order of mounting, switching and scripts leaves the      *)
(* component waiting.                                                      *)
(***************************************************************************)
BecomesReady == (shown # None) ~> (ready \/ shown = None)
=============================================================================
