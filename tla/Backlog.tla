------------------------------ MODULE Backlog ------------------------------
(***************************************************************************)
(* The backlog: a markdown file (Backlog of crates/core/src/backlog.rs),   *)
(* the tab that shows it and edits it (BacklogTab of crates/ui/src/        *)
(* components/backlog_tab.rs), the dialog that adds to it from anywhere    *)
(* (QuickCapture of quick_capture.rs) and the command that does so from    *)
(* another process (fridi backlog, crates/cli/src/main.rs).                *)
(*                                                                         *)
(* The tab loads the file once and keeps a copy; the dialog and the        *)
(* command load, add and save, and between their load and their save the   *)
(* other process may do anything.  The user interface's handlers run on    *)
(* one thread, so that the tab does nothing while the dialog's runs.       *)
(* Every save writes the whole file in place, so a write that fails, or a  *)
(* program that ends in it, leaves a beginning of it, and a load during    *)
(* another process's write reads one.  Two writes at the same time are not *)
(* modelled, nor are two commands.  Of a line only the item is kept, its   *)
(* priority, its box and whether it was cut off; a line that is no item is *)
(* dropped by load.                                                        *)
(***************************************************************************)
EXTENDS Naturals, Sequences, SequencesExt

CONSTANTS
  Priority,  \* priority_sort_key: 0 is urgent
  MaxItems   \* bound: items ever added

VARIABLES
  file,      \* the items in the file, from top to bottom
  readable,  \* can the file be loaded?
  tab,       \* the tab's copy, and whether it may differ from the file
  writing,   \* a save that has opened the file
  capture,   \* what the dialog has loaded, and whether the file has changed since
  command,   \* the same of the command
  added      \* items added so far; they are numbered in this order

backlogVars == <<file, readable, tab, writing, capture, command, added>>

Item    == [id : Nat \ {0}, priority : Priority, completed : BOOLEAN, whole : BOOLEAN]
Closed  == [open |-> FALSE, items |-> <<>>, stale |-> FALSE]
NotRun  == [loaded |-> FALSE, items |-> <<>>, stale |-> FALSE]
NoWrite == [by |-> "nobody", items |-> <<>>]

Ids(items) == {items[i].id : i \in DOMAIN items}

BacklogInit ==
  /\ file = <<>> /\ readable = TRUE
  /\ tab = Closed /\ writing = NoWrite
  /\ capture = NotRun /\ command = NotRun /\ added = 0

-----------------------------------------------------------------------------
\* The numbers of the items from the first row to the last.
BuildDisplayItems(items) ==
  SetToSortSeq(DOMAIN items,
    LAMBDA i, j : items[i].priority < items[j].priority
                    \/ (items[i].priority = items[j].priority /\ i > j))

Add(items, p) ==
  Append(items, [id |-> added + 1, priority |-> p, completed |-> FALSE, whole |-> TRUE])

\* What can be left, or there so far, of a file with these items: its last line may be cut.
Beginning(items) ==
  {SubSeq(items, 1, n) : n \in 0..Len(items)} \cup
  {[SubSeq(items, 1, n) EXCEPT ![n].whole = FALSE] : n \in 1..Len(items)}

\* What load returns, or the empty backlog that BacklogTab takes for an error.
LoadOrEmpty == IF readable THEN file ELSE <<>>

\* No handler of the user interface is running.
UiIdle == writing.by # "tab" /\ ~capture.loaded

OpenTab ==
  /\ UiIdle /\ ~tab.open
  /\ \E items \in {LoadOrEmpty, <<>>} \cup Beginning(writing.items) :
       tab' = [open |-> TRUE, items |-> items,
               stale |-> ~readable \/ items # file \/ writing # NoWrite]
  /\ UNCHANGED <<file, readable, writing, capture, command, added>>

CloseTab ==
  /\ UiIdle /\ tab.open
  /\ tab' = Closed
  /\ UNCHANGED <<file, readable, writing, capture, command, added>>

TabAdd(p) ==
  /\ UiIdle /\ writing = NoWrite /\ tab.open
  /\ added < MaxItems /\ added' = added + 1
  /\ tab' = [tab EXCEPT !.items = Add(@, p)]
  /\ writing' = [by |-> "tab", items |-> tab'.items]
  /\ UNCHANGED <<file, readable, capture, command>>

\* Slips: the row is taken for the item's number; the change is not saved.
ToggleRow(row) ==
  /\ UiIdle /\ writing = NoWrite /\ tab.open
  /\ row \in DOMAIN tab.items
  /\ tab' = [tab EXCEPT !.items[row].completed = ~@]
  /\ writing' = [by |-> "tab", items |-> tab'.items]
  /\ UNCHANGED <<file, readable, capture, command, added>>
ToggleUnsaved(row) ==
  /\ UiIdle /\ writing = NoWrite /\ tab.open
  /\ row \in DOMAIN tab.items
  /\ tab' = [tab EXCEPT !.items[BuildDisplayItems(tab.items)[row]].completed = ~@]
  /\ UNCHANGED <<file, readable, writing, capture, command, added>>

\* The box of a row, which knows the number its item has in the backlog.
Toggle(row) ==
  /\ UiIdle /\ writing = NoWrite /\ tab.open
  /\ row \in DOMAIN tab.items
  /\ tab' = [tab EXCEPT !.items[BuildDisplayItems(tab.items)[row]].completed = ~@]
  /\ writing' = [by |-> "tab", items |-> tab'.items]
  /\ UNCHANGED <<file, readable, capture, command, added>>

\* What a load yields unless it fails: the file, or what is there of one being written.
Copy(items, stale) == [loaded |-> TRUE, items |-> items, stale |-> stale]
LoadedCopy ==
  (IF readable THEN {Copy(file, FALSE)} ELSE {}) \cup
  (IF writing = NoWrite THEN {} ELSE {Copy(items, TRUE) : items \in Beginning(writing.items)})

\* Slip: an error of load is taken for an empty backlog here, too.
CaptureLoadsOverError ==
  /\ UiIdle
  /\ capture' \in LoadedCopy \cup {Copy(<<>>, FALSE)}
  /\ UNCHANGED <<file, readable, tab, writing, command, added>>

\* The dialog's handler loads the file.  When that fails the idea is gone and nothing changes.
CaptureLoads ==
  /\ UiIdle
  /\ capture' \in LoadedCopy
  /\ UNCHANGED <<file, readable, tab, writing, command, added>>

\* It saves what it loaded, whatever the file is by now.  The tab is not told.
CaptureSaves(p) ==
  /\ writing = NoWrite /\ capture.loaded
  /\ added < MaxItems /\ added' = added + 1
  /\ writing' = [by |-> "capture", items |-> Add(capture.items, p)]
  /\ UNCHANGED <<file, readable, tab, capture, command>>

\* fridi backlog does the same, or ends with an error.
CommandLoads ==
  /\ ~command.loaded
  /\ command' \in LoadedCopy
  /\ UNCHANGED <<file, readable, tab, writing, capture, added>>

CommandSaves(p) ==
  /\ writing = NoWrite /\ command.loaded
  /\ added < MaxItems /\ added' = added + 1
  /\ writing' = [by |-> "command", items |-> Add(command.items, p)]
  /\ UNCHANGED <<file, readable, tab, capture, command>>

-----------------------------------------------------------------------------
\* The copies others than the writer hold are out of date after a write, the tab's own is when
\* its write failed; the dialog and the command are done with theirs when they have written.
After(copy, holder) ==
  IF writing.by = holder THEN NotRun ELSE [copy EXCEPT !.stale = copy.loaded]

Outdated(success) ==
  /\ tab' = [tab EXCEPT !.stale = tab.open /\ ~(success /\ writing.by = "tab")]
  /\ capture' = After(capture, "capture")
  /\ command' = After(command, "command")

WriteSucceeds ==
  /\ writing # NoWrite
  /\ file' = writing.items /\ readable' = TRUE
  /\ Outdated(TRUE)
  /\ writing' = NoWrite
  /\ UNCHANGED added

\* The file is not opened, or not written to its end.
Torn ==
  \/ UNCHANGED <<file, readable>>
  \/ file' \in Beginning(writing.items) /\ readable' \in BOOLEAN

WriteBreaksOff ==
  /\ writing # NoWrite
  /\ Torn
  /\ Outdated(FALSE)
  /\ writing' = NoWrite
  /\ UNCHANGED added

\* The user interface ends, in the middle of a handler or of its write or not.
ProgramEnds ==
  /\ IF writing.by \in {"tab", "capture"}
     THEN Torn /\ writing' = NoWrite /\ command' = After(command, "command")
     ELSE UNCHANGED <<file, readable, writing, command>>
  /\ tab' = Closed /\ capture' = NotRun
  /\ UNCHANGED added

BacklogNext ==
  \/ OpenTab \/ CloseTab
  \/ \E p \in Priority : TabAdd(p) \/ CaptureSaves(p) \/ CommandSaves(p)
  \/ CaptureLoads \/ CommandLoads
  \/ \E row \in 1..MaxItems : Toggle(row)
  \/ WriteSucceeds \/ WriteBreaksOff \/ ProgramEnds

BacklogSpec == BacklogInit /\ [][BacklogNext]_backlogVars

-----------------------------------------------------------------------------
(***************************************************************************)
(* No item is in the backlog twice, and they are in the order in which     *)
(* they were added, through losses, torn writes and copies of the tab that *)
(* bring lost items back; the order by age in the tab relies on it.        *)
(***************************************************************************)
InOrder ==
  \A items \in {file, tab.items, writing.items, capture.items, command.items} :
    \A i, j \in DOMAIN items : i < j => items[i].id < items[j].id

\* The types of the variables; what they hold of the backlog is in order.
BacklogTypeOK ==
  /\ file \in Seq(Item) /\ readable \in BOOLEAN
  /\ tab \in [open : BOOLEAN, items : Seq(Item), stale : BOOLEAN]
  /\ writing \in [by : {"nobody", "tab", "capture", "command"}, items : Seq(Item)]
  /\ {capture, command} \subseteq [loaded : BOOLEAN, items : Seq(Item), stale : BOOLEAN]
  /\ writing.by = "tab" => tab.open
  /\ added \in 0..MaxItems
  /\ InOrder

TabAgrees == tab.open /\ ~tab.stale /\ writing = NoWrite => readable /\ file = tab.items

(***************************************************************************)
(* The backlog is in order wherever it is held; and the file is what the   *)
(* tab shows, as long as neither the dialog nor the command has added to   *)
(* it behind the tab's back, the tab could load it, and the tab's last     *)
(* write succeeded: each change in the tab reaches the file.               *)
(***************************************************************************)
BacklogAgrees == BacklogTypeOK /\ TabAgrees

\* The writer's copy is out of date.
WriterIsBehind ==
  \/ writing.by = "tab" /\ tab.stale
  \/ writing.by = "capture" /\ capture.stale
  \/ writing.by = "command" /\ command.stale

(***************************************************************************)
(* A save that gets through loses no item that is in the file, unless the  *)
(* copy it is made of is out of date: the tab's after an error or anybody  *)
(* else's write, the dialog's and the command's when the other process     *)
(* wrote between their load and their save or was writing at their load.   *)
(***************************************************************************)
ItemsKept ==
  [][writing # NoWrite /\ file' = writing.items =>
       Ids(file) \subseteq Ids(file') \/ WriterIsBehind]_backlogVars

Before(x, y) == x.priority < y.priority \/ (x.priority = y.priority /\ x.id > y.id)

(***************************************************************************)
(* A click on a row changes the item shown in it and no other, where the   *)
(* rows are the items by priority, the youngest of each first.             *)
(***************************************************************************)
ClickHitsRow ==
  [][\A row \in 1..MaxItems : Toggle(row) =>
       LET RowOf(x) == 1 + Len(SelectSeq(tab.items, LAMBDA y : Before(y, x))) IN
       \A i \in DOMAIN tab.items :
         (tab'.items[i] # tab.items[i]) <=> (RowOf(tab.items[i]) = row)]_backlogVars
=============================================================================
