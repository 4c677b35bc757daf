---------------------------- MODULE PartsProofs ----------------------------
(***************************************************************************)
(* The safety of the parts of the program that keep to themselves: the     *)
(* backlog, the notifiers, what a session's pane puts up, the dialogs, the *)
(* triggers and the terminal.  They are put together as module PartsMC     *)
(* puts them together for TLC; no proof of one uses anything of another.   *)
(***************************************************************************)
EXTENDS Backlog, Notifier, WorkflowView, Dialogs, Triggers, Terminal,
        SequenceTheorems, FiniteSetTheorems, TLAPS

-----------------------------------------------------------------------------
(***************************************************************************)
(* The safety of the backlog, for every set of priorities and every number *)
(* of items: wherever its items are held they are in order, the tab shows  *)
(* the file unless it is out of date, and only copies out of date lose     *)
(* items when they are saved.                                              *)
(***************************************************************************)

\* Items in the order in which they were added, of which there have been n.
Sound(items, n) ==
  /\ items \in Seq(Item)
  /\ \A i \in DOMAIN items : items[i].id <= n
  /\ \A i, j \in DOMAIN items : i < j => items[i].id < items[j].id

\* What the dialog or the command has loaded, of as many items.
IsCopy(copy, n) ==
  /\ copy \in [loaded : BOOLEAN, items : Seq(Item), stale : BOOLEAN]
  /\ Sound(copy.items, n)

BacklogTypes ==
  /\ Sound(file, added) /\ readable \in BOOLEAN
  /\ tab \in [open : BOOLEAN, items : Seq(Item), stale : BOOLEAN] /\ Sound(tab.items, added)
  /\ writing \in [by : {"nobody", "tab", "capture", "command"}, items : Seq(Item)]
  /\ Sound(writing.items, added)
  /\ IsCopy(capture, added) /\ IsCopy(command, added)
  /\ added \in 0..MaxItems

\* What is written is what its writer holds, who waits for it.
Writers ==
  /\ writing.by = "nobody" => writing = NoWrite
  /\ writing.by = "tab" => tab.open /\ writing.items = tab.items
  /\ writing.by = "capture" => capture.loaded
  /\ writing.by = "command" => command.loaded

\* A dialog or a command that is up to date holds the file.
AgreesWith(copy, items) == copy.loaded /\ ~copy.stale => copy.items = items

CopiesAgree == AgreesWith(capture, file) /\ AgreesWith(command, file)

\* What is written by one who is up to date has all that the file has.
Keeps ==
  \/ writing.by = "nobody"
  \/ Ids(file) \subseteq Ids(writing.items)
  \/ WriterIsBehind

BacklogInv == BacklogTypes /\ Writers /\ TabAgrees /\ CopiesAgree /\ Keeps

-----------------------------------------------------------------------------
\* What becomes of a list of items in order.

LEMMA EmptySound == ASSUME NEW n \in Nat PROVE Sound(<<>>, n)
BY DEF Sound

LEMMA ItemsOfSound ==
  ASSUME NEW items, NEW n, Sound(items, n), NEW i \in DOMAIN items
  PROVE  items[i] \in Item /\ items[i].id \in Nat
<1>1. items[i] \in Item
  BY DEF Sound
<1> QED BY <1>1 DEF Item

LEMMA BeginningSound ==
  ASSUME NEW n \in Nat, NEW items, Sound(items, n), NEW part \in Beginning(items)
  PROVE  Sound(part, n)
<1>1. items \in Seq(Item) /\ Len(items) \in Nat
  BY DEF Sound
<1>2. ASSUME NEW k \in 0..Len(items)
      PROVE  /\ Sound(SubSeq(items, 1, k), n)
             /\ Len(SubSeq(items, 1, k)) = k
  <2>1. /\ SubSeq(items, 1, k) \in Seq(Item) /\ Len(SubSeq(items, 1, k)) = k
        /\ \A i \in 1..k : SubSeq(items, 1, k)[i] = items[i]
    BY <1>1
  <2> QED BY <1>1, <2>1 DEF Sound
<1>3. CASE part \in {SubSeq(items, 1, k) : k \in 0..Len(items)}
  BY <1>2, <1>3
<1>4. CASE part \in {[SubSeq(items, 1, k) EXCEPT ![k].whole = FALSE] : k \in 1..Len(items)}
  <2>1. PICK k \in 1..Len(items) : part = [SubSeq(items, 1, k) EXCEPT ![k].whole = FALSE]
    BY <1>4
  <2> DEFINE first == SubSeq(items, 1, k)
  <2>2. Sound(first, n) /\ Len(first) = k
    BY <1>2
  <2> HIDE DEF first
  <2>3. part = [first EXCEPT ![k].whole = FALSE]
    BY <2>1 DEF first
  <2>4. first[k] \in Item
    <3>1. k \in DOMAIN first
      BY <2>2 DEF Sound
    <3> QED BY <2>2, <3>1, ItemsOfSound
  <2> DEFINE cut == [first[k] EXCEPT !.whole = FALSE]
  <2>7. cut \in Item /\ cut.id = first[k].id
    BY <2>4 DEF Item
  <2> HIDE DEF cut
  <2>8. part = [first EXCEPT ![k] = cut]
    BY <2>3 DEF cut
  <2>5. part \in Seq(Item) /\ DOMAIN part = DOMAIN first
    BY <2>2, <2>7, <2>8 DEF Sound
  <2>6. \A i \in DOMAIN first : part[i].id = first[i].id
    BY <2>2, <2>7, <2>8 DEF Sound
  <2> QED BY <2>2, <2>5, <2>6 DEF Sound
<1> QED BY <1>3, <1>4 DEF Beginning

LEMMA AddSound ==
  ASSUME NEW items, added \in Nat, Sound(items, added), NEW p \in Priority
  PROVE  /\ Sound(Add(items, p), added + 1)
         /\ Ids(items) \subseteq Ids(Add(items, p))
<1> DEFINE item == [id |-> added + 1, priority |-> p, completed |-> FALSE, whole |-> TRUE]
<1>1. item \in Item /\ item.id = added + 1
  BY DEF Item
<1> HIDE DEF item
<1>2. /\ Append(items, item) \in Seq(Item)
      /\ DOMAIN Append(items, item) = 1..(Len(items) + 1)
      /\ DOMAIN items = 1..Len(items) /\ Len(items) \in Nat
      /\ \A i \in 1..Len(items) : Append(items, item)[i] = items[i]
      /\ Append(items, item)[Len(items) + 1] = item
  BY <1>1 DEF Sound
<1>3. \A i \in DOMAIN items : items[i].id \in Nat
  BY ItemsOfSound
<1>4. Sound(Append(items, item), added + 1)
  BY <1>1, <1>2, <1>3, SMTT(40) DEF Sound
<1>5. \A i \in DOMAIN items : items[i].id \in Ids(Append(items, item))
  <2>1. SUFFICES ASSUME NEW i \in DOMAIN items
                 PROVE  items[i].id \in Ids(Append(items, item))
    OBVIOUS
  <2>2. i \in DOMAIN Append(items, item) /\ Append(items, item)[i] = items[i]
    BY <1>2
  <2> QED BY <2>2 DEF Ids
<1> QED BY <1>4, <1>5 DEF Add, item, Ids

LEMMA ToggleSound ==
  ASSUME NEW items, NEW n \in Nat, Sound(items, n), NEW k
  PROVE  /\ Sound([items EXCEPT ![k].completed = ~@], n)
         /\ Ids(items) = Ids([items EXCEPT ![k].completed = ~@])
<1> DEFINE new == [items EXCEPT ![k].completed = ~@]
<1>1. CASE k \notin DOMAIN items
  <2>1. new = items
    BY <1>1 DEF Sound
  <2> QED BY <2>1
<1>2. CASE k \in DOMAIN items
  <2>1. items[k] \in Item
    BY <1>2, ItemsOfSound
  <2> DEFINE ticked == [items[k] EXCEPT !.completed = ~@]
  <2>7. ticked \in Item /\ ticked.id = items[k].id
    BY <2>1 DEF Item
  <2>8. new = [items EXCEPT ![k] = ticked]
    OBVIOUS
  <2> HIDE DEF ticked, new
  <2>2. new \in Seq(Item) /\ DOMAIN new = DOMAIN items
    BY <1>2, <2>7, <2>8 DEF Sound
  <2>3. \A i \in DOMAIN items : new[i].id = items[i].id
    BY <1>2, <2>7, <2>8 DEF Sound
  <2>4. Sound(new, n)
    BY <2>2, <2>3 DEF Sound
  <2>5. Ids(items) = Ids(new)
    BY <2>2, <2>3 DEF Ids
  <2> QED BY <2>4, <2>5 DEF new
<1> QED BY <1>1, <1>2

LEMMA SoundForMore ==
  ASSUME NEW items, NEW n \in Nat, Sound(items, n)
  PROVE  Sound(items, n + 1)
<1>1. \A i \in DOMAIN items : items[i].id \in Nat
  BY ItemsOfSound
<1> QED BY <1>1 DEF Sound

-----------------------------------------------------------------------------
LEMMA InitBacklogInv == ASSUME MaxItems \in Nat, BacklogInit PROVE BacklogInv
<1>1. Sound(<<>>, 0)
  BY EmptySound
<1>2. BacklogTypes
  BY <1>1 DEF BacklogInit, BacklogTypes, IsCopy, Closed, NotRun, NoWrite
<1> QED
  BY <1>2 DEF BacklogInit, BacklogInv, Writers, TabAgrees, CopiesAgree, AgreesWith, Keeps,
              Closed, NotRun, NoWrite

LEMMA OpenTabKeeps == ASSUME BacklogInv, OpenTab PROVE BacklogInv'
<1> USE DEF BacklogInv
<1>1. PICK items \in {LoadOrEmpty, <<>>} \cup Beginning(writing.items) :
        tab' = [open |-> TRUE, items |-> items,
                stale |-> ~readable \/ items # file \/ writing # NoWrite]
  BY DEF OpenTab
<1>2. /\ UNCHANGED <<file, readable, writing, capture, command, added>>
      /\ writing.by # "tab"
  BY DEF OpenTab, UiIdle
<1>3. Sound(items, added)
  BY BeginningSound, EmptySound DEF LoadOrEmpty, BacklogTypes
<1>4. BacklogTypes'
  BY <1>1, <1>2, <1>3 DEF BacklogTypes, Sound
<1>5. Writers' /\ TabAgrees' /\ CopiesAgree'
  BY <1>1, <1>2 DEF Writers, TabAgrees, CopiesAgree
<1>6. Keeps'
  BY <1>2 DEF Keeps, WriterIsBehind
<1> QED BY <1>4, <1>5, <1>6

\* A change in the tab: the list it leads to is what is written.
LEMMA TabWrites ==
  ASSUME BacklogInv, writing = NoWrite, tab.open, NEW items, NEW n \in 0..MaxItems, added <= n,
         Sound(items, n), Ids(tab.items) \subseteq Ids(items),
         Sound(file, n), IsCopy(capture, n), IsCopy(command, n),
         tab' = [tab EXCEPT !.items = items], writing' = [by |-> "tab", items |-> items],
         UNCHANGED <<file, readable, capture, command>>, added' = n
  PROVE  BacklogInv'
<1> USE DEF BacklogInv
<1>1. /\ tab'.open = tab.open /\ tab'.items = items /\ tab'.stale = tab.stale
      /\ tab' \in [open : BOOLEAN, items : Seq(Item), stale : BOOLEAN]
  BY DEF BacklogTypes, Sound
<1>2. BacklogTypes'
  BY <1>1 DEF BacklogTypes, Sound
<1>3. Writers' /\ TabAgrees' /\ CopiesAgree'
  BY <1>1 DEF Writers, TabAgrees, CopiesAgree, NoWrite
<1>4. Keeps'
  BY <1>1 DEF Keeps, WriterIsBehind, TabAgrees
<1> QED BY <1>2, <1>3, <1>4

LEMMA TabAddKeeps ==
  ASSUME MaxItems \in Nat, BacklogInv, NEW p \in Priority, TabAdd(p)
  PROVE  BacklogInv'
<1>1. added \in Nat /\ added + 1 \in 0..MaxItems
  BY DEF TabAdd, BacklogInv, BacklogTypes
<1>2. /\ Sound(Add(tab.items, p), added + 1)
      /\ Ids(tab.items) \subseteq Ids(Add(tab.items, p))
  BY <1>1, AddSound DEF BacklogInv, BacklogTypes
<1>3. Sound(file, added + 1) /\ IsCopy(capture, added + 1) /\ IsCopy(command, added + 1)
  BY <1>1, SoundForMore DEF BacklogInv, BacklogTypes, IsCopy
<1>4. /\ writing = NoWrite /\ tab.open /\ added' = added + 1
      /\ tab' = [tab EXCEPT !.items = Add(tab.items, p)]
      /\ writing' = [by |-> "tab", items |-> Add(tab.items, p)]
      /\ UNCHANGED <<file, readable, capture, command>>
  <2>1. tab'.items = Add(tab.items, p)
    BY DEF TabAdd, BacklogInv, BacklogTypes
  <2> QED BY <2>1 DEF TabAdd
<1> QED BY <1>1, <1>2, <1>3, <1>4, TabWrites

LEMMA ToggleKeeps ==
  ASSUME MaxItems \in Nat, BacklogInv, NEW row, Toggle(row)
  PROVE  BacklogInv'
<1> DEFINE k == BuildDisplayItems(tab.items)[row]
           items == [tab.items EXCEPT ![k].completed = ~@]
<1>1. added \in 0..MaxItems /\ added \in Nat
  BY DEF BacklogInv, BacklogTypes
<1>2. Sound(items, added) /\ Ids(tab.items) = Ids(items)
  <2> HIDE DEF k
  <2>1. Sound(tab.items, added)
    BY DEF BacklogInv, BacklogTypes
  <2> QED BY <1>1, <2>1, ToggleSound
<1>3. /\ writing = NoWrite /\ tab.open /\ added' = added
      /\ tab' = [tab EXCEPT !.items = items]
      /\ UNCHANGED <<file, readable, capture, command>>
  BY DEF Toggle
<1>4. writing' = [by |-> "tab", items |-> items]
  <2>1. tab'.items = items
    BY <1>3 DEF BacklogInv, BacklogTypes
  <2> QED BY <2>1 DEF Toggle
<1>5. Sound(file, added) /\ IsCopy(capture, added) /\ IsCopy(command, added)
  BY DEF BacklogInv, BacklogTypes
<1> HIDE DEF items
<1> QED BY <1>1, <1>2, <1>3, <1>4, <1>5, TabWrites

LEMMA LoadedIsCopy ==
  ASSUME BacklogInv, NEW copy \in LoadedCopy
  PROVE  IsCopy(copy, added) /\ copy.loaded /\ AgreesWith(copy, file)
<1>1. CASE copy = Copy(file, FALSE)
  BY <1>1 DEF Copy, IsCopy, AgreesWith, BacklogInv, BacklogTypes, Sound
<1>2. ASSUME NEW items \in Beginning(writing.items), copy = Copy(items, TRUE)
      PROVE  IsCopy(copy, added) /\ copy.loaded /\ AgreesWith(copy, file)
  <2>1. Sound(items, added)
    BY BeginningSound DEF BacklogInv, BacklogTypes
  <2> QED BY <1>2, <2>1 DEF Copy, IsCopy, AgreesWith, Sound
<1> QED BY <1>1, <1>2 DEF LoadedCopy

LEMMA CaptureLoadsKeeps == ASSUME BacklogInv, CaptureLoads PROVE BacklogInv'
<1> USE DEF BacklogInv
<1>1. /\ UNCHANGED <<file, readable, tab, writing, command, added>>
      /\ ~capture.loaded
  BY DEF CaptureLoads, UiIdle
<1>2. IsCopy(capture', added) /\ capture'.loaded /\ AgreesWith(capture', file)
  BY LoadedIsCopy DEF CaptureLoads
<1>3. BacklogTypes' /\ Writers' /\ TabAgrees' /\ CopiesAgree'
  BY <1>1, <1>2 DEF BacklogTypes, Sound, IsCopy, Writers, TabAgrees, CopiesAgree, AgreesWith
<1>4. Keeps'
  BY <1>1 DEF Keeps, WriterIsBehind, Writers
<1> QED BY <1>3, <1>4

LEMMA CommandLoadsKeeps == ASSUME BacklogInv, CommandLoads PROVE BacklogInv'
<1> USE DEF BacklogInv
<1>1. /\ UNCHANGED <<file, readable, tab, writing, capture, added>>
      /\ ~command.loaded
  BY DEF CommandLoads
<1>2. IsCopy(command', added) /\ command'.loaded /\ AgreesWith(command', file)
  BY LoadedIsCopy DEF CommandLoads
<1>3. BacklogTypes' /\ Writers' /\ TabAgrees' /\ CopiesAgree'
  BY <1>1, <1>2 DEF BacklogTypes, Sound, IsCopy, Writers, TabAgrees, CopiesAgree, AgreesWith
<1>4. Keeps'
  BY <1>1 DEF Keeps, WriterIsBehind, Writers
<1> QED BY <1>3, <1>4

\* A save of what one has loaded, with one item more.
LEMMA CopySaved ==
  ASSUME MaxItems \in Nat, BacklogInv, NEW copy, NEW holder, NEW p \in Priority,
         writing = NoWrite, copy.loaded, IsCopy(copy, added), AgreesWith(copy, file),
         added < MaxItems, added' = added + 1,
         writing' = [by |-> holder, items |-> Add(copy.items, p)],
         UNCHANGED <<file, readable, tab, capture, command>>,
         \/ holder = "capture" /\ copy = capture
         \/ holder = "command" /\ copy = command
  PROVE  BacklogInv'
<1> USE DEF BacklogInv
<1>1. added \in Nat /\ added + 1 \in 0..MaxItems
  BY DEF BacklogTypes
<1>2. /\ Sound(file, added + 1) /\ Sound(tab.items, added + 1)
      /\ IsCopy(capture, added + 1) /\ IsCopy(command, added + 1)
  BY <1>1, SoundForMore DEF BacklogTypes, IsCopy
<1>3. /\ Sound(Add(copy.items, p), added + 1)
      /\ Ids(copy.items) \subseteq Ids(Add(copy.items, p))
  BY <1>1, AddSound DEF IsCopy
<1>4. BacklogTypes'
  BY <1>1, <1>2, <1>3 DEF BacklogTypes, Sound, IsCopy
<1>5. Writers' /\ TabAgrees' /\ CopiesAgree'
  BY <1>1 DEF Writers, TabAgrees, CopiesAgree, NoWrite
<1>6. Keeps'
  <2>1. CASE copy.stale
    BY <2>1 DEF Keeps, WriterIsBehind
  <2>2. CASE ~copy.stale
    <3>1. copy.items = file
      BY <2>2 DEF AgreesWith
    <3> QED BY <1>3, <3>1 DEF Keeps
  <2> QED BY <2>1, <2>2
<1> QED BY <1>4, <1>5, <1>6

LEMMA SavesKeep ==
  ASSUME MaxItems \in Nat, BacklogInv, NEW p \in Priority, CaptureSaves(p) \/ CommandSaves(p)
  PROVE  BacklogInv'
<1>1. CASE CaptureSaves(p)
  BY <1>1, CopySaved DEF CaptureSaves, BacklogInv, BacklogTypes, CopiesAgree
<1>2. CASE CommandSaves(p)
  BY <1>2, CopySaved DEF CommandSaves, BacklogInv, BacklogTypes, CopiesAgree
<1> QED BY <1>1, <1>2

\* After a write nobody else's copy counts as up to date.
LEMMA AfterIsOutdated ==
  ASSUME added \in Nat, NEW copy, IsCopy(copy, added), NEW holder
  PROVE  /\ IsCopy(After(copy, holder), added)
         /\ ~After(copy, holder).loaded \/ After(copy, holder).stale
<1>1. CASE writing.by = holder
  BY <1>1, EmptySound DEF After, NotRun, IsCopy
<1>2. CASE writing.by # holder
  BY <1>2 DEF After, IsCopy
<1> QED BY <1>1, <1>2

LEMMA WriteSucceedsKeeps == ASSUME BacklogInv, WriteSucceeds PROVE BacklogInv'
<1> USE DEF BacklogInv
<1>1. /\ file' = writing.items /\ readable' = TRUE /\ writing' = NoWrite /\ added' = added
      /\ tab' = [tab EXCEPT !.stale = tab.open /\ ~(TRUE /\ writing.by = "tab")]
      /\ capture' = After(capture, "capture") /\ command' = After(command, "command")
  BY DEF WriteSucceeds, Outdated
<1>2. /\ tab' \in [open : BOOLEAN, items : Seq(Item), stale : BOOLEAN]
      /\ tab'.open = tab.open /\ tab'.items = tab.items
      /\ tab'.stale = (tab.open /\ writing.by # "tab")
  BY <1>1 DEF BacklogTypes
<1>3. /\ IsCopy(capture', added) /\ (~capture'.loaded \/ capture'.stale)
      /\ IsCopy(command', added) /\ (~command'.loaded \/ command'.stale)
  BY <1>1, AfterIsOutdated DEF BacklogTypes
<1>4. BacklogTypes'
  BY <1>1, <1>2, <1>3, EmptySound DEF BacklogTypes, NoWrite
<1>5. Writers' /\ TabAgrees' /\ CopiesAgree' /\ Keeps'
  BY <1>1, <1>2, <1>3 DEF Writers, TabAgrees, CopiesAgree, AgreesWith, Keeps, NoWrite
<1> QED BY <1>4, <1>5

LEMMA TornSound ==
  ASSUME BacklogInv, Torn
  PROVE  Sound(file', added) /\ readable' \in BOOLEAN
BY BeginningSound DEF Torn, BacklogInv, BacklogTypes

LEMMA WriteBreaksOffKeeps == ASSUME BacklogInv, WriteBreaksOff PROVE BacklogInv'
<1> USE DEF BacklogInv
<1>1. /\ writing' = NoWrite /\ added' = added
      /\ tab' = [tab EXCEPT !.stale = tab.open /\ ~(FALSE /\ writing.by = "tab")]
      /\ capture' = After(capture, "capture") /\ command' = After(command, "command")
  BY DEF WriteBreaksOff, Outdated
<1>2. /\ tab' \in [open : BOOLEAN, items : Seq(Item), stale : BOOLEAN]
      /\ tab'.open = tab.open /\ tab'.items = tab.items /\ tab'.stale = tab.open
  BY <1>1 DEF BacklogTypes
<1>3. /\ IsCopy(capture', added) /\ (~capture'.loaded \/ capture'.stale)
      /\ IsCopy(command', added) /\ (~command'.loaded \/ command'.stale)
  BY <1>1, AfterIsOutdated DEF BacklogTypes
<1>4. Sound(file', added) /\ readable' \in BOOLEAN
  BY TornSound DEF WriteBreaksOff
<1>5. BacklogTypes'
  BY <1>1, <1>2, <1>3, <1>4, EmptySound DEF BacklogTypes, NoWrite
<1>6. Writers' /\ TabAgrees' /\ CopiesAgree' /\ Keeps'
  BY <1>1, <1>2, <1>3 DEF Writers, TabAgrees, CopiesAgree, AgreesWith, Keeps, NoWrite
<1> QED BY <1>5, <1>6

LEMMA ProgramEndsKeeps == ASSUME BacklogInv, ProgramEnds PROVE BacklogInv'
<1> USE DEF BacklogInv
<1>1. tab' = Closed /\ capture' = NotRun /\ added' = added
  BY DEF ProgramEnds
<1>2. /\ tab' \in [open : BOOLEAN, items : Seq(Item), stale : BOOLEAN]
      /\ Sound(tab'.items, added) /\ ~tab'.open
      /\ IsCopy(capture', added) /\ ~capture'.loaded
  BY <1>1, EmptySound DEF Closed, NotRun, IsCopy, BacklogTypes
<1>3. CASE writing.by \in {"tab", "capture"}
  <2>1. Torn /\ writing' = NoWrite /\ command' = After(command, "command")
    BY <1>3 DEF ProgramEnds
  <2>2. IsCopy(command', added) /\ (~command'.loaded \/ command'.stale)
    BY <2>1, AfterIsOutdated DEF BacklogTypes
  <2>3. BacklogTypes'
    BY <1>1, <1>2, <2>1, <2>2, TornSound, EmptySound DEF BacklogTypes, NoWrite
  <2>4. Writers' /\ TabAgrees' /\ CopiesAgree' /\ Keeps'
    BY <1>2, <2>1, <2>2 DEF Writers, TabAgrees, CopiesAgree, AgreesWith, Keeps, NoWrite
  <2> QED BY <2>3, <2>4
<1>4. CASE writing.by \notin {"tab", "capture"}
  <2>1. UNCHANGED <<file, readable, writing, command>>
    BY <1>4 DEF ProgramEnds
  <2>2. BacklogTypes'
    BY <1>1, <1>2, <2>1 DEF BacklogTypes
  <2>3. Writers' /\ TabAgrees' /\ CopiesAgree'
    BY <1>2, <1>4, <2>1 DEF Writers, TabAgrees, CopiesAgree, AgreesWith
  <2>4. Keeps'
    BY <1>4, <2>1 DEF Keeps, WriterIsBehind
  <2> QED BY <2>2, <2>3, <2>4
<1> QED BY <1>3, <1>4

LEMMA NextKeepsBacklog == ASSUME MaxItems \in Nat PROVE BacklogInv /\ [BacklogNext]_backlogVars => BacklogInv'
<1> SUFFICES ASSUME BacklogInv, [BacklogNext]_backlogVars PROVE BacklogInv'
  OBVIOUS
<1>1. CASE CloseTab
  BY <1>1, EmptySound
     DEF CloseTab, UiIdle, Closed, BacklogInv, BacklogTypes, Writers, TabAgrees, CopiesAgree, Keeps,
         WriterIsBehind
<1>2. CASE UNCHANGED backlogVars
  BY <1>2 DEF backlogVars, BacklogInv, BacklogTypes, Writers, TabAgrees, CopiesAgree, Keeps,
              WriterIsBehind
<1> QED
  BY <1>1, <1>2, OpenTabKeeps, TabAddKeeps, ToggleKeeps, CaptureLoadsKeeps, CommandLoadsKeeps,
     SavesKeep, WriteSucceedsKeeps, WriteBreaksOffKeeps, ProgramEndsKeeps DEF BacklogNext

-----------------------------------------------------------------------------
(***************************************************************************)
(* The items are in the order in which they were added wherever they are   *)
(* held, and a tab that is not out of date shows the file, for every       *)
(* number of items.                                                        *)
(***************************************************************************)
THEOREM BacklogStaysAgreed == ASSUME MaxItems \in Nat PROVE BacklogSpec => []BacklogAgrees
<1>1. BacklogInv => BacklogAgrees
  BY DEF BacklogInv, BacklogTypes, IsCopy, Sound, Writers, BacklogAgrees, BacklogTypeOK, InOrder
<1>2. BacklogInit => BacklogInv
  BY InitBacklogInv
<1>3. BacklogInv /\ [BacklogNext]_backlogVars => BacklogInv'
  BY NextKeepsBacklog
<1> QED BY <1>1, <1>2, <1>3, PTL DEF BacklogSpec

(***************************************************************************)
(* A save loses an item of the file only if the copy it is made of is out  *)
(* of date, be it the tab's, the dialog's or the command's, whatever       *)
(* happened before it and whatever the other process does.                 *)
(***************************************************************************)
THEOREM NoItemLost == ASSUME MaxItems \in Nat PROVE BacklogSpec => ItemsKept
<1> DEFINE A == writing # NoWrite /\ file' = writing.items =>
                  Ids(file) \subseteq Ids(file') \/ WriterIsBehind
<1>1. BacklogInv /\ [BacklogNext]_backlogVars => [A]_backlogVars
  BY DEF BacklogInv, Writers, Keeps, Ids
<1>2. BacklogInit => BacklogInv
  BY InitBacklogInv
<1>3. BacklogInv /\ [BacklogNext]_backlogVars => BacklogInv'
  BY NextKeepsBacklog
<1> QED BY <1>1, <1>2, <1>3, PTL DEF BacklogSpec, ItemsKept

-----------------------------------------------------------------------------
(***************************************************************************)
(* The rate limiter keeps its window, for every interval, every set of     *)
(* subjects and however many calls overlap.                                *)
(***************************************************************************)

LimiterCall == [kind : Kind, subject : Subject, status : Outcome, at : 1..MaxTime,
         state : {"asked", "refused"} \cup Accepted]

\* LastIsNewest, call by call.
Remembers ==
  /\ \A k \in Kind, s \in Subject : lastSent[k][s] <= now
  /\ \A k \in Kind, s \in Subject : lastSent[k][s] # 0 =>
       \E i \in DOMAIN sends : /\ sends[i].kind = k /\ sends[i].subject = s
                               /\ sends[i].state \in Accepted /\ sends[i].at = lastSent[k][s]
  /\ \A i \in DOMAIN sends :
       sends[i].state \in Accepted => sends[i].at <= lastSent[sends[i].kind][sends[i].subject]

NotifierInv == NotifierTypeOK /\ Remembers /\ SpacedApart /\ RefusedRecently

-----------------------------------------------------------------------------
LEMMA RemembersIsNewest == NotifierTypeOK /\ Remembers <=> NotifierTypeOK /\ LastIsNewest
<1> SUFFICES ASSUME NotifierTypeOK PROVE Remembers <=> LastIsNewest
  OBVIOUS
<1>1. \A i \in DOMAIN sends : sends[i] \in LimiterCall
  <2>1. sends \in Seq(LimiterCall)
    BY DEF NotifierTypeOK, LimiterCall
  <2> QED BY <2>1
<1>2. ASSUME Remembers PROVE LastIsNewest
  BY <1>2 DEF Remembers, LastIsNewest
<1>3. ASSUME LastIsNewest PROVE Remembers
  <2>1. ASSUME NEW i \in DOMAIN sends, sends[i].state \in Accepted
        PROVE  sends[i].at <= lastSent[sends[i].kind][sends[i].subject]
    <3>1. sends[i].kind \in Kind /\ sends[i].subject \in Subject
      BY <1>1 DEF LimiterCall
    <3> QED BY <1>3, <2>1, <3>1 DEF LastIsNewest
  <2>2. ASSUME NEW k \in Kind, NEW s \in Subject
        PROVE  lastSent[k][s] <= now
    BY <1>3 DEF LastIsNewest
  <2>3. ASSUME NEW k \in Kind, NEW s \in Subject, lastSent[k][s] # 0
        PROVE  \E i \in DOMAIN sends : /\ sends[i].kind = k /\ sends[i].subject = s
                                       /\ sends[i].state \in Accepted
                                       /\ sends[i].at = lastSent[k][s]
    BY <1>3, <2>3 DEF LastIsNewest
  <2> QED BY <2>1, <2>2, <2>3 DEF Remembers
<1> QED BY <1>2, <1>3

LEMMA InitNotifierInv == ASSUME MaxTime \in Nat \ {0}, NotifierInit PROVE NotifierInv
<1>1. notifiers \in Seq(Kind)
  <2>1. PICK env \in Env : notifiers = BuildNotifiers(FromEnv(env))
    BY DEF NotifierInit
  <2> DEFINE config == FromEnv(env)
             first  == IF config.slack # "none" THEN <<"slack">> ELSE <<>>
             second == IF config.telegram THEN <<"telegram">> ELSE <<>>
  <2>2. first \in Seq(Kind) /\ second \in Seq(Kind) /\ <<"console">> \in Seq(Kind)
    <3>1. <<"console">> \in Seq(Kind) /\ <<"slack">> \in Seq(Kind) /\ <<"telegram">> \in Seq(Kind)
      BY DEF Kind
    <3>2. <<>> \in Seq(Kind)
      OBVIOUS
    <3> QED BY <3>1, <3>2
  <2>3. notifiers = <<"console">> \o first \o second
    BY <2>1 DEF BuildNotifiers
  <2> HIDE DEF first, second
  <2> QED BY <2>2, <2>3
<1>2. NotifierTypeOK
  BY <1>1 DEF NotifierInit, NotifierTypeOK
<1> QED BY <1>2 DEF NotifierInit, NotifierInv, Remembers, SpacedApart, RefusedRecently

\* A new call: none of the others changes.
LEMMA SendKeeps ==
  ASSUME NotifierInv, NEW k \in Kind, NEW s \in Subject, NEW st \in Outcome, SendNotification(k, s, st)
  PROVE  NotifierInv'
<1> DEFINE call == [kind |-> k, subject |-> s, status |-> st, state |-> "asked", at |-> now]
<1>1. sends \in Seq(LimiterCall) /\ now \in 1..MaxTime
  BY DEF NotifierInv, NotifierTypeOK, LimiterCall
<1>2. call \in LimiterCall /\ call.state = "asked" /\ "asked" \notin Accepted
  BY <1>1 DEF LimiterCall, Accepted
<1>3. sends' = Append(sends, call) /\ UNCHANGED <<notifiers, now, lastSent>>
  BY DEF SendNotification
<1> HIDE DEF call
<1>4. /\ sends' \in Seq(LimiterCall) /\ Len(sends) \in Nat
      /\ DOMAIN sends' = DOMAIN sends \cup {Len(sends) + 1}
      /\ \A i \in DOMAIN sends : sends'[i] = sends[i]
      /\ sends'[Len(sends) + 1] = call
  BY <1>1, <1>2, <1>3
<1>5. NotifierTypeOK'
  BY <1>3, <1>4 DEF NotifierInv, NotifierTypeOK, LimiterCall
<1>6. Remembers'
  BY <1>2, <1>3, <1>4 DEF NotifierInv, Remembers
<1>7. SpacedApart'
  BY <1>2, <1>4 DEF NotifierInv, SpacedApart, SameKey
<1>8. RefusedRecently'
  BY <1>2, <1>4 DEF NotifierInv, RefusedRecently, SameKey
<1> QED BY <1>5, <1>6, <1>7, <1>8 DEF NotifierInv

\* check of a call: it is refused because of the one the limiter remembers, or is the
\* newest that is let through.
LEMMA CheckKeeps ==
  ASSUME MinInterval \in Nat, NotifierInv, NEW i \in DOMAIN sends, Check(i)
  PROVE  NotifierInv'
<1>0. /\ sends \in Seq(LimiterCall) /\ now \in 1..MaxTime
      /\ lastSent \in [Kind -> [Subject -> 0..MaxTime]]
  BY DEF NotifierInv, NotifierTypeOK, LimiterCall
<1>7. sends[i] \in LimiterCall
  BY <1>0
<1>8. PICK k \in Kind, s \in Subject, last \in 0..MaxTime :
        k = sends[i].kind /\ s = sends[i].subject /\ last = lastSent[k][s]
  BY <1>0, <1>7 DEF LimiterCall
<1>1. /\ sends \in Seq(LimiterCall) /\ now \in 1..MaxTime
      /\ lastSent \in [Kind -> [Subject -> 0..MaxTime]]
      /\ k = sends[i].kind /\ s = sends[i].subject /\ last = lastSent[k][s]
      /\ sends[i].state = "asked" /\ UNCHANGED <<notifiers, now>>
  BY <1>0, <1>8 DEF Check
<1>9. last # 0 => \E j \in DOMAIN sends : /\ sends[j].kind = k /\ sends[j].subject = s
                                          /\ sends[j].state \in Accepted /\ sends[j].at = last
  <2>1. lastSent[k][s] # 0 => \E j \in DOMAIN sends :
          /\ sends[j].kind = k /\ sends[j].subject = s
          /\ sends[j].state \in Accepted /\ sends[j].at = lastSent[k][s]
    BY DEF NotifierInv, Remembers
  <2> QED BY <1>1, <2>1
<1>10. ASSUME NEW x \in DOMAIN sends, sends[x].kind = k, sends[x].subject = s,
              sends[x].state \in Accepted
       PROVE  sends[x].at <= last /\ sends[x].at \in 1..MaxTime
  <2>1. sends[x].at <= lastSent[sends[x].kind][sends[x].subject]
    BY <1>10 DEF NotifierInv, Remembers
  <2>2. sends[x] \in LimiterCall
    BY <1>1
  <2>3. sends[x].at \in 1..MaxTime
    BY <2>2 DEF LimiterCall
  <2> QED BY <1>1, <1>10, <2>1, <2>3
<1>2. last \in 0..MaxTime /\ last <= now
  BY <1>1 DEF NotifierInv, Remembers
<1>3. \A j \in DOMAIN sends : sends[j] \in LimiterCall
  BY <1>1
<1>4. "asked" \notin Accepted /\ "refused" \notin Accepted /\ "sending" \in Accepted
  BY DEF Accepted
<1>5. CASE /\ last # 0 /\ now - last < MinInterval
           /\ sends' = [sends EXCEPT ![i].state = "refused", ![i].at = now]
           /\ UNCHANGED lastSent
  <2> DEFINE call == [sends[i] EXCEPT !.state = "refused", !.at = now]
  <2>1. sends' = [sends EXCEPT ![i] = call]
    BY <1>5
  <2>2. /\ call \in LimiterCall /\ call.state = "refused" /\ call.at = now
        /\ call.kind = k /\ call.subject = s
    BY <1>1, <1>3 DEF LimiterCall
  <2> HIDE DEF call
  <2>3. /\ DOMAIN sends' = DOMAIN sends /\ sends'[i] = call /\ sends' \in Seq(LimiterCall)
        /\ \A j \in DOMAIN sends : j # i => sends'[j] = sends[j]
    BY <1>1, <2>1, <2>2
  <2>4. NotifierTypeOK'
    BY <1>1, <1>5, <2>3 DEF NotifierInv, NotifierTypeOK, LimiterCall
  <2>5. Remembers'
    <3>1. \A x \in DOMAIN sends : sends'[x].state \in Accepted =>
            sends'[x] = sends[x] /\ sends[x].at <= lastSent[sends[x].kind][sends[x].subject]
      BY <1>4, <2>2, <2>3 DEF NotifierInv, Remembers
    <3>2. ASSUME NEW kk \in Kind, NEW ss \in Subject, lastSent[kk][ss] # 0
          PROVE  \E x \in DOMAIN sends' :
                   /\ sends'[x].kind = kk /\ sends'[x].subject = ss
                   /\ sends'[x].state \in Accepted /\ sends'[x].at = lastSent[kk][ss]
      <4>1. PICK x \in DOMAIN sends : /\ sends[x].kind = kk /\ sends[x].subject = ss
                                      /\ sends[x].state \in Accepted
                                      /\ sends[x].at = lastSent[kk][ss]
        BY <3>2 DEF NotifierInv, Remembers
      <4>2. x # i
        BY <1>1, <1>4, <4>1
      <4> QED BY <2>3, <4>1, <4>2
    <3>3. /\ \A kk \in Kind, ss \in Subject : lastSent[kk][ss] <= now
          /\ lastSent' = lastSent /\ now' = now
      BY <1>1, <1>5 DEF NotifierInv, Remembers
    <3> QED BY <2>3, <3>1, <3>2, <3>3 DEF Remembers
  <2>6. SpacedApart'
    BY <1>4, <2>2, <2>3 DEF NotifierInv, SpacedApart, SameKey
  <2>7. PICK j \in DOMAIN sends : /\ sends[j].kind = k /\ sends[j].subject = s
                                  /\ sends[j].state \in Accepted /\ sends[j].at = last
    BY <1>5, <1>9
  <2>8. j # i
    BY <1>1, <1>4, <2>7
  <2>9. RefusedRecently'
    <3> SUFFICES ASSUME NEW x \in DOMAIN sends', sends'[x].state = "refused"
                 PROVE  \E y \in DOMAIN sends' :
                          /\ SameKey(x, y)' /\ sends'[y].state \in Accepted
                          /\ sends'[y].at <= sends'[x].at
                          /\ sends'[x].at < sends'[y].at + MinInterval
      BY DEF RefusedRecently
    <3>1. CASE x = i
      <4>1. SameKey(i, j)' /\ sends'[j] = sends[j]
        BY <2>2, <2>3, <2>7, <2>8 DEF SameKey
      <4>2. sends'[j].at <= sends'[i].at /\ sends'[i].at < sends'[j].at + MinInterval
        BY <1>1, <1>2, <1>5, <2>2, <2>3, <2>7, <4>1
      <4> QED BY <2>3, <2>7, <3>1, <4>1, <4>2
    <3>2. CASE x # i
      <4>1. PICK y \in DOMAIN sends :
              /\ SameKey(x, y) /\ sends[y].state \in Accepted
              /\ sends[y].at <= sends[x].at /\ sends[x].at < sends[y].at + MinInterval
        BY <2>3, <3>2 DEF NotifierInv, RefusedRecently
      <4>2. y # i
        BY <1>1, <1>4, <4>1
      <4> QED BY <2>3, <3>2, <4>1, <4>2 DEF SameKey
    <3> QED BY <3>1, <3>2
  <2> QED BY <2>4, <2>5, <2>6, <2>9 DEF NotifierInv
<1>6. CASE /\ last = 0 \/ now - last >= MinInterval
           /\ sends' = [sends EXCEPT ![i].state = "sending", ![i].at = now]
           /\ lastSent' = [lastSent EXCEPT ![k][s] = now]
  <2> DEFINE call == [sends[i] EXCEPT !.state = "sending", !.at = now]
  <2>1. sends' = [sends EXCEPT ![i] = call]
    BY <1>6
  <2>2. /\ call \in LimiterCall /\ call.state = "sending" /\ call.at = now
        /\ call.kind = k /\ call.subject = s
    BY <1>1, <1>3 DEF LimiterCall, Accepted
  <2> HIDE DEF call
  <2>3. /\ DOMAIN sends' = DOMAIN sends /\ sends'[i] = call /\ sends' \in Seq(LimiterCall)
        /\ \A j \in DOMAIN sends : j # i => sends'[j] = sends[j]
    BY <1>1, <2>1, <2>2
  <2>4. /\ lastSent' \in [Kind -> [Subject -> 0..MaxTime]] /\ lastSent'[k][s] = now
        /\ \A kk \in Kind, ss \in Subject :
             <<kk, ss>> # <<k, s>> => lastSent'[kk][ss] = lastSent[kk][ss]
    BY <1>1, <1>6
  <2>5. NotifierTypeOK'
    BY <1>1, <2>3, <2>4 DEF NotifierInv, NotifierTypeOK, LimiterCall
  <2>6. Remembers'
    <3>1. \A kk \in Kind, ss \in Subject : lastSent'[kk][ss] <= now'
      BY <1>1, <2>4 DEF NotifierInv, Remembers
    <3>2. ASSUME NEW kk \in Kind, NEW ss \in Subject, lastSent'[kk][ss] # 0
          PROVE  \E x \in DOMAIN sends' :
                   /\ sends'[x].kind = kk /\ sends'[x].subject = ss
                   /\ sends'[x].state \in Accepted /\ sends'[x].at = lastSent'[kk][ss]
      <4>1. CASE <<kk, ss>> = <<k, s>>
        BY <1>4, <2>2, <2>3, <2>4, <4>1
      <4>2. CASE <<kk, ss>> # <<k, s>>
        <5>1. PICK x \in DOMAIN sends : /\ sends[x].kind = kk /\ sends[x].subject = ss
                                        /\ sends[x].state \in Accepted
                                        /\ sends[x].at = lastSent[kk][ss]
          BY <2>4, <3>2, <4>2 DEF NotifierInv, Remembers
        <5>2. x # i
          BY <1>1, <1>4, <5>1
        <5> QED BY <2>3, <2>4, <4>2, <5>1, <5>2
      <4> QED BY <4>1, <4>2
    <3>3. ASSUME NEW x \in DOMAIN sends', sends'[x].state \in Accepted
          PROVE  sends'[x].at <= lastSent'[sends'[x].kind][sends'[x].subject]
      <4>1. CASE x = i
        BY <1>1, <2>2, <2>3, <2>4, <4>1
      <4>2. CASE x # i
        <5>1. /\ sends'[x] = sends[x] /\ sends[x] \in LimiterCall
              /\ sends[x].at <= lastSent[sends[x].kind][sends[x].subject]
          BY <1>3, <2>3, <3>3, <4>2 DEF NotifierInv, Remembers
        <5>2. sends[x].kind \in Kind /\ sends[x].subject \in Subject /\ sends[x].at \in Nat
          BY <5>1 DEF LimiterCall
        <5>3. CASE <<sends[x].kind, sends[x].subject>> = <<k, s>>
          BY <1>1, <1>2, <2>4, <5>1, <5>2, <5>3
        <5>4. CASE <<sends[x].kind, sends[x].subject>> # <<k, s>>
          BY <2>4, <5>1, <5>2, <5>4
        <5> QED BY <5>3, <5>4
      <4> QED BY <4>1, <4>2
    <3> QED BY <3>1, <3>2, <3>3 DEF Remembers
  <2>7. ASSUME NEW x \in DOMAIN sends, x # i, sends[x].kind = k, sends[x].subject = s,
               sends[x].state \in Accepted
        PROVE  sends[x].at + MinInterval <= now
    <3>1. sends[x].at <= last /\ sends[x].at \in 1..MaxTime
      BY <1>10, <2>7
    <3> QED BY <1>1, <1>2, <1>6, <3>1
  <2>8. SpacedApart'
    <3> SUFFICES ASSUME NEW x \in DOMAIN sends', NEW y \in DOMAIN sends', x # y, SameKey(x, y)',
                        sends'[x].state \in Accepted, sends'[y].state \in Accepted
                 PROVE  \/ sends'[x].at + MinInterval <= sends'[y].at
                        \/ sends'[y].at + MinInterval <= sends'[x].at
      BY DEF SpacedApart
    <3>1. CASE x = i
      BY <2>2, <2>3, <2>7, <3>1 DEF SameKey
    <3>2. CASE y = i
      BY <2>2, <2>3, <2>7, <3>2 DEF SameKey
    <3>3. CASE x # i /\ y # i
      BY <2>3, <3>3 DEF NotifierInv, SpacedApart, SameKey
    <3> QED BY <3>1, <3>2, <3>3
  <2>9. RefusedRecently'
    <3> SUFFICES ASSUME NEW x \in DOMAIN sends', sends'[x].state = "refused"
                 PROVE  \E y \in DOMAIN sends' :
                          /\ SameKey(x, y)' /\ sends'[y].state \in Accepted
                          /\ sends'[y].at <= sends'[x].at
                          /\ sends'[x].at < sends'[y].at + MinInterval
      BY DEF RefusedRecently
    <3>1. x # i
      BY <2>2, <2>3
    <3>2. PICK y \in DOMAIN sends :
            /\ SameKey(x, y) /\ sends[y].state \in Accepted
            /\ sends[y].at <= sends[x].at /\ sends[x].at < sends[y].at + MinInterval
      BY <2>3, <3>1 DEF NotifierInv, RefusedRecently
    <3>3. y # i
      BY <1>1, <1>4, <3>2
    <3> QED BY <2>3, <3>1, <3>2, <3>3 DEF SameKey
  <2> QED BY <2>5, <2>6, <2>8, <2>9 DEF NotifierInv
<1> QED BY <1>1, <1>5, <1>6 DEF Check

\* The end of a send that was let through, which stays let through.
LEMMA FinishKeeps ==
  ASSUME NotifierInv, NEW i \in DOMAIN sends, NEW kind, NEW outcomes, outcomes \subseteq {"sent", "failed"},
         Finish(i, kind, outcomes)
  PROVE  NotifierInv'
<1>1. PICK outcome \in outcomes : sends' = [sends EXCEPT ![i].state = outcome]
  BY DEF Finish
<1>2. /\ sends \in Seq(LimiterCall) /\ sends[i].state = "sending"
      /\ UNCHANGED <<notifiers, now, lastSent>>
  BY DEF NotifierInv, NotifierTypeOK, LimiterCall, Finish
<1>3. sends[i] \in LimiterCall
  BY <1>2
<1> DEFINE call == [sends[i] EXCEPT !.state = outcome]
<1>4. /\ call \in LimiterCall /\ call.state = outcome /\ call.at = sends[i].at
      /\ call.kind = sends[i].kind /\ call.subject = sends[i].subject
  BY <1>3 DEF LimiterCall, Accepted
<1>5. sends' = [sends EXCEPT ![i] = call]
  BY <1>1
<1> HIDE DEF call
<1>6. /\ DOMAIN sends' = DOMAIN sends /\ sends'[i] = call /\ sends' \in Seq(LimiterCall)
      /\ \A j \in DOMAIN sends : j # i => sends'[j] = sends[j]
  BY <1>2, <1>4, <1>5
<1>7. \A j \in DOMAIN sends :
        /\ sends'[j].kind = sends[j].kind /\ sends'[j].subject = sends[j].subject
        /\ sends'[j].at = sends[j].at
        /\ sends'[j].state \in Accepted <=> sends[j].state \in Accepted
        /\ sends'[j].state = "refused" <=> sends[j].state = "refused"
  BY <1>2, <1>4, <1>6 DEF Accepted
<1>8. NotifierTypeOK'
  BY <1>2, <1>6 DEF NotifierInv, NotifierTypeOK, LimiterCall
<1>9. Remembers'
  BY <1>2, <1>6, <1>7 DEF NotifierInv, Remembers
<1>10. SpacedApart'
  BY <1>6, <1>7 DEF NotifierInv, SpacedApart, SameKey
<1>11. RefusedRecently'
  BY <1>6, <1>7 DEF NotifierInv, RefusedRecently, SameKey
<1> QED BY <1>8, <1>9, <1>10, <1>11 DEF NotifierInv

LEMMA NextKeepsNotifier ==
  ASSUME MinInterval \in Nat, MaxTime \in Nat \ {0} PROVE NotifierInv /\ [NotifierNext]_notifyVars => NotifierInv'
<1> SUFFICES ASSUME NotifierInv, [NotifierNext]_notifyVars PROVE NotifierInv'
  OBVIOUS
<1>1. CASE Tick
  <2>1. NotifierTypeOK'
    BY <1>1 DEF Tick, NotifierInv, NotifierTypeOK
  <2>2. Remembers'
    BY <1>1 DEF Tick, NotifierInv, NotifierTypeOK, Remembers
  <2> QED BY <1>1, <2>1, <2>2 DEF Tick, NotifierInv, SpacedApart, RefusedRecently, SameKey
<1>2. CASE UNCHANGED notifyVars
  BY <1>2 DEF notifyVars, NotifierInv, NotifierTypeOK, Remembers, SpacedApart, RefusedRecently, SameKey
<1>3. ASSUME NEW i \in DOMAIN sends, ConsoleSends(i) \/ SlackSends(i) \/ TelegramSends(i)
      PROVE  NotifierInv'
  BY <1>3, FinishKeeps DEF ConsoleSends, SlackSends, TelegramSends
<1> QED BY <1>1, <1>2, <1>3, SendKeeps, CheckKeeps DEF NotifierNext

-----------------------------------------------------------------------------
(***************************************************************************)
(* What is let through under a key is the interval apart, and a call is    *)
(* refused only within the interval after one that was let through, for    *)
(* every interval and any number of overlapping calls.                     *)
(***************************************************************************)
THEOREM WindowIsKept ==
  ASSUME MinInterval \in Nat, MaxTime \in Nat \ {0} PROVE NotifierSpec => []WindowKept
<1>1. NotifierInv => WindowKept
  BY RemembersIsNewest DEF NotifierInv, WindowKept
<1>2. NotifierInit => NotifierInv
  BY InitNotifierInv
<1>3. NotifierInv /\ [NotifierNext]_notifyVars => NotifierInv'
  BY NextKeepsNotifier
<1> QED BY <1>1, <1>2, <1>3, PTL DEF NotifierSpec

-----------------------------------------------------------------------------
(***************************************************************************)
(* What a session's pane puts up, for every set of sessions and steps and  *)
(* any number of notifications, visits and toasts.                         *)
(***************************************************************************)

ViewTypes ==
  /\ notes \in [ViewSession -> Seq({"warning", "error"})]
  /\ pane \in ViewSession \cup {NoSession}
  /\ counted \in Nat

PaneInv == ViewTypes /\ NotedOnce

-----------------------------------------------------------------------------
\* What was put up, followed by what was not counted yet, is all there is.
LEMMA RestFollows ==
  ASSUME NEW S, NEW q \in Seq(S), NEW n \in 0..Len(q)
  PROVE  SubSeq(q, 1, n) \o SubSeq(q, n + 1, Len(q)) = SubSeq(q, 1, Len(q))
<1> DEFINE left == SubSeq(q, 1, n)  right == SubSeq(q, n + 1, Len(q))  all == SubSeq(q, 1, Len(q))
<1>1. left \in Seq(S) /\ right \in Seq(S) /\ all \in Seq(S)
  OBVIOUS
<1>2. Len(left) = n /\ Len(right) = Len(q) - n /\ Len(all) = Len(q)
  OBVIOUS
<1>3. \A i \in 1..n : left[i] = q[i]
  OBVIOUS
<1>4. \A i \in 1..(Len(q) - n) : right[i] = q[n + i]
  OBVIOUS
<1>5. \A i \in 1..Len(q) : all[i] = q[i]
  OBVIOUS
<1> HIDE DEF left, right, all
<1> DEFINE both == left \o right
<1>6. both \in Seq(S) /\ Len(both) = Len(q)
  BY <1>1, <1>2
<1>7. ASSUME NEW i \in 1..Len(q) PROVE both[i] = q[i]
  <2>1. i \in Int /\ n \in Int
    OBVIOUS
  <2>2. ASSUME i <= n PROVE both[i] = q[i]
    BY <2>2, <1>1, <1>2, <1>3
  <2>3. ASSUME i > n PROVE both[i] = q[i]
    <3>1. i - n \in 1..(Len(q) - n) /\ n + (i - n) = i
      BY <2>3
    <3>2. both[i] = right[i - n]
      BY <2>3, <1>1, <1>2
    <3> QED BY <3>1, <3>2, <1>4
  <2> HIDE DEF both
  <2> QED BY <2>1, <2>2, <2>3
<1> HIDE DEF both
<1>8. both = all
  BY <1>1, <1>2, <1>5, <1>6, <1>7, SeqEqual
<1> QED BY <1>8 DEF left, right, all, both

\* A notification that comes leaves the ones before it where they are.
LEMMA PrefixStays ==
  ASSUME NEW S, NEW q \in Seq(S), NEW e \in S, NEW n \in 0..Len(q)
  PROVE  SubSeq(Append(q, e), 1, n) = SubSeq(q, 1, n)
OBVIOUS

-----------------------------------------------------------------------------
LEMMA InitPaneInv == ViewInit => PaneInv
BY DEF ViewInit, PaneInv, ViewTypes, NotedOnce

LEMMA NotifiedKeeps == ASSUME PaneInv, NEW s \in ViewSession, Notified(s) PROVE PaneInv'
<1>1. PICK level \in {"warning", "error"} : notes' = [notes EXCEPT ![s] = Append(@, level)]
  BY DEF Notified
<1>2. UNCHANGED <<pane, counted, fired>>
  BY DEF Notified
<1>3. ViewTypes'
  BY <1>1, <1>2 DEF PaneInv, ViewTypes
<1>4. ASSUME pane # NoSession
      PROVE  counted <= Len(notes'[pane]) /\ fired = SubSeq(notes'[pane], 1, counted)
  <2>1. /\ pane \in ViewSession /\ notes[pane] \in Seq({"warning", "error"})
        /\ counted \in 0..Len(notes[pane]) /\ fired = SubSeq(notes[pane], 1, counted)
    BY <1>4 DEF PaneInv, ViewTypes, NotedOnce
  <2>2. CASE s = pane
    <3>1. notes'[pane] = Append(notes[pane], level)
      BY <1>1, <2>1, <2>2 DEF PaneInv, ViewTypes
    <3>2. SubSeq(notes'[pane], 1, counted) = fired
      BY <2>1, <3>1, PrefixStays
    <3>3. Len(notes'[pane]) = Len(notes[pane]) + 1
      BY <2>1, <3>1
    <3> QED BY <2>1, <3>2, <3>3
  <2>3. CASE s # pane
    <3>1. notes'[pane] = notes[pane]
      BY <1>1, <2>1, <2>3 DEF PaneInv, ViewTypes
    <3> QED BY <2>1, <3>1
  <2> QED BY <2>2, <2>3
<1> QED BY <1>2, <1>3, <1>4 DEF PaneInv, NotedOnce

\* Whatever was counted for the session shown before, the new one's are put up from the first.
LEMMA ShowSessionKeeps == ASSUME PaneInv, NEW s \in ViewSession, ShowSession(s) PROVE PaneInv'
<1>1. /\ pane' = s /\ counted' = Len(notes[s]) /\ fired' = notes[s]
      /\ notes' = notes
  BY DEF ShowSession
<1>2. notes[s] \in Seq({"warning", "error"})
  BY DEF PaneInv, ViewTypes
<1>3. SubSeq(notes[s], 1, Len(notes[s])) = notes[s]
  BY <1>2
<1> QED BY <1>1, <1>2, <1>3 DEF PaneInv, ViewTypes, NotedOnce

LEMMA RenderKeeps == ASSUME PaneInv, RenderView PROVE PaneInv'
<1>1. /\ pane # NoSession /\ pane' = pane /\ notes' = notes
      /\ counted' = Len(notes[pane])
      /\ fired' = fired \o SubSeq(notes[pane], counted + 1, Len(notes[pane]))
  BY DEF RenderView
<1>2. /\ notes[pane] \in Seq({"warning", "error"})
      /\ counted \in 0..Len(notes[pane]) /\ fired = SubSeq(notes[pane], 1, counted)
  BY <1>1 DEF PaneInv, ViewTypes, NotedOnce
<1>3. fired' = SubSeq(notes[pane], 1, Len(notes[pane]))
  BY <1>1, <1>2, RestFollows
<1>4. counted' <= Len(notes'[pane']) /\ fired' = SubSeq(notes'[pane'], 1, counted')
  <2>1. notes'[pane'] = notes[pane] /\ counted' = Len(notes[pane])
    BY <1>1
  <2>2. Len(notes[pane]) <= Len(notes[pane])
    BY <1>2
  <2> QED BY <1>3, <2>1, <2>2, Zenon
<1>5. ViewTypes'
  BY <1>1, <1>2 DEF PaneInv, ViewTypes
<1> QED BY <1>4, <1>5 DEF PaneInv, NotedOnce

\* The rest leaves alone what was counted, or shows no session's pane.
LEMMA OthersKeep ==
  ASSUME PaneInv,
         \/ ShowHome \/ PollToasts \/ PushOther
         \/ \E p \in ViewStep : SelectStep(p)
         \/ \E i \in DOMAIN toasts : Dismiss(i)
         \/ UNCHANGED viewVars
  PROVE  PaneInv'
<1>1. CASE ShowHome
  BY <1>1 DEF ShowHome, PaneInv, ViewTypes, NotedOnce
<1>2. CASE UNCHANGED <<notes, pane, counted, fired>>
  BY <1>2 DEF PaneInv, ViewTypes, NotedOnce
<1> QED BY <1>1, <1>2 DEF PollToasts, PushOther, SelectStep, Dismiss, viewVars

LEMMA NextPaneInv == PaneInv /\ [ViewNext]_viewVars => PaneInv'
BY NotifiedKeeps, ShowSessionKeeps, RenderKeeps, OthersKeep DEF ViewNext, System

(***************************************************************************)
(* While a session's pane stays, what was put up is what the session was   *)
(* notified of, from the first on, once and in order (shown_count and      *)
(* prev_session_id of workflow_view.rs).                                   *)
(***************************************************************************)
THEOREM NotificationsOnce == ViewSpec => []NotedOnce
<1>1. ViewSpec => []PaneInv
  BY InitPaneInv, NextPaneInv, PTL DEF ViewSpec
<1>2. PaneInv => NotedOnce
  BY DEF PaneInv
<1> QED BY <1>1, <1>2, PTL

-----------------------------------------------------------------------------
(***************************************************************************)
(* The dialogs, for whatever the pickers list and any number of shortcuts  *)
(* and clicks.                                                             *)
(***************************************************************************)

ListOf == [state : {"none", "loaded", "error"}, items : SUBSET ListItem]

DialogTypes ==
  /\ showing \subseteq Dialog
  /\ mode \in {"SelectMode"} \cup Picker
  /\ lists \in [Picker -> ListOf]
  /\ filter \in [typed : BOOLEAN, at : Picker \cup {"none"}]
  /\ keys \in Seq(Dialog \cup {"escape"})
  /\ escape \in [focus : HasHandler \cup {"none"}, local : BOOLEAN, message : BOOLEAN,
                 closed : SUBSET Dialog, gone : SUBSET Dialog]

\* The listener has one Escape to handle, or none.
OneEscape ==
  \A i \in DOMAIN keys : keys[i] = "escape" =>
    escape.message /\ \A j \in DOMAIN keys : keys[j] = "escape" => i = j

\* The dialog with the focus goes when its event is handled, if it has not gone before.
FocusGoes ==
  escape.focus # "none" =>
    escape.focus \in escape.gone \cup (IF escape.local THEN showing ELSE {})

\* Each of the two that handle an Escape closes one dialog at most.
ClosesFew ==
  /\ escape.local /\ escape.message => escape.closed = {}
  /\ escape.local \/ escape.message => \E d \in Dialog : escape.closed \subseteq {d}
  /\ \E d, e \in Dialog : escape.closed \subseteq {d, e}

DialogInv == DialogTypes /\ OneEscape /\ FocusGoes /\ ClosesFew /\ FilterIsOwn

LEMMA InitDialogInv == DialogInit => DialogInv
BY DEF DialogInit, DialogInv, DialogTypes, OneEscape, FocusGoes, ClosesFew, FilterIsOwn, Dialog,
       Picker, HasHandler, NoFilter, NoEscape, Unloaded, ListOf

\* The creator's part of the invariant, when other dialogs are shown than before.
LEMMA ShowKeepsFilter ==
  ASSUME DialogTypes, FilterIsOwn, NEW dialogs \in SUBSET Dialog, Show(dialogs)
  PROVE  /\ showing' = dialogs /\ FilterIsOwn'
         /\ mode' \in {"SelectMode"} \cup Picker /\ lists' \in [Picker -> ListOf]
         /\ filter' \in [typed : BOOLEAN, at : Picker \cup {"none"}]
<1>1. CASE "creator" \in dialogs /\ "creator" \notin showing
  <2>1. /\ showing' = dialogs /\ mode' = "SelectMode" /\ filter' = NoFilter
        /\ lists' = [p \in Picker |-> Unloaded]
    BY <1>1 DEF Show, Creator
  <2>2. Unloaded \in ListOf /\ "SelectMode" \notin Picker /\ NoFilter.typed = FALSE
    BY DEF Unloaded, ListOf, Picker, NoFilter
  <2>3. NoFilter \in [typed : BOOLEAN, at : Picker \cup {"none"}]
    BY DEF NoFilter
  <2> QED BY <2>1, <2>2, <2>3 DEF FilterIsOwn
<1>2. CASE ~("creator" \in dialogs /\ "creator" \notin showing)
  <2>1. showing' = dialogs /\ UNCHANGED <<mode, lists, filter>>
    BY <1>2 DEF Show, Creator
  <2>2. "creator" \in dialogs => "creator" \in showing
    BY <1>2
  <2> QED BY <2>1, <2>2 DEF FilterIsOwn, DialogTypes
<1> QED BY <1>1, <1>2

\* A change of what is shown that keeps account of what goes.
LEMMA GoneKeeps ==
  ASSUME DialogInv, NEW dialogs \in SUBSET Dialog, Show(dialogs),
         \/ Gone(dialogs)
         \/ showing \subseteq dialogs /\ escape' = escape,
         UNCHANGED keys
  PROVE  DialogInv'
<1>1. /\ showing' = dialogs /\ FilterIsOwn'
      /\ mode' \in {"SelectMode"} \cup Picker /\ lists' \in [Picker -> ListOf]
      /\ filter' \in [typed : BOOLEAN, at : Picker \cup {"none"}]
  BY ShowKeepsFilter DEF DialogInv
<1>2. /\ escape' \in [focus : HasHandler \cup {"none"}, local : BOOLEAN, message : BOOLEAN,
                      closed : SUBSET Dialog, gone : SUBSET Dialog]
      /\ escape'.focus = escape.focus /\ escape'.local = escape.local
      /\ escape'.message = escape.message /\ escape'.closed = escape.closed
      /\ escape.gone \cup (showing \ dialogs) \subseteq escape'.gone
  BY DEF Gone, DialogInv, DialogTypes
<1>3. DialogTypes'
  BY <1>1, <1>2 DEF DialogInv, DialogTypes
<1>4. OneEscape'
  BY <1>2 DEF DialogInv, OneEscape
<1>5. FocusGoes'
  BY <1>1, <1>2 DEF DialogInv, FocusGoes
<1>6. ClosesFew'
  BY <1>2 DEF DialogInv, ClosesFew
<1> QED BY <1>1, <1>3, <1>4, <1>5, <1>6 DEF DialogInv

\* Pickers and input fields.
LEMMA CreatorKeeps ==
  ASSUME DialogInv, UNCHANGED <<showing, escape, keys>>,
         mode' \in {"SelectMode"} \cup Picker, lists' \in [Picker -> ListOf],
         filter' \in [typed : BOOLEAN, at : Picker \cup {"none"}], FilterIsOwn'
  PROVE  DialogInv'
BY DEF DialogInv, DialogTypes, OneEscape, FocusGoes, ClosesFew

LEMMA PickKeeps ==
  ASSUME DialogInv, (\E m \in Picker : PickIssueOrPR(m)) \/ PickWorkflow
  PROVE  DialogInv'
<1>1. /\ UNCHANGED <<showing, escape, keys>> /\ mode' \in Picker /\ filter' = NoFilter
  BY DEF PickIssueOrPR, PickWorkflow, Click, Picker
<1>2. lists' \in [Picker -> ListOf]
  BY DEF PickIssueOrPR, PickWorkflow, DialogInv, DialogTypes, ListOf, LoadError, Loaded, Picker
<1>3. FilterIsOwn'
  BY <1>1 DEF FilterIsOwn, NoFilter
<1> QED BY <1>1, <1>2, <1>3, CreatorKeeps DEF NoFilter

LEMMA CreateKeeps ==
  ASSUME DialogInv, NEW source, NEW dialogs \in SUBSET Dialog, Create(source, dialogs), UNCHANGED keys
  PROVE  DialogInv'
<1>1. dialogs \ {"creator"} \in SUBSET Dialog
  OBVIOUS
<1> QED BY <1>1, GoneKeeps DEF Create

LEMMA AutoPickKeeps ==
  ASSUME DialogInv, AutoPick
  PROVE  DialogInv'
<1>1. CASE Create("PickIssue", showing)
  BY <1>1, CreateKeeps DEF AutoPick, Click, DialogInv, DialogTypes
<1>2. CASE /\ mode' = "PickIssue"
           /\ \E answer \in {LoadError, Loaded({})} : lists' = [lists EXCEPT !["PickIssue"] = answer]
           /\ UNCHANGED <<showing, filter, typed, escape, created>>
  <2>1. lists' \in [Picker -> ListOf] /\ lists'["PickIssue"].items = {}
    BY <1>2 DEF DialogInv, DialogTypes, ListOf, LoadError, Loaded, Picker
  <2>2. FilterIsOwn'
    BY <1>2, <2>1 DEF FilterIsOwn
  <2> QED BY <1>2, <2>1, <2>2, CreatorKeeps DEF AutoPick, Click, DialogInv, DialogTypes, Picker
<1> QED BY <1>1, <1>2 DEF AutoPick

\* Escape: the press, the dialog's own handler, and the listener's.
LEMMA PressKeeps ==
  ASSUME DialogInv, PressEscape \/ \E key \in Dialog : Press(key)
  PROVE  DialogInv'
<1>1. UNCHANGED <<showing, mode, lists, filter>>
  BY DEF PressEscape, Press
<1>2. keys \in Seq(Dialog \cup {"escape"}) /\ Len(keys) \in Nat /\ "escape" \notin Dialog
  BY DEF DialogInv, DialogTypes, Dialog
<1>3. FilterIsOwn'
  BY <1>1 DEF DialogInv, FilterIsOwn
<1>4. CASE PressEscape
  <2>1. PICK focus \in (showing \cap HasHandler) \cup {"none"} :
          escape' = [focus |-> focus, local |-> focus # "none", message |-> TRUE,
                     closed |-> {}, gone |-> {}]
    BY <1>4 DEF PressEscape
  <2>2. \A i \in DOMAIN keys : keys[i] # "escape"
    BY <1>4 DEF PressEscape, DialogInv, OneEscape
  <2>3. keys' = Append(keys, "escape") /\ "escape" \in Dialog \cup {"escape"}
    BY <1>4 DEF PressEscape
  <2>4. DialogTypes'
    <3>1. keys' \in Seq(Dialog \cup {"escape"})
      BY <1>2, <2>3
    <3> QED BY <1>1, <2>1, <3>1 DEF DialogInv, DialogTypes
  <2>5. OneEscape'
    BY <1>2, <2>1, <2>2, <2>3 DEF OneEscape
  <2>6. FocusGoes'
    BY <1>1, <2>1 DEF FocusGoes
  <2>7. ClosesFew'
    BY <2>1 DEF ClosesFew, Dialog
  <2> QED BY <1>3, <2>4, <2>5, <2>6, <2>7 DEF DialogInv
<1>5. ASSUME NEW key \in Dialog, Press(key) PROVE DialogInv'
  <2>1. keys' = Append(keys, key) /\ escape' = escape
    BY <1>5 DEF Press
  <2>2. DialogTypes'
    <3>1. keys' \in Seq(Dialog \cup {"escape"})
      BY <1>2, <2>1
    <3> QED BY <1>1, <2>1, <3>1 DEF DialogInv, DialogTypes
  <2>3. OneEscape'
    BY <1>2, <2>1 DEF DialogInv, OneEscape
  <2>4. FocusGoes' /\ ClosesFew'
    BY <1>1, <2>1 DEF DialogInv, FocusGoes, ClosesFew
  <2> QED BY <1>3, <2>2, <2>3, <2>4 DEF DialogInv
<1> QED BY <1>4, <1>5

LEMMA TopmostIsOne == \E d \in Dialog : Topmost \subseteq {d}
<1>1. EscapeOrder = <<"confirm", "palette", "capture", "creator">> /\ DOMAIN EscapeOrder = 1..4
  BY DEF EscapeOrder
<1>2. \A i \in 1..4 : EscapeOrder[i] \in Dialog
  BY <1>1 DEF Dialog
<1> DEFINE First(n) == /\ EscapeOrder[n] \in showing
                       /\ \A m \in 1..(n - 1) : EscapeOrder[m] \notin showing
<1>3. \A i, j \in 1..4 : First(i) /\ First(j) => i = j
  <2>1. \A i, j \in 1..4 : i < j => i \in 1..(j - 1)
    OBVIOUS
  <2>2. \A i, j \in 1..4 : i < j \/ j < i \/ i = j
    OBVIOUS
  <2> QED BY <2>1, <2>2
<1>4. Topmost = {EscapeOrder[i] : i \in {n \in 1..4 : First(n)}}
  BY <1>1 DEF Topmost
<1> HIDE DEF First
<1>5. CASE \E i \in 1..4 : First(i)
  BY <1>2, <1>3, <1>4, <1>5
<1>6. CASE ~\E i \in 1..4 : First(i)
  BY <1>4, <1>6 DEF Dialog
<1> QED BY <1>5, <1>6

\* One of the two handles the Escape, and closes one dialog at most.
LEMMA HandlingKeeps ==
  ASSUME DialogInv, NEW closes \in SUBSET Dialog, \E d \in Dialog : closes \subseteq {d},
         Show(showing \ closes),
         \/ /\ escape.local
            /\ closes = showing \cap {escape.focus}
            /\ escape' = [escape EXCEPT !.local = FALSE, !.closed = @ \cup closes,
                                        !.gone = @ \cup closes]
         \/ /\ escape.message
            /\ escape' = [escape EXCEPT !.message = FALSE, !.closed = @ \cup closes,
                                        !.gone = @ \cup closes],
         OneEscape', keys' \in Seq(Dialog \cup {"escape"})
  PROVE  DialogInv'
<1>1. showing \ closes \in SUBSET Dialog
  BY DEF DialogInv, DialogTypes
<1>2. /\ showing' = showing \ closes /\ FilterIsOwn'
      /\ mode' \in {"SelectMode"} \cup Picker /\ lists' \in [Picker -> ListOf]
      /\ filter' \in [typed : BOOLEAN, at : Picker \cup {"none"}]
  BY <1>1, ShowKeepsFilter DEF DialogInv
<1>3. /\ escape' \in [focus : HasHandler \cup {"none"}, local : BOOLEAN, message : BOOLEAN,
                      closed : SUBSET Dialog, gone : SUBSET Dialog]
      /\ escape'.focus = escape.focus /\ escape'.gone = escape.gone \cup closes
      /\ escape'.closed = escape.closed \cup closes
      /\ \/ /\ escape.local /\ closes = showing \cap {escape.focus}
            /\ ~escape'.local /\ escape'.message = escape.message
         \/ /\ escape.message /\ ~escape'.message /\ escape'.local = escape.local
  <2>1. escape \in [focus : HasHandler \cup {"none"}, local : BOOLEAN, message : BOOLEAN,
                    closed : SUBSET Dialog, gone : SUBSET Dialog]
        /\ escape.gone \cup closes \in SUBSET Dialog /\ escape.closed \cup closes \in SUBSET Dialog
    BY DEF DialogInv, DialogTypes
  <2>2. CASE /\ escape.local /\ closes = showing \cap {escape.focus}
             /\ escape' = [escape EXCEPT !.local = FALSE, !.closed = @ \cup closes,
                                         !.gone = @ \cup closes]
    BY <2>1, <2>2
  <2>3. CASE /\ escape.message
             /\ escape' = [escape EXCEPT !.message = FALSE, !.closed = @ \cup closes,
                                         !.gone = @ \cup closes]
    BY <2>1, <2>3
  <2> QED BY <2>2, <2>3
<1>4. DialogTypes'
  BY <1>2, <1>3 DEF DialogTypes, DialogInv
<1>5. FocusGoes'
  BY <1>2, <1>3 DEF FocusGoes, DialogInv
<1>6. ClosesFew'
  <2>1. PICK d \in Dialog : closes \subseteq {d}
    OBVIOUS
  <2>2. PICK e \in Dialog : escape.closed \subseteq {e}
    BY <1>3 DEF DialogInv, ClosesFew
  <2>3. escape.local /\ escape.message => escape.closed = {}
    BY DEF DialogInv, ClosesFew
  <2>4. escape'.closed \subseteq {d, e}
    BY <1>3, <2>1, <2>2
  <2>5. escape'.local \/ escape'.message => escape'.closed \subseteq {d}
    BY <1>3, <2>1, <2>3
  <2>6. ~(escape'.local /\ escape'.message)
    BY <1>3
  <2> QED BY <2>4, <2>5, <2>6 DEF ClosesFew
<1> QED BY <1>2, <1>4, <1>5, <1>6 DEF DialogInv

LEMMA KeyKeeps ==
  ASSUME DialogInv, HandleKey
  PROVE  DialogInv'
<1>1. /\ keys \in Seq(Dialog \cup {"escape"}) /\ keys # <<>> /\ keys' = Tail(keys)
      /\ keys' \in Seq(Dialog \cup {"escape"}) /\ Len(keys) \in Nat
      /\ \A i \in DOMAIN keys' : i + 1 \in DOMAIN keys /\ i + 1 # 1 /\ keys'[i] = keys[i + 1]
      /\ 1 \in DOMAIN keys /\ Head(keys) = keys[1]
      /\ \A i, j \in DOMAIN keys' : i + 1 = j + 1 => i = j
  BY DEF HandleKey, DialogInv, DialogTypes
<1>2. CASE Head(keys) = "escape" /\ HandleEscape
  <2>1. escape.message /\ \A i \in DOMAIN keys : keys[i] = "escape" => i = 1
    BY <1>1, <1>2 DEF DialogInv, OneEscape
  <2>2. OneEscape'
    BY <1>1, <2>1 DEF OneEscape
  <2>3. PICK d \in Dialog : Topmost \subseteq {d}
    BY TopmostIsOne
  <2>4. /\ Topmost \in SUBSET Dialog /\ \E e \in Dialog : Topmost \subseteq {e}
        /\ Show(showing \ Topmost)
        /\ escape' = [escape EXCEPT !.message = FALSE, !.closed = @ \cup Topmost,
                                    !.gone = @ \cup Topmost]
    BY <1>2, <2>3 DEF HandleEscape
  <2> HIDE DEF Topmost
  <2> QED BY <1>1, <2>1, <2>2, <2>4, HandlingKeeps
<1>3. ASSUME NEW dialogs \in SUBSET Dialog, Show(dialogs),
             \/ Gone(dialogs)
             \/ showing \subseteq dialogs /\ escape' = escape
      PROVE  DialogInv'
  <2>1. /\ showing' = dialogs /\ FilterIsOwn'
        /\ mode' \in {"SelectMode"} \cup Picker /\ lists' \in [Picker -> ListOf]
        /\ filter' \in [typed : BOOLEAN, at : Picker \cup {"none"}]
    BY <1>3, ShowKeepsFilter DEF DialogInv
  <2>2. /\ escape' \in [focus : HasHandler \cup {"none"}, local : BOOLEAN, message : BOOLEAN,
                        closed : SUBSET Dialog, gone : SUBSET Dialog]
        /\ escape'.focus = escape.focus /\ escape'.local = escape.local
        /\ escape'.message = escape.message /\ escape'.closed = escape.closed
        /\ escape.gone \cup (showing \ dialogs) \subseteq escape'.gone
    BY <1>3 DEF Gone, DialogInv, DialogTypes
  <2>3. OneEscape'
    BY <1>1, <2>2 DEF DialogInv, OneEscape
  <2>4. DialogTypes'
    BY <1>1, <2>1, <2>2 DEF DialogTypes
  <2>5. FocusGoes' /\ ClosesFew'
    BY <2>1, <2>2 DEF DialogInv, FocusGoes, ClosesFew
  <2> QED BY <2>1, <2>3, <2>4, <2>5 DEF DialogInv
<1>4. CASE Head(keys) \in {"palette", "capture"} /\ ToggleDialog(Head(keys))
  <2> DEFINE d == Head(keys)
             dialogs == IF d \in showing THEN showing \ {d} ELSE showing \cup {d}
  <2>1. dialogs \in SUBSET Dialog /\ Show(dialogs)
    BY <1>4 DEF ToggleDialog, DialogInv, DialogTypes, Dialog
  <2>2. Gone(dialogs)
    <3>1. Gone(showing \ {d})
      BY <1>4 DEF ToggleDialog
    <3>2. showing \ (showing \ {d}) = showing \ dialogs
      OBVIOUS
    <3> QED BY <3>1, <3>2 DEF Gone
  <2> QED BY <1>3, <2>1, <2>2
<1>5. CASE Head(keys) \in {"creator", "confirm"} /\ Show(showing \cup {Head(keys)})
           /\ UNCHANGED <<pinned, escape>>
  <2>1. showing \cup {Head(keys)} \in SUBSET Dialog
    BY <1>5 DEF DialogInv, DialogTypes, Dialog
  <2> QED BY <1>3, <1>5, <2>1
<1> QED BY <1>2, <1>4, <1>5 DEF HandleKey

LEMMA EscapeInDialogKeeps ==
  ASSUME DialogInv, EscapeInDialog
  PROVE  DialogInv'
<1> DEFINE closes == showing \cap {escape.focus}
<1>1. /\ closes \in SUBSET Dialog /\ \E d \in Dialog : closes \subseteq {d}
      /\ Show(showing \ closes) /\ escape.local
      /\ escape' = [escape EXCEPT !.local = FALSE, !.closed = @ \cup closes, !.gone = @ \cup closes]
  BY DEF EscapeInDialog, DialogInv, DialogTypes, Dialog
<1>2. keys' = keys /\ escape'.message = escape.message
  BY <1>1 DEF EscapeInDialog, DialogInv, DialogTypes
<1>3. OneEscape' /\ keys' \in Seq(Dialog \cup {"escape"})
  BY <1>2 DEF OneEscape, DialogInv, DialogTypes
<1> HIDE DEF closes
<1>4. closes = showing \cap {escape.focus}
  BY DEF closes
<1> QED BY <1>1, <1>3, <1>4, HandlingKeeps

LEMMA NextDialogInv == DialogInv /\ [DialogNext]_dialogVars => DialogInv'
<1> SUFFICES ASSUME DialogInv, [DialogNext]_dialogVars PROVE DialogInv'
  OBVIOUS
<1>0. showing \in SUBSET Dialog
  BY DEF DialogInv, DialogTypes
<1>1. ASSUME NEW d \in Dialog,
             Click /\ Show(showing \cup {d}) /\ UNCHANGED <<escape, created>>
      PROVE  DialogInv'
  <2>1. showing \cup {d} \in SUBSET Dialog /\ showing \subseteq showing \cup {d} /\ UNCHANGED keys
    BY <1>0, <1>1 DEF Click
  <2> QED BY <1>1, <2>1, GoneKeeps
<1>2. ASSUME NEW d, Click, Show(showing \ {d}), Gone(showing \ {d}) PROVE DialogInv'
  <2>1. showing \ {d} \in SUBSET Dialog /\ UNCHANGED keys
    BY <1>0, <1>2 DEF Click
  <2> QED BY <1>2, <2>1, GoneKeeps
<1>3. CASE OpenCreator \/ AskClose
  BY <1>1, <1>3 DEF OpenCreator, AskClose, Dialog
<1>4. CASE ConfirmClose \/ SaveCapture \/ \E d \in Dialog : Cancel(d)
  BY <1>2, <1>4 DEF ConfirmClose, SaveCapture, Cancel
<1>5. CASE (\E m \in Picker : PickIssueOrPR(m)) \/ PickWorkflow
  BY <1>5, PickKeeps
<1>6. CASE AutoPick
  BY <1>6, AutoPickKeeps
<1>7. CASE NewByPrompt
  <2> DEFINE dialogs == (showing \ {"creator"}) \cup {"palette"}
  <2>1. dialogs \in SUBSET Dialog /\ Show(dialogs) /\ UNCHANGED keys
    BY <1>0, <1>7 DEF NewByPrompt, Click, Dialog
  <2>2. Gone(dialogs)
    <3>1. Gone(showing \ {"creator"})
      BY <1>7 DEF NewByPrompt
    <3>2. showing \ (showing \ {"creator"}) = showing \ dialogs
      OBVIOUS
    <3> QED BY <3>1, <3>2 DEF Gone
  <2> QED BY <2>1, <2>2, GoneKeeps
<1>8. CASE Back \/ TypeFilter \/ (\E d \in DOMAIN typed : TypeText(d)) \/ Pin
  <2>1. UNCHANGED <<showing, escape, keys, lists>>
    BY <1>8 DEF Back, TypeFilter, TypeText, Pin, Click
  <2>2. lists \in [Picker -> ListOf] /\ mode \in {"SelectMode"} \cup Picker
        /\ filter \in [typed : BOOLEAN, at : Picker \cup {"none"}] /\ FilterIsOwn
    BY DEF DialogInv, DialogTypes
  <2>3. CASE Back
    <3>1. mode' = "SelectMode" /\ "SelectMode" \notin Picker /\ UNCHANGED filter
      BY <2>3 DEF Back, Picker
    <3>2. FilterIsOwn'
      BY <3>1 DEF FilterIsOwn
    <3> QED BY <2>1, <2>2, <3>1, <3>2, CreatorKeeps
  <2>4. CASE TypeFilter
    <3>1. UNCHANGED mode /\ mode \in Picker /\ filter' \in {NoFilter, [typed |-> TRUE, at |-> mode]}
      BY <2>4 DEF TypeFilter
    <3>2. FilterIsOwn'
      BY <3>1 DEF FilterIsOwn, NoFilter
    <3>3. filter' \in [typed : BOOLEAN, at : Picker \cup {"none"}]
      <4>1. NoFilter \in [typed : BOOLEAN, at : Picker \cup {"none"}]
        BY DEF NoFilter
      <4>2. [typed |-> TRUE, at |-> mode] \in [typed : BOOLEAN, at : Picker \cup {"none"}]
        BY <3>1
      <4> QED BY <3>1, <4>1, <4>2
    <3> QED BY <2>1, <2>2, <3>1, <3>2, <3>3, CreatorKeeps
  <2>5. CASE (\E d \in DOMAIN typed : TypeText(d)) \/ Pin
    <3>1. UNCHANGED <<mode, filter>>
      BY <2>5 DEF TypeText, Pin
    <3>2. FilterIsOwn'
      BY <2>1, <2>2, <3>1 DEF FilterIsOwn
    <3> QED BY <2>1, <2>2, <3>1, <3>2, CreatorKeeps
  <2> QED BY <1>8, <2>3, <2>4, <2>5
<1>9. CASE PickItem \/ SubmitPalette
  <2>1. showing \ {"palette"} \in SUBSET Dialog /\ UNCHANGED keys
    BY <1>0, <1>9 DEF PickItem, SubmitPalette, Click
  <2> QED BY <1>0, <1>9, <2>1, CreateKeeps DEF PickItem, SubmitPalette
<1>10. CASE UNCHANGED dialogVars
  BY <1>10 DEF dialogVars, DialogInv, DialogTypes, OneEscape, FocusGoes, ClosesFew, FilterIsOwn
<1> QED BY <1>3, <1>4, <1>5, <1>6, <1>7, <1>8, <1>9, <1>10, PressKeeps, KeyKeeps,
           EscapeInDialogKeeps DEF DialogNext

(***************************************************************************)
(* Escape takes away the dialog it was pressed in, in whichever order it   *)
(* is handled, and two at most; a list is filtered by its own filter.      *)
(***************************************************************************)
THEOREM EscapeIsHandled == DialogSpec => []DialogsAgree
<1>1. ASSUME DialogInv PROVE DialogsAgree
  <2>1. Cardinality(escape.closed) <= 2
    <3>1. PICK d, e \in Dialog : escape.closed \subseteq {d, e}
      BY <1>1 DEF DialogInv, ClosesFew
    <3>2. escape.closed \in {{}, {d}, {e}, {d, e}}
      BY <3>1
    <3>3. /\ Cardinality({}) = 0 /\ Cardinality({d}) = 1 /\ Cardinality({e}) = 1
          /\ d # e => Cardinality({d, e}) = 2
      <4>1. IsFiniteSet({d}) /\ Cardinality({d}) = 1 /\ Cardinality({e}) = 1
        BY FS_Singleton
      <4>2. d # e => Cardinality({d} \cup {e}) = Cardinality({d}) + 1
        BY <4>1, FS_AddElement
      <4>3. {d} \cup {e} = {d, e}
        OBVIOUS
      <4> QED BY <4>1, <4>2, <4>3, FS_EmptySet
    <3>4. d = e => {d, e} = {d}
      OBVIOUS
    <3> QED BY <3>2, <3>3, <3>4
  <2> QED BY <1>1, <2>1 DEF DialogInv, FocusGoes, DialogsAgree, EscapeReaches
<1> QED BY <1>1, InitDialogInv, NextDialogInv, PTL DEF DialogSpec

-----------------------------------------------------------------------------
(***************************************************************************)
(* The triggers, for every set of workflows and lists of triggers, and any *)
(* number of starts, stops and fires.                                      *)
(***************************************************************************)

\* What still stops a trigger: all its steps, or the second one of a manual trigger.
NotifyStep(t) == <<[trigger |-> t, do |-> "notify"]>>
StopsLeft == {StopSteps(t) : t \in Trigger} \cup {NotifyStep(t) : t \in Manual}

TriggerTypes ==
  /\ registered \in [TriggerWorkflow -> [triggers : Seq(Trigger), policy : Policy \cup {"none"}]]
  /\ \A w \in TriggerWorkflow : registered[w].policy \in Policy \/ registered[w].triggers = <<>>
  /\ starting \in Seq([trigger : Trigger, policy : Policy]) /\ stopping \in Seq(StopsLeft)
  /\ permit \in [Manual -> BOOLEAN] /\ flagged \in [Manual -> BOOLEAN]
  /\ waiters \in [Manual -> Seq(Nat)] /\ held \in [Cron -> Nat]
  /\ runs \in [Trigger -> Seq(Run)]
  /\ fires \in [Trigger -> Nat] /\ sent \in [Trigger -> Nat]

\* The flag is set before the task is notified of it.
FlagFirst ==
  \A i \in DOMAIN stopping, t \in Manual : stopping[i] = NotifyStep(t) => flagged[t]

\* A manual trigger's runs have no jobs, and a schedule's only jobs that send.
RunsOfKind ==
  /\ \A t \in Manual : \A k \in DOMAIN runs[t] : runs[t][k].jobs = 0 /\ runs[t][k].task # "ticking"
  /\ \A t \in Cron : \A k \in DOMAIN runs[t] : runs[t][k].task \in {"ticking", "ended"}

\* The runs that are to send for a fire: those that were woken, unless by stop.
WillSend(r, stopped) == r.task = "sending" \/ (r.task = "woken" /\ ~stopped)
Sending(q, stopped) == {k \in DOMAIN q : WillSend(q[k], stopped)}

\* The jobs of a schedule's runs.
Jobs(q) == {p \in (DOMAIN q) \X Nat : p[2] \in 1..q[p[1]].jobs}

\* Every event, and what is to become one, was fired for.
FiredFor(t) ==
  sent[t] + Cardinality(Sending(runs[t], flagged[t])) + (IF permit[t] /\ ~flagged[t] THEN 1 ELSE 0)
    <= fires[t]
DueFor(t) == IsFiniteSet(Jobs(runs[t])) /\ sent[t] + Cardinality(Jobs(runs[t])) <= fires[t]

FiresInv ==
  /\ TriggerTypes /\ FlagFirst /\ RunsOfKind
  /\ \A t \in Manual : FiredFor(t)
  /\ \A t \in Cron : DueFor(t)

-----------------------------------------------------------------------------
\* How many send, and how many jobs there are, when one run changes or is added.
LEMMA SendingIsFinite ==
  ASSUME NEW q \in Seq(Run), NEW stopped
  PROVE  IsFiniteSet(Sending(q, stopped)) /\ Cardinality(Sending(q, stopped)) \in Nat
<1> DEFINE S == Sending(q, stopped)
<1>1. Len(q) \in Nat /\ S \subseteq 1..Len(q)
  BY DEF Sending
<1>2. IsFiniteSet(1..Len(q))
  BY <1>1, FS_Interval
<1> HIDE DEF S
<1>3. IsFiniteSet(S)
  BY <1>1, <1>2, FS_Subset
<1>4. Cardinality(S) \in Nat
  BY <1>3, FS_CardinalityType
<1> QED BY <1>3, <1>4 DEF S

LEMMA WithoutOne ==
  ASSUME NEW S, IsFiniteSet(S), NEW k
  PROVE  /\ Cardinality(S \ {k}) \in Nat
         /\ k \in S => Cardinality(S) = Cardinality(S \ {k}) + 1
         /\ k \notin S => Cardinality(S) = Cardinality(S \ {k})
<1>1. IsFiniteSet(S \ {k}) /\ Cardinality(S \ {k}) \in Nat
  BY FS_Subset, FS_CardinalityType
<1>2. CASE k \in S
  <2>1. S = (S \ {k}) \cup {k}
    BY <1>2
  <2>2. Cardinality((S \ {k}) \cup {k}) = Cardinality(S \ {k}) + 1
    BY <1>1, FS_AddElement
  <2> QED BY <1>1, <1>2, <2>1, <2>2
<1>3. CASE k \notin S
  <2>1. S = S \ {k}
    BY <1>3
  <2> QED BY <1>1, <1>3, <2>1
<1> QED BY <1>2, <1>3

LEMMA SendingOfChange ==
  ASSUME NEW q \in Seq(Run), NEW k \in DOMAIN q, NEW r \in Run, NEW stopped
  PROVE  /\ [q EXCEPT ![k] = r] \in Seq(Run)
         /\ Cardinality(Sending([q EXCEPT ![k] = r], stopped))
                + (IF WillSend(q[k], stopped) THEN 1 ELSE 0)
              = Cardinality(Sending(q, stopped)) + (IF WillSend(r, stopped) THEN 1 ELSE 0)
<1> DEFINE p == [q EXCEPT ![k] = r]
           S == Sending(q, stopped)
           T == Sending(p, stopped)
<1>1. p \in Seq(Run) /\ DOMAIN p = DOMAIN q /\ \A i \in DOMAIN q : p[i] = IF i = k THEN r ELSE q[i]
  OBVIOUS
<1> HIDE DEF p
<1>2. \A i \in DOMAIN q \ {k} : i \in S <=> i \in T
  BY <1>1 DEF Sending
<1>3. /\ k \in S <=> WillSend(q[k], stopped)
      /\ k \in T <=> WillSend(r, stopped)
  BY <1>1 DEF Sending
<1>4. S \subseteq DOMAIN q /\ T \subseteq DOMAIN q
  BY <1>1 DEF Sending
<1>5. IsFiniteSet(S) /\ IsFiniteSet(T) /\ Cardinality(S) \in Nat /\ Cardinality(T) \in Nat
  BY <1>1, SendingIsFinite
<1> HIDE DEF S, T
<1>6. S \ {k} = T \ {k}
  BY <1>2, <1>4
<1> DEFINE rest == Cardinality(S \ {k})
<1>7. rest \in Nat /\ (k \in S => Cardinality(S) = rest + 1) /\ (k \notin S => Cardinality(S) = rest)
  BY <1>5, WithoutOne
<1>8. (k \in T => Cardinality(T) = rest + 1) /\ (k \notin T => Cardinality(T) = rest)
  BY <1>5, <1>6, WithoutOne
<1> HIDE DEF rest
<1>9. p \in Seq(Run) /\ Cardinality(T) + (IF WillSend(q[k], stopped) THEN 1 ELSE 0)
                         = Cardinality(S) + (IF WillSend(r, stopped) THEN 1 ELSE 0)
  <2>1. /\ (IF k \in S THEN 1 ELSE 0) = (IF WillSend(q[k], stopped) THEN 1 ELSE 0)
        /\ (IF k \in T THEN 1 ELSE 0) = (IF WillSend(r, stopped) THEN 1 ELSE 0)
    BY <1>3
  <2>2. Cardinality(S) + (IF k \in T THEN 1 ELSE 0) = Cardinality(T) + (IF k \in S THEN 1 ELSE 0)
    BY <1>7, <1>8
  <2> QED BY <1>1, <2>1, <2>2
<1> QED BY <1>9 DEF p, S, T

LEMMA SendingOfAppend ==
  ASSUME NEW q \in Seq(Run), NEW r \in Run, NEW stopped, ~WillSend(r, stopped)
  PROVE  Sending(Append(q, r), stopped) = Sending(q, stopped)
<1>1. /\ DOMAIN Append(q, r) = 1..(Len(q) + 1) /\ DOMAIN q = 1..Len(q) /\ Len(q) \in Nat
      /\ \A i \in DOMAIN q : Append(q, r)[i] = q[i]
      /\ Append(q, r)[Len(q) + 1] = r
  OBVIOUS
<1> QED BY <1>1 DEF Sending

LEMMA SendingWhenStopped ==
  ASSUME NEW q \in Seq(Run), NEW stopped
  PROVE  Cardinality(Sending(q, TRUE)) <= Cardinality(Sending(q, stopped))
<1>1. Sending(q, TRUE) \subseteq Sending(q, stopped)
  BY DEF Sending, WillSend
<1> QED BY <1>1, SendingIsFinite, FS_Subset

LEMMA JobsOfChange ==
  ASSUME NEW q \in Seq(Run), NEW k \in DOMAIN q, NEW r \in Run, IsFiniteSet(Jobs(q)),
         r.jobs \in {q[k].jobs, q[k].jobs + 1, q[k].jobs - 1}
  PROVE  /\ [q EXCEPT ![k] = r] \in Seq(Run)
         /\ IsFiniteSet(Jobs([q EXCEPT ![k] = r]))
         /\ Cardinality(Jobs(q)) \in Nat
         /\ Cardinality(Jobs([q EXCEPT ![k] = r])) = Cardinality(Jobs(q)) + (r.jobs - q[k].jobs)
<1> DEFINE p == [q EXCEPT ![k] = r]
           n == q[k].jobs
           J == Jobs(q)
<1>1. p \in Seq(Run) /\ DOMAIN p = DOMAIN q /\ \A i \in DOMAIN q : p[i] = IF i = k THEN r ELSE q[i]
  OBVIOUS
<1>2. n \in Nat /\ r.jobs \in Nat
  <2>1. q[k] \in Run
    OBVIOUS
  <2> QED BY <2>1 DEF Run
<1> HIDE DEF p, n
<1>3. Jobs(p) = {x \in (DOMAIN q) \X Nat : x[2] \in 1..(IF x[1] = k THEN r.jobs ELSE q[x[1]].jobs)}
  BY <1>1 DEF Jobs
<1>4. J = {x \in (DOMAIN q) \X Nat : x[2] \in 1..(IF x[1] = k THEN n ELSE q[x[1]].jobs)}
  BY DEF Jobs, n
<1>5. Cardinality(J) \in Nat
  BY FS_CardinalityType
<1>6. IsFiniteSet(Jobs(p)) /\ Cardinality(Jobs(p)) = Cardinality(J) + (r.jobs - n)
  <2>1. CASE r.jobs = n
    <3>1. Jobs(p) = J
      BY <1>3, <1>4, <2>1
    <3> QED BY <1>2, <1>5, <2>1, <3>1
  <2>2. CASE r.jobs = n + 1
    <3>1. Jobs(p) = J \cup {<<k, n + 1>>}
      BY <1>2, <1>3, <1>4, <2>2
    <3>2. <<k, n + 1>> \notin J /\ IsFiniteSet(J)
      BY <1>2, <1>4
    <3> HIDE DEF J
    <3>3. IsFiniteSet(J \cup {<<k, n + 1>>}) /\ Cardinality(J \cup {<<k, n + 1>>}) = Cardinality(J) + 1
      BY <3>2, FS_AddElement
    <3> QED BY <1>2, <1>5, <2>2, <3>1, <3>3
  <2>3. CASE r.jobs = n - 1
    <3>1. Jobs(p) = J \ {<<k, n>>}
      BY <1>2, <1>3, <1>4, <2>3
    <3>2. <<k, n>> \in J /\ IsFiniteSet(J)
      BY <1>2, <1>4, <2>3
    <3> HIDE DEF J
    <3>3. IsFiniteSet(J \ {<<k, n>>}) /\ Cardinality(J \ {<<k, n>>}) = Cardinality(J) - 1
      BY <3>2, FS_RemoveElement
    <3> QED BY <1>2, <1>5, <2>3, <3>1, <3>3
  <2> QED BY <2>1, <2>2, <2>3 DEF n
<1> QED BY <1>1, <1>5, <1>6 DEF p, n

LEMMA JobsOfAppend ==
  ASSUME NEW q \in Seq(Run), NEW r \in Run, r.jobs = 0
  PROVE  Jobs(Append(q, r)) = Jobs(q)
<1>1. /\ DOMAIN Append(q, r) = 1..(Len(q) + 1) /\ DOMAIN q = 1..Len(q) /\ Len(q) \in Nat
      /\ \A i \in DOMAIN q : Append(q, r)[i] = q[i]
      /\ Append(q, r)[Len(q) + 1] = r
  OBVIOUS
<1> QED BY <1>1 DEF Jobs

LEMMA InitFiresInv == TriggerInit => FiresInv
<1> SUFFICES ASSUME TriggerInit PROVE FiresInv
  OBVIOUS
<1>1. \A t \in Trigger : runs[t] = <<>> /\ sent[t] = 0 /\ fires[t] = 0
  BY DEF TriggerInit
<1>2. TriggerTypes
  BY DEF TriggerInit, TriggerTypes, NoTriggers
<1>3. FlagFirst
  BY DEF TriggerInit, FlagFirst
<1>4. RunsOfKind
  BY <1>1 DEF RunsOfKind, Trigger
<1>5. ASSUME NEW t \in Manual PROVE FiredFor(t)
  <2>1. Sending(runs[t], flagged[t]) = {}
    BY <1>1 DEF Sending, Trigger
  <2>2. permit[t] = FALSE
    BY DEF TriggerInit
  <2> QED BY <1>1, <2>1, <2>2, FS_EmptySet DEF FiredFor, Trigger
<1>6. ASSUME NEW t \in Cron PROVE DueFor(t)
  <2>1. Jobs(runs[t]) = {}
    BY <1>1 DEF Jobs, Trigger
  <2> QED BY <1>1, <2>1, FS_EmptySet DEF DueFor, Trigger
<1> QED BY <1>2, <1>3, <1>4, <1>5, <1>6 DEF FiresInv

-----------------------------------------------------------------------------
\* One run of one trigger changes.
RunFits(t, r) ==
  /\ r \in Run
  /\ t \in Manual => r.jobs = 0 /\ r.task # "ticking"
  /\ t \in Cron => r.task \in {"ticking", "ended"}

\* The parts of the invariant that are about the manager.
ManagerTypes ==
  /\ registered \in [TriggerWorkflow -> [triggers : Seq(Trigger), policy : Policy \cup {"none"}]]
  /\ \A w \in TriggerWorkflow : registered[w].policy \in Policy \/ registered[w].triggers = <<>>
  /\ starting \in Seq([trigger : Trigger, policy : Policy])

LEMMA RunChanges ==
  ASSUME FiresInv, NEW t \in Trigger, NEW k \in DOMAIN runs[t], NEW r, RunFits(t, r),
         runs' = [runs EXCEPT ![t] = [runs[t] EXCEPT ![k] = r]]
  PROVE  /\ runs' \in [Trigger -> Seq(Run)] /\ RunsOfKind'
         /\ runs[t] \in Seq(Run) /\ runs[t][k] \in Run
         /\ runs'[t] = [runs[t] EXCEPT ![k] = r]
         /\ \A u \in Trigger : u # t => runs'[u] = runs[u]
<1>1. runs \in [Trigger -> Seq(Run)] /\ r \in Run
  BY DEF FiresInv, TriggerTypes, RunFits
<1>2. /\ runs[t] \in Seq(Run) /\ runs[t][k] \in Run /\ [runs[t] EXCEPT ![k] = r] \in Seq(Run)
      /\ runs' \in [Trigger -> Seq(Run)] /\ runs'[t] = [runs[t] EXCEPT ![k] = r]
      /\ \A u \in Trigger : u # t => runs'[u] = runs[u]
  BY <1>1
<1>3. DOMAIN runs'[t] = DOMAIN runs[t]
      /\ \A i \in DOMAIN runs[t] : runs'[t][i] = IF i = k THEN r ELSE runs[t][i]
  BY <1>2
<1>4. ASSUME NEW u \in Manual, NEW i \in DOMAIN runs'[u]
      PROVE  runs'[u][i].jobs = 0 /\ runs'[u][i].task # "ticking"
  <2>1. CASE u = t
    BY <1>3, <1>4, <2>1 DEF FiresInv, RunsOfKind, RunFits
  <2>2. CASE u # t
    BY <1>2, <1>4, <2>2 DEF FiresInv, RunsOfKind, Trigger
  <2> QED BY <2>1, <2>2
<1>5. ASSUME NEW u \in Cron, NEW i \in DOMAIN runs'[u]
      PROVE  runs'[u][i].task \in {"ticking", "ended"}
  <2>1. CASE u = t
    BY <1>3, <1>5, <2>1 DEF FiresInv, RunsOfKind, RunFits
  <2>2. CASE u # t
    BY <1>2, <1>5, <2>2 DEF FiresInv, RunsOfKind, Trigger
  <2> QED BY <2>1, <2>2
<1> QED BY <1>2, <1>4, <1>5 DEF RunsOfKind

\* A run that has less to send than before, or as much.
LEMMA QuietKeepsFires ==
  ASSUME FiresInv, NEW t \in Trigger, NEW k \in DOMAIN runs[t], NEW r, RunFits(t, r),
         runs' = [runs EXCEPT ![t] = [runs[t] EXCEPT ![k] = r]],
         t \in Manual => (WillSend(r, flagged[t]) => WillSend(runs[t][k], flagged[t])),
         t \in Cron => r.jobs \in {runs[t][k].jobs, runs[t][k].jobs - 1},
         UNCHANGED <<permit, flagged, sent, fires>>,
         ManagerTypes', UNCHANGED stopping \/ (stopping' \in Seq(StopsLeft) /\ FlagFirst'),
         waiters' \in [Manual -> Seq(Nat)], held' \in [Cron -> Nat]
  PROVE  FiresInv'
<1>1. /\ runs' \in [Trigger -> Seq(Run)] /\ RunsOfKind' /\ runs[t] \in Seq(Run)
      /\ runs[t][k] \in Run
      /\ runs'[t] = [runs[t] EXCEPT ![k] = r]
      /\ \A u \in Trigger : u # t => runs'[u] = runs[u]
  BY RunChanges
<1>2. TriggerTypes' /\ FlagFirst'
  BY <1>1 DEF FiresInv, TriggerTypes, ManagerTypes, FlagFirst
<1>3. ASSUME NEW u \in Manual PROVE FiredFor(u)'
  <2>1. FiredFor(u)
    BY DEF FiresInv
  <2>2. CASE u # t
    <3>1. runs'[u] = runs[u]
      BY <1>1, <2>2 DEF Trigger
    <3> QED BY <2>1, <3>1 DEF FiredFor
  <2>3. CASE u = t
    <3> DEFINE old == Cardinality(Sending(runs[t], flagged[t]))
               new == Cardinality(Sending([runs[t] EXCEPT ![k] = r], flagged[t]))
    <3>1. old \in Nat /\ new \in Nat /\ new <= old
      <4>1. /\ [runs[t] EXCEPT ![k] = r] \in Seq(Run)
            /\ new + (IF WillSend(runs[t][k], flagged[t]) THEN 1 ELSE 0)
                 = old + (IF WillSend(r, flagged[t]) THEN 1 ELSE 0)
        BY <1>1, SendingOfChange DEF RunFits
      <4>2. old \in Nat /\ new \in Nat
        BY <1>1, <4>1, SendingIsFinite
      <4> HIDE DEF old, new
      <4> QED BY <2>3, <4>1, <4>2
    <3>2. new = Cardinality(Sending(runs'[t], flagged'[t]))
      BY <1>1
    <3>3. sent[t] \in Nat /\ fires[t] \in Nat
      BY DEF FiresInv, TriggerTypes
    <3>4. FiredFor(t) = (sent[t] + old + (IF permit[t] /\ ~flagged[t] THEN 1 ELSE 0) <= fires[t])
      BY DEF FiredFor
    <3>5. FiredFor(t)' = (sent[t] + new + (IF permit[t] /\ ~flagged[t] THEN 1 ELSE 0) <= fires[t])
      BY <3>2 DEF FiredFor
    <3> DEFINE kept == IF permit[t] /\ ~flagged[t] THEN 1 ELSE 0
    <3>6. kept \in Nat
      OBVIOUS
    <3> HIDE DEF old, new, kept
    <3>7. sent[t] + old + kept <= fires[t] => sent[t] + new + kept <= fires[t]
      BY <3>1, <3>3, <3>6
    <3> QED BY <2>1, <2>3, <3>4, <3>5, <3>7 DEF kept
  <2> QED BY <2>2, <2>3
<1>4. ASSUME NEW u \in Cron PROVE DueFor(u)'
  <2>1. DueFor(u)
    BY DEF FiresInv
  <2>2. CASE u # t
    <3>1. runs'[u] = runs[u]
      BY <1>1, <2>2 DEF Trigger
    <3> QED BY <2>1, <3>1 DEF DueFor
  <2>3. CASE u = t
    <3>0. r \in Run /\ IsFiniteSet(Jobs(runs[t]))
          /\ r.jobs \in {runs[t][k].jobs, runs[t][k].jobs + 1, runs[t][k].jobs - 1}
      BY <2>1, <2>3 DEF RunFits, DueFor
    <3>1. /\ IsFiniteSet(Jobs([runs[t] EXCEPT ![k] = r]))
          /\ Cardinality(Jobs(runs[t])) \in Nat
          /\ Cardinality(Jobs([runs[t] EXCEPT ![k] = r]))
               = Cardinality(Jobs(runs[t])) + (r.jobs - runs[t][k].jobs)
      <4> DEFINE q == runs[t]
      <4>1. q \in Seq(Run) /\ k \in DOMAIN q /\ r \in Run /\ IsFiniteSet(Jobs(q))
            /\ r.jobs \in {q[k].jobs, q[k].jobs + 1, q[k].jobs - 1}
        BY <1>1, <3>0
      <4> HIDE DEF q
      <4>2. /\ IsFiniteSet(Jobs([q EXCEPT ![k] = r])) /\ Cardinality(Jobs(q)) \in Nat
            /\ Cardinality(Jobs([q EXCEPT ![k] = r])) = Cardinality(Jobs(q)) + (r.jobs - q[k].jobs)
        BY <4>1, JobsOfChange, Zenon
      <4> QED BY <4>2 DEF q
    <3>2. sent[t] \in Nat /\ fires[t] \in Nat /\ r.jobs \in Nat /\ runs[t][k].jobs \in Nat
      BY <1>1 DEF FiresInv, TriggerTypes, RunFits, Run
    <3> DEFINE old == Cardinality(Jobs(runs[t]))
               new == Cardinality(Jobs(runs'[t]))
    <3>3. new <= old /\ new \in Int /\ old \in Int /\ IsFiniteSet(Jobs(runs'[t]))
      BY <1>1, <2>3, <3>0, <3>1, <3>2
    <3>4. sent[t] + new <= sent[t] + old
      BY <3>2, <3>3
    <3>5. sent[t] + old <= fires[t]
      BY <2>1, <2>3 DEF DueFor
    <3> HIDE DEF old, new
    <3>6. sent[t] + new <= fires[t]
      BY <3>2, <3>3, <3>4, <3>5
    <3> QED BY <2>3, <3>3, <3>6 DEF DueFor, new
  <2> QED BY <2>2, <2>3
<1> QED BY <1>1, <1>2, <1>3, <1>4 DEF FiresInv

\* What was fired for is sent.
LEMMA SentKeepsFires ==
  ASSUME FiresInv, NEW t \in Trigger, NEW k \in DOMAIN runs[t], NEW r, RunFits(t, r),
         runs' = [runs EXCEPT ![t] = [runs[t] EXCEPT ![k] = r]],
         t \in Manual => ~WillSend(r, flagged[t]) /\ WillSend(runs[t][k], flagged[t]),
         t \in Cron => r.jobs = runs[t][k].jobs - 1,
         sent' = [sent EXCEPT ![t] = @ + 1],
         UNCHANGED <<callVars, wakeVars, held, fires>>
  PROVE  FiresInv'
<1>1. /\ runs' \in [Trigger -> Seq(Run)] /\ RunsOfKind' /\ runs[t] \in Seq(Run)
      /\ runs[t][k] \in Run
      /\ runs'[t] = [runs[t] EXCEPT ![k] = r]
      /\ \A u \in Trigger : u # t => runs'[u] = runs[u]
  BY RunChanges
<1>2. sent \in [Trigger -> Nat] /\ sent' \in [Trigger -> Nat]
      /\ \A u \in Trigger : sent'[u] = IF u = t THEN sent[t] + 1 ELSE sent[u]
  BY DEF FiresInv, TriggerTypes
<1>3. TriggerTypes' /\ FlagFirst'
  BY <1>1, <1>2 DEF FiresInv, TriggerTypes, FlagFirst, callVars, wakeVars
<1>4. ASSUME NEW u \in Manual PROVE FiredFor(u)'
  <2>1. FiredFor(u)
    BY DEF FiresInv
  <2>2. CASE u # t
    <3>1. runs'[u] = runs[u] /\ sent'[u] = sent[u]
      BY <1>1, <1>2, <2>2 DEF Trigger
    <3> QED BY <2>1, <3>1 DEF FiredFor, wakeVars
  <2>3. CASE u = t
    <3> DEFINE old == Cardinality(Sending(runs[t], flagged[t]))
               new == Cardinality(Sending([runs[t] EXCEPT ![k] = r], flagged[t]))
    <3>1. old \in Nat /\ new \in Nat /\ new + 1 = old
      <4>1. /\ [runs[t] EXCEPT ![k] = r] \in Seq(Run)
            /\ new + (IF WillSend(runs[t][k], flagged[t]) THEN 1 ELSE 0)
                 = old + (IF WillSend(r, flagged[t]) THEN 1 ELSE 0)
        BY <1>1, SendingOfChange DEF RunFits
      <4>2. old \in Nat /\ new \in Nat
        BY <1>1, <4>1, SendingIsFinite
      <4> HIDE DEF old, new
      <4> QED BY <2>3, <4>1, <4>2
    <3>2. new = Cardinality(Sending(runs'[t], flagged'[t]))
      BY <1>1 DEF wakeVars
    <3>3. sent[t] \in Nat /\ fires[t] \in Nat
      BY DEF FiresInv, TriggerTypes
    <3>4. FiredFor(t) = (sent[t] + old + (IF permit[t] /\ ~flagged[t] THEN 1 ELSE 0) <= fires[t])
      BY DEF FiredFor
    <3>5. FiredFor(t)' = (sent[t] + 1 + new + (IF permit[t] /\ ~flagged[t] THEN 1 ELSE 0) <= fires[t])
      BY <1>2, <3>2 DEF FiredFor, wakeVars
    <3>6. sent[t] + old = sent[t] + 1 + new
      BY <3>1, <3>3
    <3> QED BY <2>1, <2>3, <3>4, <3>5, <3>6
  <2> QED BY <2>2, <2>3
<1>5. ASSUME NEW u \in Cron PROVE DueFor(u)'
  <2>1. DueFor(u)
    BY DEF FiresInv
  <2>2. CASE u # t
    <3>1. runs'[u] = runs[u] /\ sent'[u] = sent[u]
      BY <1>1, <1>2, <2>2 DEF Trigger
    <3> QED BY <2>1, <3>1 DEF DueFor
  <2>3. CASE u = t
    <3>9. r.jobs = runs[t][k].jobs - 1
      BY <2>3
    <3>0. r \in Run /\ IsFiniteSet(Jobs(runs[t]))
          /\ r.jobs \in {runs[t][k].jobs, runs[t][k].jobs + 1, runs[t][k].jobs - 1}
      BY <2>1, <2>3, <3>9 DEF RunFits, DueFor
    <3> DEFINE q == runs[t]
    <3>8. q \in Seq(Run) /\ k \in DOMAIN q /\ r \in Run /\ IsFiniteSet(Jobs(q))
          /\ r.jobs \in {q[k].jobs, q[k].jobs + 1, q[k].jobs - 1}
      BY <1>1, <3>0
    <3> HIDE DEF q
    <3>7. IsFiniteSet(Jobs([q EXCEPT ![k] = r])) /\ Cardinality(Jobs(q)) \in Nat
          /\ Cardinality(Jobs([q EXCEPT ![k] = r])) = Cardinality(Jobs(q)) + (r.jobs - q[k].jobs)
      BY <3>8, JobsOfChange
    <3>1. /\ IsFiniteSet(Jobs([runs[t] EXCEPT ![k] = r]))
          /\ Cardinality(Jobs(runs[t])) \in Nat
          /\ Cardinality(Jobs([runs[t] EXCEPT ![k] = r]))
               = Cardinality(Jobs(runs[t])) + (r.jobs - runs[t][k].jobs)
      BY <3>7 DEF q
    <3>2. sent[t] \in Nat /\ fires[t] \in Nat /\ r.jobs \in Nat /\ runs[t][k].jobs \in Nat
      BY <1>1 DEF FiresInv, TriggerTypes, RunFits, Run
    <3> DEFINE old == Cardinality(Jobs(runs[t]))
    <3>3. Cardinality(Jobs(runs'[t])) = old - 1 /\ IsFiniteSet(Jobs(runs'[t]))
      BY <1>1, <3>0, <3>1, <3>2, <3>9
    <3>4. sent'[t] + (old - 1) = sent[t] + old
      BY <1>2, <3>1, <3>2
    <3> QED BY <2>1, <2>3, <3>3, <3>4 DEF DueFor
  <2> QED BY <2>2, <2>3
<1> QED BY <1>1, <1>3, <1>4, <1>5 DEF FiresInv

-----------------------------------------------------------------------------
\* A notification wakes one run, or is kept for one.
LEMMA NotifyOneGives ==
  ASSUME FiresInv, NEW t \in Manual, NotifyOne(t)
  PROVE  /\ permit' \in [Manual -> BOOLEAN] /\ waiters' \in [Manual -> Seq(Nat)]
         /\ runs' \in [Trigger -> Seq(Run)] /\ RunsOfKind'
         /\ \A u \in Trigger : u # t => runs'[u] = runs[u]
         /\ \A u \in Manual : u # t => permit'[u] = permit[u]
         /\ Cardinality(Sending(runs'[t], TRUE)) <= Cardinality(Sending(runs[t], TRUE))
         /\ Cardinality(Sending(runs'[t], FALSE)) + (IF permit'[t] THEN 1 ELSE 0)
              <= Cardinality(Sending(runs[t], FALSE)) + (IF permit[t] THEN 1 ELSE 0) + 1
<1>1. /\ permit \in [Manual -> BOOLEAN] /\ waiters \in [Manual -> Seq(Nat)]
      /\ runs \in [Trigger -> Seq(Run)] /\ t \in Trigger /\ runs[t] \in Seq(Run) /\ RunsOfKind
  BY DEF FiresInv, TriggerTypes, Trigger
<1>2. \A stopped : Cardinality(Sending(runs[t], stopped)) \in Nat
  BY <1>1, SendingIsFinite
<1>3. CASE UNCHANGED runs /\ permit' \in [Manual -> BOOLEAN] /\ waiters' \in [Manual -> Seq(Nat)]
           /\ \A u \in Manual : u # t => permit'[u] = permit[u]
  <2> DEFINE oldT == Cardinality(Sending(runs[t], TRUE))
             oldF == Cardinality(Sending(runs[t], FALSE))
  <2>1. runs' = runs /\ RunsOfKind'
    BY <1>1, <1>3 DEF RunsOfKind
  <2>2. oldT \in Nat /\ oldF \in Nat
    BY <1>2
  <2>3. oldT <= oldT
        /\ oldF + (IF permit'[t] THEN 1 ELSE 0) <= oldF + (IF permit[t] THEN 1 ELSE 0) + 1
    <3> HIDE DEF oldT, oldF
    <3> QED BY <2>2
  <2> QED BY <1>1, <1>3, <2>1, <2>3
<1>4. CASE waiters[t] = <<>>
  BY <1>1, <1>3, <1>4 DEF NotifyOne
<1>5. CASE waiters[t] # <<>>
  <2> DEFINE k == Head(waiters[t])
             r == [runs[t][k] EXCEPT !.task = "woken"]
  <2>1. /\ waiters' = [waiters EXCEPT ![t] = Tail(@)] /\ permit' = permit
        /\ runs' = [runs EXCEPT ![t][k].task = "woken"]
    BY <1>5 DEF NotifyOne
  <2>2. waiters' \in [Manual -> Seq(Nat)]
    BY <1>1, <1>5, <2>1
  <2>3. CASE k \notin DOMAIN runs[t]
    <3>1. [runs[t] EXCEPT ![k].task = "woken"] = runs[t]
      BY <1>1, <2>3
    <3>2. runs' = runs
      BY <1>1, <2>1, <3>1
    <3> QED BY <1>1, <1>3, <2>1, <2>2, <3>2
  <2>4. CASE k \in DOMAIN runs[t]
    <3>1. runs[t][k] \in Run /\ runs[t][k].jobs = 0
      BY <1>1, <2>4 DEF RunsOfKind
    <3> HIDE DEF k
    <3>2. RunFits(t, r) /\ WillSend(r, FALSE) /\ ~WillSend(r, TRUE)
      <4>1. r \in Run /\ r.jobs = 0 /\ r.task = "woken"
        BY <3>1 DEF Run
      <4>2. t \notin Cron
        BY TriggerAssumption
      <4> QED BY <4>1, <4>2 DEF RunFits, WillSend
    <3>3. runs' = [runs EXCEPT ![t] = [runs[t] EXCEPT ![k] = r]]
      BY <1>1, <2>1
    <3> HIDE DEF r
    <3>4. /\ runs' \in [Trigger -> Seq(Run)] /\ RunsOfKind'
          /\ runs'[t] = [runs[t] EXCEPT ![k] = r]
          /\ \A u \in Trigger : u # t => runs'[u] = runs[u]
      BY <1>1, <2>4, <3>2, <3>3, RunChanges
    <3> DEFINE oldT == Cardinality(Sending(runs[t], TRUE))
               oldF == Cardinality(Sending(runs[t], FALSE))
               newT == Cardinality(Sending(runs'[t], TRUE))
               newF == Cardinality(Sending(runs'[t], FALSE))
    <3>5. r \in Run
      BY <3>2 DEF RunFits
    <3>6. /\ newT + (IF WillSend(runs[t][k], TRUE) THEN 1 ELSE 0)
               = oldT + (IF WillSend(r, TRUE) THEN 1 ELSE 0)
          /\ newF + (IF WillSend(runs[t][k], FALSE) THEN 1 ELSE 0)
               = oldF + (IF WillSend(r, FALSE) THEN 1 ELSE 0)
      <4> DEFINE q == [runs[t] EXCEPT ![k] = r]
      <4>0. runs[t] \in Seq(Run) /\ k \in DOMAIN runs[t] /\ r \in Run
        BY <1>1, <2>4, <3>5
      <4>1. ASSUME NEW stopped
            PROVE  Cardinality(Sending(q, stopped)) + (IF WillSend(runs[t][k], stopped) THEN 1 ELSE 0)
                     = Cardinality(Sending(runs[t], stopped))
                         + (IF WillSend(r, stopped) THEN 1 ELSE 0)
        BY <4>0, SendingOfChange
      <4> HIDE DEF q
      <4>3. runs'[t] = q
        BY <3>4 DEF q
      <4> QED BY <4>1, <4>3
    <3>7. newT \in Nat /\ newF \in Nat /\ oldT \in Nat /\ oldF \in Nat
      BY <1>1, <3>4, SendingIsFinite
    <3>8. newT <= oldT
          /\ newF + (IF permit'[t] THEN 1 ELSE 0) <= oldF + (IF permit[t] THEN 1 ELSE 0) + 1
      <4> HIDE DEF newT, newF, oldT, oldF
      <4>1. newT <= oldT /\ newF <= oldF + 1
        <5> DEFINE xT == IF WillSend(runs[t][k], TRUE) THEN 1 ELSE 0
                   xF == IF WillSend(runs[t][k], FALSE) THEN 1 ELSE 0
        <5>1. xT \in Nat /\ xF \in Nat
          OBVIOUS
        <5>2. newT + xT = oldT + 0 /\ newF + xF = oldF + 1
          BY <3>2, <3>6
        <5> HIDE DEF xT, xF
        <5> QED BY <3>7, <5>1, <5>2
      <4> QED BY <2>1, <3>7, <4>1
    <3> QED BY <1>1, <2>1, <2>2, <3>4, <3>8
  <2> QED BY <2>3, <2>4
<1> QED BY <1>4, <1>5

\* What a notification does to the count, when it is one of a fire or one of stop.
LEMMA NotifyKeepsFires ==
  ASSUME FiresInv, NEW t \in Manual, NotifyOne(t), fires' \in [Trigger -> Nat],
         \/ fires' = [fires EXCEPT ![t] = @ + 1]
         \/ flagged[t] /\ UNCHANGED fires,
         UNCHANGED <<registered, starting, flagged, held, sent>>,
         UNCHANGED stopping \/ (stopping' \in Seq(StopsLeft) /\ FlagFirst')
  PROVE  FiresInv'
<1>1. /\ permit' \in [Manual -> BOOLEAN] /\ waiters' \in [Manual -> Seq(Nat)]
      /\ runs' \in [Trigger -> Seq(Run)] /\ RunsOfKind'
      /\ \A u \in Trigger : u # t => runs'[u] = runs[u]
      /\ \A u \in Manual : u # t => permit'[u] = permit[u]
  BY NotifyOneGives
<1>2. TriggerTypes' /\ FlagFirst'
  BY <1>1 DEF FiresInv, TriggerTypes, FlagFirst
<1>3. t \in Trigger /\ \A u \in Trigger : u # t => fires'[u] = fires[u]
  BY DEF FiresInv, TriggerTypes, Trigger
<1>4. ASSUME NEW u \in Manual PROVE FiredFor(u)'
  <2>1. FiredFor(u) /\ flagged' = flagged /\ sent' = sent
    BY DEF FiresInv
  <2>2. CASE u # t
    <3>1. runs'[u] = runs[u] /\ fires'[u] = fires[u] /\ permit'[u] = permit[u]
      BY <1>1, <1>3, <2>2 DEF Trigger
    <3> QED BY <2>1, <3>1 DEF FiredFor
  <2>3. CASE u = t
    <3>1. sent[t] \in Nat /\ fires[t] \in Nat /\ runs[t] \in Seq(Run) /\ runs'[t] \in Seq(Run)
          /\ flagged[t] \in BOOLEAN
      BY <1>1, <1>3 DEF FiresInv, TriggerTypes
    <3> DEFINE oldT == Cardinality(Sending(runs[t], TRUE))
               oldF == Cardinality(Sending(runs[t], FALSE))
               newT == Cardinality(Sending(runs'[t], TRUE))
               newF == Cardinality(Sending(runs'[t], FALSE))
               kept  == IF permit[t] THEN 1 ELSE 0
               keeps == IF permit'[t] THEN 1 ELSE 0
    <3>2. newT <= oldT /\ newF + keeps <= oldF + kept + 1
      BY NotifyOneGives
    <3>3. newT \in Nat /\ newF \in Nat /\ oldT \in Nat /\ oldF \in Nat
      BY <3>1, SendingIsFinite
    <3>4. kept \in Nat /\ keeps \in Nat
      OBVIOUS
    <3>5. CASE flagged[t]
      <4>1. FiredFor(t) = (sent[t] + oldT + 0 <= fires[t])
        BY <3>1, <3>5 DEF FiredFor
      <4>2. FiredFor(t)' = (sent[t] + newT + 0 <= fires'[t])
        BY <2>1, <3>1, <3>5 DEF FiredFor
      <4>3. fires'[t] \in Nat /\ fires[t] <= fires'[t]
        BY <1>3, <3>1 DEF FiresInv, TriggerTypes
      <4> HIDE DEF newT, oldT
      <4>4. sent[t] + oldT + 0 <= fires[t] => sent[t] + newT + 0 <= fires'[t]
        BY <3>1, <3>2, <3>3, <4>3
      <4> QED BY <2>1, <2>3, <4>1, <4>2, <4>4
    <3>6. CASE ~flagged[t]
      <4>1. FiredFor(t) = (sent[t] + oldF + kept <= fires[t])
        BY <3>1, <3>6 DEF FiredFor
      <4>2. FiredFor(t)' = (sent[t] + newF + keeps <= fires'[t])
        BY <2>1, <3>1, <3>6 DEF FiredFor
      <4>3. fires'[t] = fires[t] + 1
        BY <1>3, <3>6 DEF FiresInv, TriggerTypes
      <4> HIDE DEF newF, oldF, kept, keeps
      <4>4. sent[t] + oldF + kept <= fires[t] => sent[t] + newF + keeps <= fires'[t]
        BY <3>1, <3>2, <3>3, <3>4, <4>3
      <4> QED BY <2>1, <2>3, <4>1, <4>2, <4>4
    <3> QED BY <3>5, <3>6
  <2> QED BY <2>2, <2>3
<1>5. ASSUME NEW u \in Cron PROVE DueFor(u)'
  <2>1. u # t /\ u \in Trigger
    BY TriggerAssumption DEF Trigger
  <2>2. runs'[u] = runs[u] /\ fires'[u] = fires[u] /\ sent' = sent
    BY <1>1, <1>3, <2>1
  <2> QED BY <2>2 DEF FiresInv, DueFor
<1> QED BY <1>1, <1>2, <1>4, <1>5 DEF FiresInv

-----------------------------------------------------------------------------
\* The manager's steps.
LEMMA WalksOfTriggers ==
  ASSUME FiresInv
  PROVE  WalkTriggers \subseteq Seq([trigger : Trigger, policy : Policy])
<1> DEFINE listed == UNION {{w} \X DOMAIN registered[w].triggers : w \in TriggerWorkflow}
           T == [trigger : Trigger, policy : Policy]
<1>1. ASSUME NEW w \in TriggerWorkflow
      PROVE  registered[w].triggers \in Seq(Trigger)
             /\ (registered[w].policy \in Policy \/ registered[w].triggers = <<>>)
  BY DEF FiresInv, TriggerTypes
<1>2. IsFiniteSet(listed)
  <2> DEFINE parts == {{w} \X DOMAIN registered[w].triggers : w \in TriggerWorkflow}
  <2>1. IsFiniteSet(parts)
    <3> DEFINE f == [w \in TriggerWorkflow |-> {w} \X DOMAIN registered[w].triggers]
    <3>1. f \in Surjection(TriggerWorkflow, parts)
      BY DEF Surjection
    <3> QED BY <3>1, TriggerAssumption, FS_Surjection
  <2>2. ASSUME NEW part \in parts PROVE IsFiniteSet(part)
    <3>1. PICK w \in TriggerWorkflow : part = {w} \X DOMAIN registered[w].triggers
      OBVIOUS
    <3> DEFINE n == Len(registered[w].triggers)
    <3>2. n \in Nat /\ DOMAIN registered[w].triggers = 1..n
      BY <1>1
    <3> HIDE DEF n
    <3>3. IsFiniteSet(1..n)
      BY <3>2, FS_Interval
    <3>4. IsFiniteSet({w} \X (1..n))
      BY <3>3, FS_Singleton, FS_Product
    <3> QED BY <3>1, <3>2, <3>4
  <2> QED BY <2>1, <2>2, FS_UNION
<1>3. ASSUME NEW x \in listed
      PROVE  /\ [trigger |-> registered[x[1]].triggers[x[2]], policy |-> registered[x[1]].policy] \in T
  <2>1. PICK w \in TriggerWorkflow : x \in {w} \X DOMAIN registered[w].triggers
    BY <1>3
  <2>2. x[1] = w /\ x[2] \in DOMAIN registered[w].triggers
    BY <2>1
  <2>3. registered[w].triggers[x[2]] \in Trigger /\ registered[w].policy \in Policy
    BY <1>1, <2>2
  <2> QED BY <2>2, <2>3
<1>4. Cardinality(listed) \in Nat
  BY <1>2, FS_CardinalityType
<1>5. \A q \in SetToSeqs(listed) : q \in [1..Cardinality(listed) -> listed]
  BY DEF SetToSeqs
<1> HIDE DEF listed, T
<1>6. ASSUME NEW walk, walk \in SetToSeqs(listed)
      PROVE  [i \in DOMAIN walk |-> [trigger |-> registered[walk[i][1]].triggers[walk[i][2]],
                                     policy |-> registered[walk[i][1]].policy]] \in Seq(T)
  <2> DEFINE n == Cardinality(listed)
             f == [i \in DOMAIN walk |-> [trigger |-> registered[walk[i][1]].triggers[walk[i][2]],
                                          policy |-> registered[walk[i][1]].policy]]
  <2>1. n \in Nat /\ DOMAIN walk = 1..n /\ \A i \in 1..n : walk[i] \in listed
    BY <1>4, <1>5, <1>6
  <2>2. f \in [1..n -> T]
    BY <1>3, <2>1
  <2> HIDE DEF f, n
  <2>3. f \in Seq(T)
    BY <2>1, <2>2, SeqDef
  <2> QED BY <2>3 DEF f
<1> QED BY <1>6 DEF WalkTriggers, listed, T

LEMMA ManagerKeepsFires ==
  ASSUME FiresInv, (\E w \in TriggerWorkflow, p \in Policy : \E q \in Offered[w] : Register(w, q, p))
                   \/ StartAll
  PROVE  FiresInv'
<1>1. UNCHANGED <<stopping, wakeVars, held, runs, fires, sent>>
  BY DEF Register, StartAll, countVars
<1>2. ManagerTypes'
  <2>1. CASE StartAll
    BY <2>1, WalksOfTriggers DEF StartAll, FiresInv, TriggerTypes, ManagerTypes
  <2>2. ASSUME NEW w \in TriggerWorkflow, NEW p \in Policy, NEW q \in Offered[w], Register(w, q, p)
        PROVE  ManagerTypes'
    <3>1. q \in Seq(Trigger)
      BY TriggerAssumption
    <3> QED BY <2>2, <3>1 DEF Register, FiresInv, TriggerTypes, ManagerTypes
  <2> QED BY <2>1, <2>2
<1> QED BY <1>1, <1>2 DEF FiresInv, TriggerTypes, ManagerTypes, FlagFirst, RunsOfKind, FiredFor,
                        DueFor, wakeVars

LEMMA StopAllKeepsFires ==
  ASSUME FiresInv, StopAll
  PROVE  FiresInv'
<1>1. PICK walk \in WalkTriggers : stopping' = [i \in DOMAIN walk |-> StopSteps(walk[i].trigger)]
  BY DEF StopAll
<1>2. walk \in Seq([trigger : Trigger, policy : Policy])
  BY WalksOfTriggers
<1>3. Len(walk) \in Nat /\ DOMAIN walk = 1..Len(walk)
      /\ \A i \in DOMAIN walk : walk[i].trigger \in Trigger
  <2> DEFINE T == [trigger : Trigger, policy : Policy]
  <2>1. \A x \in T : x.trigger \in Trigger
    OBVIOUS
  <2> HIDE DEF T
  <2>2. walk \in Seq(T)
    BY <1>2 DEF T
  <2>3. Len(walk) \in Nat /\ DOMAIN walk = 1..Len(walk) /\ \A i \in DOMAIN walk : walk[i] \in T
    BY <2>2
  <2> QED BY <2>1, <2>3
<1>4. stopping' \in [1..Len(walk) -> StopsLeft]
  BY <1>1, <1>3 DEF StopsLeft
<1>5. stopping' \in Seq(StopsLeft)
  BY <1>3, <1>4, SeqDef
<1>6. ASSUME NEW i \in DOMAIN stopping', NEW t \in Manual, stopping'[i] = NotifyStep(t) PROVE FALSE
  <2>1. stopping'[i] = StopSteps(walk[i].trigger)
    BY <1>1, <1>3, <1>4
  <2>2. \A u : StopSteps(u)[1].do \in {"flag", "shutdown"}
    BY DEF StopSteps
  <2>3. NotifyStep(t)[1].do = "notify"
    BY DEF NotifyStep
  <2> QED BY <1>6, <2>1, <2>2, <2>3
<1>7. UNCHANGED <<registered, starting, wakeVars, held, runs, fires, sent>>
  BY DEF StopAll, countVars
<1> QED BY <1>5, <1>6, <1>7 DEF FiresInv, TriggerTypes, FlagFirst, RunsOfKind, FiredFor, DueFor, wakeVars

LEMMA StartKeepsFires ==
  ASSUME FiresInv, StartNext
  PROVE  FiresInv'
<1> DEFINE t == Head(starting).trigger
           r == NewRun(t, Head(starting).policy)
<1>1. /\ UNCHANGED <<registered, stopping, wakeVars, fires, sent>> /\ starting # <<>>
  BY DEF StartNext, countVars
<1>2. starting \in Seq([trigger : Trigger, policy : Policy])
  BY DEF FiresInv, TriggerTypes
<1>3. Head(starting) \in [trigger : Trigger, policy : Policy]
      /\ Tail(starting) \in Seq([trigger : Trigger, policy : Policy])
  <2> DEFINE T == [trigger : Trigger, policy : Policy]
  <2>1. starting \in Seq(T) /\ starting # <<>>
    BY <1>1, <1>2
  <2> HIDE DEF T
  <2>2. Head(starting) \in T /\ Tail(starting) \in Seq(T)
    BY <2>1
  <2> QED BY <2>2 DEF T
<1>4. CASE starting' = <<>> /\ UNCHANGED <<runs, held>>
  BY <1>1, <1>4 DEF FiresInv, TriggerTypes, FlagFirst, RunsOfKind, FiredFor, DueFor, wakeVars
<1>5. CASE /\ starting' = Tail(starting)
           /\ runs' = [runs EXCEPT ![t] = Append(@, r)]
           /\ held' = IF t \in Cron THEN [held EXCEPT ![t] = Len(runs[t]) + 1] ELSE held
  <2>1. t \in Trigger /\ r \in Run /\ r.jobs = 0
        /\ (t \in Manual => r.task = "new") /\ (t \notin Manual => r.task = "ticking")
    BY <1>3 DEF NewRun, Run
  <2> HIDE DEF t, r
  <2>2. \A stopped : ~WillSend(r, stopped)
    BY <2>1 DEF WillSend
  <2>3. runs \in [Trigger -> Seq(Run)] /\ runs[t] \in Seq(Run) /\ Len(runs[t]) \in Nat
        /\ Append(runs[t], r) \in Seq(Run)
    BY <2>1 DEF FiresInv, TriggerTypes
  <2>4. runs' \in [Trigger -> Seq(Run)] /\ runs'[t] = Append(runs[t], r)
        /\ \A u \in Trigger : u # t => runs'[u] = runs[u]
    BY <1>5, <2>1, <2>3
  <2>5. TriggerTypes'
    <3>1. held' \in [Cron -> Nat]
      BY <1>5, <2>3 DEF FiresInv, TriggerTypes
    <3>2. UNCHANGED <<registered, stopping, permit, flagged, waiters, fires, sent>>
      BY <1>1 DEF wakeVars
    <3> QED BY <1>3, <1>5, <2>4, <3>1, <3>2 DEF FiresInv, TriggerTypes
  <2>6. FlagFirst'
    BY <1>1 DEF FiresInv, FlagFirst, wakeVars
  <2>7. \A i \in DOMAIN runs'[t] : runs'[t][i] = r \/ (i \in DOMAIN runs[t] /\ runs'[t][i] = runs[t][i])
    BY <2>3, <2>4
  <2>8. RunsOfKind'
    <3>1. ASSUME NEW u \in Manual, NEW i \in DOMAIN runs'[u]
          PROVE  runs'[u][i].jobs = 0 /\ runs'[u][i].task # "ticking"
      BY <2>1, <2>4, <2>7, <3>1, SMTT(40) DEF FiresInv, RunsOfKind, Trigger
    <3>2. ASSUME NEW u \in Cron, NEW i \in DOMAIN runs'[u]
          PROVE  runs'[u][i].task \in {"ticking", "ended"}
      <4>1. CASE u = t
        <5>1. t \notin Manual
          BY <4>1, TriggerAssumption
        <5> QED BY <2>1, <2>7, <3>2, <4>1, <5>1 DEF FiresInv, RunsOfKind
      <4>2. CASE u # t
        BY <2>4, <3>2, <4>2 DEF FiresInv, RunsOfKind, Trigger
      <4> QED BY <4>1, <4>2
    <3> QED BY <3>1, <3>2 DEF RunsOfKind
  <2>9. \A stopped : Sending(runs'[t], stopped) = Sending(runs[t], stopped)
    BY <2>1, <2>2, <2>3, <2>4, SendingOfAppend
  <2>10. Jobs(runs'[t]) = Jobs(runs[t])
    BY <2>1, <2>3, <2>4, JobsOfAppend
  <2>11. ASSUME NEW u \in Manual PROVE FiredFor(u)'
    <3>1. Sending(runs'[u], flagged[u]) = Sending(runs[u], flagged[u])
      BY <2>4, <2>9 DEF Trigger
    <3> QED BY <1>1, <3>1 DEF FiresInv, FiredFor, wakeVars
  <2>12. ASSUME NEW u \in Cron PROVE DueFor(u)'
    <3>1. Jobs(runs'[u]) = Jobs(runs[u])
      BY <2>4, <2>10 DEF Trigger
    <3> QED BY <1>1, <3>1 DEF FiresInv, DueFor
  <2> QED BY <2>5, <2>6, <2>8, <2>11, <2>12 DEF FiresInv
<1> QED BY <1>4, <1>5 DEF StartNext

\* A step of stop: what is left of it afterwards, and that a notification comes after the flag.
LEMMA StopStepLeaves ==
  ASSUME FiresInv, StopNext,
         \A t \in Manual : Head(stopping) = StopSteps(t) => flagged'[t],
         \A t \in Manual : flagged[t] => flagged'[t]
  PROVE  stopping' \in Seq(StopsLeft) /\ FlagFirst'
<1> DEFINE steps == Head(stopping)
<1>1. stopping \in Seq(StopsLeft) /\ stopping # <<>>
      /\ stopping' = IF Len(steps) = 1 THEN Tail(stopping) ELSE [stopping EXCEPT ![1] = Tail(steps)]
  BY DEF FiresInv, TriggerTypes, StopNext
<1>2. steps \in StopsLeft /\ steps = stopping[1]
  BY <1>1
<1> DEFINE Flagged(q) == \A t \in Manual : q = NotifyStep(t) => flagged'[t]
<1>3. \A i \in DOMAIN stopping : Flagged(stopping[i])
  BY DEF FiresInv, FlagFirst
<1>4. CASE Len(steps) = 1
  <2>1. stopping' = Tail(stopping)
    BY <1>1, <1>4
  <2>2. stopping' \in Seq(StopsLeft)
        /\ \A i \in DOMAIN stopping' : i + 1 \in DOMAIN stopping /\ stopping'[i] = stopping[i + 1]
    BY <1>1, <2>1
  <2> QED BY <1>3, <2>2 DEF FlagFirst
<1>5. CASE Len(steps) # 1
  <2>1. PICK t \in Manual : steps = StopSteps(t)
    BY <1>2, <1>5 DEF StopsLeft, StopSteps, NotifyStep
  <2>2. Tail(steps) = NotifyStep(t) /\ flagged'[t]
    <3>1. \A x, y : Tail(<<x, y>>) = <<y>>
      OBVIOUS
    <3>2. steps = <<[trigger |-> t, do |-> "flag"], [trigger |-> t, do |-> "notify"]>>
      BY <2>1 DEF StopSteps
    <3>3. Tail(steps) = NotifyStep(t)
      BY <3>1, <3>2 DEF NotifyStep
    <3> QED BY <2>1, <3>3
  <2>3. Tail(steps) \in StopsLeft
    BY <2>2 DEF StopsLeft
  <2>4. Flagged(Tail(steps))
    <3>1. \A u \in Manual : NotifyStep(t) = NotifyStep(u) => t = u
      <4>1. \A u : NotifyStep(u)[1].trigger = u
        BY DEF NotifyStep
      <4> QED BY <4>1
    <3> QED BY <2>2, <3>1
  <2>5. stopping' = [stopping EXCEPT ![1] = Tail(steps)]
    BY <1>1, <1>5
  <2> HIDE DEF steps, Flagged
  <2>6. stopping' \in Seq(StopsLeft)
        /\ \A i \in DOMAIN stopping' : i \in DOMAIN stopping
                                       /\ (stopping'[i] = stopping[i] \/ stopping'[i] = Tail(steps))
    BY <1>1, <2>3, <2>5
  <2>7. \A i \in DOMAIN stopping' : Flagged(stopping'[i])
    BY <1>3, <2>4, <2>6
  <2> QED BY <2>6, <2>7 DEF FlagFirst, Flagged
<1> QED BY <1>4, <1>5

LEMMA StopKeepsFires ==
  ASSUME FiresInv, StopNext
  PROVE  FiresInv'
<1> DEFINE steps == Head(stopping)
           t == Head(steps).trigger
<1>1. stopping \in Seq(StopsLeft) /\ stopping # <<>>
  BY DEF FiresInv, TriggerTypes, StopNext
<1>2. steps \in StopsLeft /\ steps = stopping[1] /\ 1 \in DOMAIN stopping
  BY <1>1
<1>3. UNCHANGED <<registered, starting, fires, sent>>
  BY DEF StopNext, countVars
<1>4. CASE Head(steps).do = "flag" /\ flagged' = [flagged EXCEPT ![t] = TRUE]
           /\ UNCHANGED <<permit, waiters, held, runs>>
  <2>1. PICK u \in Manual : steps = StopSteps(u)
    BY <1>2, <1>4 DEF StopsLeft, StopSteps, NotifyStep
  <2>2. t = u
    BY <2>1 DEF StopSteps
  <2> HIDE DEF t
  <2>3. flagged' \in [Manual -> BOOLEAN] /\ flagged'[u] = TRUE
        /\ \A v \in Manual : v # u => flagged'[v] = flagged[v]
    BY <1>4, <2>2 DEF FiresInv, TriggerTypes
  <2>4. \A v \in Manual : steps = StopSteps(v) => v = u
    <3>1. \A v \in Manual : StopSteps(v)[1].trigger = v
      BY DEF StopSteps
    <3> QED BY <2>1, <3>1
  <2>5. stopping' \in Seq(StopsLeft) /\ FlagFirst'
    <3>1. \A v \in Manual : Head(stopping) = StopSteps(v) => flagged'[v]
      BY <2>3, <2>4
    <3>2. \A v \in Manual : flagged[v] => flagged'[v]
      BY <2>3
    <3> QED BY <3>1, <3>2, StopStepLeaves
  <2>6. TriggerTypes'
    BY <1>3, <1>4, <2>3, <2>5 DEF FiresInv, TriggerTypes
  <2>7. ASSUME NEW v \in Manual PROVE FiredFor(v)'
    <3>1. FiredFor(v) /\ runs[v] \in Seq(Run) /\ sent[v] \in Nat /\ fires[v] \in Nat
      BY DEF FiresInv, TriggerTypes, Trigger
    <3>2. CASE v # u
      BY <1>3, <1>4, <2>3, <3>1, <3>2 DEF FiredFor
    <3>3. CASE v = u
      <4> DEFINE old == Cardinality(Sending(runs[u], flagged[u]))
                 new == Cardinality(Sending(runs[u], TRUE))
                 kept == IF permit[u] /\ ~flagged[u] THEN 1 ELSE 0
      <4>1. old \in Nat /\ new \in Nat /\ new <= old
        BY <3>1, <3>3, SendingIsFinite, SendingWhenStopped
      <4>2. FiredFor(u) = (sent[u] + old + kept <= fires[u])
        BY DEF FiredFor
      <4>3. FiredFor(u)' <=> sent[u] + new + 0 <= fires[u]
        <5>1. Sending(runs'[u], flagged'[u]) = Sending(runs[u], TRUE)
          BY <1>4, <2>3, Zenon
        <5>2. (IF permit'[u] /\ ~flagged'[u] THEN 1 ELSE 0) = 0
          BY <2>3
        <5>3. sent' = sent /\ fires' = fires
          BY <1>3
        <5>4. FiredFor(u)' <=> sent'[u] + Cardinality(Sending(runs'[u], flagged'[u]))
                + (IF permit'[u] /\ ~flagged'[u] THEN 1 ELSE 0) <= fires'[u]
          BY DEF FiredFor
        <5> QED BY <5>1, <5>2, <5>3, <5>4
      <4>4. kept \in Nat
        OBVIOUS
      <4> HIDE DEF old, new, kept
      <4>5. sent[u] + old + kept <= fires[u] => sent[u] + new + 0 <= fires[u]
        BY <3>1, <3>3, <4>1, <4>4
      <4>6. FiredFor(u)
        BY <3>1, <3>3
      <4>7. FiredFor(u)'
        BY <4>2, <4>3, <4>5, <4>6
      <4> QED BY <3>3, <4>7
    <3> QED BY <3>2, <3>3
  <2> QED BY <1>3, <1>4, <2>5, <2>6, <2>7 DEF FiresInv, RunsOfKind, DueFor
<1>5. CASE Head(steps).do = "notify" /\ NotifyOne(t) /\ UNCHANGED <<flagged, held>>
  <2>1. PICK u \in Manual : steps = NotifyStep(u)
    BY <1>2, <1>5 DEF StopsLeft, StopSteps, NotifyStep
  <2>2. t = u /\ flagged[u]
    <3>1. Head(NotifyStep(u)).trigger = u
      BY DEF NotifyStep
    <3>2. flagged[u]
      BY <1>2, <2>1 DEF FiresInv, FlagFirst
    <3> QED BY <2>1, <3>1, <3>2
  <2>3. stopping' \in Seq(StopsLeft) /\ FlagFirst'
    <3>1. \A v \in Manual : steps # StopSteps(v)
      BY <1>5 DEF StopSteps
    <3> QED BY <1>5, <3>1, StopStepLeaves
  <2>4. NotifyOne(u) /\ fires' \in [Trigger -> Nat]
    BY <1>3, <1>5, <2>2 DEF FiresInv, TriggerTypes
  <2> QED BY <1>3, <1>5, <2>2, <2>3, <2>4, NotifyKeepsFires
<1>6. CASE /\ Head(steps).do = "shutdown"
           /\ runs' = IF held[t] = 0 THEN runs ELSE [runs EXCEPT ![t][held[t]].task = "ended"]
           /\ held' = [held EXCEPT ![t] = 0]
           /\ UNCHANGED wakeVars
  <2>1. PICK u \in Trigger : steps = StopSteps(u)
    <3>1. steps \in StopsLeft
      BY <1>2
    <3>2. \A v \in Manual : Head(NotifyStep(v)).do = "notify"
      BY DEF NotifyStep
    <3>3. \A v \in Manual : steps # NotifyStep(v)
      BY <1>6, <3>2
    <3> QED BY <3>1, <3>3, Zenon DEF StopsLeft
  <2>2. t = u /\ u \in Cron /\ u \notin Manual
    <3>1. u \in Manual => Head(StopSteps(u)).do = "flag"
      BY DEF StopSteps
    <3>2. u \notin Manual => Head(StopSteps(u)).trigger = u
      BY DEF StopSteps
    <3> QED BY <1>6, <2>1, <3>1, <3>2 DEF Trigger
  <2> HIDE DEF t
  <2>3. stopping' \in Seq(StopsLeft) /\ FlagFirst'
    <3>1. \A v \in Manual : steps # StopSteps(v)
      BY <1>6 DEF StopSteps
    <3>2. \A v \in Manual : flagged[v] => flagged'[v]
      BY <1>6 DEF wakeVars
    <3> QED BY <3>1, <3>2, StopStepLeaves
  <2>4. held' \in [Cron -> Nat] /\ waiters' \in [Manual -> Seq(Nat)] /\ UNCHANGED <<permit, flagged>>
    BY <1>6 DEF FiresInv, TriggerTypes, wakeVars
  <2>5. ManagerTypes'
    BY <1>3 DEF FiresInv, TriggerTypes, ManagerTypes
  <2>6. runs \in [Trigger -> Seq(Run)] /\ runs[t] \in Seq(Run)
    BY <2>2 DEF FiresInv, TriggerTypes
  <2> DEFINE k == held[t]
             r == [runs[t][k] EXCEPT !.task = "ended"]
  <2>7. CASE k # 0 /\ k \in DOMAIN runs[t]
    <3>1. runs' = [runs EXCEPT ![t] = [runs[t] EXCEPT ![k] = r]]
      BY <1>6, <2>6, <2>7
    <3>2. runs[t][k] \in Run
      BY <2>6, <2>7
    <3>3. RunFits(t, r) /\ r.jobs = runs[t][k].jobs
      BY <2>2, <3>2 DEF RunFits, Run
    <3> HIDE DEF k, r
    <3> QED BY <1>3, <2>2, <2>3, <2>4, <2>5, <2>7, <3>1, <3>3, QuietKeepsFires
  <2>8. CASE k = 0 \/ k \notin DOMAIN runs[t]
    <3>1. k \notin DOMAIN runs[t] => [runs[t] EXCEPT ![k].task = "ended"] = runs[t]
      BY <2>6
    <3>2. runs' = runs
      BY <1>6, <2>6, <2>8, <3>1
    <3> QED BY <1>3, <2>3, <2>4, <2>5, <3>2 DEF FiresInv, TriggerTypes, ManagerTypes, RunsOfKind,
                                               FiredFor, DueFor
  <2> QED BY <2>7, <2>8
<1> QED BY <1>4, <1>5, <1>6 DEF StopNext

-----------------------------------------------------------------------------
\* The steps of the tasks, the schedules and the forwarders.
LEMMA FireKeepsFires ==
  ASSUME FiresInv, NEW t \in Manual, Fire(t)
  PROVE  FiresInv'
<1>1. NotifyOne(t) /\ fires' = [fires EXCEPT ![t] = @ + 1]
      /\ UNCHANGED <<registered, starting, stopping, flagged, held, sent>>
  BY DEF Fire, callVars
<1>2. fires' \in [Trigger -> Nat]
  <2>1. fires \in [Trigger -> Nat] /\ t \in Trigger
    BY DEF FiresInv, TriggerTypes, Trigger
  <2> QED BY <1>1, <2>1
<1> QED BY <1>1, <1>2, NotifyKeepsFires

LEMMA ComeDueKeepsFires ==
  ASSUME FiresInv, NEW t \in Cron, NEW k \in DOMAIN runs[t], ComeDue(t, k)
  PROVE  FiresInv'
<1> DEFINE r == [runs[t][k] EXCEPT !.jobs = @ + 1]
<1>1. /\ t \in Trigger /\ t \notin Manual /\ runs \in [Trigger -> Seq(Run)] /\ runs[t] \in Seq(Run)
      /\ fires \in [Trigger -> Nat]
  BY TriggerAssumption DEF FiresInv, TriggerTypes, Trigger
<1>2. /\ fires' = [fires EXCEPT ![t] = @ + 1] /\ runs[t][k].task = "ticking"
      /\ runs' = [runs EXCEPT ![t][k].jobs = @ + 1]
      /\ UNCHANGED <<callVars, wakeVars, held, sent>>
  BY DEF ComeDue
<1>3. runs' = [runs EXCEPT ![t] = [runs[t] EXCEPT ![k] = r]]
  BY <1>1, <1>2
<1>4. runs[t][k] \in Run /\ r \in Run /\ r.jobs = runs[t][k].jobs + 1 /\ r.task = "ticking"
  <2>1. runs[t][k] \in Run
    BY <1>1
  <2> QED BY <1>2, <2>1 DEF Run
<1>5. RunFits(t, r)
  BY <1>1, <1>4 DEF RunFits
<1> HIDE DEF r
<1>6. /\ runs' \in [Trigger -> Seq(Run)] /\ RunsOfKind'
      /\ runs'[t] = [runs[t] EXCEPT ![k] = r]
      /\ \A u \in Trigger : u # t => runs'[u] = runs[u]
  BY <1>1, <1>3, <1>5, RunChanges
<1>7. fires' \in [Trigger -> Nat] /\ \A u \in Trigger : fires'[u] = IF u = t THEN fires[t] + 1 ELSE fires[u]
  BY <1>1, <1>2
<1>8. TriggerTypes' /\ FlagFirst'
  BY <1>2, <1>6, <1>7 DEF FiresInv, TriggerTypes, FlagFirst, callVars, wakeVars
<1>9. ASSUME NEW u \in Manual PROVE FiredFor(u)'
  <2>1. u # t /\ u \in Trigger
    BY <1>1 DEF Trigger
  <2>2. runs'[u] = runs[u] /\ fires'[u] = fires[u]
    BY <1>6, <1>7, <2>1
  <2> QED BY <1>2, <2>2 DEF FiresInv, FiredFor, wakeVars
<1>10. ASSUME NEW u \in Cron PROVE DueFor(u)'
  <2>1. DueFor(u)
    BY DEF FiresInv
  <2>2. CASE u # t
    <3>1. runs'[u] = runs[u] /\ fires'[u] = fires[u]
      BY <1>6, <1>7, <2>2 DEF Trigger
    <3> QED BY <1>2, <2>1, <3>1 DEF DueFor
  <2>3. CASE u = t
    <3> DEFINE q == runs[t]
               old == Cardinality(Jobs(q))
    <3>1. q \in Seq(Run) /\ k \in DOMAIN q /\ r \in Run /\ IsFiniteSet(Jobs(q))
          /\ r.jobs \in {q[k].jobs, q[k].jobs + 1, q[k].jobs - 1}
      BY <1>1, <1>4, <2>1, <2>3 DEF DueFor
    <3>2. q[k].jobs \in Nat /\ r.jobs = q[k].jobs + 1
      BY <1>4 DEF Run
    <3> HIDE DEF q
    <3>3. IsFiniteSet(Jobs([q EXCEPT ![k] = r])) /\ old \in Nat
          /\ Cardinality(Jobs([q EXCEPT ![k] = r])) = old + (r.jobs - q[k].jobs)
      BY <3>1, JobsOfChange
    <3>4. IsFiniteSet(Jobs(runs'[t])) /\ Cardinality(Jobs(runs'[t])) = old + 1
      BY <1>6, <3>2, <3>3 DEF q
    <3>5. sent[t] \in Nat /\ fires[t] \in Nat /\ sent[t] + old <= fires[t]
      BY <2>1, <2>3 DEF q, DueFor, FiresInv, TriggerTypes, Trigger
    <3>6. sent[t] + (old + 1) <= fires[t] + 1
      BY <3>3, <3>5
    <3> QED BY <1>2, <1>7, <2>3, <3>4, <3>6 DEF DueFor, Trigger
  <2> QED BY <2>2, <2>3
<1> QED BY <1>6, <1>8, <1>9, <1>10 DEF FiresInv

LEMMA AwaitKeepsFires ==
  ASSUME FiresInv, NEW t \in Trigger, NEW k \in DOMAIN runs[t], AwaitFire(t, k)
  PROVE  FiresInv'
<1>1. /\ runs \in [Trigger -> Seq(Run)] /\ runs[t] \in Seq(Run) /\ runs[t][k] \in Run
      /\ runs[t][k].task = "new"
      /\ UNCHANGED <<callVars, flagged, held, fires, sent>>
  BY DEF FiresInv, TriggerTypes, AwaitFire, countVars
<1>2. t \in Manual /\ t \notin Cron /\ runs[t][k].jobs = 0
  BY <1>1, TriggerAssumption DEF FiresInv, RunsOfKind, Trigger
<1>3. CASE ~permit[t]
  <2> DEFINE r == [runs[t][k] EXCEPT !.task = "waiting"]
  <2>1. /\ waiters' = [waiters EXCEPT ![t] = Append(@, k)] /\ permit' = permit
        /\ runs' = [runs EXCEPT ![t][k].task = "waiting"]
    BY <1>3 DEF AwaitFire
  <2>2. runs' = [runs EXCEPT ![t] = [runs[t] EXCEPT ![k] = r]]
    BY <1>1, <2>1
  <2>3. RunFits(t, r) /\ ~WillSend(r, flagged[t])
    BY <1>1, <1>2 DEF RunFits, Run, WillSend
  <2>4. waiters' \in [Manual -> Seq(Nat)]
    <3>1. k \in Nat
      BY <1>1
    <3> QED BY <1>2, <2>1, <3>1 DEF FiresInv, TriggerTypes
  <2>5. ManagerTypes' /\ held' \in [Cron -> Nat] /\ UNCHANGED stopping
    BY <1>1 DEF FiresInv, TriggerTypes, ManagerTypes, callVars
  <2> HIDE DEF r
  <2> QED BY <1>1, <1>2, <2>1, <2>2, <2>3, <2>4, <2>5, QuietKeepsFires
<1>4. CASE permit[t]
  <2> DEFINE r == [runs[t][k] EXCEPT !.task = "woken"]
  <2>1. /\ permit' = [permit EXCEPT ![t] = FALSE] /\ waiters' = waiters
        /\ runs' = [runs EXCEPT ![t][k].task = "woken"]
    BY <1>4 DEF AwaitFire
  <2>2. runs' = [runs EXCEPT ![t] = [runs[t] EXCEPT ![k] = r]]
    BY <1>1, <2>1
  <2>3. RunFits(t, r) /\ r \in Run /\ (WillSend(r, flagged[t]) <=> ~flagged[t])
        /\ ~WillSend(runs[t][k], flagged[t])
    BY <1>1, <1>2 DEF RunFits, Run, WillSend
  <2> HIDE DEF r
  <2>4. /\ runs' \in [Trigger -> Seq(Run)] /\ RunsOfKind'
        /\ runs'[t] = [runs[t] EXCEPT ![k] = r]
        /\ \A u \in Trigger : u # t => runs'[u] = runs[u]
    BY <2>2, <2>3, RunChanges
  <2>5. permit' \in [Manual -> BOOLEAN] /\ permit'[t] = FALSE
        /\ \A u \in Manual : u # t => permit'[u] = permit[u]
    BY <1>2, <2>1 DEF FiresInv, TriggerTypes
  <2>6. TriggerTypes' /\ FlagFirst'
    BY <1>1, <2>1, <2>4, <2>5 DEF FiresInv, TriggerTypes, FlagFirst, callVars
  <2>7. ASSUME NEW u \in Manual PROVE FiredFor(u)'
    <3>1. FiredFor(u)
      BY DEF FiresInv
    <3>2. CASE u # t
      <4>1. runs'[u] = runs[u] /\ permit'[u] = permit[u]
        BY <2>4, <2>5, <3>2 DEF Trigger
      <4> QED BY <1>1, <3>1, <4>1 DEF FiredFor
    <3>3. CASE u = t
      <4> DEFINE q == [runs[t] EXCEPT ![k] = r]
                 old == Cardinality(Sending(runs[t], flagged[t]))
                 new == Cardinality(Sending(q, flagged[t]))
                 free == IF ~flagged[t] THEN 1 ELSE 0
      <4>1. ASSUME NEW stopped
            PROVE  Cardinality(Sending(q, stopped)) + (IF WillSend(runs[t][k], stopped) THEN 1 ELSE 0)
                     = Cardinality(Sending(runs[t], stopped)) + (IF WillSend(r, stopped) THEN 1 ELSE 0)
        BY <1>1, <2>3, SendingOfChange
      <4>2. new + 0 = old + free
        BY <2>3, <4>1
      <4>3. FiredFor(t) <=> sent[t] + old + free <= fires[t]
        BY <1>4 DEF FiredFor
      <4>4. FiredFor(t)' <=> sent[t] + new + 0 <= fires[t]
        BY <1>1, <2>4, <2>5 DEF FiredFor
      <4>5. sent[t] \in Nat /\ fires[t] \in Nat /\ old \in Nat /\ new \in Nat /\ free \in Nat
        <5>1. runs'[t] = q /\ runs'[t] \in Seq(Run)
          BY <2>4
        <5> QED BY <1>1, <5>1, SendingIsFinite DEF FiresInv, TriggerTypes
      <4> HIDE DEF q, old, new, free
      <4>6. sent[t] + old + free <= fires[t] => sent[t] + new + 0 <= fires[t]
        BY <4>2, <4>5
      <4> QED BY <3>1, <3>3, <4>3, <4>4, <4>6
    <3> QED BY <3>2, <3>3
  <2>8. ASSUME NEW u \in Cron PROVE DueFor(u)'
    <3>1. u # t /\ u \in Trigger
      BY <1>2 DEF Trigger
    <3>2. runs'[u] = runs[u]
      BY <2>4, <3>1
    <3> QED BY <1>1, <3>2 DEF FiresInv, DueFor
  <2> QED BY <2>4, <2>6, <2>7, <2>8 DEF FiresInv
<1> QED BY <1>3, <1>4

\* A step that changes one run and sends nothing.
LEMMA QuietStep ==
  ASSUME FiresInv, NEW t \in Trigger, NEW k \in DOMAIN runs[t], NEW r, r \in Run,
         runs' = [runs EXCEPT ![t] = [runs[t] EXCEPT ![k] = r]],
         r.task \in {runs[t][k].task, "ended"}
           \/ (~flagged[t] /\ runs[t][k].task = "woken" /\ r.task = "sending"),
         r.jobs = runs[t][k].jobs \/ (r.jobs = runs[t][k].jobs - 1 /\ t \notin Manual),
         UNCHANGED <<callVars, wakeVars, held, sent, fires>>
  PROVE  FiresInv'
<1>1. RunFits(t, r)
  <2>1. t \in Manual => t \notin Cron /\ runs[t][k].jobs = 0 /\ runs[t][k].task # "ticking"
    BY TriggerAssumption DEF FiresInv, RunsOfKind
  <2>2. t \in Cron => t \notin Manual /\ runs[t][k].task \in {"ticking", "ended"}
    BY TriggerAssumption DEF FiresInv, RunsOfKind
  <2> QED BY <2>1, <2>2 DEF RunFits
<1>2. t \in Manual => (WillSend(r, flagged[t]) => WillSend(runs[t][k], flagged[t]))
  BY DEF WillSend
<1>3. t \in Cron => r.jobs \in {runs[t][k].jobs, runs[t][k].jobs - 1}
  OBVIOUS
<1>4. /\ ManagerTypes' /\ UNCHANGED <<permit, flagged, sent, fires, stopping>>
      /\ waiters' \in [Manual -> Seq(Nat)] /\ held' \in [Cron -> Nat]
  BY DEF FiresInv, TriggerTypes, ManagerTypes, callVars, wakeVars
<1> QED BY <1>1, <1>2, <1>3, <1>4, QuietKeepsFires

LEMMA TaskKeepsFires ==
  ASSUME FiresInv, NEW t \in Trigger, NEW k \in DOMAIN runs[t],
         CheckFlag(t, k) \/ SendFire(t, k) \/ JobSends(t, k)
  PROVE  FiresInv'
<1>1. /\ runs \in [Trigger -> Seq(Run)] /\ runs[t] \in Seq(Run) /\ runs[t][k] \in Run
  BY DEF FiresInv, TriggerTypes
<1>2. UNCHANGED <<callVars, wakeVars, held, fires>>
  BY DEF CheckFlag, SendFire, JobSends, countVars
<1>3. CASE CheckFlag(t, k)
  <2>1. runs[t][k].task = "woken" /\ UNCHANGED sent
    BY <1>3 DEF CheckFlag, countVars
  <2>2. CASE flagged[t]
    <3> DEFINE r == [runs[t][k] EXCEPT !.task = "ended"]
    <3>1. runs' = [runs EXCEPT ![t] = [runs[t] EXCEPT ![k] = r]]
      BY <1>1, <1>3, <2>2 DEF CheckFlag
    <3>2. r \in Run /\ r.task = "ended" /\ r.jobs = runs[t][k].jobs
      BY <1>1 DEF Run
    <3> HIDE DEF r
    <3> QED BY <1>2, <2>1, <3>1, <3>2, QuietStep
  <2>3. CASE ~flagged[t]
    <3> DEFINE r == [runs[t][k] EXCEPT !.task = "sending", !.fire = fires[t]]
    <3>1. runs' = [runs EXCEPT ![t] = [runs[t] EXCEPT ![k] = r]]
      BY <1>1, <1>3, <2>3 DEF CheckFlag
    <3>2. r \in Run /\ r.task = "sending" /\ r.jobs = runs[t][k].jobs
      <4>1. fires[t] \in Nat
        BY DEF FiresInv, TriggerTypes
      <4> QED BY <1>1, <4>1 DEF Run
    <3> HIDE DEF r
    <3> QED BY <1>2, <2>1, <2>3, <3>1, <3>2, QuietStep
  <2> QED BY <2>2, <2>3
<1>4. CASE SendFire(t, k)
  <2> DEFINE failed == [runs[t][k] EXCEPT !.task = "ended"]
             r == [runs[t][k] EXCEPT !.task = "new", !.inner = @ + 1]
  <2>1. runs[t][k].task = "sending" /\ t \in Manual /\ t \notin Cron /\ runs[t][k].jobs = 0
    BY <1>4, TriggerAssumption DEF SendFire, FiresInv, RunsOfKind, Trigger
  <2>2. CASE runs' = [runs EXCEPT ![t][k] = failed] /\ UNCHANGED sent
    <3>1. runs' = [runs EXCEPT ![t] = [runs[t] EXCEPT ![k] = failed]]
      BY <1>1, <2>2
    <3>2. failed \in Run /\ failed.task = "ended" /\ failed.jobs = runs[t][k].jobs
      BY <1>1 DEF Run
    <3> HIDE DEF failed
    <3> QED BY <1>2, <2>2, <3>1, <3>2, QuietStep
  <2>3. CASE runs' = [runs EXCEPT ![t][k] = r] /\ sent' = [sent EXCEPT ![t] = @ + 1]
    <3>1. runs' = [runs EXCEPT ![t] = [runs[t] EXCEPT ![k] = r]]
      BY <1>1, <2>3
    <3>2. r \in Run /\ r.task = "new" /\ r.jobs = runs[t][k].jobs
      <4>1. runs[t][k].inner + 1 \in Nat
        BY <1>1 DEF Run
      <4> QED BY <1>1, <4>1 DEF Run
    <3>3. RunFits(t, r) /\ ~WillSend(r, flagged[t]) /\ WillSend(runs[t][k], flagged[t])
      BY <2>1, <3>2 DEF RunFits, WillSend
    <3> HIDE DEF r
    <3> QED BY <1>2, <2>1, <2>3, <3>1, <3>3, SentKeepsFires
  <2>4. [[runs[t][k] EXCEPT !.task = "new"] EXCEPT !.inner = @ + 1] = r
    BY <1>1 DEF Run
  <2> QED BY <1>4, <2>2, <2>3, <2>4 DEF SendFire, SendEvent
<1>5. CASE JobSends(t, k)
  <2> DEFINE done == [runs[t][k] EXCEPT !.jobs = @ - 1]
             r == [done EXCEPT !.inner = @ + 1]
  <2>1. runs[t][k].jobs > 0 /\ runs[t][k].jobs \in Nat
    BY <1>1, <1>5 DEF JobSends, Run
  <2>2. t \in Cron /\ t \notin Manual /\ runs[t][k].task \in {"ticking", "ended"}
    BY <2>1, TriggerAssumption DEF FiresInv, RunsOfKind, Trigger
  <2>3. done \in Run /\ done.task = runs[t][k].task /\ done.jobs = runs[t][k].jobs - 1
    <3>1. runs[t][k].jobs - 1 \in Nat
      BY <2>1
    <3> QED BY <1>1, <3>1 DEF Run
  <2>4. r \in Run /\ r.task = runs[t][k].task /\ r.jobs = runs[t][k].jobs - 1
    <3>1. done.inner + 1 \in Nat
      BY <2>3 DEF Run
    <3> QED BY <2>3, <3>1 DEF Run
  <2> HIDE DEF done, r
  <2>5. CASE runs' = [runs EXCEPT ![t][k] = done] /\ UNCHANGED sent
    <3>1. runs' = [runs EXCEPT ![t] = [runs[t] EXCEPT ![k] = done]]
      BY <1>1, <2>5
    <3> QED BY <1>2, <2>2, <2>3, <2>5, <3>1, QuietStep
  <2>6. CASE runs' = [runs EXCEPT ![t][k] = r] /\ sent' = [sent EXCEPT ![t] = @ + 1]
    <3>1. runs' = [runs EXCEPT ![t] = [runs[t] EXCEPT ![k] = r]]
      BY <1>1, <2>6
    <3>2. RunFits(t, r)
      BY <2>2, <2>4 DEF RunFits
    <3> QED BY <1>2, <2>2, <2>4, <2>6, <3>1, <3>2, SentKeepsFires
  <2> QED BY <1>5, <2>5, <2>6 DEF JobSends, SendEvent, done, r
<1> QED BY <1>3, <1>4, <1>5

LEMMA ForwarderKeepsFires ==
  ASSUME FiresInv, NEW t \in Trigger, NEW k \in DOMAIN runs[t], Forwarder(t, k)
  PROVE  FiresInv'
<1>1. /\ runs \in [Trigger -> Seq(Run)] /\ runs[t] \in Seq(Run) /\ runs[t][k] \in Run
  BY DEF FiresInv, TriggerTypes
<1>2. UNCHANGED <<callVars, wakeVars, held, sent, fires>>
  BY DEF Forwarder, TakeEvent, ForwardEvent, ForwarderEnds, countVars
<1>3. CASE UNCHANGED runs
  BY <1>2, <1>3 DEF FiresInv, TriggerTypes, FlagFirst, RunsOfKind, FiredFor, DueFor, callVars, wakeVars
<1>4. ASSUME NEW r \in Run, r.task = runs[t][k].task, r.jobs = runs[t][k].jobs,
             runs' = [runs EXCEPT ![t] = [runs[t] EXCEPT ![k] = r]]
      PROVE  FiresInv'
  BY <1>2, <1>4, QuietStep
<1>5. ASSUME NEW inner \in Nat, NEW forwarder \in {"idle", "holding", "ended"},
             runs' = [runs EXCEPT ![t][k].inner = inner, ![t][k].forwarder = forwarder]
      PROVE  FiresInv'
  <2> DEFINE r == [runs[t][k] EXCEPT !.inner = inner, !.forwarder = forwarder]
  <2>1. runs' = [runs EXCEPT ![t] = [runs[t] EXCEPT ![k] = r]]
    BY <1>1, <1>5
  <2>2. r \in Run /\ r.task = runs[t][k].task /\ r.jobs = runs[t][k].jobs
    BY <1>1 DEF Run
  <2> HIDE DEF r
  <2> QED BY <1>4, <2>1, <2>2
<1>6. ASSUME NEW forwarder \in {"idle", "holding", "ended"},
             runs' = [runs EXCEPT ![t][k].forwarder = forwarder]
      PROVE  FiresInv'
  <2> DEFINE r == [runs[t][k] EXCEPT !.forwarder = forwarder]
  <2>1. runs' = [runs EXCEPT ![t] = [runs[t] EXCEPT ![k] = r]]
    BY <1>1, <1>6
  <2>2. r \in Run /\ r.task = runs[t][k].task /\ r.jobs = runs[t][k].jobs
    BY <1>1 DEF Run
  <2> HIDE DEF r
  <2> QED BY <1>4, <2>1, <2>2
<1>7. CASE TakeEvent(t, k)
  <2>1. runs[t][k].inner \in Nat /\ runs[t][k].inner > 0
    BY <1>1, <1>7 DEF TakeEvent, Run
  <2>2. runs[t][k].inner - 1 \in Nat
    BY <2>1
  <2>3. runs' = [runs EXCEPT ![t][k].inner = runs[t][k].inner - 1, ![t][k].forwarder = "holding"]
    BY <1>1, <1>7 DEF TakeEvent
  <2> QED BY <1>5, <2>2, <2>3
<1>8. CASE ForwardEvent(t, k)
  <2>1. CASE ~channel.open
    <3>1. runs' = [runs EXCEPT ![t][k].inner = 0, ![t][k].forwarder = "ended"]
      BY <1>8, <2>1 DEF ForwardEvent
    <3> QED BY <1>5, <3>1
  <2>2. CASE channel.open
    BY <1>6, <1>8, <2>2 DEF ForwardEvent
  <2> QED BY <2>1, <2>2
<1>9. CASE ForwarderEnds(t, k)
  BY <1>6, <1>9 DEF ForwarderEnds
<1> QED BY <1>7, <1>8, <1>9 DEF Forwarder

LEMMA NextFiresInv == FiresInv /\ [TriggerNext]_trgVars => FiresInv'
<1> SUFFICES ASSUME FiresInv, [TriggerNext]_trgVars PROVE FiresInv'
  OBVIOUS
<1>1. CASE UNCHANGED <<callVars, wakeVars, held, runs, countVars>>
  BY <1>1 DEF FiresInv, TriggerTypes, FlagFirst, RunsOfKind, FiredFor, DueFor, callVars, wakeVars,
              countVars
<1>2. CASE Receive \/ CloseChannel \/ UNCHANGED trgVars
  BY <1>1, <1>2 DEF Receive, CloseChannel, trgVars, callVars, wakeVars, countVars
<1>3. CASE TriggerSystem
  <2>1. ASSUME NEW t \in Trigger, NEW k \in DOMAIN runs[t], Task(t, k) \/ Forwarder(t, k)
        PROVE  FiresInv'
    BY <2>1, AwaitKeepsFires, TaskKeepsFires, ForwarderKeepsFires DEF Task
  <2> QED BY <1>2, <1>3, <2>1, StartKeepsFires, StopKeepsFires DEF TriggerSystem
<1> QED BY <1>2, <1>3, ManagerKeepsFires, StopAllKeepsFires, FireKeepsFires, ComeDueKeepsFires
        DEF TriggerNext

(***************************************************************************)
(* A trigger's runs never send more events than it was fired, however      *)
(* often it is started and stopped.                                        *)
(***************************************************************************)
THEOREM EventsWereFired == TriggerSpec => []EventsAreFired
<1>1. FiresInv => EventsAreFired
  <2> SUFFICES ASSUME FiresInv, NEW t \in Trigger PROVE sent[t] <= fires[t]
    BY DEF EventsAreFired
  <2>1. runs[t] \in Seq(Run) /\ sent[t] \in Nat /\ fires[t] \in Nat
    BY DEF FiresInv, TriggerTypes
  <2>2. CASE t \in Manual
    <3> DEFINE n == Cardinality(Sending(runs[t], flagged[t]))
               kept == IF permit[t] /\ ~flagged[t] THEN 1 ELSE 0
    <3>1. n \in Nat /\ kept \in Nat
      BY <2>1, SendingIsFinite
    <3>2. sent[t] + n + kept <= fires[t]
      BY <2>2 DEF FiresInv, FiredFor
    <3> HIDE DEF n, kept
    <3> QED BY <2>1, <3>1, <3>2
  <2>3. CASE t \in Cron
    <3> DEFINE n == Cardinality(Jobs(runs[t]))
    <3>1. n \in Nat /\ sent[t] + n <= fires[t]
      BY <2>3, FS_CardinalityType DEF FiresInv, DueFor
    <3> HIDE DEF n
    <3> QED BY <2>1, <3>1
  <2> QED BY <2>2, <2>3 DEF Trigger
<1> QED BY <1>1, InitFiresInv, NextFiresInv, PTL DEF TriggerSpec

-----------------------------------------------------------------------------
(***************************************************************************)
(* The terminal, for any steps, any size of the buffer and any number of   *)
(* selections.                                                             *)
(***************************************************************************)
Stage == {"disposing", "initialising", "done", "dropped"}
TaskRecord == [stage : Stage, id : Step, ran : BOOLEAN]
ScriptRecord ==
  [op : {"init", "dispose", "write"}, id : Step, bytes : Seq(Nat), task : 0..Len(tasks)]

TerminalTypes ==
  /\ produced \in [Step -> Nat]
  /\ shown \in Step \cup {None} /\ firstId \in Step \cup {None}
  /\ shown # None => firstId # None
  /\ mountDue => shown # None
  /\ mountDue \in BOOLEAN /\ written \in Nat /\ ready \in BOOLEAN /\ overtaken \in BOOLEAN
  /\ tasks \in Seq(TaskRecord) /\ webview \in Seq(ScriptRecord)
  /\ xterm \in [Step -> [open : BOOLEAN, bytes : Seq(Nat)]]

Live(t) == tasks[t].stage \in {"disposing", "initialising"}
NoneLive == \A t \in DOMAIN tasks : ~Live(t)

\* The component was rendered, and its container is not in the page yet.
Awaited == mountDue /\ ~ready /\ written = 0 /\ NoneLive

\* One task creates the terminal.  Its script is the last that was handed over, and when
\* it has run, so have all others.
CreatedBy(t) ==
  /\ Live(t) /\ tasks[t].id = shown
  /\ \A u \in DOMAIN tasks : Live(u) => u = t
  /\ tasks[t].ran => webview = <<>>
  /\ \A i \in DOMAIN webview : webview[i].task = t => i = Len(webview)
  /\ tasks[t].stage = "initialising" =>
       /\ \A i \in DOMAIN webview : webview[i].task = t => webview[i].op = "init" /\ webview[i].id = shown
       /\ tasks[t].ran => xterm[shown] = [open |-> TRUE, bytes |-> <<>>]

Creating ==
  ~mountDue /\ ~ready /\ written = 0 /\ \E t \in DOMAIN tasks : CreatedBy(t)

\* The terminal is there: what was written to it is in it or on its way to it.
Rising(q) == \A i, j \in DOMAIN q : i < j => q[i] < q[j]

OnlyWrites ==
  \A i \in DOMAIN webview :
    webview[i].op = "write" /\ webview[i].id = shown /\ webview[i].task = 0 /\ webview[i].bytes # <<>>

\* What is on its way.
Chunks == [i \in DOMAIN webview |-> webview[i].bytes]

\* All is in order, on its way as well.
Ascends(bytes, chunks) ==
  /\ Rising(bytes)
  /\ \A i \in DOMAIN chunks : Rising(chunks[i])
  /\ \A i \in DOMAIN chunks : \A k \in DOMAIN bytes, l \in DOMAIN chunks[i] : bytes[k] < chunks[i][l]
  /\ \A i, j \in DOMAIN chunks : i < j =>
       \A k \in DOMAIN chunks[i], l \in DOMAIN chunks[j] : chunks[i][k] < chunks[j][l]

\* Nothing is newer than the given byte.
UpTo(bytes, chunks, newest) ==
  /\ \A k \in DOMAIN bytes : bytes[k] <= newest
  /\ \A i \in DOMAIN chunks : \A k \in DOMAIN chunks[i] : chunks[i][k] <= newest

\* Each chunk goes on where the one before ends, and the last ends with the given byte.
From(bytes, first) == \A k \in DOMAIN bytes : bytes[k] = first + k
GoesOn(bytes, chunks, newest) ==
  /\ From(bytes, 0)
  /\ chunks = <<>> => Len(bytes) = newest
  /\ chunks # <<>> =>
       /\ chunks[1][1] = Len(bytes) + 1
       /\ \A i \in DOMAIN chunks : From(chunks[i], chunks[i][1] - 1)
       /\ \A i \in 1..(Len(chunks) - 1) : chunks[i + 1][1] = chunks[i][1] + Len(chunks[i])
       /\ chunks[Len(chunks)][1] + Len(chunks[Len(chunks)]) = newest + 1

Streaming ==
  /\ ~mountDue /\ ready /\ NoneLive /\ OnlyWrites
  /\ xterm[shown].open
  /\ written <= produced[shown]
  /\ Ascends(xterm[shown].bytes, Chunks)
  /\ written < OutputCap => UpTo(xterm[shown].bytes, Chunks, written)
  /\ produced[shown] <= OutputCap => GoesOn(xterm[shown].bytes, Chunks, written)

TerminalInv ==
  /\ TerminalTypes
  /\ shown = None => NoneLive
  /\ shown # None /\ ~overtaken => Awaited \/ Creating \/ Streaming

-----------------------------------------------------------------------------
LEMMA InitTerminalInv == TerminalInit => TerminalInv
<1> SUFFICES ASSUME TerminalInit PROVE TerminalInv
  OBVIOUS
<1>1. NoTerminal \in [open : BOOLEAN, bytes : Seq(Nat)]
  BY DEF NoTerminal
<1>2. TerminalTypes
  <2>1. xterm \in [Step -> [open : BOOLEAN, bytes : Seq(Nat)]] /\ produced \in [Step -> Nat]
    BY <1>1 DEF TerminalInit
  <2>2. tasks \in Seq(TaskRecord) /\ webview \in Seq(ScriptRecord)
    BY DEF TerminalInit
  <2> QED
    BY <2>1, <2>2 DEF TerminalInit, TerminalTypes
<1> QED
  BY <1>2 DEF TerminalInit, TerminalInv, NoneLive

\* A new task, and the script it awaits.
LEMMA TaskIsAdded ==
  ASSUME TerminalTypes, NEW script \in ScriptRecord', NEW task \in TaskRecord,
         tasks' = Append(tasks, task), webview' = Append(webview, script)
  PROVE  tasks' \in Seq(TaskRecord) /\ webview' \in Seq(ScriptRecord')
<1>1. Len(tasks') = Len(tasks) + 1 /\ Len(tasks) \in Nat
  BY DEF TerminalTypes
<1>2. ScriptRecord \subseteq ScriptRecord'
  BY <1>1, SMT DEF ScriptRecord
<1>3. webview \in Seq(ScriptRecord')
  BY <1>2 DEF TerminalTypes
<1> QED
  BY <1>3 DEF TerminalTypes

\* The script of a new task is the only one that it awaits.
LEMMA OnlyItsScript ==
  ASSUME TerminalTypes, NEW script, webview' = Append(webview, script)
  PROVE  \A i \in DOMAIN webview' : webview'[i].task = Len(tasks) + 1 => i = Len(webview')
<1>1. \A i \in 1..Len(webview) : webview'[i] = webview[i] /\ webview[i] \in ScriptRecord
  BY DEF TerminalTypes
<1>2. Len(tasks) \in Nat /\ \A i \in 1..Len(webview) : webview[i].task \in 0..Len(tasks)
  BY <1>1, SMTT(40) DEF ScriptRecord, TerminalTypes
<1> QED
  BY <1>1, <1>2 DEF TerminalTypes

LEMMA ProduceKeeps ==
  ASSUME TerminalInv, NEW s \in Step, Produce(s)
  PROVE  TerminalInv'
<1>1. TerminalTypes'
  BY TerminalAssumption DEF TerminalInv, TerminalTypes, Produce, ScriptRecord
<1>2. (shown = None => NoneLive)'
  BY DEF TerminalInv, Produce, NoneLive, Live
<1>3. ASSUME shown # None, ~overtaken
      PROVE  (Awaited \/ Creating \/ Streaming)'
  <2>1. CASE Awaited
    BY <2>1 DEF Awaited, Produce, NoneLive, Live
  <2>2. CASE Creating
    BY <2>2 DEF Creating, CreatedBy, Produce, Live
  <2>3. CASE Streaming
    <3>1. shown \in Step /\ produced[shown] \in Nat /\ produced'[shown] \in Nat
          /\ produced[shown] <= produced'[shown]
      BY <1>3, TerminalAssumption DEF TerminalInv, TerminalTypes, Produce
    <3>2. written <= produced'[shown] /\ (produced'[shown] <= OutputCap => produced[shown] <= OutputCap)
      BY <2>3, <3>1, TerminalAssumption DEF Streaming, TerminalInv, TerminalTypes
    <3> QED
      BY <2>3, <3>2 DEF Streaming, Produce, OnlyWrites, NoneLive, Live, Chunks
  <2> QED
    BY <1>3, <2>1, <2>2, <2>3 DEF TerminalInv
<1> QED
  BY <1>1, <1>2, <1>3 DEF TerminalInv, Produce

LEMMA MountKeeps ==
  ASSUME TerminalInv, NEW s \in Step, Mount(s)
  PROVE  TerminalInv'
<1>1. TerminalTypes'
  BY TerminalAssumption DEF TerminalInv, TerminalTypes, Mount, ScriptRecord, None
<1>2. NoneLive'
  BY DEF TerminalInv, Mount, NoneLive, Live
<1>3. Awaited'
  BY <1>2 DEF Awaited, Mount
<1> QED
  BY <1>1, <1>2, <1>3 DEF TerminalInv

LEMMA OnMountedKeeps ==
  ASSUME TerminalInv, OnMounted
  PROVE  TerminalInv'
<1> DEFINE task == [stage |-> "initialising", id |-> shown, ran |-> FALSE]
<1>0. PICK n \in Nat : n = Len(tasks) + 1
  BY DEF TerminalInv, TerminalTypes
<1> DEFINE script == Script("init", shown, <<>>, n)
<1>1. shown \in Step /\ tasks' = Append(tasks, task) /\ webview' = Append(webview, script)
  BY <1>0 DEF TerminalInv, TerminalTypes, OnMounted
<1>2. Len(tasks) \in Nat /\ Len(tasks') = n /\ DOMAIN tasks' = 1..n /\ DOMAIN tasks = 1..(n - 1)
      /\ Len(webview) \in Nat
  BY <1>0, <1>1 DEF TerminalInv, TerminalTypes
<1>3. task \in TaskRecord /\ script \in ScriptRecord'
  BY <1>1, <1>2 DEF TaskRecord, ScriptRecord, Script, Stage
<1>4. TerminalTypes'
  BY <1>1, <1>3, TaskIsAdded DEF TerminalInv, TerminalTypes, OnMounted
<1>5. tasks'[n] = task /\ \A u \in DOMAIN tasks : tasks'[u] = tasks[u]
  BY <1>1, <1>2 DEF TerminalInv, TerminalTypes
<1>6. ASSUME ~overtaken
      PROVE  Creating'
  <2>1. Awaited
    BY <1>6 DEF TerminalInv, TerminalTypes, OnMounted, Creating, Streaming
  <2>2. \A u \in DOMAIN tasks' : Live(u)' => u = n
    BY <2>1, <1>2, <1>5 DEF Awaited, NoneLive, Live
  <2>3. webview'[Len(webview')] = script
    BY <1>1 DEF TerminalInv, TerminalTypes
  <2>4. \A i \in DOMAIN webview' : webview'[i].task = n => i = Len(webview')
    BY <1>0, <1>1, OnlyItsScript DEF TerminalInv
  <2>5. CreatedBy(n)'
    BY <1>1, <1>2, <1>5, <2>2, <2>3, <2>4 DEF CreatedBy, Live, OnMounted, Script
  <2> QED
    BY <1>2, <2>5 DEF Creating, OnMounted
<1> QED
  BY <1>1, <1>4, <1>6, TerminalAssumption DEF TerminalInv, OnMounted, None

LEMMA SwitchKeeps ==
  ASSUME TerminalInv, NEW s \in Step, Switch(s)
  PROVE  TerminalInv'
<1> DEFINE task == [stage |-> "disposing", id |-> s, ran |-> FALSE]
<1>0. PICK n \in Nat : n = Len(tasks) + 1
  BY DEF TerminalInv, TerminalTypes
<1> DEFINE script == Script("dispose", shown, <<>>, n)
<1>1. shown \in Step /\ tasks' = Append(tasks, task) /\ webview' = Append(webview, script)
  BY <1>0 DEF TerminalInv, TerminalTypes, Switch
<1>2. Len(tasks) \in Nat /\ Len(tasks') = n /\ DOMAIN tasks' = 1..n /\ DOMAIN tasks = 1..(n - 1)
      /\ Len(webview) \in Nat
  BY <1>0, <1>1 DEF TerminalInv, TerminalTypes
<1>3. task \in TaskRecord /\ script \in ScriptRecord'
  BY <1>1, <1>2 DEF TaskRecord, ScriptRecord, Script, Stage
<1>4. TerminalTypes'
  BY <1>1, <1>3, TaskIsAdded, TerminalAssumption DEF TerminalInv, TerminalTypes, Switch, None
<1>5. tasks'[n] = task /\ \A u \in DOMAIN tasks : tasks'[u] = tasks[u]
  BY <1>1, <1>2 DEF TerminalInv, TerminalTypes
<1>6. ASSUME ~overtaken'
      PROVE  Creating'
  <2>1. Streaming
    BY <1>1, <1>6, TerminalAssumption DEF TerminalInv, Switch, Awaited, Creating, None
  <2>2. \A u \in DOMAIN tasks' : Live(u)' => u = n
    BY <2>1, <1>2, <1>5 DEF Streaming, NoneLive, Live
  <2>3. \A i \in DOMAIN webview' : webview'[i].task = n => i = Len(webview')
    BY <1>0, <1>1, OnlyItsScript DEF TerminalInv
  <2>4. CreatedBy(n)'
    BY <1>1, <1>2, <1>5, <2>2, <2>3 DEF CreatedBy, Live, Switch
  <2> QED
    BY <1>2, <2>1, <2>4 DEF Creating, Streaming, Switch
<1> QED
  BY <1>4, <1>6, TerminalAssumption DEF TerminalInv, Switch, None

LEMMA UnmountKeeps == ASSUME TerminalInv, Unmount PROVE TerminalInv'
<1>1. Len(tasks) \in Nat /\ DOMAIN tasks = 1..Len(tasks) /\ DOMAIN tasks' = DOMAIN tasks
  BY DEF TerminalInv, TerminalTypes, Unmount
<1>2. \A t \in DOMAIN tasks : tasks'[t] \in TaskRecord /\ tasks'[t].stage = "dropped"
  <2> SUFFICES ASSUME NEW t \in DOMAIN tasks
               PROVE  tasks'[t] \in TaskRecord /\ tasks'[t].stage = "dropped"
    OBVIOUS
  <2>1. tasks[t] \in TaskRecord /\ tasks'[t] = [tasks[t] EXCEPT !.stage = "dropped"]
    BY DEF TerminalInv, TerminalTypes, Unmount
  <2> QED
    BY <2>1 DEF TaskRecord, Stage
<1>3. tasks' \in Seq(TaskRecord) /\ Len(tasks') = Len(tasks)
  <2> DEFINE f == [t \in 1..Len(tasks) |-> [tasks[t] EXCEPT !.stage = "dropped"]]
  <2>1. tasks' = f
    BY <1>1 DEF Unmount
  <2>2. \A t \in 1..Len(tasks) : [tasks[t] EXCEPT !.stage = "dropped"] \in TaskRecord
    BY <1>1, <1>2 DEF Unmount
  <2> QED
    BY <1>1, <2>1, <2>2
<1>4. ScriptRecord' = ScriptRecord
  BY <1>3 DEF ScriptRecord
<1>5. webview' \in Seq(ScriptRecord)
  <2>1. firstId \in Step /\ Len(tasks) \in Nat
    BY DEF TerminalInv, TerminalTypes, Unmount
  <2>2. Script("dispose", firstId, <<>>, 0) \in ScriptRecord
    BY <1>1, <2>1 DEF ScriptRecord, Script
  <2>3. webview \in Seq(ScriptRecord)
    BY DEF TerminalInv, TerminalTypes
  <2>4. webview' = webview \/ webview' = Append(webview, Script("dispose", firstId, <<>>, 0))
    BY DEF Unmount
  <2> QED
    BY <2>2, <2>3, <2>4
<1>6. TerminalTypes'
  BY <1>3, <1>4, <1>5 DEF TerminalInv, TerminalTypes, Unmount
<1>7. NoneLive'
  BY <1>1, <1>2 DEF NoneLive, Live
<1> QED
  BY <1>6, <1>7 DEF TerminalInv, Unmount

-----------------------------------------------------------------------------
\* What a render writes: the bytes that the output is longer by.
LEMMA DeltaOfOutput ==
  ASSUME TerminalInv, NEW s \in Step, OutputLen(s) > written, NEW delta,
         delta = [i \in 1..(OutputLen(s) - written) |-> OutputByte(s, written + i)]
  PROVE  /\ produced[s] \in Nat /\ OutputLen(s) \in Nat
         /\ OutputLen(s) <= produced[s] /\ OutputLen(s) <= OutputCap
         /\ produced[s] <= OutputCap => OutputLen(s) = produced[s]
         /\ OutputLen(s) < OutputCap => OutputLen(s) = produced[s]
         /\ delta \in Seq(Nat) /\ Len(delta) = OutputLen(s) - written /\ delta # <<>>
         /\ \A i \in 1..Len(delta) : delta[i] = produced[s] - OutputLen(s) + written + i
<1>1. produced[s] \in Nat /\ written \in Nat /\ OutputCap \in Nat
  BY TerminalAssumption DEF TerminalInv, TerminalTypes
<1>2. /\ OutputLen(s) \in Nat /\ OutputLen(s) <= produced[s] /\ OutputLen(s) <= OutputCap
      /\ produced[s] <= OutputCap => OutputLen(s) = produced[s]
      /\ OutputLen(s) < OutputCap => OutputLen(s) = produced[s]
  BY <1>1 DEF OutputLen, Smaller
<1>3. PICK n \in Nat \ {0} : n = OutputLen(s) - written
  BY <1>1, <1>2
<1>4. \A i \in 1..n : OutputByte(s, written + i) = produced[s] - OutputLen(s) + written + i
  BY <1>1, <1>2 DEF OutputByte
<1>5. \A i \in 1..n : OutputByte(s, written + i) \in Nat
  <2> SUFFICES ASSUME NEW i \in 1..n PROVE OutputByte(s, written + i) \in Nat
    OBVIOUS
  <2>1. OutputByte(s, written + i) = produced[s] - OutputLen(s) + written + i
    BY <1>4
  <2> QED
    BY <1>1, <1>2, <2>1
<1>6. delta = [i \in 1..n |-> OutputByte(s, written + i)]
  BY <1>3
<1>7. delta \in Seq(Nat) /\ Len(delta) = n /\ delta # <<>>
  <2>1. delta \in [1..n -> Nat]
    BY <1>5, <1>6
  <2> QED
    BY <1>3, <2>1
<1> QED
  BY <1>1, <1>2, <1>3, <1>4, <1>6, <1>7

\* A chunk of what is newer than all that was written.
LEMMA ChunkInOrder ==
  ASSUME NEW bytes \in Seq(Nat), NEW chunks \in Seq(Seq(Nat)), NEW delta \in Seq(Nat), NEW newest \in Nat,
         Ascends(bytes, chunks), UpTo(bytes, chunks, newest),
         Rising(delta), \A l \in DOMAIN delta : newest < delta[l]
  PROVE  Ascends(bytes, Append(chunks, delta))
<1> DEFINE all == Append(chunks, delta)
           n == Len(chunks)
<1>1. n \in Nat /\ all \in Seq(Seq(Nat)) /\ DOMAIN all = 1..(n + 1) /\ all[n + 1] = delta
      /\ \A i \in 1..n : all[i] = chunks[i] /\ chunks[i] \in Seq(Nat)
  OBVIOUS
<1> HIDE DEF all, n
<1>2. DOMAIN chunks = 1..n
  BY DEF n
<1>3. \A i \in DOMAIN all : Rising(all[i])
  <2>1. \A i \in 1..n : Rising(chunks[i])
    BY <1>2 DEF Ascends
  <2>2. \A i \in 1..n : Rising(all[i])
    BY <1>1, <2>1, Zenon
  <2>3. Rising(all[n + 1])
    BY <1>1, Zenon
  <2> QED
    BY <1>1, <2>2, <2>3
<1>4. \A x \in Seq(Nat) : \A k \in DOMAIN x : x[k] \in Nat
  OBVIOUS
<1>5. \A i \in DOMAIN all : \A k \in DOMAIN bytes, l \in DOMAIN all[i] : bytes[k] < all[i][l]
  <2> SUFFICES ASSUME NEW i \in 1..(n + 1), NEW k \in DOMAIN bytes, NEW l \in DOMAIN all[i]
               PROVE  bytes[k] < all[i][l]
    BY <1>1
  <2>1. CASE i \in 1..n
    BY <1>1, <1>2, <2>1 DEF Ascends
  <2>2. CASE i = n + 1
    <3>1. bytes[k] <= newest /\ newest < all[i][l] /\ bytes[k] \in Nat /\ all[i][l] \in Nat
      BY <1>1, <1>4, <2>2 DEF UpTo
    <3> QED
      BY <3>1
  <2> QED
    BY <1>1, <2>1, <2>2
<1>6. \A i, j \in DOMAIN all : i < j =>
        \A k \in DOMAIN all[i], l \in DOMAIN all[j] : all[i][k] < all[j][l]
  <2> SUFFICES ASSUME NEW i \in 1..(n + 1), NEW j \in 1..(n + 1), i < j,
                      NEW k \in DOMAIN all[i], NEW l \in DOMAIN all[j]
               PROVE  all[i][k] < all[j][l]
    BY <1>1
  <2>0. i \in 1..n
    BY <1>1
  <2>1. CASE j \in 1..n
    BY <1>1, <1>2, <2>0, <2>1 DEF Ascends
  <2>2. CASE j = n + 1
    <3>1. all[i][k] <= newest /\ newest < all[j][l] /\ all[i][k] \in Nat /\ all[j][l] \in Nat
      BY <1>1, <1>2, <1>4, <2>0, <2>2 DEF UpTo
    <3> QED
      BY <3>1
  <2> QED
    BY <1>1, <2>1, <2>2
<1> QED
  BY <1>3, <1>5, <1>6 DEF Ascends, all

\* A chunk that goes on where all that was written ends.
LEMMA ChunkGoesOn ==
  ASSUME NEW bytes \in Seq(Nat), NEW chunks \in Seq(Seq(Nat)), NEW delta \in Seq(Nat), NEW newest \in Nat,
         GoesOn(bytes, chunks, newest), delta # <<>>, From(delta, newest)
  PROVE  GoesOn(bytes, Append(chunks, delta), newest + Len(delta))
<1> DEFINE all == Append(chunks, delta)
           n == Len(chunks)
<1>1. /\ n \in Nat /\ Len(all) = n + 1 /\ DOMAIN all = 1..(n + 1) /\ all[n + 1] = delta
      /\ \A i \in 1..n : all[i] = chunks[i]
      /\ all # <<>> /\ Len(bytes) \in Nat
  <2>1. all # <<>>
    BY AppendProperties
  <2> QED
    BY <2>1
<1>2. DOMAIN chunks = 1..n /\ (chunks = <<>> <=> n = 0)
  OBVIOUS
<1>3. Len(delta) \in Nat /\ delta[1] = newest + 1
  BY DEF From
<1> HIDE DEF all, n
<1>4. \A i \in DOMAIN all : From(all[i], all[i][1] - 1)
  <2>1. \A i \in 1..n : From(chunks[i], chunks[i][1] - 1)
    <3> SUFFICES ASSUME NEW i \in 1..n PROVE From(chunks[i], chunks[i][1] - 1)
      OBVIOUS
    <3>1. chunks # <<>> /\ i \in DOMAIN chunks
      BY <1>1, <1>2
    <3> QED
      BY <3>1, Zenon DEF GoesOn
  <2>2. \A i \in 1..n : From(all[i], all[i][1] - 1)
    BY <1>1, <2>1, Zenon
  <2>3. delta[1] - 1 = newest
    BY <1>3
  <2>4. From(all[n + 1], all[n + 1][1] - 1)
    BY <1>1, <2>3, Zenon
  <2> QED
    BY <1>1, <2>2, <2>4
<1>5. all[1][1] = Len(bytes) + 1
  BY <1>1, <1>2, <1>3 DEF GoesOn
<1>6. \A i \in 1..n : all[i + 1][1] = all[i][1] + Len(all[i])
  <2> SUFFICES ASSUME NEW i \in 1..n PROVE all[i + 1][1] = all[i][1] + Len(all[i])
    OBVIOUS
  <2>1. CASE i < n
    <3>1. i \in 1..(n - 1) /\ i + 1 \in 1..n
      BY <1>1, <2>1
    <3>2. chunks[i + 1][1] = chunks[i][1] + Len(chunks[i])
      BY <1>1, <1>2, <3>1 DEF GoesOn, n
    <3>3. all[i] = chunks[i] /\ all[i + 1] = chunks[i + 1]
      BY <1>1, <3>1
    <3> QED
      BY <3>2, <3>3
  <2>2. CASE i = n
    <3>1. chunks[n][1] + Len(chunks[n]) = newest + 1
      BY <1>1, <1>2, <2>2 DEF GoesOn, n
    <3>2. all[i] = chunks[n] /\ all[i + 1] = delta
      BY <1>1, <2>2
    <3> QED
      BY <1>3, <3>1, <3>2
  <2> QED
    BY <1>1, <2>1, <2>2
<1>7. all[Len(all)][1] + Len(all[Len(all)]) = newest + Len(delta) + 1
  BY <1>1, <1>3
<1>8. From(bytes, 0)
  BY DEF GoesOn
<1>9. \A i \in 1..(Len(all) - 1) : all[i + 1][1] = all[i][1] + Len(all[i])
  <2>1. Len(all) - 1 = n
    BY <1>1
  <2> QED
    BY <1>6, <2>1, Zenon
<1>10. GoesOn(bytes, all, newest + Len(delta))
  BY <1>1, <1>4, <1>5, <1>7, <1>8, <1>9, Zenon DEF GoesOn
<1> QED
  BY <1>10 DEF all

\* The oldest chunk arrives.
LEMMA ArrivesInOrder ==
  ASSUME NEW bytes \in Seq(Nat), NEW chunks \in Seq(Seq(Nat)), chunks # <<>>, Ascends(bytes, chunks)
  PROVE  Ascends(bytes \o Head(chunks), Tail(chunks))
<1> DEFINE first == Head(chunks)
           rest == Tail(chunks)
           joined == bytes \o first
           n == Len(chunks) - 1
           m == Len(bytes)
<1>1. /\ n \in Nat /\ DOMAIN rest = 1..n /\ DOMAIN chunks = 1..(n + 1)
      /\ \A i \in 1..n : rest[i] = chunks[i + 1]
      /\ first = chunks[1] /\ first \in Seq(Nat)
  OBVIOUS
<1>2. /\ m \in Nat /\ Len(first) \in Nat /\ DOMAIN joined = 1..(m + Len(first))
      /\ DOMAIN bytes = 1..m /\ DOMAIN first = 1..Len(first)
      /\ \A k \in 1..m : joined[k] = bytes[k]
      /\ \A k \in (m + 1)..(m + Len(first)) : joined[k] = first[k - m]
  BY <1>1
<1> HIDE DEF first, rest, joined, n, m
<1>3. Rising(joined)
  <2> SUFFICES ASSUME NEW i \in 1..(m + Len(first)), NEW j \in 1..(m + Len(first)), i < j
               PROVE  joined[i] < joined[j]
    BY <1>2 DEF Rising
  <2>1. CASE j \in 1..m
    <3>1. i \in DOMAIN bytes /\ j \in DOMAIN bytes /\ joined[i] = bytes[i] /\ joined[j] = bytes[j]
      BY <1>2, <2>1
    <3>2. Rising(bytes)
      BY DEF Ascends
    <3> QED
      BY <3>1, <3>2 DEF Rising
  <2>2. CASE i \in (m + 1)..(m + Len(first))
    <3>1. i - m \in DOMAIN first /\ j - m \in DOMAIN first /\ i - m < j - m
          /\ joined[i] = first[i - m] /\ joined[j] = first[j - m]
      BY <1>2, <2>2
    <3>2. Rising(first)
      <4>1. 1 \in DOMAIN chunks
        BY <1>1
      <4>2. Rising(chunks[1])
        BY <4>1 DEF Ascends
      <4> QED
        BY <1>1, <4>2, Zenon
    <3> QED
      BY <3>1, <3>2 DEF Rising
  <2>3. CASE i \in 1..m /\ j \in (m + 1)..(m + Len(first))
    <3>1. j - m \in DOMAIN first
      BY <1>2, <2>3
    <3>2. joined[i] = bytes[i] /\ joined[j] = first[j - m]
      BY <1>2, <2>3
    <3>3. 1 \in DOMAIN chunks /\ i \in DOMAIN bytes /\ j - m \in DOMAIN chunks[1]
      BY <1>1, <1>2, <2>3, <3>1
    <3>4. bytes[i] < chunks[1][j - m]
      BY <3>3 DEF Ascends
    <3> QED
      BY <1>1, <3>2, <3>4
  <2> QED
    BY <1>2, <2>1, <2>2, <2>3
<1>4. \A i \in DOMAIN rest : Rising(rest[i])
  <2>1. \A i \in 1..n : i + 1 \in DOMAIN chunks
    BY <1>1
  <2>2. \A i \in 1..n : Rising(chunks[i + 1])
    BY <2>1 DEF Ascends
  <2> QED
    BY <1>1, <2>2, Zenon
<1>5. \A i \in DOMAIN rest : \A k \in DOMAIN joined, l \in DOMAIN rest[i] : joined[k] < rest[i][l]
  <2> SUFFICES ASSUME NEW i \in 1..n, NEW k \in 1..(m + Len(first)), NEW l \in DOMAIN rest[i]
               PROVE  joined[k] < rest[i][l]
    BY <1>1, <1>2
  <2>0. i + 1 \in DOMAIN chunks /\ 1 \in DOMAIN chunks /\ 1 < i + 1 /\ rest[i] = chunks[i + 1]
    BY <1>1
  <2>1. CASE k \in 1..m
    BY <1>2, <2>0, <2>1 DEF Ascends
  <2>2. CASE k \in (m + 1)..(m + Len(first))
    <3>0. k - m \in DOMAIN first /\ joined[k] = first[k - m]
      BY <1>2, <2>2, SMTT(40)
    <3>1. k - m \in DOMAIN chunks[1] /\ joined[k] = chunks[1][k - m]
      BY <1>1, <3>0
    <3> QED
      BY <2>0, <3>1 DEF Ascends
  <2> QED
    BY <1>2, <2>1, <2>2
<1>6. \A i, j \in DOMAIN rest : i < j =>
        \A k \in DOMAIN rest[i], l \in DOMAIN rest[j] : rest[i][k] < rest[j][l]
  <2> SUFFICES ASSUME NEW i \in 1..n, NEW j \in 1..n, i < j
               PROVE  \A k \in DOMAIN rest[i], l \in DOMAIN rest[j] : rest[i][k] < rest[j][l]
    BY <1>1
  <2>1. i + 1 \in DOMAIN chunks /\ j + 1 \in DOMAIN chunks /\ i + 1 < j + 1
        /\ rest[i] = chunks[i + 1] /\ rest[j] = chunks[j + 1]
    BY <1>1
  <2> QED
    BY <2>1 DEF Ascends
<1> QED
  BY <1>3, <1>4, <1>5, <1>6 DEF Ascends, first, rest, joined

LEMMA ArrivesUpTo ==
  ASSUME NEW bytes \in Seq(Nat), NEW chunks \in Seq(Seq(Nat)), chunks # <<>>, NEW newest \in Nat,
         UpTo(bytes, chunks, newest)
  PROVE  UpTo(bytes \o Head(chunks), Tail(chunks), newest)
<1>1. Len(chunks) \in Nat \ {0} /\ Head(chunks) \in Seq(Nat) /\ Head(chunks) = chunks[1]
  OBVIOUS
<1>2. \A i \in DOMAIN Tail(chunks) : i + 1 \in DOMAIN chunks /\ Tail(chunks)[i] = chunks[i + 1]
  BY <1>1
<1>3. \A k \in DOMAIN (bytes \o Head(chunks)) :
        \/ k \in DOMAIN bytes /\ (bytes \o Head(chunks))[k] = bytes[k]
        \/ /\ k - Len(bytes) \in DOMAIN Head(chunks)
           /\ (bytes \o Head(chunks))[k] = Head(chunks)[k - Len(bytes)]
  BY <1>1
<1> QED
  BY <1>1, <1>2, <1>3, SMTT(40) DEF UpTo

LEMMA ArrivesAndGoesOn ==
  ASSUME NEW bytes \in Seq(Nat), NEW chunks \in Seq(Seq(Nat)), chunks # <<>>, NEW newest \in Nat,
         GoesOn(bytes, chunks, newest)
  PROVE  GoesOn(bytes \o Head(chunks), Tail(chunks), newest)
<1> DEFINE first == Head(chunks)
           rest == Tail(chunks)
           joined == bytes \o first
           n == Len(chunks) - 1
           m == Len(bytes)
<1>1. /\ n \in Nat /\ Len(chunks) = n + 1 /\ Len(rest) = n /\ DOMAIN rest = 1..n /\ DOMAIN chunks = 1..(n + 1)
      /\ \A i \in 1..n : rest[i] = chunks[i + 1]
      /\ first = chunks[1] /\ first \in Seq(Nat)
      /\ rest \in Seq(Seq(Nat))
  OBVIOUS
<1>2. /\ m \in Nat /\ Len(first) \in Nat /\ DOMAIN joined = 1..(m + Len(first)) /\ Len(joined) = m + Len(first)
      /\ DOMAIN bytes = 1..m /\ DOMAIN first = 1..Len(first)
      /\ \A k \in 1..m : joined[k] = bytes[k]
      /\ \A k \in (m + 1)..(m + Len(first)) : joined[k] = first[k - m]
  BY <1>1
<1>3. first[1] = m + 1 /\ From(first, first[1] - 1)
  <2>1. first[1] = m + 1
    BY <1>1 DEF GoesOn
  <2>2. 1 \in DOMAIN chunks
    BY <1>1
  <2>3. From(chunks[1], chunks[1][1] - 1)
    BY <2>2 DEF GoesOn
  <2> QED
    BY <1>1, <2>1, <2>3, Zenon
<1>4. \A i \in 1..n : chunks[i + 1][1] = chunks[i][1] + Len(chunks[i])
  BY <1>1 DEF GoesOn
<1>5. chunks[n + 1][1] + Len(chunks[n + 1]) = newest + 1
  BY <1>1 DEF GoesOn
<1>6. \A i \in 1..(n + 1) : From(chunks[i], chunks[i][1] - 1)
  BY <1>1 DEF GoesOn
<1>7. \A k \in 1..m : bytes[k] = 0 + k
  BY <1>2 DEF GoesOn, From
<1> HIDE DEF first, rest, joined, n, m
<1>8. From(joined, 0)
  <2> SUFFICES ASSUME NEW k \in 1..(m + Len(first)) PROVE joined[k] = 0 + k
    BY <1>2 DEF From
  <2>1. CASE k \in 1..m
    BY <1>2, <1>7, <2>1
  <2>2. CASE k \in (m + 1)..(m + Len(first))
    <3>1. k - m \in DOMAIN first /\ joined[k] = first[k - m]
      <4>1. k - m \in 1..Len(first)
        BY <1>2, <2>2
      <4>2. joined[k] = first[k - m]
        BY <1>2, <2>2
      <4> QED
        BY <1>2, <4>1, <4>2
    <3>2. first[k - m] = (first[1] - 1) + (k - m)
      BY <1>3, <3>1 DEF From
    <3> QED
      BY <1>2, <1>3, <3>1, <3>2
  <2> QED
    BY <1>2, <2>1, <2>2
<1>9. CASE n = 0
  <2>1. rest = <<>>
    BY <1>1, <1>9
  <2>2. Len(joined) = newest
    <3>1. n + 1 = 1
      BY <1>9
    <3>2. first[1] + Len(first) = newest + 1
      BY <1>1, <1>5, <3>1, Zenon
    <3>3. first[1] = m + 1
      BY <1>3
    <3>4. (m + 1) + Len(first) = newest + 1
      BY <3>2, <3>3
    <3>5. m \in Nat /\ Len(first) \in Nat /\ Len(joined) = m + Len(first) /\ newest \in Nat
      BY <1>2
    <3>6. \A x, y, z \in Nat : (x + 1) + y = z + 1 => x + y = z
      OBVIOUS
    <3> QED
      BY <3>4, <3>5, <3>6, Zenon
  <2> QED
    BY <1>8, <2>1, <2>2 DEF GoesOn, first, rest, joined
<1>10. CASE n > 0
  <2>0. rest # <<>> /\ 1 \in 1..n
    BY <1>1, <1>10
  <2>1. rest[1][1] = Len(joined) + 1
    <3>1. chunks[1 + 1][1] = chunks[1][1] + Len(chunks[1])
      BY <1>4, <2>0
    <3>2. rest[1] = chunks[1 + 1]
      BY <1>1, <2>0
    <3>3. rest[1][1] = first[1] + Len(first)
      BY <1>1, <3>1, <3>2, Zenon
    <3>4. first[1] = m + 1
      BY <1>3
    <3> QED
      BY <1>2, <3>3, <3>4
  <2>2. \A i \in DOMAIN rest : From(rest[i], rest[i][1] - 1)
    <3>1. \A i \in 1..n : i + 1 \in 1..(n + 1)
      BY <1>1
    <3>2. \A i \in 1..n : From(chunks[i + 1], chunks[i + 1][1] - 1)
      BY <1>6, <3>1
    <3> QED
      BY <1>1, <3>2, Zenon
  <2>3. \A i \in 1..(n - 1) : rest[i + 1][1] = rest[i][1] + Len(rest[i])
    <3> SUFFICES ASSUME NEW i \in 1..(n - 1) PROVE rest[i + 1][1] = rest[i][1] + Len(rest[i])
      OBVIOUS
    <3>1. i \in 1..n /\ i + 1 \in 1..n
      BY <1>1
    <3>2. rest[i] = chunks[i + 1] /\ rest[i + 1] = chunks[(i + 1) + 1]
      BY <1>1, <3>1
    <3>3. chunks[(i + 1) + 1][1] = chunks[i + 1][1] + Len(chunks[i + 1])
      BY <1>4, <3>1
    <3> QED
      BY <3>2, <3>3
  <2>4. rest[n][1] + Len(rest[n]) = newest + 1
    BY <1>1, <1>5, <1>10
  <2> QED
    BY <1>1, <1>8, <2>0, <2>1, <2>2, <2>3, <2>4 DEF GoesOn, first, rest, joined
<1> QED
  BY <1>1, <1>9, <1>10

-----------------------------------------------------------------------------
LEMMA ChunkTypes == TerminalTypes => Chunks \in Seq(Seq(Nat)) /\ Len(Chunks) = Len(webview)
<1> SUFFICES ASSUME TerminalTypes PROVE Chunks \in Seq(Seq(Nat)) /\ Len(Chunks) = Len(webview)
  OBVIOUS
<1>1. PICK n \in Nat : n = Len(webview) /\ DOMAIN webview = 1..n
  BY DEF TerminalTypes
<1>2. \A i \in 1..n : webview[i] \in ScriptRecord
  BY <1>1 DEF TerminalTypes
<1>3. \A i \in 1..n : webview[i].bytes \in Seq(Nat)
  BY <1>2 DEF ScriptRecord
<1>4. Chunks \in [1..n -> Seq(Nat)]
  BY <1>1, <1>3 DEF Chunks
<1> QED
  BY <1>1, <1>4

LEMMA WriteDeltaKeeps ==
  ASSUME TerminalInv, WriteDelta
  PROVE  TerminalInv'
<1>0. PICK delta : delta = [i \in 1..(OutputLen(shown) - written) |-> OutputByte(shown, written + i)]
  OBVIOUS
<1> DEFINE script == Script("write", shown, delta, 0)
<1>1. shown \in Step /\ ready /\ webview' = Append(webview, script) /\ OutputLen(shown) > written
      /\ written' = OutputLen(shown)
  BY <1>0 DEF TerminalInv, TerminalTypes, WriteDelta
<1>2. PICK p : p = produced[shown]
  OBVIOUS
<1>3. PICK n : n = OutputLen(shown)
  OBVIOUS
<1>4. /\ p \in Nat /\ n \in Nat /\ n <= p /\ n <= OutputCap
      /\ p <= OutputCap => n = p
      /\ n < OutputCap => n = p
      /\ delta \in Seq(Nat) /\ Len(delta) = n - written /\ delta # <<>>
      /\ \A i \in 1..Len(delta) : delta[i] = p - n + written + i
  BY <1>0, <1>1, <1>2, <1>3, DeltaOfOutput
<1>5. written \in Nat /\ OutputCap \in Nat /\ webview \in Seq(ScriptRecord) /\ Len(webview) \in Nat
      /\ Len(delta) \in Nat /\ xterm[shown].bytes \in Seq(Nat) /\ written' = n /\ written < n
  BY <1>1, <1>3, <1>4, TerminalAssumption, SMTT(40) DEF TerminalInv, TerminalTypes
<1>6. script \in ScriptRecord /\ ScriptRecord' = ScriptRecord
  BY <1>1, <1>4 DEF ScriptRecord, Script, TerminalInv, TerminalTypes, WriteDelta
<1>7. TerminalTypes'
  BY <1>1, <1>4, <1>5, <1>6, SMTT(40) DEF TerminalInv, TerminalTypes, WriteDelta
<1>8. ASSUME ~overtaken
      PROVE  Streaming'
  <2>1. Streaming
    BY <1>1, <1>8, TerminalAssumption DEF TerminalInv, Awaited, Creating, None
  <2>2. UpTo(xterm[shown].bytes, Chunks, written)
    BY <1>4, <1>5, <2>1 DEF Streaming
  <2>3. Chunks \in Seq(Seq(Nat)) /\ Chunks' \in Seq(Seq(Nat)) /\ Len(Chunks) = Len(webview)
        /\ Len(Chunks') = Len(webview')
    <3>1. TerminalTypes
      BY DEF TerminalInv
    <3>2. (Chunks \in Seq(Seq(Nat)) /\ Len(Chunks) = Len(webview))'
      BY <1>7, ChunkTypes, PTL
    <3> QED
      BY <3>1, <3>2, ChunkTypes
  <2>4. Chunks' = Append(Chunks, delta)
    <3>1. \A i \in 1..Len(webview) : webview'[i] = webview[i]
      BY <1>1, <1>5
    <3>2. Len(webview') = Len(webview) + 1 /\ webview'[Len(webview) + 1] = script
      BY <1>1, <1>5
    <3>3. script.bytes = delta
      BY DEF Script
    <3>4. DOMAIN webview = 1..Len(webview) /\ DOMAIN webview' = 1..(Len(webview) + 1)
      BY <1>1, <1>5
    <3>5. \A i \in 1..Len(webview) : Chunks'[i] = Chunks[i]
      BY <1>5, <3>1, <3>4 DEF Chunks
    <3>6. Chunks'[Len(webview) + 1] = delta
      BY <1>5, <3>2, <3>3, <3>4 DEF Chunks
    <3> QED
      BY <1>4, <1>5, <2>3, <3>2, <3>5, <3>6, SMTT(40)
  <2>5. OnlyWrites'
    <3>1. \A i \in 1..Len(webview) : webview'[i] = webview[i]
      BY <1>1, <1>5
    <3>2. DOMAIN webview' = 1..(Len(webview) + 1) /\ webview'[Len(webview) + 1] = script
      BY <1>1, <1>5
    <3>3. script.op = "write" /\ script.id = shown /\ script.task = 0 /\ script.bytes # <<>>
      BY <1>4 DEF Script
    <3> QED
      BY <1>5, <2>1, <3>1, <3>2, <3>3 DEF Streaming, OnlyWrites, WriteDelta
  <2>6. DOMAIN delta = 1..Len(delta) /\ \A i \in 1..Len(delta) : delta[i] = (p - n) + written + i
    BY <1>4
  <2>7. Rising(delta) /\ \A l \in DOMAIN delta : written < delta[l]
    <3>1. p - n \in Nat
      BY <1>4
    <3>2. \A i \in 1..Len(delta) : delta[i] = written + (p - n) + i
      BY <1>4, <1>5, <2>6
    <3> QED
      BY <1>5, <2>6, <3>1, <3>2 DEF Rising
  <2>8. Ascends(xterm[shown].bytes, Chunks')
    BY <1>4, <1>5, <2>1, <2>2, <2>3, <2>4, <2>7, ChunkInOrder DEF Streaming
  <2>9. ASSUME n < OutputCap
        PROVE  UpTo(xterm[shown].bytes, Chunks', n)
    <3>1. \A l \in DOMAIN delta : delta[l] <= n
      BY <1>4, <1>5, <2>6, <2>9
    <3>2. \A x \in Seq(Nat) : \A k \in DOMAIN x : x[k] <= written => x[k] <= n
      BY <1>4, <1>5
    <3>3. UpTo(xterm[shown].bytes, Chunks, n)
      BY <1>5, <2>2, <2>3, <3>2 DEF UpTo
    <3>4. \A i \in DOMAIN Chunks' : (i \in DOMAIN Chunks /\ Chunks'[i] = Chunks[i]) \/ Chunks'[i] = delta
      BY <1>4, <2>3, <2>4
    <3> QED
      BY <3>1, <3>3, <3>4 DEF UpTo
  <2>10. ASSUME p <= OutputCap
         PROVE  GoesOn(xterm[shown].bytes, Chunks', n)
    <3>1. GoesOn(xterm[shown].bytes, Chunks, written)
      BY <1>2, <2>1, <2>10 DEF Streaming
    <3>2. From(delta, written) /\ n = written + Len(delta)
      BY <1>4, <1>5, <2>6, <2>10 DEF From
    <3> QED
      BY <1>4, <1>5, <2>3, <2>4, <3>1, <3>2, ChunkGoesOn
  <2> QED
    BY <1>2, <1>4, <1>5, <2>1, <2>5, <2>8, <2>9, <2>10 DEF Streaming, WriteDelta, NoneLive, Live
<1> QED
  BY <1>1, <1>7, <1>8, TerminalAssumption DEF TerminalInv, WriteDelta, None

-----------------------------------------------------------------------------
\* A task goes on: the one that creates the shown terminal, where none was overtaken.
LEMMA GoesOnTypes ==
  ASSUME TerminalTypes, NEW t \in DOMAIN tasks, TaskGoesOn(t)
  PROVE  TerminalTypes' /\ Len(tasks') = Len(tasks) /\ DOMAIN tasks' = DOMAIN tasks
<1>1. tasks[t] \in TaskRecord /\ Len(tasks) \in Nat /\ t \in 1..Len(tasks) /\ tasks \in Seq(TaskRecord)
  BY DEF TerminalTypes
<1>2. PICK record : tasks' = [tasks EXCEPT ![t] = record] /\ record \in TaskRecord
  <2>1. [tasks[t] EXCEPT !.stage = "initialising", !.ran = FALSE] \in TaskRecord
        /\ [tasks[t] EXCEPT !.stage = "done"] \in TaskRecord
    BY <1>1 DEF TaskRecord, Stage
  <2> QED
    BY <2>1 DEF TaskGoesOn
<1>3. tasks' \in Seq(TaskRecord) /\ Len(tasks') = Len(tasks) /\ DOMAIN tasks' = DOMAIN tasks
  BY <1>1, <1>2
<1>4. ScriptRecord' = ScriptRecord
  BY <1>3 DEF ScriptRecord
<1>5. webview' \in Seq(ScriptRecord)
  <2>1. tasks[t].id \in Step
    BY <1>1 DEF TaskRecord
  <2>2. Script("init", tasks[t].id, <<>>, t) \in ScriptRecord
    BY <1>1, <2>1 DEF Script, ScriptRecord
  <2>3. webview \in Seq(ScriptRecord)
    BY DEF TerminalTypes
  <2>4. webview' = webview \/ webview' = Append(webview, Script("init", tasks[t].id, <<>>, t))
    BY DEF TaskGoesOn
  <2> QED
    BY <2>2, <2>3, <2>4
<1> QED
  BY <1>3, <1>4, <1>5 DEF TerminalTypes, TaskGoesOn

LEMMA TaskGoesOnKeeps ==
  ASSUME TerminalInv, NEW t \in DOMAIN tasks, TaskGoesOn(t)
  PROVE  TerminalInv'
<1>1. TerminalTypes' /\ Len(tasks') = Len(tasks) /\ DOMAIN tasks' = DOMAIN tasks /\ Live(t)
  BY GoesOnTypes DEF TerminalInv, TaskGoesOn, Live
<1>2. tasks[t].ran /\ shown' = shown /\ overtaken' = overtaken /\ shown # None
  BY <1>1 DEF TaskGoesOn, TerminalInv, NoneLive
<1>3. ASSUME ~overtaken
      PROVE  (Creating \/ Streaming)'
  <2>1. Creating
    BY <1>1, <1>2, <1>3 DEF TerminalInv, Awaited, Streaming, NoneLive
  <2>2. CreatedBy(t)
    BY <1>1, <2>1 DEF Creating, CreatedBy
  <2>3. webview = <<>> /\ tasks[t].id = shown
    BY <1>2, <2>2 DEF CreatedBy
  <2>4. \A u \in DOMAIN tasks : u # t => tasks'[u] = tasks[u] /\ ~Live(u)
    BY <2>2 DEF CreatedBy, TaskGoesOn, TerminalInv, TerminalTypes
  <2>5. tasks[t] \in TaskRecord
    BY DEF TerminalInv, TerminalTypes
  <2>6. CASE tasks[t].stage = "disposing"
    <3>1. tasks' = [tasks EXCEPT ![t].stage = "initialising", ![t].ran = FALSE]
          /\ webview' = Append(webview, Script("init", tasks[t].id, <<>>, t)) /\ ready' = ready
      BY <2>6 DEF TaskGoesOn
    <3>2. tasks'[t].stage = "initialising" /\ tasks'[t].id = shown /\ ~tasks'[t].ran
      BY <2>3, <2>5, <3>1 DEF TaskRecord
    <3>3. webview' = <<Script("init", shown, <<>>, t)>>
      BY <2>3, <3>1
    <3>4. Len(webview') = 1 /\ DOMAIN webview' = {1} /\ webview'[1].op = "init" /\ webview'[1].id = shown
      BY <3>3 DEF Script
    <3>5. \A u \in DOMAIN tasks' : Live(u)' => u = t
      BY <1>1, <2>4 DEF Live
    <3>6. CreatedBy(t)'
      BY <1>2, <3>2, <3>4, <3>5 DEF CreatedBy, Live
    <3> QED
      BY <1>1, <2>1, <3>1, <3>6 DEF Creating, TaskGoesOn
  <2>7. CASE tasks[t].stage = "initialising"
    <3>1. tasks' = [tasks EXCEPT ![t].stage = "done"] /\ webview' = webview /\ ready' = TRUE
      BY <2>7 DEF TaskGoesOn
    <3>2. NoneLive'
      BY <1>1, <2>4, <2>5, <3>1 DEF NoneLive, Live, TaskRecord
    <3>3. xterm[shown] = [open |-> TRUE, bytes |-> <<>>] /\ written = 0 /\ ~mountDue
      BY <1>2, <2>1, <2>2, <2>7 DEF CreatedBy, Creating
    <3>4. Chunks' = <<>> /\ webview' = <<>>
      BY <2>3, <3>1 DEF Chunks
    <3>5. Ascends(<<>>, <<>>) /\ UpTo(<<>>, <<>>, 0) /\ GoesOn(<<>>, <<>>, 0)
      BY DEF Ascends, UpTo, GoesOn, Rising, From
    <3>6. produced[shown] \in Nat
      BY <1>2 DEF TerminalInv, TerminalTypes
    <3> QED
      BY <3>1, <3>2, <3>3, <3>4, <3>5, <3>6 DEF Streaming, OnlyWrites, TaskGoesOn
  <2> QED
    BY <1>1, <2>6, <2>7 DEF Live
<1> QED
  BY <1>1, <1>2, <1>3 DEF TerminalInv

-----------------------------------------------------------------------------
\* The webview runs the oldest script.
LEMMA RunTypes ==
  ASSUME TerminalTypes, WebviewRuns
  PROVE  /\ TerminalTypes' /\ Len(tasks') = Len(tasks) /\ DOMAIN tasks' = DOMAIN tasks
         /\ Head(webview) \in ScriptRecord
         /\ \A t \in DOMAIN tasks : /\ tasks'[t].stage = tasks[t].stage /\ tasks'[t].id = tasks[t].id
                                    /\ Head(webview).task # t => tasks'[t] = tasks[t]
<1>1. PICK script \in ScriptRecord : script = Head(webview)
  BY DEF TerminalTypes, WebviewRuns
<1>2. Tail(webview) \in Seq(ScriptRecord) /\ Len(tasks) \in Nat /\ tasks \in Seq(TaskRecord)
      /\ DOMAIN tasks = 1..Len(tasks)
  BY DEF TerminalTypes, WebviewRuns
<1>3. script.id \in Step /\ script.bytes \in Seq(Nat) /\ script.task \in 0..Len(tasks)
  BY <1>1 DEF ScriptRecord
<1>4. xterm' \in [Step -> [open : BOOLEAN, bytes : Seq(Nat)]]
  <2> DEFINE T == [open : BOOLEAN, bytes : Seq(Nat)]
  <2>1. xterm \in [Step -> T] /\ xterm[script.id] \in T
    BY <1>3 DEF TerminalTypes
  <2>2. NoTerminal \in T /\ [open |-> TRUE, bytes |-> <<>>] \in T
    BY DEF NoTerminal
  <2>3. [xterm[script.id] EXCEPT !.bytes = xterm[script.id].bytes \o script.bytes] \in T
    <3>1. \A x \in T : \A q \in Seq(Nat) : [x EXCEPT !.bytes = q] \in T
      OBVIOUS
    <3>2. xterm[script.id].bytes \in Seq(Nat)
      BY <2>1
    <3>3. xterm[script.id].bytes \o script.bytes \in Seq(Nat)
      BY <1>3, <3>2
    <3> HIDE DEF T
    <3> QED
      BY <2>1, <3>1, <3>3
  <2>4. xterm' = InitTerminal(script.id) \/ xterm' = DisposeTerminal(script.id)
        \/ xterm' = WriteTerminal(script.id, script.bytes)
    BY <1>1 DEF WebviewRuns, ScriptRecord
  <2> SUFFICES xterm' \in [Step -> T]
    OBVIOUS
  <2> HIDE DEF T
  <2>5. CASE xterm' = InitTerminal(script.id) \/ xterm' = DisposeTerminal(script.id)
    BY <1>3, <2>1, <2>2, <2>5 DEF InitTerminal, DisposeTerminal
  <2>6. CASE xterm' = WriteTerminal(script.id, script.bytes)
    <3>1. xterm' = xterm \/ xterm' = [xterm EXCEPT ![script.id] =
                                       [xterm[script.id] EXCEPT !.bytes = xterm[script.id].bytes \o script.bytes]]
      BY <2>6 DEF WriteTerminal
    <3> QED
      BY <1>3, <2>1, <2>3, <3>1
  <2> QED
    BY <2>4, <2>5, <2>6
<1>5. CASE script.task = 0
  <2>1. tasks' = tasks
    BY <1>1, <1>5 DEF WebviewRuns
  <2> QED
    BY <1>1, <1>2, <1>4, <2>1 DEF TerminalTypes, WebviewRuns, ScriptRecord
<1>6. CASE script.task # 0
  <2>1. tasks' = [tasks EXCEPT ![script.task].ran = TRUE] /\ script.task \in 1..Len(tasks)
    BY <1>1, <1>2, <1>3, <1>6 DEF WebviewRuns
  <2>2. [tasks[script.task] EXCEPT !.ran = TRUE] \in TaskRecord /\ tasks[script.task] \in TaskRecord
    <3>1. tasks[script.task] \in TaskRecord
      BY <1>2, <2>1
    <3> QED
      BY <3>1 DEF TaskRecord
  <2>3. tasks' \in Seq(TaskRecord) /\ Len(tasks') = Len(tasks) /\ DOMAIN tasks' = DOMAIN tasks
    BY <1>2, <2>1, <2>2
  <2>4. \A t \in DOMAIN tasks : /\ tasks'[t].stage = tasks[t].stage /\ tasks'[t].id = tasks[t].id
                                /\ script.task # t => tasks'[t] = tasks[t]
    BY <1>2, <2>1, <2>2 DEF TaskRecord
  <2>5. ScriptRecord' = ScriptRecord
    BY <2>3 DEF ScriptRecord
  <2> QED
    BY <1>1, <1>2, <1>4, <2>3, <2>4, <2>5 DEF TerminalTypes, WebviewRuns
<1> QED
  BY <1>5, <1>6

LEMMA WebviewRunsKeeps ==
  ASSUME TerminalInv, WebviewRuns
  PROVE  TerminalInv'
<1> DEFINE script == Head(webview)
           rest == Tail(webview)
<1>1. /\ TerminalTypes' /\ Len(tasks') = Len(tasks) /\ DOMAIN tasks' = DOMAIN tasks
      /\ script \in ScriptRecord
      /\ \A t \in DOMAIN tasks : /\ tasks'[t].stage = tasks[t].stage /\ tasks'[t].id = tasks[t].id
                                 /\ script.task # t => tasks'[t] = tasks[t]
  BY RunTypes DEF TerminalInv
<1>2. /\ webview' = rest /\ Len(webview) \in Nat \ {0} /\ Len(rest) = Len(webview) - 1
      /\ script = webview[1] /\ DOMAIN webview = 1..Len(webview) /\ DOMAIN rest = 1..(Len(webview) - 1)
      /\ \A i \in DOMAIN rest : i + 1 \in DOMAIN webview /\ rest[i] = webview[i + 1]
  BY DEF TerminalInv, TerminalTypes, WebviewRuns
<1>3. NoneLive => NoneLive'
  BY <1>1 DEF NoneLive, Live
<1>4. ASSUME shown # None, ~overtaken
      PROVE  (Awaited \/ Creating \/ Streaming)'
  <2>1. CASE Awaited
    BY <1>3, <2>1 DEF Awaited, WebviewRuns
  <2>2. CASE Creating
    <3>1. PICK t \in DOMAIN tasks : CreatedBy(t)
      BY <2>2 DEF Creating
    <3>2. Live(t)' /\ tasks'[t].id = shown' /\ \A u \in DOMAIN tasks' : Live(u)' => u = t
      BY <1>1, <3>1 DEF CreatedBy, Live, WebviewRuns
    <3>3. ~tasks[t].ran
      BY <1>2, <3>1 DEF CreatedBy
    <3>4. \A i \in DOMAIN webview' : webview'[i].task = t => i = Len(webview')
      BY <1>2, <3>1 DEF CreatedBy
    <3>5. tasks'[t].ran => webview' = <<>>
      <4>1. script.task = t => Len(webview) = 1
        BY <1>2, <3>1 DEF CreatedBy
      <4>2. Len(webview) = 1 => webview' = <<>>
        BY <1>2 DEF TerminalInv, TerminalTypes
      <4> QED
        BY <1>1, <3>3, <4>1, <4>2
    <3>6. ASSUME tasks[t].stage = "initialising"
          PROVE  /\ \A i \in DOMAIN webview' :
                      webview'[i].task = t => webview'[i].op = "init" /\ webview'[i].id = shown
                 /\ tasks'[t].ran => xterm'[shown] = [open |-> TRUE, bytes |-> <<>>]
      <4>1. \A i \in DOMAIN webview : webview[i].task = t => webview[i].op = "init" /\ webview[i].id = shown
        BY <3>1, <3>6 DEF CreatedBy
      <4>2. ASSUME script.task = t
            PROVE  xterm'[shown] = [open |-> TRUE, bytes |-> <<>>]
        <5>1. script.op = "init" /\ script.id = shown
          BY <1>2, <4>1, <4>2
        <5>2. xterm' = InitTerminal(shown) /\ shown \in Step /\ DOMAIN xterm = Step
          BY <1>4, <5>1 DEF WebviewRuns, TerminalInv, TerminalTypes
        <5> QED
          BY <5>2 DEF InitTerminal
      <4> QED
        BY <1>1, <1>2, <3>3, <4>1, <4>2
    <3>7. CreatedBy(t)'
      BY <1>1, <3>2, <3>4, <3>5, <3>6 DEF CreatedBy, WebviewRuns
    <3> QED
      BY <1>1, <2>2, <3>7 DEF Creating, WebviewRuns
  <2>3. CASE Streaming
    <3>1. script.op = "write" /\ script.id = shown /\ script.task = 0
      BY <1>2, <2>3 DEF Streaming, OnlyWrites
    <3>2. shown \in Step /\ xterm[shown] \in [open : BOOLEAN, bytes : Seq(Nat)] /\ xterm[shown].open
      BY <1>4, <2>3 DEF TerminalInv, TerminalTypes, Streaming
    <3>3. xterm' = [xterm EXCEPT ![shown].bytes = @ \o script.bytes]
      BY <3>1, <3>2 DEF WebviewRuns, WriteTerminal
    <3>4. xterm'[shown].open /\ xterm'[shown].bytes = xterm[shown].bytes \o script.bytes
      BY <3>2, <3>3 DEF TerminalInv, TerminalTypes
    <3>5. xterm[shown].bytes \in Seq(Nat)
      BY <3>2
    <3>6. Chunks \in Seq(Seq(Nat)) /\ Len(Chunks) = Len(webview)
          /\ Chunks' \in Seq(Seq(Nat)) /\ Len(Chunks') = Len(webview')
      <4>1. TerminalTypes
        BY DEF TerminalInv
      <4>2. (Chunks \in Seq(Seq(Nat)) /\ Len(Chunks) = Len(webview))'
        BY <1>1, ChunkTypes, PTL
      <4> QED
        BY <4>1, <4>2, ChunkTypes
    <3>7. Chunks # <<>> /\ Head(Chunks) = script.bytes
      BY <1>2, <3>6 DEF Chunks
    <3>8. Chunks' = Tail(Chunks)
      <4>1. \A i \in 1..(Len(webview) - 1) : Chunks'[i] = Chunks[i + 1]
        BY <1>2 DEF Chunks
      <4>2. Tail(Chunks) \in Seq(Seq(Nat)) /\ Len(Tail(Chunks)) = Len(webview) - 1
            /\ \A i \in 1..(Len(webview) - 1) : Tail(Chunks)[i] = Chunks[i + 1]
        BY <1>2, <3>6, <3>7
      <4> DEFINE m == Len(webview) - 1
                 c == Chunks'
                 d == Tail(Chunks)
      <4>3. m \in Nat /\ c \in Seq(Seq(Nat)) /\ d \in Seq(Seq(Nat)) /\ Len(c) = m /\ Len(d) = m
            /\ \A i \in 1..m : c[i] = d[i]
        BY <1>2, <3>6, <4>1, <4>2
      <4> HIDE DEF m, c, d
      <4>4. c = d
        BY <4>3, SeqEqual
      <4> QED
        BY <4>4 DEF c, d
    <3>9. Ascends(xterm'[shown].bytes, Chunks')
      BY <2>3, <3>4, <3>5, <3>6, <3>7, <3>8, ArrivesInOrder DEF Streaming
    <3>10. written \in Nat
      BY DEF TerminalInv, TerminalTypes
    <3>11. written < OutputCap => UpTo(xterm'[shown].bytes, Chunks', written)
      BY <2>3, <3>4, <3>5, <3>6, <3>7, <3>8, <3>10, ArrivesUpTo DEF Streaming
    <3>12. produced[shown] <= OutputCap => GoesOn(xterm'[shown].bytes, Chunks', written)
      BY <2>3, <3>4, <3>5, <3>6, <3>7, <3>8, <3>10, ArrivesAndGoesOn DEF Streaming
    <3>13. OnlyWrites'
      BY <1>2, <2>3 DEF Streaming, OnlyWrites, WebviewRuns
    <3> QED
      BY <1>3, <2>3, <3>4, <3>9, <3>11, <3>12, <3>13 DEF Streaming, WebviewRuns
  <2> QED
    BY <1>4, <2>1, <2>2, <2>3 DEF TerminalInv
<1> QED
  BY <1>1, <1>3, <1>4 DEF TerminalInv, WebviewRuns

-----------------------------------------------------------------------------
LEMMA NextTerminalInv == TerminalInv /\ [TerminalNext]_terminalVars => TerminalInv'
<1> SUFFICES ASSUME TerminalInv, [TerminalNext]_terminalVars PROVE TerminalInv'
  OBVIOUS
<1>1. CASE OnMounted
  BY <1>1, OnMountedKeeps
<1>2. CASE WriteDelta
  BY <1>2, WriteDeltaKeeps
<1>3. CASE WebviewRuns
  BY <1>3, WebviewRunsKeeps
<1>4. CASE \E t \in DOMAIN tasks : TaskGoesOn(t)
  BY <1>4, TaskGoesOnKeeps
<1>5. CASE Unmount
  BY <1>5, UnmountKeeps
<1>6. CASE \E s \in Step : Produce(s) \/ Mount(s) \/ Switch(s)
  BY <1>6, ProduceKeeps, MountKeeps, SwitchKeeps
<1>7. CASE UNCHANGED terminalVars
  BY <1>7 DEF terminalVars, TerminalInv, TerminalTypes, ScriptRecord, NoneLive, Live, Awaited, Creating,
     CreatedBy, Streaming, OnlyWrites, Chunks
<1> QED
  BY <1>1, <1>2, <1>3, <1>4, <1>5, <1>6, <1>7 DEF TerminalNext, TerminalSystem

\* Where no selection came before the last terminal was ready, a ready terminal shows its
\* step's bytes in their order and none twice, and in the end all that fit into the buffer
\* (terminal_view.rs:207-297), for any number of steps, scripts and selections.
THEOREM TerminalShowsOutput == TerminalSpec => []ShowsOutput
<1>1. TerminalInv => ShowsOutput
  <2> SUFFICES ASSUME TerminalInv, shown # None, ready, ~overtaken
               PROVE  /\ InOrderOnce(shown)
                      /\ Settled /\ produced[shown] <= OutputCap =>
                           xterm[shown].bytes = [i \in 1..produced[shown] |-> i]
    BY DEF ShowsOutput, Settled
  <2>1. Streaming
    BY DEF TerminalInv, Awaited, Creating
  <2>2. InOrderOnce(shown)
    BY <2>1 DEF Streaming, Ascends, Rising, InOrderOnce
  <2>3. ASSUME Settled, produced[shown] <= OutputCap
        PROVE  xterm[shown].bytes = [i \in 1..produced[shown] |-> i]
    <3>1. Chunks = <<>> /\ written = OutputLen(shown)
      BY <2>3 DEF Settled, Chunks
    <3>2. GoesOn(xterm[shown].bytes, <<>>, written)
      BY <2>1, <2>3, <3>1 DEF Streaming
    <3>3. xterm[shown].bytes \in Seq(Nat) /\ produced[shown] \in Nat
      BY DEF TerminalInv, TerminalTypes
    <3>4. written = produced[shown]
      BY <2>3, <3>1, <3>3, TerminalAssumption DEF OutputLen, Smaller
    <3>5. Len(xterm[shown].bytes) = produced[shown] /\ DOMAIN xterm[shown].bytes = 1..produced[shown]
      BY <3>2, <3>3, <3>4 DEF GoesOn
    <3>6. \A k \in 1..produced[shown] : xterm[shown].bytes[k] = k
      BY <3>2, <3>5 DEF GoesOn, From
    <3>7. xterm[shown].bytes = [k \in DOMAIN xterm[shown].bytes |-> xterm[shown].bytes[k]]
      BY <3>3
    <3> QED
      BY <3>5, <3>6, <3>7
  <2> QED
    BY <2>2, <2>3
<1> QED
  BY <1>1, InitTerminalInv, NextTerminalInv, PTL DEF TerminalSpec
=============================================================================
