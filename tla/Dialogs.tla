------------------------------ MODULE Dialogs ------------------------------
(***************************************************************************)
(* The dialogs over the program's window (ui/src/app.rs): the session      *)
(* creator with its pickers, the command palette, quick capture and the    *)
(* question before a tab is closed; and the keyboard, which reaches them   *)
(* in two ways: as an event of the dialog that has the focus, and as a     *)
(* message of the listener on the page.  The two are handled one after the *)
(* other, in an order the program does not choose.                         *)
(***************************************************************************)
EXTENDS Naturals, Sequences, FiniteSets, SequencesExt

CONSTANTS
  ListItem,      \* what the pickers list: issues, pull requests, workflow files
  MaxKeys,   \* bound: shortcuts pressed
  MaxClicks  \* bound: clicks and inputs

VARIABLES
  showing,  \* the dialogs that are shown
  pinned,   \* sidebar_pinned
  mode,     \* the creator's mode
  lists,    \* the creator's lists, by the mode that shows them
  filter,   \* search_filter, and the mode it was typed in
  typed,    \* whether a dialog's input field holds text
  keys,     \* messages of the page's listener
  escape,   \* the last Escape: who had the focus, what is to be handled, what it closed
  created,  \* what sessions were created from
  pressed,  \* shortcuts so far
  clicks    \* clicks so far

dialogVars == <<showing, pinned, mode, lists, filter, typed, keys, escape, created, pressed, clicks>>

Dialog == {"creator", "palette", "capture", "confirm"}
Picker == {"PickIssue", "PickPR", "PickWorkflow"}
Source == Picker \cup {"Prompt"}

\* LoadState.  The fetch blocks the program, so that nobody sees that a list is loading.
Unloaded == [state |-> "none", items |-> {}]
Loaded(items) == [state |-> "loaded", items |-> items]
LoadError == [state |-> "error", items |-> {}]

NoFilter == [typed |-> FALSE, at |-> "none"]
NoEscape == [focus |-> "none", local |-> FALSE, message |-> FALSE, closed |-> {}, gone |-> {}]

DialogInit ==
  /\ showing = {} /\ pinned = FALSE
  /\ mode = "SelectMode" /\ lists = [p \in Picker |-> Unloaded] /\ filter = NoFilter
  /\ typed = [d \in {"palette", "capture"} |-> FALSE]
  /\ keys = <<>> /\ escape = NoEscape
  /\ created = {}
  /\ pressed = 0 /\ clicks = 0

Click == clicks < MaxClicks /\ clicks' = clicks + 1 /\ UNCHANGED <<pinned, keys, pressed>>

-----------------------------------------------------------------------------
\* A dialog that is shown anew starts anew; one that goes takes its input with it.
Creator(show, fresh) ==
  IF show /\ fresh
  THEN mode' = "SelectMode" /\ lists' = [p \in Picker |-> Unloaded] /\ filter' = NoFilter
  ELSE UNCHANGED <<mode, lists, filter>>

Show(dialogs) ==
  /\ showing' = dialogs
  /\ Creator("creator" \in dialogs, "creator" \notin showing)
  /\ typed' = [d \in DOMAIN typed |-> typed[d] /\ d \in showing /\ d \in dialogs]

\* What went since the last Escape, however it did.
Gone(dialogs) == escape' = [escape EXCEPT !.gone = @ \cup (showing \ dialogs)]

OpenCreator == /\ Click /\ Show(showing \cup {"creator"}) /\ UNCHANGED <<escape, created>>
AskClose    == /\ Click /\ Show(showing \cup {"confirm"}) /\ UNCHANGED <<escape, created>>

\* The button Cancel, and a click beside the dialog.
Cancel(d) ==
  /\ d \in showing
  /\ Click /\ Show(showing \ {d}) /\ Gone(showing \ {d}) /\ UNCHANGED created

ConfirmClose ==
  /\ "confirm" \in showing
  /\ Click /\ Show(showing \ {"confirm"}) /\ Gone(showing \ {"confirm"}) /\ UNCHANGED created

-----------------------------------------------------------------------------
\* create_session: any of its files can fail to be written, and then nothing is shown of
\* it; when it succeeds it closes the creator, whoever called it.
Create(source, dialogs) ==
  \/ /\ created' = created \cup {source}
     /\ Show(dialogs \ {"creator"}) /\ Gone(dialogs \ {"creator"})
  \/ /\ Show(dialogs) /\ Gone(dialogs)
     /\ UNCHANGED created

InMode(m) == "creator" \in showing /\ mode = m

\* Slip: the filter of the last picker is kept.
PickKeepsFilter(m) ==
  /\ m \in {"PickIssue", "PickPR"} /\ InMode("SelectMode") /\ Click
  /\ mode' = m
  /\ \E answer \in {LoadError} \cup {Loaded(items) : items \in SUBSET ListItem} :
       lists' = [lists EXCEPT ![m] = answer]
  /\ UNCHANGED <<showing, filter, typed, escape, created>>

\* The answer of gh, or of the directory, which is never an error.
PickIssueOrPR(m) ==
  /\ m \in {"PickIssue", "PickPR"} /\ InMode("SelectMode") /\ Click
  /\ mode' = m /\ filter' = NoFilter
  /\ \E answer \in {LoadError} \cup {Loaded(items) : items \in SUBSET ListItem} :
       lists' = [lists EXCEPT ![m] = answer]
  /\ UNCHANGED <<showing, typed, escape, created>>

PickWorkflow ==
  /\ InMode("SelectMode") /\ Click
  /\ mode' = "PickWorkflow" /\ filter' = NoFilter
  /\ \E items \in SUBSET ListItem : lists' = [lists EXCEPT !["PickWorkflow"] = Loaded(items)]
  /\ UNCHANGED <<showing, typed, escape, created>>

\* The best issue at once; the picker only where there is none, with what was typed before.
AutoPick ==
  /\ InMode("SelectMode") /\ Click
  /\ \/ Create("PickIssue", showing)
     \/ /\ mode' = "PickIssue"
        /\ \E answer \in {LoadError, Loaded({})} : lists' = [lists EXCEPT !["PickIssue"] = answer]
        /\ UNCHANGED <<showing, filter, typed, escape, created>>

\* The program always offers its palette, so that the creator's own prompt is not reached.
NewByPrompt ==
  /\ InMode("SelectMode") /\ Click
  /\ Show((showing \ {"creator"}) \cup {"palette"}) /\ Gone(showing \ {"creator"})
  /\ UNCHANGED created

Back ==
  /\ "creator" \in showing /\ mode # "SelectMode" /\ Click
  /\ mode' = "SelectMode"
  /\ UNCHANGED <<showing, lists, filter, typed, escape, created>>

TypeFilter ==
  /\ "creator" \in showing /\ mode \in Picker /\ Click
  /\ filter' \in {NoFilter, [typed |-> TRUE, at |-> mode]}
  /\ UNCHANGED <<showing, mode, lists, typed, escape, created>>

PickItem ==
  /\ "creator" \in showing /\ mode \in Picker /\ Click
  /\ lists[mode].items # {}
  /\ Create(mode, showing)

-----------------------------------------------------------------------------
TypeText(d) ==
  /\ d \in showing /\ Click
  /\ typed' \in [DOMAIN typed -> BOOLEAN] /\ \A other \in DOMAIN typed \ {d} : typed'[other] = typed[other]
  /\ UNCHANGED <<showing, mode, lists, filter, escape, created>>

\* Enter in the palette: it closes before the session is created.
SubmitPalette ==
  /\ "palette" \in showing /\ typed["palette"] /\ Click
  /\ \E source \in {"PickIssue", "PickPR", "Prompt"} : Create(source, showing \ {"palette"})

\* Enter in quick capture: the dialog closes, saved or not.
SaveCapture ==
  /\ "capture" \in showing /\ Click
  /\ Show(showing \ {"capture"}) /\ Gone(showing \ {"capture"}) /\ UNCHANGED created

-----------------------------------------------------------------------------
\* A shortcut: a message, and for Escape also an event for the dialog with the focus.
HasHandler == {"palette", "capture"}

Press(key) ==
  /\ pressed < MaxKeys /\ pressed' = pressed + 1
  /\ keys' = Append(keys, key)
  /\ UNCHANGED <<showing, pinned, mode, lists, filter, typed, created, clicks, escape>>

PressEscape ==
  /\ pressed < MaxKeys /\ pressed' = pressed + 1
  /\ ~escape.local /\ ~escape.message
  /\ keys' = Append(keys, "escape")
  /\ \E focus \in (showing \cap HasHandler) \cup {"none"} :
       escape' = [focus |-> focus, local |-> focus # "none", message |-> TRUE,
                  closed |-> {}, gone |-> {}]
  /\ UNCHANGED <<showing, pinned, mode, lists, filter, typed, created, clicks>>

\* The handler of the dialog, if it is still there.
EscapeInDialog ==
  /\ escape.local
  /\ LET closes == showing \cap {escape.focus}
     IN  /\ Show(showing \ closes)
         /\ escape' = [escape EXCEPT !.local = FALSE, !.closed = @ \cup closes, !.gone = @ \cup closes]
  /\ UNCHANGED <<pinned, keys, created, pressed, clicks>>

\* The order in which the listener looks for what to close.
EscapeOrder == <<"confirm", "palette", "capture", "creator">>

Topmost ==
  {EscapeOrder[i] : i \in {n \in DOMAIN EscapeOrder :
     EscapeOrder[n] \in showing /\ \A m \in 1..(n - 1) : EscapeOrder[m] \notin showing}}

HandleEscape ==
  /\ Show(showing \ Topmost)
  /\ pinned' = (pinned /\ showing # {})
  /\ escape' = [escape EXCEPT !.message = FALSE, !.closed = @ \cup Topmost, !.gone = @ \cup Topmost]

ToggleDialog(d) ==
  /\ Show(IF d \in showing THEN showing \ {d} ELSE showing \cup {d})
  /\ Gone(showing \ {d})
  /\ UNCHANGED pinned

HandleKey ==
  /\ keys # <<>> /\ keys' = Tail(keys)
  /\ \/ Head(keys) = "escape" /\ HandleEscape
     \/ Head(keys) \in {"palette", "capture"} /\ ToggleDialog(Head(keys))
     \/ /\ Head(keys) \in {"creator", "confirm"}
        /\ Show(showing \cup {Head(keys)}) /\ UNCHANGED <<pinned, escape>>
  /\ UNCHANGED <<created, pressed, clicks>>

Pin ==
  /\ clicks < MaxClicks /\ clicks' = clicks + 1 /\ pinned' = ~pinned
  /\ UNCHANGED <<showing, mode, lists, filter, typed, keys, escape, created, pressed>>

DialogNext ==
  \/ OpenCreator \/ AskClose \/ ConfirmClose \/ Pin
  \/ \E d \in Dialog : Cancel(d)
  \/ \E m \in Picker : PickIssueOrPR(m)
  \/ PickWorkflow \/ AutoPick \/ NewByPrompt \/ Back \/ TypeFilter \/ PickItem
  \/ \E d \in DOMAIN typed : TypeText(d)
  \/ SubmitPalette \/ SaveCapture
  \/ \E key \in Dialog : Press(key)
  \/ PressEscape \/ EscapeInDialog \/ HandleKey

DialogSpec == DialogInit /\ [][DialogNext]_dialogVars

-----------------------------------------------------------------------------
EscapeReaches ==
  ~escape.local /\ ~escape.message =>
    /\ escape.focus # "none" => escape.focus \in escape.gone
    /\ Cardinality(escape.closed) <= 2

FilterIsOwn ==
  "creator" \in showing /\ mode \in Picker /\ lists[mode].items # {} /\ filter.typed
    => filter.at = mode

(***************************************************************************)
(* An Escape that was pressed in a dialog with a handler of its own takes  *)
(* this dialog away, in whichever order the dialog and the page's listener *)
(* come to it and whatever is shown on top; and no Escape takes away more  *)
(* than two.  (It does take away two when something else is shown beside   *)
(* the dialog: the listener closes the next one.)  And a list with         *)
(* something in it is only filtered by what was typed in its own picker:   *)
(* the filter is shared, and auto-pick, which does not reset it, opens the *)
(* picker only with nothing to filter.                                     *)
(***************************************************************************)
DialogsAgree == EscapeReaches /\ FilterIsOwn

-----------------------------------------------------------------------------
(***************************************************************************)
(* What the palette makes of its text, a sequence of characters without    *)
(* white space around it, what a picker shows, and which issue auto-pick   *)
(* takes of a list.                                                        *)
(***************************************************************************)
Digit == {"0", "1"}
IsNumber(text) == text # <<>> /\ ToSet(text) \subseteq Digit

Trim(text) ==
  LET solid == {i \in DOMAIN text : text[i] # " "}
  IN  IF solid = {} THEN <<>>
      ELSE SubSeq(text, CHOOSE i \in solid : \A j \in solid : i <= j,
                        CHOOSE i \in solid : \A j \in solid : j <= i)

ParseInput(text) ==
  LET rest == Trim(Tail(text))
  IN  CASE Head(text) = "#" /\ IsNumber(rest) -> [source |-> "Issue", of |-> rest]
        [] Head(text) = "!" /\ IsNumber(rest) -> [source |-> "PR", of |-> rest]
        [] OTHER -> [source |-> "Prompt", of |-> text]

\* What a picker shows of its list: the items in one of whose texts the filter is found.
Holds(text, part) == \E i \in 0..(Len(text) - Len(part)) : SubSeq(text, i + 1, i + Len(part)) = part
FilterIssues(list, part) ==
  SelectSeq(list, LAMBDA i : Holds(i.title, part) \/ Holds(i.number, part))
FilterPRs(list, part) ==
  SelectSeq(list, LAMBDA i : Holds(i.title, part) \/ Holds(i.number, part) \/ Holds(i.branch, part))
FilterWorkflows(list, part) ==
  SelectSeq(list, LAMBDA i : Holds(i.title, part) \/ Holds(i.description, part))

\* The first issue with a label that names a priority, else the first of the list.
AutoPickIssue(issues) ==
  LET urgent == SelectInSeq(issues, LAMBDA issue : issue.urgent)
  IN  issues[IF urgent = 0 THEN 1 ELSE urgent]
=============================================================================
