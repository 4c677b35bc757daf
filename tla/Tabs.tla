-------------------------------- MODULE Tabs --------------------------------
(***************************************************************************)
(* The tabs of a window: App (crates/ui/src/app.rs), restore_tabs          *)
(* (crates/ui/src/state.rs) and the WindowState that keeps the open tabs   *)
(* from one run of the program to the next (crates/core/src/               *)
(* window_state.rs), of which only this repository's window matters here.  *)
(*                                                                         *)
(* App's handlers run on one thread, but the program can end between two   *)
(* writes of one handler, any write can fail, and the workflows it started *)
(* go on in the background, whose saves can bring a session back.          *)
(***************************************************************************)
EXTENDS Naturals, Sequences, SequencesExt

CONSTANTS
  Session,   \* the ids that SessionId::new can still draw
  NoSession  \* None

ASSUME TabsAssumption == NoSession \notin Session

VARIABLES
  disk,      \* the sessions with a session.json
  file,      \* the window in the window state's file
  up,        \* is the program running?
  window,    \* the window in memory
  tabs,      \* the tabs by their sessions, from left to right
  pane,      \* the number of the tab that is shown; 0 for Home and Backlog
  pending,   \* the number of the tab the dialog asks about; 0 without a dialog
  handler,   \* what a handler has still to do, and for which session
  running,   \* the sessions whose workflows were started by this run
  used,      \* the ids drawn so far
  loaded,    \* were the tabs made from the window in memory and all sessions?
  askedFor,  \* the session whose tab the user wanted to close last
  closed     \* the sessions whose closing has been written to the file

vars == <<disk, file, up, window, tabs, pane, pending, handler, running, used, loaded,
          askedFor, closed>>

diskVars    == <<disk, file, closed>>
historyVars == <<used, loaded, askedFor>>

WindowInfo == [open : Seq(Session), active : Session \cup {NoSession}]
Default    == [open |-> <<>>, active |-> NoSession]
Idle       == [what |-> "nothing", session |-> NoSession]

\* retain and filter: the elements of the list that are in the set, in their order.
Kept(list, sessions) ==
  LET upTo[n \in 0..Len(list)] ==
        IF n = 0 THEN <<>>
        ELSE IF list[n] \in sessions THEN Append(upTo[n - 1], list[n]) ELSE upTo[n - 1]
  IN  upTo[Len(list)]

\* Slip: a closed tab stays open.
CloseTabKeepsIt(w, s) == [w EXCEPT !.active = IF @ = s THEN NoSession ELSE @]

\* update_tab with is_open false; a closed tab that was active hands over to the last.
UpdateTabClosed(w, s) ==
  LET open == Kept(w.open, ToSet(w.open) \ {s}) IN
  [open   |-> open,
   active |-> IF w.active # s THEN w.active ELSE IF open = <<>> THEN NoSession ELSE Last(open)]

UpdateTabOpen(w, s) == IF Contains(w.open, s) THEN w ELSE [w EXCEPT !.open = Append(@, s)]

SetActive(w, s) == IF Contains(w.open, s) THEN [w EXCEPT !.active = s] ELSE w

RestoreTabs(w, sessions) == Kept(w.open, sessions)

\* The number restore_tabs finds for the active tab; 0 without tabs.
RestoreActive(w, sessions) ==
  LET restored == RestoreTabs(w, sessions)
      active   == SelectInSeq(restored, LAMBDA s : s = w.active) IN
  IF restored # <<>> /\ active = 0 THEN 1 ELSE active

\* Slip: the numbers after the closed tab stay.
PaneAfterCloseClamps(i, n) == IF pane > n THEN n ELSE pane

\* The pane when tab i has been closed and n are left.
PaneAfterClose(i, n) ==
  IF n = 0 THEN 0 ELSE IF pane > n THEN n ELSE IF pane > i THEN pane - 1 ELSE pane

\* WindowState::save replaces the file as a whole, or fails and is logged.
SaveWindow(w, nowClosed) ==
  \/ file' = w /\ closed' = closed \cup nowClosed
  \/ UNCHANGED <<file, closed>>

Init ==
  /\ disk = {} /\ file = Default
  /\ up = FALSE /\ window = Default /\ tabs = <<>> /\ pane = 0 /\ pending = 0
  /\ handler = Idle /\ running = {}
  /\ used = {} /\ loaded = FALSE /\ askedFor = NoSession /\ closed = {}

-----------------------------------------------------------------------------
(***************************************************************************)
(* The window is read three times and the sessions twice, once for the     *)
(* tabs and once for the pane.  A window state that cannot be read is the  *)
(* default one; sessions that cannot all be loaded are none.               *)
(***************************************************************************)
Start ==
  /\ ~up
  /\ up' = TRUE
  /\ \E w, wTabs, wPane \in {file, Default}, forTabs, forPane \in {disk, {}} :
       /\ window' = w
       /\ tabs' = RestoreTabs(wTabs, forTabs)
       /\ pane' = IF RestoreTabs(wPane, forPane) # <<>> THEN RestoreActive(wPane, forPane)
                  ELSE IF tabs' = <<>> THEN 0 ELSE 1
       /\ loaded' = (wTabs = w /\ forTabs = disk)
  /\ UNCHANGED <<diskVars, pending, handler, running, used, askedFor>>

\* create_session up to its save; when a step of it fails it returns.
CreateSession(s) ==
  /\ up /\ handler = Idle
  /\ s \notin used
  /\ used' = used \cup {s}
  /\ \/ disk' = disk \cup {s} /\ handler' = [what |-> "open", session |-> s]
     \/ UNCHANGED <<disk, handler>>
  /\ UNCHANGED <<file, up, window, tabs, pane, pending, running, loaded, askedFor, closed>>

\* Slip: the tab is made the active one, and not recorded.
OpenTabOnlyActive ==
  LET s == handler.session IN
  /\ handler.what = "open"
  /\ running' = running \cup {s}
  /\ tabs' = Append(tabs, s)
  /\ pane' = Len(tabs')
  /\ window' = SetActive(window, s)
  /\ SaveWindow(window', {})
  /\ handler' = Idle
  /\ UNCHANGED <<disk, up, pending, historyVars>>

\* The rest of create_session: the workflow is started and gets a tab.
OpenTab ==
  LET s == handler.session IN
  /\ handler.what = "open"
  /\ running' = running \cup {s}
  /\ tabs' = Append(tabs, s)
  /\ pane' = Len(tabs')
  /\ window' = SetActive(UpdateTabOpen(window, s), s)
  /\ SaveWindow(window', {})
  /\ handler' = Idle
  /\ UNCHANGED <<disk, up, pending, historyVars>>

\* on_select_tab, on_sidebar_select, and a number key.
SelectTab(i) ==
  /\ up /\ handler = Idle
  /\ i \in DOMAIN tabs
  /\ pane' = i
  /\ window' = SetActive(window, tabs[i])
  /\ SaveWindow(window', {})
  /\ UNCHANGED <<disk, up, tabs, pending, handler, running, historyVars>>

SelectHome ==
  /\ up /\ handler = Idle
  /\ pane' = 0
  /\ UNCHANGED <<diskVars, up, window, tabs, pending, handler, running, historyVars>>

\* on_close_tab and the key for it: the dialog is shown.
AskClose(i) ==
  /\ up /\ handler = Idle
  /\ i \in DOMAIN tabs
  /\ pending' = i /\ askedFor' = tabs[i]
  /\ UNCHANGED <<diskVars, up, window, tabs, pane, handler, running, used, loaded>>

CancelClose ==
  /\ up /\ handler = Idle
  /\ pending # 0
  /\ pending' = 0
  /\ UNCHANGED <<diskVars, up, window, tabs, pane, handler, running, historyVars>>

\* do_close_tab up to the session's deletion, for the tab that had the number pending.
CloseTab ==
  LET s == tabs[pending] IN
  /\ tabs' = RemoveAt(tabs, pending)
  /\ pane' = PaneAfterClose(pending, Len(tabs'))
  /\ window' = UpdateTabClosed(window, s)
  /\ SaveWindow(window', {s})
  /\ handler' = [what |-> "delete", session |-> s]

\* Slip: the dialog stays.
ConfirmCloseKeepsDialog ==
  /\ up /\ handler = Idle
  /\ pending \in DOMAIN tabs
  /\ CloseTab
  /\ UNCHANGED <<disk, up, pending, running, historyVars>>

ConfirmClose ==
  /\ up /\ handler = Idle
  /\ pending \in DOMAIN tabs
  /\ CloseTab
  /\ pending' = 0
  /\ UNCHANGED <<disk, up, running, historyVars>>

\* The end of do_close_tab: the deletion, which may fail.
DeleteSession ==
  /\ handler.what = "delete"
  /\ disk' \in {disk, disk \ {handler.session}}
  /\ handler' = Idle
  /\ UNCHANGED <<file, up, window, tabs, pane, pending, running, historyVars, closed>>

\* A workflow's Orchestrator saves its session, whose tab may be closed.
WorkflowSaves(s) ==
  /\ s \in running
  /\ disk' = disk \cup {s}
  /\ UNCHANGED <<file, up, window, tabs, pane, pending, handler, running, historyVars,
                 closed>>

\* The program ends, in the middle of a handler or not.
Quit ==
  /\ up
  /\ up' = FALSE
  /\ window' = Default /\ tabs' = <<>> /\ pane' = 0 /\ pending' = 0
  /\ handler' = Idle /\ running' = {}
  /\ UNCHANGED <<diskVars, historyVars>>

Next ==
  \/ Start \/ Quit
  \/ \E s \in Session : CreateSession(s) \/ WorkflowSaves(s)
  \/ OpenTab
  \/ \E i \in 1..Len(tabs) : SelectTab(i) \/ AskClose(i)
  \/ SelectHome
  \/ CancelClose \/ ConfirmClose \/ DeleteSession

Spec == Init /\ [][Next]_vars

-----------------------------------------------------------------------------
(***************************************************************************)
(* While there are tabs, the number of the pane is the number of one,      *)
(* whichever tabs were closed, whichever of the two loads at the start     *)
(* failed, and whatever was shown before (active_pane and tabs of App).    *)
(***************************************************************************)
PaneShowsTab == (tabs # <<>> /\ pane # 0) => pane \in DOMAIN tabs

\* The types of the variables; the pane's number is that of a tab, and the active tab of
\* the window in memory is one of its open ones.
TypeOK ==
  /\ disk \subseteq Session /\ used \subseteq Session
  /\ running \subseteq Session /\ closed \subseteq Session
  /\ file \in WindowInfo /\ window \in WindowInfo
  /\ window.active \in ToSet(window.open) \cup {NoSession}
  /\ up \in BOOLEAN /\ loaded \in BOOLEAN
  /\ tabs \in Seq(Session)
  /\ pane \in Nat /\ pending \in Nat
  /\ handler \in [what : {"nothing", "open", "delete"}, session : Session \cup {NoSession}]
  /\ askedFor \in Session \cup {NoSession}
  /\ PaneShowsTab

\* The dialog closes the tab it was opened for, although it keeps only its number and
\* other handlers change the tabs while it is shown (pending_close_tab of App).
PendingIsAskedFor == pending # 0 => pending \in DOMAIN tabs /\ tabs[pending] = askedFor

(***************************************************************************)
(* The pane and the dialog keep the number of a tab while other handlers   *)
(* open, close and select tabs: the pane's is always the number of a tab,  *)
(* and the dialog's the one of the tab it asks about.                      *)
(***************************************************************************)
PaneAgrees == TypeOK /\ PendingIsAskedFor

(***************************************************************************)
(* Closing another tab leaves the tab that is shown where the user sees it:*)
(* only its number changes (do_close_tab).                                 *)
(***************************************************************************)
ShownStays ==
  [][(up' /\ Len(tabs') < Len(tabs) /\ pane \notin {0, pending}) =>
       pane' # 0 /\ tabs'[pane'] = tabs[pane]]_vars

(***************************************************************************)
(* Between two handlers the tabs are the ones a restart would restore from *)
(* the window as it is and the sessions on disk, in their order; also with *)
(* sessions left over from closings and creations that broke off, and with *)
(* the ids of sessions that are gone still in the window.                  *)
(***************************************************************************)
RestoredAsLeft == (up /\ handler = Idle /\ loaded) => RestoreTabs(window, disk) = tabs

(***************************************************************************)
(* Once a tab's closing has been written it never comes back, even when    *)
(* its session stays on disk: because the deletion failed, the program     *)
(* ended before it, or its workflow saved the session again.               *)
(***************************************************************************)
ClosedStaysClosed == \A s \in closed : s \notin ToSet(tabs) \cup ToSet(file.open)
=============================================================================
