----------------------------- MODULE Dashboard -----------------------------
(***************************************************************************)
(* The dashboard (HomeDashboard of crates/ui/src/components/               *)
(* home_dashboard.rs), with the task list of one issue, the label of one   *)
(* pull request and the button that picks an issue.                        *)
(*                                                                         *)
(* The handlers and what comes after each await run on the thread of the   *)
(* user interface; the calls of gh in between run on threads of their own. *)
(* An overview is fetched once at the start, by a loop that polls, and by  *)
(* the refresh button; the fetches can overlap each other and a save.      *)
(* When the user leaves the page its tasks are dropped, but not the calls  *)
(* of gh that they wait for.  Of an overview only the issue and the pull   *)
(* request are kept, of the issue's body the boxes that are ticked.        *)
(***************************************************************************)
EXTENDS Naturals, FiniteSets

CONSTANTS
  Box,        \* the check boxes in the issue's body
  Refresh,    \* what tells overlapping refreshes apart
  Poll,       \* the fetch of the polling loop
  Warm,       \* the fetch of warm_overview_cache
  NoBody,     \* no pending body
  MaxEvents   \* bound: what users do, and calls of gh that fail

ASSUME DashboardAssumption ==
  /\ Poll \notin Refresh /\ Warm \notin Refresh /\ Poll # Warm
  /\ \A body \in SUBSET Box : body # NoBody
  /\ MaxEvents \in Nat

VARIABLES
  remote,      \* what GitHub has, with the number of times the issue was written
  cache,       \* CACHED_OVERVIEW
  mounted,     \* is the dashboard shown?
  state,       \* the FetchState
  pending,     \* the issue's entry in pending_bodies
  saving,      \* is the issue in saving_issues?
  save,        \* the task of the save button
  orphans,     \* bodies that calls of gh without a task may still write
  removal,     \* removing_labels: the task of the "Humanize" button
  orphanRemoval, \* may a call of gh without a task still remove the label?
  pick,        \* pick_state
  refreshing,  \* is_refreshing
  fetch,       \* the fetches under way
  count        \* events so far

vars == <<remote, cache, mounted, state, pending, saving, save, orphans,
          removal, orphanRemoval, pick, refreshing, fetch, count>>

saveVars == <<pending, saving, save, orphans>>
prVars   == <<removal, orphanRemoval, pick>>
editVars == <<saveVars, prVars>>

Fetch == Refresh \cup {Poll, Warm}
Body  == SUBSET Box
View  == [body : Body, version : 0..MaxEvents, needsHuman : BOOLEAN]
Blank == [body |-> {}, version |-> 0, needsHuman |-> FALSE]

FetchState == [kind : {"loading", "loaded", "error"}, view : View]
Loading    == [kind |-> "loading", view |-> Blank]
Error      == [kind |-> "error", view |-> Blank]
Loaded(v)  == [kind |-> "loaded", view |-> v]

\* A fetch has been asked for, or has read the issue.
Idle    == [stage |-> "idle", view |-> Blank]
Asked   == [stage |-> "asked", view |-> Blank]
Read(v) == [stage |-> "read", view |-> v]
NoSave  == [stage |-> "none", view |-> Blank]

\* Bound: something happens that need not.
Happens == count < MaxEvents /\ count' = count + 1

Init ==
  /\ remote = Blank /\ cache = Loading
  /\ mounted = FALSE /\ state = Loading
  /\ pending = NoBody /\ saving = FALSE /\ save = NoSave /\ orphans = {}
  /\ removal = "none" /\ orphanRemoval = FALSE /\ pick = "idle"
  /\ refreshing = FALSE
  /\ fetch = [f \in Fetch |-> IF f = Warm THEN Asked ELSE Idle]
  /\ count = 0

-----------------------------------------------------------------------------
\* The page is opened: it shows what is cached, and its loop fetches at once.
Mount ==
  /\ ~mounted /\ Happens
  /\ mounted' = TRUE /\ state' = cache
  /\ refreshing' = TRUE
  /\ fetch' = [fetch EXCEPT ![Poll] = Asked]
  /\ UNCHANGED <<remote, cache, editVars>>

Unmount ==
  /\ mounted /\ Happens
  /\ mounted' = FALSE /\ state' = Loading
  /\ pending' = NoBody /\ saving' = FALSE /\ save' = NoSave
  /\ orphans' = IF save.stage = "sent" THEN orphans \cup {save.view.body} ELSE orphans
  /\ removal' = "none" /\ orphanRemoval' = (orphanRemoval \/ removal = "sent")
  /\ pick' = "idle"
  /\ refreshing' = FALSE
  /\ fetch' = [f \in Fetch |-> IF f = Warm THEN fetch[f] ELSE Idle]
  /\ UNCHANGED <<remote, cache>>

PollWakes ==
  /\ mounted /\ fetch[Poll] = Idle
  /\ fetch' = [fetch EXCEPT ![Poll] = Asked]
  /\ refreshing' = TRUE
  /\ UNCHANGED <<remote, cache, mounted, state, editVars, count>>

\* The sync indicator, which is there only with an overview to show.
RefreshClicked(f) ==
  /\ mounted /\ state.kind = "loaded" /\ ~refreshing /\ Happens
  /\ f \in Refresh /\ fetch[f] = Idle
  /\ fetch' = [fetch EXCEPT ![f] = Asked]
  /\ refreshing' = TRUE
  /\ UNCHANGED <<remote, cache, mounted, state, editVars>>

\* fetch_project_overview asks GitHub.
FetchReads(f) ==
  /\ fetch[f].stage = "asked"
  /\ fetch' = [fetch EXCEPT ![f] = Read(remote)]
  /\ UNCHANGED <<remote, cache, mounted, state, editVars, refreshing, count>>

FetchDone(f) ==
  /\ fetch[f].stage = "read"
  /\ cache' = Loaded(fetch[f].view)
  /\ IF f = Warm THEN UNCHANGED <<state, refreshing>>
     ELSE state' = cache' /\ refreshing' = FALSE
  /\ fetch' = [fetch EXCEPT ![f] = Idle]
  /\ UNCHANGED <<remote, mounted, editVars, count>>

\* Slip: the loop ends at an error.
FetchFailsForGood(f) ==
  /\ fetch[f].stage = "asked" /\ Happens
  /\ IF f = Warm THEN UNCHANGED <<state, refreshing>>
     ELSE state' = Error /\ refreshing' = FALSE
  /\ fetch' = [fetch EXCEPT ![f] = [Idle EXCEPT !.stage = "ended"]]
  /\ UNCHANGED <<remote, cache, mounted, editVars>>

\* The error takes the place of the overview that was shown.
FetchFails(f) ==
  /\ fetch[f].stage = "asked" /\ Happens
  /\ IF f = Warm THEN UNCHANGED <<state, refreshing>>
     ELSE state' = Error /\ refreshing' = FALSE
  /\ fetch' = [fetch EXCEPT ![f] = Idle]
  /\ UNCHANGED <<remote, cache, mounted, editVars>>

-----------------------------------------------------------------------------
EffectiveBody == IF pending = NoBody THEN state.view.body ELSE pending

Toggled(body, b) == IF b \in body THEN body \ {b} ELSE body \cup {b}

\* Slip: the boxes can be ticked during a save.
ToggleAnytime(b) ==
  /\ mounted /\ state.kind = "loaded" /\ Happens
  /\ pending' = Toggled(EffectiveBody, b)
  /\ UNCHANGED <<remote, cache, mounted, state, saving, save, orphans, prVars, refreshing, fetch>>

Toggle(b) ==
  /\ mounted /\ state.kind = "loaded" /\ ~saving /\ Happens
  /\ pending' = Toggled(EffectiveBody, b)
  /\ UNCHANGED <<remote, cache, mounted, state, saving, save, orphans, prVars, refreshing, fetch>>

SaveClicked ==
  /\ mounted /\ state.kind = "loaded" /\ pending # NoBody /\ ~saving /\ Happens
  /\ saving' = TRUE
  /\ save' = [stage |-> "sent", view |-> [Blank EXCEPT !.body = pending]]
  /\ UNCHANGED <<remote, cache, mounted, state, pending, orphans, prVars, refreshing, fetch>>

Written(body) == [remote EXCEPT !.body = body, !.version = @ + 1]

\* update_issue_body replaces the body, whatever has become of it.
SaveWrites ==
  /\ save.stage = "sent"
  /\ remote' = Written(save.view.body)
  /\ save' = [stage |-> "written", view |-> remote']
  /\ UNCHANGED <<cache, mounted, state, pending, saving, orphans, prVars, refreshing, fetch, count>>

\* The body that was pending becomes the one that is shown.
SaveSucceeds ==
  /\ save.stage = "written"
  /\ saving' = FALSE /\ save' = NoSave
  /\ pending' = NoBody
  /\ LET saved == IF pending = NoBody THEN save.view.body ELSE pending IN
     state' = IF state.kind = "loaded"
                THEN [state EXCEPT !.view.body = saved, !.view.version = save.view.version]
                ELSE state
  /\ UNCHANGED <<remote, cache, mounted, orphans, prVars, refreshing, fetch, count>>

\* Slip: the pending body is taken before the result is looked at.
SaveFailsAndDrops ==
  /\ save.stage \in {"sent", "written"} /\ Happens
  /\ saving' = FALSE /\ save' = NoSave
  /\ pending' = NoBody
  /\ UNCHANGED <<remote, cache, mounted, state, orphans, prVars, refreshing, fetch>>

\* gh fails, before or after GitHub has taken the body.
SaveFails ==
  /\ save.stage \in {"sent", "written"} /\ Happens
  /\ saving' = FALSE /\ save' = NoSave
  /\ UNCHANGED <<remote, cache, mounted, state, pending, orphans, prVars, refreshing, fetch>>

OrphanWrites ==
  /\ \E body \in orphans :
       /\ remote' = Written(body)
       /\ orphans' = orphans \ {body}
  /\ UNCHANGED <<cache, mounted, state, pending, saving, save, prVars, refreshing, fetch, count>>

-----------------------------------------------------------------------------
\* "Humanize" removes the label needs-human from the pull request.
HumanizeClicked ==
  /\ mounted /\ state.kind = "loaded" /\ state.view.needsHuman /\ removal = "none" /\ Happens
  /\ removal' = "sent"
  /\ UNCHANGED <<remote, cache, mounted, state, saveVars, orphanRemoval, pick, refreshing, fetch>>

\* remove_pr_label, whether or not its task is still there.
RemovePrLabel ==
  /\ \/ removal = "sent" /\ removal' = "removed" /\ UNCHANGED orphanRemoval
     \/ orphanRemoval /\ orphanRemoval' = FALSE /\ UNCHANGED removal
  /\ remote' = [remote EXCEPT !.needsHuman = FALSE]
  /\ UNCHANGED <<cache, mounted, state, saveVars, pick, refreshing, fetch, count>>

HumanizeDone ==
  /\ removal = "removed"
  /\ removal' = "none"
  /\ state' = IF state.kind = "loaded" THEN [state EXCEPT !.view.needsHuman = FALSE] ELSE state
  /\ UNCHANGED <<remote, cache, mounted, saveVars, orphanRemoval, pick, refreshing, fetch, count>>

\* Nothing tells the user.
HumanizeFails ==
  /\ removal \in {"sent", "removed"} /\ Happens
  /\ removal' = "none"
  /\ UNCHANGED <<remote, cache, mounted, state, saveVars, orphanRemoval, pick, refreshing, fetch>>

PickClicked ==
  /\ mounted /\ state.kind = "loaded" /\ pick # "loading" /\ Happens
  /\ pick' = "loading"
  /\ UNCHANGED <<remote, cache, mounted, state, saveVars, removal, orphanRemoval, refreshing, fetch>>

\* An issue, which a session is made for, or none, or an error.
PickDone ==
  /\ pick = "loading"
  /\ pick' \in {"idle", "error"}
  /\ UNCHANGED <<remote, cache, mounted, state, saveVars, removal, orphanRemoval, refreshing, fetch,
                 count>>

-----------------------------------------------------------------------------
\* Somebody else, an agent for one, ticks a box on GitHub, or wants a human to look.
SomebodyEdits ==
  /\ Happens
  /\ \/ \E b \in Box : remote' = Written(Toggled(remote.body, b))
     \/ remote' = [remote EXCEPT !.needsHuman = TRUE]
  /\ UNCHANGED <<cache, mounted, state, editVars, refreshing, fetch>>

Next ==
  \/ Mount \/ Unmount \/ PollWakes
  \/ \E f \in Fetch : RefreshClicked(f) \/ FetchReads(f) \/ FetchDone(f) \/ FetchFails(f)
  \/ \E b \in Box : Toggle(b)
  \/ SaveClicked \/ SaveWrites \/ SaveSucceeds \/ SaveFails
  \/ HumanizeClicked \/ RemovePrLabel \/ HumanizeDone \/ HumanizeFails
  \/ PickClicked \/ PickDone
  \/ OrphanWrites \/ SomebodyEdits

Spec == Init /\ [][Next]_vars

(***************************************************************************)
(* The loop goes on after its sleep, and every call of gh ends.            *)
(***************************************************************************)
FairSpec ==
  /\ Spec
  /\ WF_vars(PollWakes)
  /\ \A f \in Fetch : WF_vars(FetchReads(f)) /\ WF_vars(FetchDone(f))
  /\ WF_vars(SaveWrites) /\ WF_vars(SaveSucceeds) /\ WF_vars(OrphanWrites)
  /\ WF_vars(RemovePrLabel) /\ WF_vars(HumanizeDone) /\ WF_vars(PickDone)

-----------------------------------------------------------------------------
(***************************************************************************)
(* The buttons come back: "Syncing..." and "Saving..." disable theirs, and *)
(* stand there only while a fetch or the save of this page is under way.   *)
(***************************************************************************)
NothingStuck ==
  /\ refreshing => \E f \in Fetch \ {Warm} : fetch[f] # Idle
  /\ saving => save # NoSave

\* The types of the variables; no task of a page outlives it, only its calls of gh do,
\* and each indicator has a task that clears it.
TypeOK ==
  /\ remote \in View
  /\ cache \in FetchState /\ cache.kind # "error"
  /\ mounted \in BOOLEAN /\ saving \in BOOLEAN /\ refreshing \in BOOLEAN
  /\ state \in FetchState
  /\ pending # NoBody => pending \in Body
  /\ save \in [stage : {"none", "sent", "written"}, view : View]
  /\ orphans \subseteq Body
  /\ removal \in {"none", "sent", "removed"} /\ orphanRemoval \in BOOLEAN
  /\ pick \in {"idle", "loading", "error"}
  /\ fetch \in [Fetch -> [stage : {"idle", "asked", "read"}, view : View]]
  /\ count \in 0..MaxEvents
  /\ ~mounted => \A f \in Fetch \ {Warm} : fetch[f] = Idle
  /\ NothingStuck

\* The tasks on the page are never something GitHub did not have: when the last writing
\* of the issue that the page knows of is the last one there was, the two agree,
\* whichever fetches and saves overlapped.
CurrentViewAgrees ==
  state.kind = "loaded" /\ state.view.version = remote.version => state.view.body = remote.body

(***************************************************************************)
(* No indicator is left without a task that clears it, and the tasks on    *)
(* the page are what GitHub had, whichever fetches and saves overlapped.   *)
(***************************************************************************)
PageAgrees == TypeOK /\ CurrentViewAgrees

(***************************************************************************)
(* Ticks that are not saved yet go when the page is left or when GitHub    *)
(* has them; a fetch, an error or a failed save leaves them (pending_bodies*)
(* of HomeDashboard).                                                      *)
(***************************************************************************)
PendingKept ==
  [][pending # NoBody /\ pending' = NoBody =>
       ~mounted' \/ (save.stage = "written" /\ save.view.body = pending)]_vars

(***************************************************************************)
(* When nothing more happens, the page comes to show what is on GitHub,    *)
(* and goes on showing it, whatever stale overviews, errors and late       *)
(* writes there were: the polling loop outlives them.                      *)
(***************************************************************************)
CatchesUp == <>[](mounted => state.kind = "loaded" /\ state.view = remote)
=============================================================================
