-------------------------- MODULE DashboardProofs --------------------------
(***************************************************************************)
(* The safety of the dashboard, for every set of check boxes, any number   *)
(* of overlapping refreshes and any number of events.                      *)
(***************************************************************************)
EXTENDS Dashboard, FiniteSetTheorems, TLAPS

\* A copy of the issue is one that GitHub had: if nothing was written since, it is the same.
Known(v) == v.version <= remote.version /\ (v.version = remote.version => v.body = remote.body)

\* Everything that came from GitHub is known, wherever it waits.
CopiesKnown ==
  /\ state.kind = "loaded" => Known(state.view)
  /\ cache.kind = "loaded" => Known(cache.view)
  /\ \A f \in Fetch : fetch[f].stage = "read" => Known(fetch[f].view)
  /\ save.stage = "written" => Known(save.view)

\* While a save is under way, what is pending is what is being saved.
SaveIsOfPending ==
  /\ saving <=> save.stage # "none"
  /\ save.stage # "none" => pending = save.view.body
  /\ save.stage = "none" => save = NoSave

\* Each writing of the issue was an event of its own, those that are still to come too.
InFlight == IF save.stage = "sent" THEN 1 ELSE 0
WritesCounted ==
  /\ IsFiniteSet(orphans)
  /\ remote.version + Cardinality(orphans) + InFlight <= count

PageInv == TypeOK /\ CopiesKnown /\ SaveIsOfPending /\ WritesCounted

-----------------------------------------------------------------------------
LEMMA BlankIsView == Blank \in View
BY DashboardAssumption DEF Blank, View, Body

LEMMA InitPageInv == Init => PageInv
<1> SUFFICES ASSUME Init PROVE PageInv
  OBVIOUS
<1>1. MaxEvents \in Nat /\ Blank \in View /\ Blank.version = 0
  BY BlankIsView, DashboardAssumption DEF Blank
<1>2. Cardinality(orphans) = 0 /\ IsFiniteSet(orphans)
  BY FS_EmptySet DEF Init
<1>3. fetch \in [Fetch -> [stage : {"idle", "asked", "read"}, view : View]]
  BY <1>1 DEF Init, Asked, Idle
<1>4. \A f \in Fetch : fetch[f].stage # "read" /\ (f # Warm => fetch[f] = Idle)
  BY DEF Init, Asked, Idle
<1>5. TypeOK
  <2>1. cache \in FetchState /\ cache.kind # "error" /\ state \in FetchState
    BY <1>1 DEF Init, Loading, FetchState
  <2>2. save \in [stage : {"none", "sent", "written"}, view : View]
    BY <1>1 DEF Init, NoSave
  <2>3. (~mounted => \A f \in Fetch \ {Warm} : fetch[f] = Idle) /\ NothingStuck
    BY <1>4 DEF Init, NothingStuck
  <2>4. remote \in View /\ count \in 0..MaxEvents /\ orphans \subseteq Body
    BY <1>1 DEF Init
  <2>5. /\ mounted \in BOOLEAN /\ saving \in BOOLEAN /\ refreshing \in BOOLEAN
        /\ orphanRemoval \in BOOLEAN
        /\ pending # NoBody => pending \in Body
        /\ removal \in {"none", "sent", "removed"} /\ pick \in {"idle", "loading", "error"}
    BY DEF Init
  <2> QED
    BY <1>3, <2>1, <2>2, <2>3, <2>4, <2>5 DEF TypeOK
<1>6. CopiesKnown /\ SaveIsOfPending
  BY <1>4 DEF Init, CopiesKnown, SaveIsOfPending, Loading, NoSave
<1>7. WritesCounted
  BY <1>1, <1>2 DEF Init, WritesCounted, InFlight, NoSave
<1> QED
  BY <1>5, <1>6, <1>7 DEF PageInv

\* A call of gh writes a body: every copy is older than it.
LEMMA WrittenIsNewer ==
  ASSUME PageInv, NEW body \in Body, remote.version < MaxEvents, remote' = Written(body)
  PROVE  /\ remote' \in View /\ remote'.body = body /\ remote'.version = remote.version + 1
         /\ \A v \in View : Known(v) => Known(v)'
<1>1. remote \in View
  BY DEF PageInv, TypeOK
<1>2. remote.version \in Nat /\ MaxEvents \in Nat
  BY <1>1, DashboardAssumption DEF View
<1>3. remote' \in View /\ remote'.body = body /\ remote'.version = remote.version + 1
  <2>1. remote.version + 1 \in 0..MaxEvents
    BY <1>2
  <2>2. remote' = [remote EXCEPT !.body = body, !.version = remote.version + 1]
    BY DEF Written
  <2> QED
    BY <1>1, <2>1, <2>2 DEF View
<1>4. \A v \in View : v.version \in Nat
  BY DashboardAssumption DEF View
<1> QED
  BY <1>2, <1>3, <1>4 DEF Known

\* What a step must leave alone for the copies to stay known.
LEMMA KnownStays ==
  ASSUME remote'.version = remote.version, remote'.body = remote.body
  PROVE  \A v : Known(v) => Known(v)'
BY DEF Known

-----------------------------------------------------------------------------
\* A fetch changes its stage, and nothing of the save.
LEMMA FetchChanges ==
  ASSUME PageInv, UNCHANGED <<remote, editVars>>, count' \in {count, count + 1}, count' <= MaxEvents,
         fetch' \in [Fetch -> [stage : {"idle", "asked", "read"}, view : View]],
         cache' \in FetchState, cache'.kind # "error", state' \in FetchState,
         mounted' \in BOOLEAN, refreshing' \in BOOLEAN,
         ~mounted' => \A f \in Fetch \ {Warm} : fetch'[f] = Idle,
         refreshing' => \E f \in Fetch \ {Warm} : fetch'[f] # Idle,
         state'.kind = "loaded" => Known(state'.view),
         cache'.kind = "loaded" => Known(cache'.view),
         \A f \in Fetch : fetch'[f].stage = "read" => Known(fetch'[f].view)
  PROVE  PageInv'
<1>1. count \in 0..MaxEvents /\ count' \in 0..MaxEvents /\ count <= count' /\ MaxEvents \in Nat
  BY DashboardAssumption DEF PageInv, TypeOK
<1>2. TypeOK'
  BY <1>1 DEF PageInv, TypeOK, NothingStuck, editVars, saveVars, prVars
<1>3. CopiesKnown'
  BY DEF PageInv, CopiesKnown, Known, editVars, saveVars
<1>4. SaveIsOfPending'
  BY DEF PageInv, SaveIsOfPending, editVars, saveVars
<1>5. remote.version + Cardinality(orphans) + InFlight <= count'
  <2>1. remote.version \in Nat /\ Cardinality(orphans) \in Nat /\ InFlight \in Nat
    BY <1>1, FS_CardinalityType DEF PageInv, TypeOK, View, WritesCounted, InFlight
  <2> QED
    BY <1>1, <2>1 DEF PageInv, WritesCounted
<1>6. WritesCounted'
  BY <1>5 DEF PageInv, WritesCounted, InFlight, editVars, saveVars
<1> QED
  BY <1>2, <1>3, <1>4, <1>6 DEF PageInv

LEMMA StagesOfFetch ==
  ASSUME PageInv
  PROVE  /\ Idle \in [stage : {"idle", "asked", "read"}, view : View] /\ Idle.stage = "idle"
         /\ Asked \in [stage : {"idle", "asked", "read"}, view : View] /\ Asked.stage = "asked" /\ Asked # Idle
         /\ \A v \in View : /\ Read(v) \in [stage : {"idle", "asked", "read"}, view : View]
                            /\ Read(v).stage = "read" /\ Read(v).view = v /\ Read(v) # Idle
         /\ Known(remote) /\ remote \in View
         /\ \A v \in View : Loaded(v) \in FetchState /\ Loaded(v).kind = "loaded" /\ Loaded(v).view = v
         /\ Loading \in FetchState /\ Loading.kind = "loading"
         /\ Error \in FetchState /\ Error.kind = "error"
<1>1. Blank \in View /\ remote \in View
  BY BlankIsView DEF PageInv, TypeOK
<1>2. remote.version \in Nat
  BY <1>1, DashboardAssumption DEF View
<1> QED
  BY <1>1, <1>2 DEF Idle, Asked, Read, Known, Loaded, Loading, Error, FetchState

LEMMA MountKeeps == ASSUME PageInv, Mount PROVE PageInv'
<1>1. count' = count + 1 /\ count' <= MaxEvents
  BY DashboardAssumption DEF Mount, Happens, PageInv, TypeOK
<1>2. fetch' \in [Fetch -> [stage : {"idle", "asked", "read"}, view : View]] /\ fetch'[Poll] = Asked
      /\ \A f \in Fetch : fetch'[f].stage = "read" => fetch'[f] = fetch[f]
  BY StagesOfFetch DEF PageInv, TypeOK, Mount, Fetch
<1>3. Poll \in Fetch \ {Warm} /\ fetch'[Poll] # Idle
  BY <1>2, StagesOfFetch, DashboardAssumption DEF Fetch
<1> QED
  BY <1>1, <1>2, <1>3, FetchChanges DEF Mount, PageInv, TypeOK, CopiesKnown

LEMMA PollWakesKeeps == ASSUME PageInv, PollWakes PROVE PageInv'
<1>2. fetch' \in [Fetch -> [stage : {"idle", "asked", "read"}, view : View]] /\ fetch'[Poll] = Asked
      /\ \A f \in Fetch : fetch'[f].stage = "read" => fetch'[f] = fetch[f]
  BY StagesOfFetch DEF PageInv, TypeOK, PollWakes, Fetch
<1>3. Poll \in Fetch \ {Warm} /\ fetch'[Poll] # Idle
  BY <1>2, StagesOfFetch, DashboardAssumption DEF Fetch
<1>4. count' = count /\ count' <= MaxEvents
  BY DashboardAssumption DEF PageInv, TypeOK, PollWakes
<1> QED
  BY <1>2, <1>3, <1>4, FetchChanges DEF PollWakes, PageInv, TypeOK, CopiesKnown

LEMMA RefreshKeeps == ASSUME PageInv, NEW f \in Fetch, RefreshClicked(f) PROVE PageInv'
<1>1. count' = count + 1 /\ count' <= MaxEvents
  BY DashboardAssumption DEF RefreshClicked, Happens, PageInv, TypeOK
<1>2. fetch' \in [Fetch -> [stage : {"idle", "asked", "read"}, view : View]] /\ fetch'[f] = Asked
      /\ \A g \in Fetch : fetch'[g].stage = "read" => fetch'[g] = fetch[g]
  BY StagesOfFetch DEF PageInv, TypeOK, RefreshClicked
<1>3. f \in Fetch \ {Warm} /\ fetch'[f] # Idle
  BY <1>2, StagesOfFetch, DashboardAssumption DEF RefreshClicked
<1> QED
  BY <1>1, <1>2, <1>3, FetchChanges DEF RefreshClicked, PageInv, TypeOK, CopiesKnown

LEMMA FetchReadsKeeps == ASSUME PageInv, NEW f \in Fetch, FetchReads(f) PROVE PageInv'
<1>1. count' = count /\ count' <= MaxEvents
  BY DashboardAssumption DEF FetchReads, PageInv, TypeOK
<1>2. /\ fetch' \in [Fetch -> [stage : {"idle", "asked", "read"}, view : View]]
      /\ fetch'[f] = Read(remote) /\ fetch[f] # Idle
      /\ \A g \in Fetch \ {f} : fetch'[g] = fetch[g]
  BY StagesOfFetch DEF PageInv, TypeOK, FetchReads
<1>3. \A g \in Fetch : fetch[g] # Idle => fetch'[g] # Idle
  BY <1>2, StagesOfFetch
<1>4. \A g \in Fetch : fetch'[g].stage = "read" => Known(fetch'[g].view)
  BY <1>2, StagesOfFetch DEF PageInv, CopiesKnown
<1>5. ~mounted' => \A g \in Fetch \ {Warm} : fetch'[g] = Idle
  BY <1>2 DEF PageInv, TypeOK, FetchReads
<1>6. refreshing' => \E g \in Fetch \ {Warm} : fetch'[g] # Idle
  BY <1>3 DEF PageInv, TypeOK, NothingStuck, FetchReads
<1> QED
  BY <1>1, <1>2, <1>4, <1>5, <1>6, FetchChanges DEF FetchReads, PageInv, TypeOK, CopiesKnown

\* A fetch that is over: nothing else is waited for than before.
LEMMA FetchEnds ==
  ASSUME PageInv, NEW f \in Fetch, fetch' = [fetch EXCEPT ![f] = Idle], mounted' = mounted,
         f = Warm => refreshing' = refreshing, f # Warm => refreshing' = FALSE
  PROVE  /\ fetch' \in [Fetch -> [stage : {"idle", "asked", "read"}, view : View]]
         /\ \A g \in Fetch : fetch'[g].stage = "read" => fetch'[g] = fetch[g]
         /\ ~mounted' => \A g \in Fetch \ {Warm} : fetch'[g] = Idle
         /\ refreshing' => \E g \in Fetch \ {Warm} : fetch'[g] # Idle
         /\ refreshing' \in BOOLEAN
<1>1. /\ fetch' \in [Fetch -> [stage : {"idle", "asked", "read"}, view : View]]
      /\ fetch'[f] = Idle /\ \A g \in Fetch \ {f} : fetch'[g] = fetch[g]
  BY StagesOfFetch DEF PageInv, TypeOK
<1>2. \A g \in Fetch : fetch'[g].stage = "read" => fetch'[g] = fetch[g]
  BY <1>1, StagesOfFetch
<1>3. ~mounted' => \A g \in Fetch \ {Warm} : fetch'[g] = Idle
  BY <1>1 DEF PageInv, TypeOK
<1>4. refreshing' => \E g \in Fetch \ {Warm} : fetch'[g] # Idle
  BY <1>1 DEF PageInv, TypeOK, NothingStuck
<1>5. refreshing' \in BOOLEAN
  BY DEF PageInv, TypeOK
<1> QED
  BY <1>1, <1>2, <1>3, <1>4, <1>5

LEMMA FetchDoneKeeps == ASSUME PageInv, NEW f \in Fetch, FetchDone(f) PROVE PageInv'
<1>1. count' = count /\ count' <= MaxEvents
  BY DashboardAssumption DEF FetchDone, PageInv, TypeOK
<1>2. fetch[f].view \in View /\ Known(fetch[f].view)
  BY DEF FetchDone, PageInv, TypeOK, CopiesKnown
<1>3. cache' = Loaded(fetch[f].view) /\ (state' = cache' \/ state' = state)
  BY DEF FetchDone
<1>4. cache' \in FetchState /\ cache'.kind = "loaded" /\ Known(cache'.view)
  BY <1>2, <1>3, StagesOfFetch
<1>5. state' \in FetchState /\ (state'.kind = "loaded" => Known(state'.view))
  BY <1>3, <1>4 DEF PageInv, TypeOK, CopiesKnown
<1>6. /\ fetch' = [fetch EXCEPT ![f] = Idle] /\ mounted' = mounted /\ UNCHANGED <<remote, editVars>>
      /\ f = Warm => refreshing' = refreshing
      /\ f # Warm => refreshing' = FALSE
  BY DEF FetchDone
<1>7. \A g \in Fetch : fetch'[g].stage = "read" => Known(fetch'[g].view)
  BY <1>6, FetchEnds DEF PageInv, CopiesKnown
<1>8. mounted' \in BOOLEAN
  BY <1>6 DEF PageInv, TypeOK
<1> QED
  BY <1>1, <1>4, <1>5, <1>6, <1>7, <1>8, FetchEnds, FetchChanges

LEMMA FetchFailsKeeps == ASSUME PageInv, NEW f \in Fetch, FetchFails(f) PROVE PageInv'
<1>1. count' = count + 1 /\ count' <= MaxEvents
  BY DashboardAssumption DEF FetchFails, Happens, PageInv, TypeOK
<1>3. cache' = cache /\ (state' = Error \/ state' = state)
  BY DEF FetchFails
<1>5. state' \in FetchState /\ (state'.kind = "loaded" => Known(state'.view))
  BY <1>3, StagesOfFetch DEF PageInv, TypeOK, CopiesKnown
<1>6. /\ fetch' = [fetch EXCEPT ![f] = Idle] /\ mounted' = mounted /\ UNCHANGED <<remote, editVars>>
      /\ f = Warm => refreshing' = refreshing
      /\ f # Warm => refreshing' = FALSE
  BY DEF FetchFails
<1>7. \A g \in Fetch : fetch'[g].stage = "read" => Known(fetch'[g].view)
  BY <1>6, FetchEnds DEF PageInv, CopiesKnown
<1>8. mounted' \in BOOLEAN /\ cache' \in FetchState /\ cache'.kind # "error"
      /\ (cache'.kind = "loaded" => Known(cache'.view))
  BY <1>3, <1>6 DEF PageInv, TypeOK, CopiesKnown
<1> QED
  BY <1>1, <1>5, <1>6, <1>7, <1>8, FetchEnds, FetchChanges

-----------------------------------------------------------------------------
\* The page is left: what its save sent may still arrive.
LEMMA UnmountKeeps == ASSUME PageInv, Unmount PROVE PageInv'
<1>1. count' = count + 1 /\ count' <= MaxEvents /\ count \in Nat /\ count' \in 0..MaxEvents
  BY DashboardAssumption DEF Unmount, Happens, PageInv, TypeOK
<1>2. /\ fetch' \in [Fetch -> [stage : {"idle", "asked", "read"}, view : View]]
      /\ \A f \in Fetch : fetch'[f].stage = "read" => fetch'[f] = fetch[f]
      /\ \A f \in Fetch \ {Warm} : fetch'[f] = Idle
  BY StagesOfFetch DEF PageInv, TypeOK, Unmount
<1>3. NoSave \in [stage : {"none", "sent", "written"}, view : View] /\ NoSave.stage = "none"
  BY BlankIsView DEF NoSave
<1>4. save.view.body \in Body
  BY DEF PageInv, TypeOK, View
<1>5. orphans' \subseteq Body
  BY <1>4 DEF Unmount, PageInv, TypeOK
<1>6. TypeOK'
  BY <1>1, <1>2, <1>3, <1>5, StagesOfFetch DEF Unmount, PageInv, TypeOK, NothingStuck
<1>7. CopiesKnown'
  BY <1>2, <1>3, StagesOfFetch DEF Unmount, PageInv, CopiesKnown, Known
<1>8. SaveIsOfPending'
  BY <1>3 DEF Unmount, SaveIsOfPending
<1>9. WritesCounted'
  <2>1. IsFiniteSet(orphans) /\ remote.version + Cardinality(orphans) + InFlight <= count
        /\ remote.version \in Nat /\ Cardinality(orphans) \in Nat
    BY FS_CardinalityType DEF PageInv, WritesCounted, TypeOK, View
  <2>2. InFlight' = 0 /\ remote' = remote
    BY <1>3 DEF Unmount, InFlight
  <2>3. CASE save.stage = "sent"
    <3>1. IsFiniteSet(orphans') /\ Cardinality(orphans') \in {Cardinality(orphans), Cardinality(orphans) + 1}
      BY <2>1, <2>3, FS_AddElement DEF Unmount
    <3> QED
      BY <1>1, <2>1, <2>2, <2>3, <3>1 DEF WritesCounted, InFlight
  <2>4. CASE save.stage # "sent"
    <3>1. orphans' = orphans
      BY <2>4 DEF Unmount
    <3> QED
      BY <1>1, <2>1, <2>2, <2>4, <3>1 DEF WritesCounted, InFlight
  <2> QED
    BY <2>3, <2>4
<1> QED
  BY <1>6, <1>7, <1>8, <1>9 DEF PageInv

-----------------------------------------------------------------------------
\* A step of the page's own: of the fetches and of the issue on GitHub it changes nothing.
LEMMA PageChanges ==
  ASSUME PageInv, UNCHANGED <<cache, mounted, refreshing, fetch, orphans>>,
         remote'.version = remote.version, remote'.body = remote.body, remote' \in View,
         count' \in {count, count + 1}, count' <= MaxEvents,
         state' \in FetchState, state'.kind = "loaded" => Known(state'.view),
         save' \in [stage : {"none", "sent", "written"}, view : View], SaveIsOfPending', saving' \in BOOLEAN,
         save'.stage = "written" => Known(save'.view),
         save'.stage = "sent" => save.stage = "sent" \/ count' = count + 1,
         pending' # NoBody => pending' \in Body,
         removal' \in {"none", "sent", "removed"}, orphanRemoval' \in BOOLEAN,
         pick' \in {"idle", "loading", "error"}
  PROVE  PageInv'
<1>1. count \in 0..MaxEvents /\ count' \in 0..MaxEvents /\ count <= count' /\ MaxEvents \in Nat
  BY DashboardAssumption DEF PageInv, TypeOK
<1>2. saving' => save' # NoSave
  BY DEF SaveIsOfPending, NoSave
<1>3. TypeOK'
  BY <1>1, <1>2 DEF PageInv, TypeOK, NothingStuck
<1>4. \A v : Known(v) => Known(v)'
  BY KnownStays
<1>5. CopiesKnown'
  BY <1>4 DEF PageInv, CopiesKnown
<1>6. WritesCounted'
  <2>1. IsFiniteSet(orphans) /\ remote.version + Cardinality(orphans) + InFlight <= count
        /\ remote.version \in Nat /\ Cardinality(orphans) \in Nat
    BY FS_CardinalityType DEF PageInv, WritesCounted, TypeOK, View
  <2> QED
    BY <1>1, <2>1 DEF WritesCounted, InFlight
<1> QED
  BY <1>3, <1>5, <1>6 DEF PageInv

\* What the page's steps need of the state before them.
LEMMA PageTypes ==
  ASSUME PageInv
  PROVE  /\ remote \in View /\ state \in FetchState
         /\ count \in Nat /\ count <= MaxEvents
         /\ save \in [stage : {"none", "sent", "written"}, view : View] /\ saving \in BOOLEAN
         /\ NoSave \in [stage : {"none", "sent", "written"}, view : View] /\ NoSave.stage = "none"
         /\ SaveIsOfPending
         /\ save.stage = "written" => Known(save.view)
         /\ state.kind = "loaded" => Known(state.view)
         /\ pending # NoBody => pending \in Body
         /\ removal \in {"none", "sent", "removed"} /\ orphanRemoval \in BOOLEAN
         /\ pick \in {"idle", "loading", "error"}
BY BlankIsView, DashboardAssumption DEF PageInv, TypeOK, CopiesKnown, NoSave

LEMMA ToggleKeeps == ASSUME PageInv, NEW b \in Box, Toggle(b) PROVE PageInv' /\ pending' # NoBody
<1>1. count' = count + 1 /\ count' <= MaxEvents
  BY PageTypes, DashboardAssumption DEF Toggle, Happens
<1>2. state.view.body \in Body
  BY PageTypes DEF FetchState, View
<1>3. EffectiveBody \in Body
  BY <1>2, PageTypes DEF EffectiveBody
<1>4. pending' \in Body /\ pending' # NoBody
  BY <1>3, DashboardAssumption DEF Toggle, Toggled, Body
<1>5. save' = save /\ save.stage = "none"
  BY PageTypes DEF Toggle, SaveIsOfPending
<1>6. SaveIsOfPending'
  BY <1>5, PageTypes DEF Toggle, SaveIsOfPending, NoSave
<1> QED
  BY <1>1, <1>4, <1>5, <1>6, PageTypes, PageChanges DEF Toggle, prVars

LEMMA SaveClickedKeeps == ASSUME PageInv, SaveClicked PROVE PageInv'
<1>1. count' = count + 1 /\ count' <= MaxEvents
  BY PageTypes, DashboardAssumption DEF SaveClicked, Happens
<1>2. [Blank EXCEPT !.body = pending] \in View /\ [Blank EXCEPT !.body = pending].body = pending
  BY PageTypes, BlankIsView DEF SaveClicked, View
<1>3. save'.stage = "sent" /\ save'.view.body = pending /\ save' \in [stage : {"none", "sent", "written"}, view : View]
  BY <1>2 DEF SaveClicked
<1>4. SaveIsOfPending'
  BY <1>3 DEF SaveClicked, SaveIsOfPending
<1> QED
  BY <1>1, <1>3, <1>4, PageTypes, PageChanges DEF SaveClicked, prVars

LEMMA SaveSucceedsKeeps == ASSUME PageInv, SaveSucceeds PROVE PageInv'
<1>1. count' = count /\ count' <= MaxEvents
  BY PageTypes DEF SaveSucceeds
<1>2. pending = save.view.body /\ save.view \in View /\ Known(save.view)
  BY PageTypes DEF SaveSucceeds, SaveIsOfPending
<1>3. state' = IF state.kind = "loaded"
                 THEN [state EXCEPT !.view.body = save.view.body, !.view.version = save.view.version]
                 ELSE state
  BY <1>2 DEF SaveSucceeds
<1>4. state' \in FetchState /\ (state'.kind = "loaded" => Known(state'.view))
  <2>1. CASE state.kind = "loaded"
    <3>1. state' = [kind |-> state.kind, view |-> [state.view EXCEPT !.body = save.view.body,
                                                                     !.version = save.view.version]]
      BY <1>3, <2>1, PageTypes DEF FetchState, View
    <3>2. state'.view \in View /\ state'.view.body = save.view.body /\ state'.view.version = save.view.version
      BY <1>2, <3>1, PageTypes DEF FetchState, View
    <3> QED
      BY <1>2, <3>1, <3>2, PageTypes DEF FetchState, Known
  <2>2. CASE state.kind # "loaded"
    BY <1>3, <2>2, PageTypes
  <2> QED
    BY <2>1, <2>2
<1>5. save' = NoSave /\ SaveIsOfPending'
  BY PageTypes DEF SaveSucceeds, SaveIsOfPending
<1> QED
  BY <1>1, <1>4, <1>5, PageTypes, PageChanges DEF SaveSucceeds, prVars

LEMMA SaveFailsKeeps == ASSUME PageInv, SaveFails PROVE PageInv'
<1>1. count' = count + 1 /\ count' <= MaxEvents
  BY PageTypes, DashboardAssumption DEF SaveFails, Happens
<1>2. save' = NoSave /\ SaveIsOfPending'
  BY PageTypes DEF SaveFails, SaveIsOfPending
<1> QED
  BY <1>1, <1>2, PageTypes, PageChanges DEF SaveFails, prVars

LEMMA LabelKeeps ==
  ASSUME PageInv, HumanizeClicked \/ HumanizeFails \/ PickClicked \/ PickDone \/ HumanizeDone \/ RemovePrLabel
  PROVE  PageInv'
<1>1. count' \in {count, count + 1} /\ count' <= MaxEvents
  BY PageTypes, DashboardAssumption
     DEF HumanizeClicked, HumanizeFails, PickClicked, PickDone, HumanizeDone, RemovePrLabel, Happens
<1>2. UNCHANGED <<cache, mounted, refreshing, fetch, saveVars>>
  BY DEF HumanizeClicked, HumanizeFails, PickClicked, PickDone, HumanizeDone, RemovePrLabel
<1>3. save' = save /\ SaveIsOfPending' /\ saving' = saving /\ pending' = pending /\ orphans' = orphans
  BY <1>2, PageTypes DEF SaveIsOfPending, saveVars
<1>4. remote'.version = remote.version /\ remote'.body = remote.body /\ remote' \in View
  BY PageTypes DEF HumanizeClicked, HumanizeFails, PickClicked, PickDone, HumanizeDone, RemovePrLabel, View
<1>5. state' \in FetchState /\ (state'.kind = "loaded" => Known(state'.view))
  <2>1. CASE HumanizeDone /\ state.kind = "loaded"
    <3>1. state' = [kind |-> state.kind, view |-> [state.view EXCEPT !.needsHuman = FALSE]]
      BY <2>1, PageTypes DEF HumanizeDone, FetchState, View
    <3>2. state'.view \in View /\ state'.view.body = state.view.body /\ state'.view.version = state.view.version
      BY <3>1, PageTypes DEF FetchState, View
    <3> QED
      BY <2>1, <3>1, <3>2, PageTypes DEF FetchState, Known
  <2>2. CASE state' = state
    BY <2>2, PageTypes
  <2> QED
    BY <2>1, <2>2 DEF HumanizeClicked, HumanizeFails, PickClicked, PickDone, HumanizeDone, RemovePrLabel
<1>6. removal' \in {"none", "sent", "removed"} /\ orphanRemoval' \in BOOLEAN
      /\ pick' \in {"idle", "loading", "error"}
  BY PageTypes DEF HumanizeClicked, HumanizeFails, PickClicked, PickDone, HumanizeDone, RemovePrLabel
<1> QED
  BY <1>1, <1>2, <1>3, <1>4, <1>5, <1>6, PageTypes, PageChanges

-----------------------------------------------------------------------------
\* The issue is written: by the save, by a save that was left behind, or by somebody.
LEMMA WritingKeeps ==
  ASSUME PageInv, NEW body \in Body, remote' = Written(body), remote.version < count',
         UNCHANGED <<cache, mounted, state, pending, saving, prVars, refreshing, fetch>>,
         count' \in 0..MaxEvents, orphans' \subseteq Body,
         save' = save \/ (save.stage = "sent" /\ save' = [stage |-> "written", view |-> remote']),
         save' # save => save.view.body = body,
         WritesCounted'
  PROVE  PageInv'
<1>1. remote.version < MaxEvents
  BY DashboardAssumption DEF PageInv, TypeOK, View
<1>2. remote' \in View /\ remote'.body = body /\ \A v \in View : Known(v) => Known(v)'
  BY <1>1, WrittenIsNewer
<1>3. remote'.version \in Nat
  BY <1>2, DashboardAssumption DEF View
<1>4. save' \in [stage : {"none", "sent", "written"}, view : View] /\ (save.stage = "written" => Known(save.view))'
  <2>1. CASE save' = save
    BY <1>2, <2>1, PageTypes DEF Known
  <2>2. CASE save' = [stage |-> "written", view |-> remote']
    BY <1>2, <1>3, <2>2 DEF Known
  <2> QED
    BY <2>1, <2>2
<1>5. SaveIsOfPending'
  BY <1>2, PageTypes DEF SaveIsOfPending
<1>6. saving' => save' # NoSave
  BY <1>5 DEF SaveIsOfPending, NoSave
<1>7. TypeOK'
  BY <1>2, <1>4, <1>6 DEF PageInv, TypeOK, NothingStuck, prVars
<1>8. CopiesKnown'
  <2>1. state.view \in View /\ cache.view \in View /\ \A f \in Fetch : fetch[f].view \in View
    BY DEF PageInv, TypeOK, FetchState
  <2>2. (state.kind = "loaded" => Known(state.view))' /\ (cache.kind = "loaded" => Known(cache.view))'
    BY <1>2, <2>1 DEF PageInv, CopiesKnown, Known
  <2>3. (\A f \in Fetch : fetch[f].stage = "read" => Known(fetch[f].view))'
    BY <1>2, <2>1 DEF PageInv, CopiesKnown, Known
  <2> QED
    BY <1>4, <2>2, <2>3 DEF CopiesKnown
<1> QED
  BY <1>5, <1>7, <1>8 DEF PageInv

LEMMA SaveWritesKeeps == ASSUME PageInv, SaveWrites PROVE PageInv'
<1>1. IsFiniteSet(orphans) /\ remote.version + Cardinality(orphans) + 1 <= count
      /\ remote.version \in Nat /\ Cardinality(orphans) \in Nat /\ count \in 0..MaxEvents
  BY FS_CardinalityType DEF PageInv, WritesCounted, InFlight, TypeOK, View, SaveWrites
<1>2. save.view.body \in Body /\ remote' = Written(save.view.body) /\ count' = count
  BY PageTypes DEF SaveWrites, View
<1>3. remote'.version = remote.version + 1
  BY <1>1, <1>2, WrittenIsNewer, DashboardAssumption
<1>4. WritesCounted'
  BY <1>1, <1>2, <1>3 DEF WritesCounted, InFlight, SaveWrites
<1>5. remote.version < count' /\ count' \in 0..MaxEvents /\ orphans' \subseteq Body
  BY <1>1, <1>2 DEF SaveWrites, PageInv, TypeOK
<1> QED
  BY <1>2, <1>4, <1>5, WritingKeeps DEF SaveWrites

LEMMA OrphanWritesKeeps == ASSUME PageInv, OrphanWrites PROVE PageInv'
<1>1. PICK body \in orphans : remote' = Written(body) /\ orphans' = orphans \ {body}
  BY DEF OrphanWrites
<1>2. /\ IsFiniteSet(orphans) /\ remote.version + Cardinality(orphans) + InFlight <= count
      /\ remote.version \in Nat /\ Cardinality(orphans) \in Nat /\ count \in 0..MaxEvents /\ InFlight \in Nat
      /\ body \in Body /\ orphans \subseteq Body
  BY <1>1, FS_CardinalityType DEF PageInv, WritesCounted, InFlight, TypeOK, View
<1>3. IsFiniteSet(orphans') /\ Cardinality(orphans') = Cardinality(orphans) - 1 /\ Cardinality(orphans') \in Nat
  BY <1>1, <1>2, FS_RemoveElement, FS_CardinalityType
<1>4. remote'.version = remote.version + 1
  BY <1>1, <1>2, <1>3, WrittenIsNewer, DashboardAssumption
<1>5. count' = count /\ save' = save
  BY DEF OrphanWrites
<1>6. WritesCounted'
  BY <1>2, <1>3, <1>4, <1>5 DEF WritesCounted, InFlight
<1>7. remote.version < count' /\ count' \in 0..MaxEvents /\ orphans' \subseteq Body
  BY <1>1, <1>2, <1>3, <1>5
<1> QED
  BY <1>1, <1>2, <1>5, <1>6, <1>7, WritingKeeps DEF OrphanWrites

LEMMA SomebodyEditsKeeps == ASSUME PageInv, SomebodyEdits PROVE PageInv'
<1>1. count' = count + 1 /\ count' <= MaxEvents /\ count' \in 0..MaxEvents
  BY PageTypes, DashboardAssumption DEF SomebodyEdits, Happens
<1>2. /\ IsFiniteSet(orphans) /\ remote.version + Cardinality(orphans) + InFlight <= count
      /\ remote.version \in Nat /\ Cardinality(orphans) \in Nat /\ count \in Nat /\ InFlight \in Nat
      /\ orphans \subseteq Body
  BY PageTypes, FS_CardinalityType DEF PageInv, WritesCounted, InFlight, TypeOK, View
<1>3. UNCHANGED <<cache, mounted, state, pending, saving, save, orphans, prVars, refreshing, fetch>>
  BY DEF SomebodyEdits, editVars, saveVars
<1>4. CASE \E b \in Box : remote' = Written(Toggled(remote.body, b))
  <2>1. PICK b \in Box : remote' = Written(Toggled(remote.body, b))
    BY <1>4
  <2>2. Toggled(remote.body, b) \in Body
    BY PageTypes DEF Toggled, View, Body
  <2>3. remote.version < MaxEvents /\ remote.version < count'
    BY <1>1, <1>2, DashboardAssumption
  <2>4. remote'.version = remote.version + 1
    BY <2>1, <2>2, <2>3, WrittenIsNewer
  <2>5. WritesCounted'
    BY <1>1, <1>2, <1>3, <2>4 DEF WritesCounted, InFlight
  <2> QED
    BY <1>1, <1>2, <1>3, <2>1, <2>2, <2>3, <2>5, WritingKeeps
<1>5. CASE remote' = [remote EXCEPT !.needsHuman = TRUE]
  <2>1. remote'.version = remote.version /\ remote'.body = remote.body /\ remote' \in View
    BY <1>5, PageTypes DEF View
  <2>2. SaveIsOfPending'
    BY <1>3, PageTypes DEF SaveIsOfPending
  <2> QED
    BY <1>1, <1>3, <2>1, <2>2, PageTypes, PageChanges DEF prVars
<1> QED
  BY <1>4, <1>5 DEF SomebodyEdits

-----------------------------------------------------------------------------
LEMMA NextPageInv == PageInv /\ [Next]_vars => PageInv'
<1> SUFFICES ASSUME PageInv, [Next]_vars PROVE PageInv'
  OBVIOUS
<1>1. CASE Mount \/ Unmount \/ PollWakes
  BY <1>1, MountKeeps, UnmountKeeps, PollWakesKeeps
<1>2. CASE \E f \in Fetch : RefreshClicked(f) \/ FetchReads(f) \/ FetchDone(f) \/ FetchFails(f)
  BY <1>2, RefreshKeeps, FetchReadsKeeps, FetchDoneKeeps, FetchFailsKeeps
<1>3. CASE \E b \in Box : Toggle(b)
  BY <1>3, ToggleKeeps
<1>4. CASE SaveClicked \/ SaveWrites \/ SaveSucceeds \/ SaveFails
  BY <1>4, SaveClickedKeeps, SaveWritesKeeps, SaveSucceedsKeeps, SaveFailsKeeps
<1>5. CASE HumanizeClicked \/ RemovePrLabel \/ HumanizeDone \/ HumanizeFails \/ PickClicked \/ PickDone
  BY <1>5, LabelKeeps
<1>6. CASE OrphanWrites \/ SomebodyEdits
  BY <1>6, OrphanWritesKeeps, SomebodyEditsKeeps
<1>7. CASE UNCHANGED vars
  BY <1>7 DEF vars, PageInv, TypeOK, NothingStuck, CopiesKnown, Known, SaveIsOfPending, WritesCounted, InFlight
<1> QED
  BY <1>1, <1>2, <1>3, <1>4, <1>5, <1>6, <1>7 DEF Next

\* No indicator of the page is left without a task that clears it, and its task list is what
\* GitHub had when its last writing is the last there was, whichever fetches, saves and writes
\* of saves that were left behind overlapped (home_dashboard.rs).
THEOREM PageIsKnown == Spec => []PageAgrees
<1>1. PageInv => PageAgrees
  BY DEF PageInv, PageAgrees, CurrentViewAgrees, CopiesKnown, Known
<1> QED
  BY <1>1, InitPageInv, NextPageInv, PTL DEF Spec

\* Ticks that are not saved yet go only with the page or when GitHub has taken them
\* (pending_bodies of home_dashboard.rs).
THEOREM TicksAreKept == Spec => PendingKept
<1> DEFINE Lost == pending # NoBody /\ pending' = NoBody =>
                     ~mounted' \/ (save.stage = "written" /\ save.view.body = pending)
<1>1. PageInv /\ [Next]_vars => [Lost]_vars
  <2> SUFFICES ASSUME PageInv, Next, pending # NoBody, pending' = NoBody
               PROVE  ~mounted' \/ (save.stage = "written" /\ save.view.body = pending)
    OBVIOUS
  <2>1. CASE Mount \/ PollWakes \/ SaveClicked \/ SaveWrites \/ SaveFails \/ OrphanWrites \/ SomebodyEdits
    BY <2>1 DEF Mount, PollWakes, SaveClicked, SaveWrites, SaveFails, OrphanWrites, SomebodyEdits,
       editVars, saveVars
  <2>2. CASE \E f \in Fetch : RefreshClicked(f) \/ FetchReads(f) \/ FetchDone(f) \/ FetchFails(f)
    BY <2>2 DEF RefreshClicked, FetchReads, FetchDone, FetchFails, editVars, saveVars
  <2>3. CASE HumanizeClicked \/ RemovePrLabel \/ HumanizeDone \/ HumanizeFails \/ PickClicked \/ PickDone
    BY <2>3 DEF HumanizeClicked, RemovePrLabel, HumanizeDone, HumanizeFails, PickClicked, PickDone, saveVars
  <2>4. CASE \E b \in Box : Toggle(b)
    BY <2>4, ToggleKeeps
  <2>5. CASE Unmount
    BY <2>5 DEF Unmount
  <2>6. CASE SaveSucceeds
    BY <2>6 DEF SaveSucceeds, PageInv, SaveIsOfPending
  <2> QED
    BY <2>1, <2>2, <2>3, <2>4, <2>5, <2>6 DEF Next
<1> QED
  BY <1>1, InitPageInv, NextPageInv, PTL DEF Spec, PendingKept

=============================================================================
