------------------------------ MODULE Sessions ------------------------------
(***************************************************************************)
(* One session, in memory and on disk: the Orchestrator that runs it       *)
(* (crates/core/src/orchestrator.rs), the SessionStore's directory for it  *)
(* (crates/core/src/session.rs) and the user interface, which recovers     *)
(* sessions when it starts and deletes one when its tab is closed.         *)
(*                                                                         *)
(* SessionStore takes no lock.  Its save is three calls to the file system *)
(* (make the directory, write a temporary file, rename it), its delete     *)
(* empties the directory before it removes it, and the calls of different  *)
(* processes interleave.                                                   *)
(***************************************************************************)
EXTENDS Naturals, Sequences, FiniteSets

CONSTANTS
  Role,       \* the roles an agent can have: configured, or well-formed names
  MaxAgents,  \* bound on the agents of a role
  MaxStarts   \* bound on the runs and resumptions of the session

ASSUME SessionsAssumption ==
  MaxAgents \in Nat /\ MaxStarts \in Nat

VARIABLES
  runner,   \* the process that executes the workflow
  session,  \* its Orchestrator's session
  counts,   \* its Orchestrator's agent_counts
  pending,  \* the id spawn_agent is about to return
  issued,   \* the ids spawn_agent has returned, oldest first
  ui,       \* the user interface, a process or a part of the runner's
  copy,     \* the session it read and will write back
  phase,    \* where each of the two is in SessionStore::save
  dir,      \* does the session's directory exist?
  tmp,      \* each one's temporary file
  file,     \* session.json
  starts,     \* runs and resumptions so far
  overlapped  \* did a user interface ever recover the session while it was running?

vars == <<runner, session, counts, pending, issued, ui, copy, phase, dir, tmp, file,
          starts, overlapped>>

runnerVars == <<runner, session, counts, pending, issued, starts>>
uiVars     == <<ui, copy, overlapped>>

Writer    == {"runner", "ui"}
AgentId   == Role \X (Nat \ {0})
SessionOf == [status : {"running", "interrupted"}, agents : SUBSET AgentId]
None      == [status |-> "none", agents |-> {}]
Partial   == [status |-> "partial", agents |-> {}]

Up == runner \in {"creating", "idle", "spawning"}

\* "{role}-{n}", read back at the last dash: the number is the second component.
AgentIdOf(role, n) == <<role, n>>

\* Slip: a new Orchestrator starts to count again.
BuildNoCounts(agents) == [r \in Role |-> 0]

BuildAgentCounts(agents) ==
  [r \in Role |->
     LET numbers == {a[2] : a \in {x \in agents : x[1] = r}} IN
     IF numbers = {} THEN 0
     ELSE CHOOSE n \in numbers : \A m \in numbers : m <= n]

\* mark_interrupted of a running session; the program keeps no steps in a session.
MarkInterrupted(s) == [s EXCEPT !.status = "interrupted"]

Content(p) == IF p = "runner" THEN session ELSE copy

Init ==
  /\ runner = "down" /\ session = None /\ counts = [r \in Role |-> 0]
  /\ pending = <<>> /\ issued = <<>>
  /\ ui = "idle" /\ copy = None
  /\ phase = [p \in Writer |-> "none"]
  /\ dir = FALSE /\ tmp = [p \in Writer |-> None] /\ file = None
  /\ starts = 0 /\ overlapped = FALSE

-----------------------------------------------------------------------------
\* SessionStore::save, for either writer; Finish says what the caller does next.

BeginSave(p) == phase' = [phase EXCEPT ![p] = "mkdir"]
EndSave(p)   == phase' = [phase EXCEPT ![p] = "none"]

\* What follows the save: run.rs starts the engine, spawn_agent returns its id.
AfterSave(p, ok) ==
  CASE p = "runner" /\ runner = "creating" ->
         /\ runner' = IF ok THEN "idle" ELSE "down"
         /\ UNCHANGED <<session, counts, pending, issued, starts, uiVars>>
    [] p = "runner" /\ runner = "spawning" ->
         /\ runner' = "idle"
         /\ issued' = IF ok THEN Append(issued, pending) ELSE issued
         /\ UNCHANGED <<session, counts, pending, starts, uiVars>>
    [] OTHER -> ui' = "idle" /\ UNCHANGED <<runnerVars, copy, overlapped>>

CreateDir(p) ==
  /\ phase[p] = "mkdir"
  /\ dir' = TRUE
  /\ phase' = [phase EXCEPT ![p] = "write"]
  /\ UNCHANGED <<runnerVars, uiVars, tmp, file>>

WriteTmp(p) ==
  /\ phase[p] = "write" /\ dir
  /\ tmp' = [tmp EXCEPT ![p] = Content(p)]
  /\ phase' = [phase EXCEPT ![p] = "rename"]
  /\ UNCHANGED <<runnerVars, uiVars, dir, file>>

Rename(p) ==
  /\ phase[p] = "rename" /\ tmp[p] # None
  /\ file' = tmp[p]
  /\ tmp' = [tmp EXCEPT ![p] = None]
  /\ EndSave(p)
  /\ AfterSave(p, TRUE)
  /\ UNCHANGED dir

\* Any of the calls fails; a failed write may leave part of the temporary file.
SaveFails(p) ==
  /\ phase[p] # "none"
  /\ \/ UNCHANGED tmp
     \/ phase[p] = "write" /\ dir /\ tmp' = [tmp EXCEPT ![p] = Partial]
  /\ EndSave(p)
  /\ AfterSave(p, FALSE)
  /\ UNCHANGED <<dir, file>>

-----------------------------------------------------------------------------
\* The runner.

Create ==
  /\ runner = "down" /\ starts = 0 /\ starts < MaxStarts
  /\ runner' = "creating"
  /\ session' = [status |-> "running", agents |-> {}]
  /\ counts' = [r \in Role |-> 0]
  /\ BeginSave("runner")
  /\ starts' = starts + 1
  /\ UNCHANGED <<pending, issued, uiVars, dir, tmp, file>>

SpawnAgent(role) ==
  /\ runner = "idle" /\ counts[role] < MaxAgents
  /\ counts' = [counts EXCEPT ![role] = @ + 1]
  /\ pending' = AgentIdOf(role, counts'[role])
  /\ session' = [session EXCEPT !.agents = @ \cup {pending'}]
  /\ runner' = "spawning"
  /\ BeginSave("runner")
  /\ UNCHANGED <<issued, starts, uiVars, dir, tmp, file>>

\* The process ends or dies, in the middle of a save or not.
Stop ==
  /\ Up
  /\ runner' = "down"
  /\ EndSave("runner")
  /\ UNCHANGED <<session, counts, pending, issued, starts, uiVars, dir, tmp, file>>

\* Slip: what is loaded counts as running again.
ResumeAsRunning ==
  /\ runner = "down" /\ starts < MaxStarts
  /\ file.status \in {"running", "interrupted"}
  /\ session' = [file EXCEPT !.status = "running"]
  /\ counts' = BuildAgentCounts(file.agents)
  /\ runner' = "idle"
  /\ starts' = starts + 1
  /\ overlapped' = (overlapped \/ ui = "recovering")
  /\ UNCHANGED <<pending, issued, ui, copy, phase, dir, tmp, file>>

\* Orchestrator::new on a session that was loaded from disk.
Resume ==
  /\ runner = "down" /\ starts < MaxStarts
  /\ file.status \in {"running", "interrupted"}
  /\ session' = file
  /\ counts' = BuildAgentCounts(file.agents)
  /\ runner' = "idle"
  /\ starts' = starts + 1
  /\ overlapped' = (overlapped \/ ui = "recovering")
  /\ UNCHANGED <<pending, issued, ui, copy, phase, dir, tmp, file>>

-----------------------------------------------------------------------------
\* The user interface.

\* load_all_and_recover: a session found Running is marked and saved.
Recover ==
  /\ ui = "idle"
  /\ file.status = "running"
  /\ copy' = MarkInterrupted(file)
  /\ ui' = "recovering"
  /\ BeginSave("ui")
  /\ overlapped' = (overlapped \/ Up)
  /\ UNCHANGED <<runnerVars, dir, tmp, file>>

\* delete: remove_dir_all empties the directory, then removes it.
EmptyDir ==
  /\ ui = "idle" /\ dir
  /\ file' = None /\ tmp' = [p \in Writer |-> None]
  /\ ui' = "deleting"
  /\ UNCHANGED <<runnerVars, copy, overlapped, phase, dir>>

RemoveDir ==
  /\ ui = "deleting"
  /\ file = None /\ \A p \in Writer : tmp[p] = None
  /\ dir' = FALSE
  /\ ui' = "idle"
  /\ UNCHANGED <<runnerVars, copy, overlapped, phase, tmp, file>>

\* The directory is not empty any more, or another call fails: the error is logged.
DeleteFails ==
  /\ ui = "deleting"
  /\ ui' = "idle"
  /\ UNCHANGED <<runnerVars, copy, overlapped, phase, dir, tmp, file>>

Next ==
  \/ \E p \in Writer : CreateDir(p) \/ WriteTmp(p) \/ Rename(p) \/ SaveFails(p)
  \/ Create
  \/ \E r \in Role : SpawnAgent(r)
  \/ Stop \/ Resume
  \/ Recover
  \/ EmptyDir \/ RemoveDir \/ DeleteFails

Spec == Init /\ [][Next]_vars

-----------------------------------------------------------------------------
\* session.json is never half written, whoever writes, fails or dies: it only ever
\* appears by the rename of a complete file (SessionStore::save); the temporary files
\* may be anything.
TypeOK ==
  /\ runner \in {"down", "creating", "idle", "spawning"}
  /\ session \in SessionOf \cup {None}
  /\ counts \in [Role -> Nat]
  /\ pending \in AgentId \cup {<<>>}
  /\ issued \in Seq(AgentId)
  /\ ui \in {"idle", "recovering", "deleting"}
  /\ copy \in SessionOf \cup {None}
  /\ phase \in [Writer -> {"none", "mkdir", "write", "rename"}]
  /\ dir \in BOOLEAN
  /\ tmp \in [Writer -> SessionOf \cup {None, Partial}]
  /\ file \in SessionOf \cup {None}
  /\ starts \in Nat /\ overlapped \in BOOLEAN

\* An agent id that spawn_agent has returned is in session.json whenever there is one,
\* through failed saves, crashes, recoveries and deletions; unless a user interface has
\* written back an older session meanwhile.
IssuedIsPersisted ==
  (~overlapped /\ file \in SessionOf) => \A i \in DOMAIN issued : issued[i] \in file.agents

\* No agent id is given out twice over the whole life of the session: not after a failed
\* save, and not after a crash, when agent_counts is built again from what had been
\* saved.
NoIdReissued ==
  ~overlapped => \A i, j \in DOMAIN issued : issued[i] = issued[j] => i = j

(***************************************************************************)
(* Through failed saves, crashes between any two steps of a save,          *)
(* recoveries and deletions: session.json is never half written, an agent  *)
(* id that was given out is in it, and none is given out twice.            *)
(***************************************************************************)
IdsKept == TypeOK /\ IssuedIsPersisted /\ NoIdReissued

(***************************************************************************)
(* The status on disk is the one the running process has in memory.  What  *)
(* mark_interrupted is documented to be for, sessions that were running at *)
(* shutdown, implies it: a session that is up is not marked as interrupted.*)
(***************************************************************************)
StatusAgrees == (Up /\ file \in SessionOf) => file.status = session.status

(***************************************************************************)
(* It is, as long as no user interface recovers it while it is running.    *)
(***************************************************************************)
StatusAgreesAlone == ~overlapped => StatusAgrees

-----------------------------------------------------------------------------
(***************************************************************************)
(* The steps of a session, which only the tests keep in one: a function    *)
(* from steps to their statuses.                                           *)
(***************************************************************************)
DeriveStatus(steps) ==
  LET statuses == {steps[id] : id \in DOMAIN steps}
  IN  CASE "running" \in statuses -> "running"
        [] "running" \notin statuses /\ "failed" \in statuses -> "failed"
        [] statuses # {} /\ statuses \subseteq {"completed", "skipped"} -> "completed"
        [] OTHER -> "running"

UpdateStep(s, id, status) ==
  LET steps == [x \in DOMAIN s.steps \cup {id} |-> IF x = id THEN status ELSE s.steps[x]]
  IN  [steps |-> steps, status |-> DeriveStatus(steps)]

\* A session that has ended keeps its status, unless one of its steps still ran.
MarkStepsInterrupted(s) ==
  LET ran == \E id \in DOMAIN s.steps : s.steps[id] = "running"
  IN  [steps  |-> [id \in DOMAIN s.steps |->
                     IF s.steps[id] = "running" THEN "failed" ELSE s.steps[id]],
       status |-> IF ran \/ s.status = "running" THEN "interrupted" ELSE s.status]
=============================================================================
