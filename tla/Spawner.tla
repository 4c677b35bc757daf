------------------------------ MODULE Spawner ------------------------------
(***************************************************************************)
(* One call of OrchestratorSpawner::spawn_step (crates/cli/src/spawner.rs) *)
(* with the PTY process it runs (crates/agent/src/pty.rs and claude.rs).   *)
(*                                                                         *)
(* Four parties run concurrently: the spawn_step task, the agent's own     *)
(* processes on the slave side of the PTY, the blocking reader thread that *)
(* collects the output and broadcasts it, and the forwarder task that      *)
(* hands the broadcast on as AgentOutput events.  Output is counted in     *)
(* chunks, the reader's reads, numbered from 1.                            *)
(***************************************************************************)
EXTENDS Naturals, Sequences

CONSTANTS
  Capacity,   \* of the broadcast channel (1024)
  MaxChunks   \* bound: what the agent's processes write

ASSUME SpawnerAssumption ==
  /\ Capacity \in Nat \ {0}
  /\ MaxChunks \in Nat

VARIABLES
  task,       \* where spawn_step is
  child,      \* the agent's process
  slaveOpen,  \* does some process still hold the slave side?
  written,    \* chunks written to the PTY
  reader,     \* the reader thread
  collected,  \* chunks read, kept in collected_output and sent on output_tx
  exitSent,   \* has Exited been sent on output_tx?
  handle,     \* the AgentHandle, which owns a sender of the channel
  fwd,        \* the forwarder task
  received,   \* messages the forwarder has taken from the channel
  forwarded,  \* the chunks it sent on as AgentOutput events
  resizer,    \* is the PTY in the registry of resizers?
  result,     \* what spawn_step returned
  output      \* the chunks in the StepResult

vars == <<task, child, slaveOpen, written, reader, collected, exitSent, handle,
          fwd, received, forwarded, resizer, result, output>>

agentVars  == <<child, slaveOpen, written>>
readerVars == <<reader, collected>>
fwdVars    == <<fwd, received, forwarded>>
endVars    == <<result, output>>

ReaderGone == reader \in {"done", "failed"}

Sent == IF exitSent THEN collected + 1 ELSE collected

Init ==
  /\ task = "spawn" /\ child = "none" /\ slaveOpen = FALSE /\ written = 0
  /\ reader = "none" /\ collected = 0 /\ exitSent = FALSE /\ handle = "none"
  /\ fwd = "none" /\ received = 0 /\ forwarded = <<>>
  /\ resizer = FALSE /\ result = "none" /\ output = 0

-----------------------------------------------------------------------------
\* The spawn_step task.

\* No agent id, no MCP configuration file or no PTY: the step fails at once.
FailBeforePty ==
  /\ task = "spawn"
  /\ task' = "returned" /\ result' = "err"
  /\ UNCHANGED <<agentVars, readerVars, exitSent, handle, fwdVars, resizer, output>>

\* The command runs already when the PTY's reader or writer cannot be made.
PtySetupFails ==
  /\ task = "spawn"
  /\ child' = "running" /\ slaveOpen' = TRUE
  /\ task' = "returned" /\ result' = "err"
  /\ UNCHANGED <<written, readerVars, exitSent, handle, fwdVars, resizer, output>>

SpawnPty ==
  /\ task = "spawn"
  /\ child' = "running" /\ slaveOpen' = TRUE
  /\ reader' = "reading" /\ handle' = "held"
  /\ task' = "prompt"
  /\ UNCHANGED <<written, collected, exitSent, fwdVars, resizer, endVars>>

PromptWritten ==
  /\ task = "prompt"
  /\ task' = "register"
  /\ UNCHANGED <<agentVars, readerVars, exitSent, handle, fwdVars, resizer, endVars>>

\* The agent is killed and its handle dropped; whatever it left running is not.
PromptFails ==
  /\ task = "prompt"
  /\ child' = "exited" /\ slaveOpen' \in {FALSE, slaveOpen}
  /\ handle' = "dropped"
  /\ task' = "returned" /\ result' = "err"
  /\ UNCHANGED <<written, readerVars, exitSent, fwdVars, resizer, output>>

\* There is a forwarder if there is an event sender (event_tx).
Register ==
  /\ task = "register"
  /\ resizer' = TRUE
  /\ fwd' \in {"running", "none"}
  /\ task' = "wait"
  /\ UNCHANGED <<agentVars, readerVars, exitSent, handle, received, forwarded, endVars>>

ChildReaped ==
  /\ task = "wait" /\ child = "exited"
  /\ task' = "join"
  /\ UNCHANGED <<agentVars, readerVars, exitSent, handle, fwdVars, resizer, endVars>>

\* The early return on an error of wait skips remove_resizer.
WaitFails ==
  /\ task = "wait"
  /\ handle' = "dropped"
  /\ task' = "returned" /\ result' = "err"
  /\ UNCHANGED <<agentVars, readerVars, exitSent, fwdVars, resizer, output>>

\* Slip: the forwarder is awaited even if there is none.
ReaderJoinedDrains ==
  /\ task = "join" /\ ReaderGone
  /\ exitSent' = TRUE /\ resizer' = FALSE
  /\ task' = "drain"
  /\ UNCHANGED <<agentVars, readerVars, handle, fwdVars, endVars>>

\* wait ends once the reader has, and the forwarder is awaited if there is one.
ReaderJoined ==
  /\ task = "join" /\ ReaderGone
  /\ exitSent' = TRUE /\ resizer' = FALSE
  /\ task' = IF fwd = "none" THEN "collect" ELSE "drain"
  /\ UNCHANGED <<agentVars, readerVars, handle, fwdVars, endVars>>

Drained ==
  /\ task = "drain" /\ fwd = "ended"
  /\ task' = "collect"
  /\ UNCHANGED <<agentVars, readerVars, exitSent, handle, fwdVars, resizer, endVars>>

Return ==
  /\ task = "collect"
  /\ output' = collected /\ result' = "ok"
  /\ handle' = "dropped"
  /\ task' = "returned"
  /\ UNCHANGED <<agentVars, readerVars, exitSent, fwdVars, resizer>>

Task == \/ FailBeforePty \/ PtySetupFails \/ SpawnPty \/ PromptWritten \/ PromptFails \/ Register
        \/ ChildReaped \/ WaitFails \/ ReaderJoined \/ Drained \/ Return

-----------------------------------------------------------------------------
\* The processes on the slave side: the agent and what it leaves running.

\* A terminal whose master side is gone takes no output.
Write ==
  /\ slaveOpen /\ reader # "none" /\ written < MaxChunks
  /\ written' = written + 1
  /\ UNCHANGED <<task, child, slaveOpen, readerVars, exitSent, handle, fwdVars, resizer, endVars>>

Exit ==
  /\ child = "running"
  /\ child' = "exited" /\ slaveOpen' \in {FALSE, slaveOpen}
  /\ UNCHANGED <<task, written, readerVars, exitSent, handle, fwdVars, resizer, endVars>>

LastHolderExits ==
  /\ child = "exited" /\ slaveOpen
  /\ slaveOpen' = FALSE
  /\ UNCHANGED <<task, child, written, readerVars, exitSent, handle, fwdVars, resizer, endVars>>

-----------------------------------------------------------------------------
\* The reader thread: the end of the PTY is seen after everything written to it.

ReadChunk ==
  /\ reader = "reading" /\ collected < written
  /\ collected' = collected + 1
  /\ UNCHANGED <<task, agentVars, reader, exitSent, handle, fwdVars, resizer, endVars>>

\* Slip: the reader stops as soon as the agent itself is gone.
ReadEndEarly ==
  /\ reader = "reading" /\ child = "exited"
  /\ reader' = "done"
  /\ UNCHANGED <<task, agentVars, collected, exitSent, handle, fwdVars, resizer, endVars>>

ReadEnd ==
  /\ reader = "reading" /\ collected = written /\ ~slaveOpen
  /\ reader' = "done"
  /\ UNCHANGED <<task, agentVars, collected, exitSent, handle, fwdVars, resizer, endVars>>

\* Any error other than the end of the PTY is logged and ends the thread, too.
ReadFails ==
  /\ reader = "reading"
  /\ reader' = "failed"
  /\ UNCHANGED <<task, agentVars, collected, exitSent, handle, fwdVars, resizer, endVars>>

-----------------------------------------------------------------------------
\* The forwarder, with the receiver that was made before the reader started.

Lagged == Sent - received > Capacity

\* Slip: a receiver that lagged goes on with the oldest message there is.
ForwardOldest ==
  LET next == IF Lagged THEN Sent - Capacity + 1 ELSE received + 1 IN
  /\ fwd = "running" /\ received < Sent
  /\ received' = next
  /\ forwarded' = IF next <= collected THEN Append(forwarded, next) ELSE forwarded
  /\ UNCHANGED <<task, agentVars, readerVars, exitSent, handle, fwd, resizer, endVars>>

Forward ==
  /\ fwd = "running" /\ received < Sent /\ ~Lagged
  /\ received' = received + 1
  /\ forwarded' = IF received < collected THEN Append(forwarded, received + 1) ELSE forwarded
  /\ UNCHANGED <<task, agentVars, readerVars, exitSent, handle, fwd, resizer, endVars>>

\* recv reports the lag as an error, and any error ends the loop.
ForwarderLags ==
  /\ fwd = "running" /\ Lagged
  /\ fwd' = "ended"
  /\ UNCHANGED <<task, agentVars, readerVars, exitSent, handle, received, forwarded, resizer, endVars>>

\* Slip: the forwarder takes Exited for the end of the stream.
ClosedByExited ==
  /\ fwd = "running" /\ received = Sent /\ exitSent
  /\ fwd' = "ended"
  /\ UNCHANGED <<task, agentVars, readerVars, exitSent, handle, received, forwarded, resizer, endVars>>

\* The channel is closed once the reader's and the handle's senders are gone.
ChannelClosed ==
  /\ fwd = "running" /\ received = Sent
  /\ handle = "dropped" /\ ReaderGone
  /\ fwd' = "ended"
  /\ UNCHANGED <<task, agentVars, readerVars, exitSent, handle, received, forwarded, resizer, endVars>>

Reader    == ReadChunk \/ ReadEnd
Forwarder == Forward \/ ForwarderLags \/ ChannelClosed

Next == Task \/ Write \/ Exit \/ LastHolderExits \/ Reader \/ ReadFails \/ Forwarder

Spec == Init /\ [][Next]_vars

(***************************************************************************)
(* Tasks and threads are scheduled, and the agent and what it started come *)
(* to an end; nothing makes them write.                                    *)
(***************************************************************************)
FairSpec ==
  /\ Spec
  /\ WF_vars(Task) /\ WF_vars(Reader) /\ WF_vars(Forwarder)
  /\ WF_vars(Exit) /\ WF_vars(LastHolderExits)

-----------------------------------------------------------------------------
TypeOK ==
  /\ task \in {"spawn", "prompt", "register", "wait", "join", "drain", "collect", "returned"}
  /\ child \in {"none", "running", "exited"}
  /\ slaveOpen \in BOOLEAN /\ exitSent \in BOOLEAN /\ resizer \in BOOLEAN
  /\ written \in 0..MaxChunks /\ collected \in 0..written /\ output \in 0..written
  /\ reader \in {"none", "reading", "done", "failed"}
  /\ handle \in {"none", "held", "dropped"}
  /\ fwd \in {"none", "running", "ended"}
  /\ received \in 0..Sent
  /\ forwarded \in Seq(1..MaxChunks)
  /\ result \in {"none", "ok", "err"}

(***************************************************************************)
(* The output of a step is everything its processes wrote, unless the      *)
(* reader failed: wait joins the reader, and the reader goes on after the  *)
(* agent's exit while anything holds the terminal.                         *)
(***************************************************************************)
OutputComplete ==
  (result = "ok" /\ reader # "failed") => output = written /\ ~slaveOpen

(***************************************************************************)
(* What reaches the subscribers is a prefix of the output: a receiver that *)
(* was overtaken gives up, it never goes on behind a hole.                 *)
(***************************************************************************)
ForwardedIsPrefix ==
  /\ Len(forwarded) <= collected
  /\ \A i \in DOMAIN forwarded : forwarded[i] = i

(***************************************************************************)
(* The drain can only end by a lag: while spawn_step waits it holds the    *)
(* handle, so the channel stays open.  With an event sender, a step that   *)
(* returns Ok has lost output on its way to the subscribers.               *)
(***************************************************************************)
OkOnlyAfterLag == (fwd # "none" /\ result = "ok") => Len(forwarded) < written

(***************************************************************************)
(* Without a forwarder spawn_step returns once the agent's processes are   *)
(* gone, whatever of its preparations failed.                              *)
(***************************************************************************)
StepReturns == <>(task = "returned" \/ fwd # "none")

(***************************************************************************)
(* The comment "Wait for the forwarder to finish draining": it finishes.   *)
(***************************************************************************)
DrainEnds == (task = "drain") ~> (task = "returned")
=============================================================================
