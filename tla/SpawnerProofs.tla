--------------------------- MODULE SpawnerProofs ---------------------------
(***************************************************************************)
(* The output of spawn_step, for every channel capacity and every amount   *)
(* of output.                                                              *)
(***************************************************************************)
EXTENDS Spawner, TLAPS

\* What the reader has done; it is the last to look at the PTY.
ReaderInv ==
  /\ reader = "none" => collected = 0 /\ written = 0
  /\ reader = "done" => collected = written /\ ~slaveOpen
  /\ exitSent => ReaderGone

\* Where spawn_step is, and what it holds there.
TaskInv ==
  /\ task = "spawn" => reader = "none" /\ handle = "none" /\ fwd = "none"
  /\ task \notin {"spawn", "returned"} => handle = "held" /\ reader # "none"
  /\ task # "returned" => result = "none"
  /\ task \in {"drain", "collect"} => exitSent
  /\ result = "ok" => exitSent /\ output = collected

\* The forwarder: while the handle is held, only a lag can have ended it.
ForwarderInv ==
  /\ task \in {"spawn", "prompt", "register"} => fwd = "none"
  /\ task = "collect" \/ result = "ok" => fwd # "running"
  /\ fwd = "ended" /\ (handle = "held" \/ result = "ok") => received < collected
  /\ Len(forwarded) = IF received <= collected THEN received ELSE collected
  /\ \A i \in DOMAIN forwarded : forwarded[i] = i

IInv == TypeOK /\ ReaderInv /\ TaskInv /\ ForwarderInv

\* The invariant holds when spawn_step is called.
LEMMA InitIInv == Init => IInv
<1> SUFFICES ASSUME Init PROVE IInv
  OBVIOUS
<1>1. 0 \in 0..MaxChunks /\ 0 \in 0..0
  BY SpawnerAssumption
<1>2. Sent = 0
  BY DEF Init, Sent
<1>3. TypeOK
  <2>1. written \in 0..MaxChunks /\ collected \in 0..written /\ output \in 0..written
    BY <1>1 DEF Init
  <2>2. received \in 0..Sent /\ forwarded \in Seq(1..MaxChunks)
    BY <1>1, <1>2 DEF Init
  <2> QED BY <2>1, <2>2 DEF Init, TypeOK
<1>4. Len(forwarded) = 0 /\ DOMAIN forwarded = {}
  BY DEF Init
<1>5. ReaderInv /\ TaskInv /\ ForwarderInv
  BY <1>4 DEF Init, ReaderInv, TaskInv, ForwarderInv
<1> QED BY <1>3, <1>5 DEF IInv

\* The task's own steps leave the output and what was forwarded alone.
LEMMA TaskStep ==
  ASSUME IInv, Task
  PROVE  IInv'
<1>1. UNCHANGED <<written, collected, received, forwarded>>
  BY DEF Task, FailBeforePty, PtySetupFails, SpawnPty, PromptWritten, PromptFails, Register, ChildReaped,
         WaitFails, ReaderJoined, Drained, Return, agentVars, readerVars, fwdVars, endVars
<1>2. collected \in Nat
  BY SpawnerAssumption DEF IInv, TypeOK
<1>3. TypeOK'
  <2>1. received \in 0..Sent'
    <3>1. exitSent => exitSent'
      BY DEF Task, FailBeforePty, PtySetupFails, SpawnPty, PromptWritten, PromptFails, Register, ChildReaped,
             WaitFails, ReaderJoined, Drained, Return
    <3> QED BY <1>1, <1>2, <3>1 DEF IInv, TypeOK, Sent
  <2>2. output' \in 0..written
    BY DEF IInv, TypeOK, Task, FailBeforePty, PtySetupFails, SpawnPty, PromptWritten, PromptFails, Register,
           ChildReaped, WaitFails, ReaderJoined, Drained, Return, endVars
  <2>3. child' \in {"none", "running", "exited"} /\ slaveOpen' \in BOOLEAN
    BY DEF IInv, TypeOK, Task, FailBeforePty, PtySetupFails, SpawnPty, PromptWritten, PromptFails, Register,
           ChildReaped, WaitFails, ReaderJoined, Drained, Return, agentVars
  <2>4. reader' \in {"none", "reading", "done", "failed"} /\ handle' \in {"none", "held", "dropped"}
    BY DEF IInv, TypeOK, Task, FailBeforePty, PtySetupFails, SpawnPty, PromptWritten, PromptFails, Register,
           ChildReaped, WaitFails, ReaderJoined, Drained, Return, readerVars
  <2>5. fwd' \in {"none", "running", "ended"} /\ result' \in {"none", "ok", "err"}
    BY DEF IInv, TypeOK, Task, FailBeforePty, PtySetupFails, SpawnPty, PromptWritten, PromptFails, Register,
           ChildReaped, WaitFails, ReaderJoined, Drained, Return, fwdVars, endVars
  <2>6. /\ task' \in {"spawn", "prompt", "register", "wait", "join", "drain", "collect", "returned"}
        /\ exitSent' \in BOOLEAN /\ resizer' \in BOOLEAN
    BY DEF IInv, TypeOK, Task, FailBeforePty, PtySetupFails, SpawnPty, PromptWritten, PromptFails, Register,
           ChildReaped, WaitFails, ReaderJoined, Drained, Return
  <2> QED BY <1>1, <2>1, <2>2, <2>3, <2>4, <2>5, <2>6 DEF IInv, TypeOK
<1>4. ReaderInv'
  <2>0. CASE PtySetupFails
    BY <2>0, <1>1 DEF IInv, ReaderInv, ReaderGone, TaskInv, PtySetupFails, readerVars
  <2>1. CASE SpawnPty
    BY <2>1, <1>1 DEF IInv, ReaderInv, ReaderGone, TaskInv, SpawnPty
  <2>2. CASE PromptFails
    <3>1. UNCHANGED <<reader, collected, written, exitSent>> /\ task = "prompt"
      BY <2>2 DEF PromptFails, readerVars
    <3>2. slaveOpen' = FALSE \/ slaveOpen' = slaveOpen
      BY <2>2 DEF PromptFails
    <3> QED BY <3>1, <3>2 DEF IInv, ReaderInv, ReaderGone, TaskInv
  <2>3. CASE ReaderJoined
    BY <2>3, <1>1 DEF IInv, ReaderInv, ReaderGone, ReaderJoined, agentVars, readerVars
  <2>4. CASE UNCHANGED <<child, slaveOpen, reader, exitSent>>
    BY <2>4, <1>1 DEF IInv, ReaderInv, ReaderGone
  <2>5. \/ PtySetupFails \/ SpawnPty \/ PromptFails \/ ReaderJoined
        \/ UNCHANGED <<child, slaveOpen, reader, exitSent>>
    BY DEF Task, FailBeforePty, PromptWritten, Register, ChildReaped, WaitFails, Drained, Return,
           agentVars, readerVars
  <2> QED BY <2>0, <2>1, <2>2, <2>3, <2>4, <2>5
<1>5. TaskInv'
  BY <1>1 DEF IInv, TaskInv, ReaderInv, ReaderGone, Task, FailBeforePty, PtySetupFails, SpawnPty, PromptWritten,
         PromptFails, Register, ChildReaped, WaitFails, ReaderJoined, Drained, Return, agentVars,
         readerVars, fwdVars, endVars
<1>6. ForwarderInv'
  BY <1>1, SpawnerAssumption DEF IInv, TypeOK, TaskInv, ReaderInv, ReaderGone, ForwarderInv, Task, FailBeforePty, PtySetupFails, SpawnPty,
         PromptWritten, PromptFails, Register, ChildReaped, WaitFails, ReaderJoined, Drained,
         Return, agentVars, readerVars, fwdVars, endVars
<1> QED BY <1>3, <1>4, <1>5, <1>6 DEF IInv

\* The agent's processes and the reader.
LEMMA PtyStep ==
  ASSUME IInv, Write \/ Exit \/ LastHolderExits \/ Reader \/ ReadFails
  PROVE  IInv'
<1>1. UNCHANGED <<task, exitSent, handle, fwd, received, forwarded, resizer, result, output>>
  BY DEF Write, Exit, LastHolderExits, Reader, ReadChunk, ReadEnd, ReadFails, fwdVars, endVars
<1>2. /\ MaxChunks \in Nat /\ written \in 0..MaxChunks /\ collected \in 0..written
      /\ received \in Nat /\ output \in 0..written
  BY SpawnerAssumption DEF IInv, TypeOK, Sent
<1>3. /\ written' \in {written, written + 1} /\ written' \in 0..MaxChunks
      /\ collected' \in {collected, collected + 1} /\ collected' \in 0..written'
      /\ collected' # collected => reader = "reading"
      /\ written' # written => slaveOpen
  <2>1. CASE Write
    BY <2>1, <1>2 DEF Write, readerVars
  <2>2. CASE Exit \/ LastHolderExits
    BY <2>2, <1>2 DEF Exit, LastHolderExits, readerVars
  <2>3. CASE Reader \/ ReadFails
    BY <2>3, <1>2 DEF Reader, ReadChunk, ReadEnd, ReadFails, agentVars
  <2> QED BY <2>1, <2>2, <2>3
<1>4. TypeOK'
  <2>1. received \in 0..Sent'
    <3>1. collected \in Nat /\ collected' \in Nat /\ collected <= collected' /\ exitSent' = exitSent
      BY <1>1, <1>2, <1>3
    <3>4. received \in 0..Sent
      BY DEF IInv, TypeOK
    <3>2. CASE exitSent
      <4>1. Sent = collected + 1 /\ Sent' = collected' + 1
        BY <3>1, <3>2 DEF Sent
      <4>2. \A i, j \in Nat : i <= j => 0..(i + 1) \subseteq 0..(j + 1)
        OBVIOUS
      <4> QED BY <3>1, <3>4, <4>1, <4>2
    <3>3. CASE ~exitSent
      <4>1. Sent = collected /\ Sent' = collected'
        BY <3>1, <3>3 DEF Sent
      <4> QED BY <3>4, <3>1, <4>1
    <3> QED BY <1>1, <3>2, <3>3
  <2>2. output' \in 0..written'
    BY <1>1, <1>2, <1>3
  <2>3. child' \in {"none", "running", "exited"} /\ slaveOpen' \in BOOLEAN
    BY DEF IInv, TypeOK, Write, Exit, LastHolderExits, Reader, ReadChunk, ReadEnd, ReadFails, agentVars
  <2>4. reader' \in {"none", "reading", "done", "failed"}
    BY DEF IInv, TypeOK, Write, Exit, LastHolderExits, Reader, ReadChunk, ReadEnd, ReadFails, readerVars
  <2> QED BY <1>1, <1>3, <2>1, <2>2, <2>3, <2>4 DEF IInv, TypeOK
<1>5. ReaderInv'
  <2>1. CASE Write \/ Exit \/ LastHolderExits
    <3>1. /\ UNCHANGED <<reader, collected>>
          /\ ~slaveOpen => written' = written
          /\ ~slaveOpen => ~slaveOpen'
          /\ reader = "none" => written' = written
      <4>1. CASE Write
        BY <4>1 DEF Write, readerVars
      <4>2. CASE Exit
        <5>1. UNCHANGED <<reader, collected, written>> /\ child = "running"
          BY <4>2 DEF Exit, readerVars
        <5>2. slaveOpen' = FALSE \/ slaveOpen' = slaveOpen
          BY <4>2 DEF Exit
        <5> QED BY <5>1, <5>2 DEF IInv, ReaderInv, ReaderGone
      <4>3. CASE LastHolderExits
        <5>1. UNCHANGED <<reader, collected, written, child>> /\ slaveOpen
          BY <4>3 DEF LastHolderExits, readerVars
        <5> QED BY <5>1
      <4> QED BY <2>1, <4>1, <4>2, <4>3
    <3> QED BY <3>1, <1>1 DEF IInv, ReaderInv, ReaderGone
  <2>2. CASE Reader \/ ReadFails
    BY <2>2, <1>1 DEF IInv, ReaderInv, ReaderGone, Reader, ReadChunk, ReadEnd, ReadFails, agentVars
  <2> QED BY <2>1, <2>2
<1>6. TaskInv'
  <2>1. collected' # collected => ~exitSent
    BY <1>3 DEF IInv, ReaderInv, ReaderGone
  <2>2. reader' = "none" <=> reader = "none"
    BY DEF Write, Exit, LastHolderExits, Reader, ReadChunk, ReadEnd, ReadFails, readerVars
  <2> QED BY <1>1, <2>1, <2>2 DEF IInv, TaskInv
<1>7. ForwarderInv'
  <2>1. collected' # collected => received <= collected
    BY <1>2, <1>3 DEF IInv, TypeOK, ReaderInv, ReaderGone, Sent
  <2> QED BY <1>1, <1>2, <1>3, <2>1 DEF IInv, ForwarderInv
<1> QED BY <1>4, <1>5, <1>6, <1>7 DEF IInv

\* The forwarder takes a message, lags, or sees the channel closed.
LEMMA ForwarderStep ==
  ASSUME IInv, Forwarder
  PROVE  IInv'
<1>1. /\ UNCHANGED <<task, child, slaveOpen, written, reader, collected, exitSent, handle,
                     resizer, result, output>>
      /\ fwd = "running" /\ fwd' \in {"running", "ended"}
  BY DEF Forwarder, Forward, ForwarderLags, ChannelClosed, agentVars, readerVars, endVars
<1>2. /\ MaxChunks \in Nat /\ Capacity \in Nat \ {0} /\ written \in 0..MaxChunks
      /\ collected \in 0..written /\ received \in 0..Sent
      /\ forwarded \in Seq(1..MaxChunks)
  BY SpawnerAssumption DEF IInv, TypeOK
<1>3. ReaderInv' /\ TaskInv'
  BY <1>1 DEF IInv, ReaderInv, ReaderGone, TaskInv
<1>4. result # "ok"
  BY <1>1 DEF IInv, ForwarderInv
<1>5. CASE Forward
  <2>1. /\ fwd' = fwd /\ received' = received + 1 /\ received < Sent
        /\ forwarded' = IF received < collected THEN Append(forwarded, received + 1)
                        ELSE forwarded
    BY <1>5 DEF Forward
  <2>2. forwarded' \in Seq(1..MaxChunks) /\ received' \in 0..Sent'
    <3>1. Sent \in Nat /\ Sent' = Sent /\ received \in Nat
      BY <1>1, <1>2 DEF Sent
    <3>2. received' \in 0..Sent'
      BY <1>2, <2>1, <3>1
    <3>3. received < collected => received + 1 \in 1..MaxChunks
      BY <1>2, <3>1
    <3>4. received < collected => Append(forwarded, received + 1) \in Seq(1..MaxChunks)
      BY <1>2, <3>3
    <3> QED BY <1>2, <2>1, <3>2, <3>4
  <2>3. Len(forwarded') = IF received' <= collected THEN received' ELSE collected
    BY <1>2, <2>1 DEF IInv, ForwarderInv, Sent
  <2>4. \A i \in DOMAIN forwarded' : forwarded'[i] = i
    BY <1>2, <2>1 DEF IInv, ForwarderInv
  <2>5. TypeOK'
    BY <1>1, <2>1, <2>2 DEF IInv, TypeOK
  <2>6. ForwarderInv'
    BY <1>1, <2>1, <2>3, <2>4 DEF IInv, ForwarderInv
  <2> QED BY <1>3, <2>5, <2>6 DEF IInv
<1>6. CASE ForwarderLags
  <2>1. received < collected
    BY <1>2, <1>6 DEF ForwarderLags, Lagged, Sent
  <2>2. UNCHANGED <<received, forwarded>> /\ fwd' = "ended"
    BY <1>6 DEF ForwarderLags
  <2>3. TypeOK'
    BY <1>1, <2>2 DEF IInv, TypeOK, Sent
  <2>4. ForwarderInv'
    BY <1>1, <2>1, <2>2 DEF IInv, ForwarderInv
  <2> QED BY <1>3, <2>3, <2>4 DEF IInv
<1>7. CASE ChannelClosed
  <2>1. /\ UNCHANGED <<received, forwarded>> /\ fwd' = "ended" /\ handle = "dropped"
        /\ task \in {"spawn", "returned"}
    BY <1>7 DEF ChannelClosed, ReaderGone, IInv, TaskInv
  <2>2. TypeOK'
    BY <1>1, <2>1 DEF IInv, TypeOK, Sent
  <2>3. ForwarderInv'
    BY <1>1, <1>4, <2>1 DEF IInv, ForwarderInv
  <2> QED BY <1>3, <2>2, <2>3 DEF IInv
<1> QED BY <1>5, <1>6, <1>7 DEF Forwarder

\* What the four parties have done agrees, whatever the capacity and the output.
THEOREM Invariant == Spec => []IInv
<1>1. IInv /\ [Next]_vars => IInv'
  <2> SUFFICES ASSUME IInv, [Next]_vars PROVE IInv'
    OBVIOUS
  <2>1. CASE Task
    BY <2>1, TaskStep
  <2>2. CASE Write \/ Exit \/ LastHolderExits \/ Reader \/ ReadFails
    BY <2>2, PtyStep
  <2>3. CASE Forwarder
    BY <2>3, ForwarderStep
  <2>4. CASE UNCHANGED vars
    BY <2>4 DEF vars, IInv, TypeOK, Sent, ReaderInv, ReaderGone, TaskInv, ForwarderInv
  <2> QED BY <2>1, <2>2, <2>3, <2>4 DEF Next
<1> QED BY <1>1, InitIInv, PTL DEF Spec

(***************************************************************************)
(* Types, and with them: no more is read than was written, and no more is  *)
(* returned (collected_output of the PTY).                                 *)
(***************************************************************************)
THEOREM TypeCorrect == Spec => []TypeOK
<1>1. IInv => TypeOK
  BY DEF IInv
<1> QED BY <1>1, Invariant, PTL

(***************************************************************************)
(* A successful step returns all of its output, whatever outlived the      *)
(* agent's process and however the channel lagged.                         *)
(***************************************************************************)
THEOREM NoOutputLost == Spec => []OutputComplete
<1>1. IInv => OutputComplete
  BY DEF IInv, TaskInv, ReaderInv, ReaderGone, OutputComplete
<1> QED BY <1>1, Invariant, PTL

(***************************************************************************)
(* The events carry a prefix of the output, for every capacity.            *)
(***************************************************************************)
THEOREM NoHoleForwarded == Spec => []ForwardedIsPrefix
<1>1. IInv => ForwardedIsPrefix
  <2> SUFFICES ASSUME IInv PROVE ForwardedIsPrefix
    OBVIOUS
  <2>1. collected \in Nat /\ received \in Nat
    BY SpawnerAssumption DEF IInv, TypeOK, Sent
  <2> QED BY <2>1 DEF IInv, ForwarderInv, ForwardedIsPrefix
<1> QED BY <1>1, Invariant, PTL

(***************************************************************************)
(* With an event sender, Ok is only reached past a receiver that lagged:   *)
(* nothing else ends the forwarder that spawn_step waits for.              *)
(***************************************************************************)
THEOREM OkNeedsLag == Spec => []OkOnlyAfterLag
<1>1. IInv => OkOnlyAfterLag
  <2> SUFFICES ASSUME IInv, fwd # "none", result = "ok"
               PROVE  Len(forwarded) < written
    BY DEF OkOnlyAfterLag
  <2>1. collected \in 0..written /\ written \in Nat /\ received \in Nat
    BY SpawnerAssumption DEF IInv, TypeOK, Sent
  <2>2. fwd = "ended"
    BY DEF IInv, TypeOK, ForwarderInv
  <2>3. received < collected
    BY <2>2 DEF IInv, ForwarderInv
  <2> QED BY <2>1, <2>3 DEF IInv, ForwarderInv
<1> QED BY <1>1, Invariant, PTL
=============================================================================
