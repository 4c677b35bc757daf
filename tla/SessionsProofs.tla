--------------------------- MODULE SessionsProofs ---------------------------
(***************************************************************************)
(* The safety of a session's directory, for every set of roles and every   *)
(* number of agents, runs and resumptions.                                 *)
(***************************************************************************)
EXTENDS Sessions, WellFoundedInduction, TLAPS

\* The sessions that a run of the program can hold: their agents' numbers are bounded.
Held == [status : {"running", "interrupted"}, agents : SUBSET (Role \X (1..MaxAgents))]

Issued == {issued[i] : i \in DOMAIN issued}

Types ==
  /\ runner \in {"down", "creating", "idle", "spawning"}
  /\ session \in Held \cup {None}
  /\ counts \in [Role -> 0..MaxAgents]
  /\ pending \in AgentId \cup {<<>>}
  /\ issued \in Seq(AgentId)
  /\ ui \in {"idle", "recovering", "deleting"}
  /\ copy \in Held \cup {None}
  /\ phase \in [Writer -> {"none", "mkdir", "write", "rename"}]
  /\ dir \in BOOLEAN
  /\ tmp \in [Writer -> Held \cup {None, Partial}]
  /\ file \in Held \cup {None}
  /\ starts \in Nat /\ overlapped \in BOOLEAN

\* Who saves, and what is in a temporary file that is about to be renamed.
Control ==
  /\ phase["runner"] # "none" <=> runner \in {"creating", "spawning"}
  /\ phase["ui"] # "none" => ui = "recovering"
  /\ Up => session \in Held
  /\ ui = "recovering" => copy \in Held
  /\ \A p \in Writer : phase[p] = "rename" => tmp[p] \in {Content(p), None}
  /\ starts = 0 => /\ runner = "down" /\ ui # "recovering"
                   /\ issued = <<>> /\ file = None

\* No agent in memory has a number that is still to be given.
Counted ==
  /\ Up => \A a \in session.agents : a[2] <= counts[a[1]]
  /\ runner = "spawning" => pending \in session.agents

\* Ids that were given are wherever the next number may be worked out from.
Recorded ==
  /\ Up => Issued \subseteq session.agents
  /\ file # None => Issued \subseteq file.agents
  /\ ui = "recovering" => ~Up /\ Issued \subseteq copy.agents
  /\ runner = "spawning" => pending \notin Issued

Distinct == \A i, j \in DOMAIN issued : issued[i] = issued[j] => i = j

IInv == Types /\ Control /\ Counted /\ (~overlapped => Recorded /\ Distinct)

-----------------------------------------------------------------------------
\* Facts about the constants of the module.

LEMMA Shapes ==
  /\ None \notin Held /\ Partial \notin Held /\ None # Partial
  /\ Held \subseteq SessionOf
  /\ \A s \in Held : MarkInterrupted(s) \in Held /\ MarkInterrupted(s).agents = s.agents
<1>1. None \notin Held /\ Partial \notin Held /\ None # Partial
  BY DEF None, Partial, Held
<1>2. Held \subseteq SessionOf
  BY SessionsAssumption DEF Held, SessionOf, AgentId
<1>3. \A s \in Held : MarkInterrupted(s) \in Held /\ MarkInterrupted(s).agents = s.agents
  BY DEF Held, MarkInterrupted
<1> QED BY <1>1, <1>2, <1>3

\* A set of numbers with a bound has a largest.
LEMMA Largest ==
  ASSUME NEW n \in Nat, NEW S \in SUBSET (0..n), S # {}
  PROVE  \E x \in S : \A y \in S : y <= x
<1> DEFINE T == {n - x : x \in S}
<1>1. T \subseteq Nat /\ T # {}
  OBVIOUS
<1>2. PICK t \in T : \A u \in T : t <= u
  <2> DEFINE Less == OpToRel(<, Nat)
  <2>1. IsWellFoundedOn(Less, Nat)
    BY NatLessThanWellFounded, Zenon
  <2> HIDE DEF T
  <2>2. \A x, y \in Nat : <<x, y>> \in Less <=> x < y
    BY DEF OpToRel
  <2> HIDE DEF Less
  <2>3. PICK t \in T : \A u \in T : ~(<<u, t>> \in Less)
    BY <1>1, <2>1, WFMin
  <2>4. \A u \in T : u \in Nat /\ t \in Nat /\ ~(u < t)
    BY <1>1, <2>2, <2>3
  <2> QED BY <2>3, <2>4
<1>3. PICK x \in S : t = n - x
  OBVIOUS
<1>4. \A y \in S : n - x <= n - y
  BY <1>2, <1>3
<1> QED BY <1>4

\* agent_counts, as it is built from the agents of a session: no agent has a greater number.
LEMMA CountsCover ==
  ASSUME NEW agents \in SUBSET (Role \X (1..MaxAgents))
  PROVE  /\ BuildAgentCounts(agents) \in [Role -> 0..MaxAgents]
         /\ \A a \in agents : a[2] <= BuildAgentCounts(agents)[a[1]]
<1> DEFINE Numbers(r) == {a[2] : a \in {x \in agents : x[1] = r}}
           Greatest(r) == CHOOSE n \in Numbers(r) : \A m \in Numbers(r) : m <= n
<1>1. \A r \in Role : BuildAgentCounts(agents)[r] = IF Numbers(r) = {} THEN 0 ELSE Greatest(r)
  BY DEF BuildAgentCounts
<1>2. \A r \in Role : Numbers(r) \subseteq 0..MaxAgents
  BY SessionsAssumption
<1>3. ASSUME NEW r \in Role, Numbers(r) # {}
      PROVE  Greatest(r) \in Numbers(r) /\ \A m \in Numbers(r) : m <= Greatest(r)
  <2> DEFINE S == Numbers(r)
  <2>1. S \in SUBSET (0..MaxAgents) /\ S # {}
    BY <1>2, <1>3
  <2> HIDE DEF S
  <2>2. \E x \in S : \A y \in S : y <= x
    BY <2>1, Largest, SessionsAssumption
  <2> QED BY <2>2 DEF S
<1>4. ASSUME NEW r \in Role
      PROVE  BuildAgentCounts(agents)[r] \in 0..MaxAgents
  <2>1. CASE Numbers(r) = {}
    <3>1. BuildAgentCounts(agents)[r] = 0
      BY <1>1, <2>1
    <3> HIDE DEF Numbers, Greatest
    <3> QED BY <3>1, SessionsAssumption
  <2>2. CASE Numbers(r) # {}
    <3>1. Greatest(r) \in 0..MaxAgents
      <4>1. Greatest(r) \in Numbers(r) /\ Numbers(r) \subseteq 0..MaxAgents
        BY <1>2, <1>3, <2>2
      <4> HIDE DEF Numbers, Greatest
      <4> QED BY <4>1
    <3>2. BuildAgentCounts(agents)[r] = Greatest(r)
      BY <1>1, <2>2
    <3> HIDE DEF Greatest
    <3> QED BY <3>1, <3>2
  <2> QED BY <2>1, <2>2
<1>5. BuildAgentCounts(agents) \in [Role -> 0..MaxAgents]
  BY <1>4 DEF BuildAgentCounts
<1>6. ASSUME NEW a \in agents
      PROVE  a[2] <= BuildAgentCounts(agents)[a[1]]
  <2>1. a[1] \in Role /\ a[2] \in Numbers(a[1])
    OBVIOUS
  <2>2. Numbers(a[1]) # {}
    BY <2>1
  <2>3. \A m \in Numbers(a[1]) : m <= Greatest(a[1])
    BY <1>3, <2>1, <2>2
  <2>4. BuildAgentCounts(agents)[a[1]] = Greatest(a[1])
    BY <1>1, <2>1, <2>2
  <2> HIDE DEF Numbers, Greatest
  <2> QED BY <2>1, <2>3, <2>4
<1> QED BY <1>5, <1>6

-----------------------------------------------------------------------------
LEMMA InitIInv == Init => IInv
<1> SUFFICES ASSUME Init PROVE IInv
  OBVIOUS
<1>1. Types
  <2>1. counts \in [Role -> 0..MaxAgents]
    <3>1. counts = [r \in Role |-> 0] /\ 0 \in 0..MaxAgents
      BY SessionsAssumption DEF Init
    <3> QED BY <3>1
  <2>2. phase \in [Writer -> {"none", "mkdir", "write", "rename"}]
    BY DEF Init
  <2>3. tmp \in [Writer -> Held \cup {None, Partial}]
    <3>1. tmp = [p \in Writer |-> None]
      BY DEF Init
    <3> QED BY <3>1
  <2>4. issued \in Seq(AgentId)
    BY DEF Init
  <2> QED BY <2>1, <2>2, <2>3, <2>4 DEF Init, Types
<1>2. Control
  BY DEF Init, Control, Up, Writer
<1> QED BY <1>1, <1>2 DEF Init, IInv, Counted, Recorded, Distinct, Up, Issued

\* The steps of a save that give nothing back yet.
LEMMA CreateDirKeeps == ASSUME IInv, NEW p \in Writer, CreateDir(p) PROVE IInv'
<1>1. /\ phase[p] = "mkdir" /\ phase' = [phase EXCEPT ![p] = "write"] /\ dir' = TRUE
      /\ UNCHANGED <<runner, session, counts, pending, issued, starts, ui, copy, overlapped, tmp, file>>
  BY DEF CreateDir, runnerVars, uiVars
<1>2. Types'
  BY <1>1 DEF IInv, Types
<1>3. Control'
  BY <1>1 DEF IInv, Types, Control, Up, Content, Writer
<1> QED
  BY <1>1, <1>2, <1>3 DEF IInv, Counted, Recorded, Distinct, Up, Issued

LEMMA WriteTmpKeeps == ASSUME IInv, NEW p \in Writer, WriteTmp(p) PROVE IInv'
<1>1. /\ phase[p] = "write" /\ phase' = [phase EXCEPT ![p] = "rename"]
      /\ tmp' = [tmp EXCEPT ![p] = Content(p)]
      /\ UNCHANGED <<runner, session, counts, pending, issued, starts, ui, copy, overlapped, dir, file>>
  BY DEF WriteTmp, runnerVars, uiVars
<1>2. Content(p) \in Held \cup {None}
  BY DEF IInv, Types, Content
<1>3. Types'
  BY <1>1, <1>2 DEF IInv, Types
<1>4. Control'
  BY <1>1 DEF IInv, Types, Control, Up, Content, Writer
<1> QED
  BY <1>1, <1>3, <1>4 DEF IInv, Counted, Recorded, Distinct, Up, Issued

\* The id that a save returns is new, and goes to the end of those returned.
LEMMA IssueNew ==
  ASSUME issued \in Seq(AgentId), Distinct, NEW id \in AgentId, id \notin Issued,
         issued' = Append(issued, id)
  PROVE  Distinct' /\ Issued' = Issued \cup {id} /\ issued' \in Seq(AgentId)
<1>1. /\ DOMAIN issued' = 1..(Len(issued) + 1) /\ Len(issued) \in Nat
      /\ DOMAIN issued = 1..Len(issued)
      /\ \A i \in 1..Len(issued) : issued'[i] = issued[i]
      /\ issued'[Len(issued) + 1] = id /\ issued' \in Seq(AgentId)
  OBVIOUS
<1>2. \A i \in 1..Len(issued) : issued[i] # id
  BY <1>1 DEF Issued
<1>3. Distinct'
  BY <1>1, <1>2 DEF Distinct
<1>4. Issued' \subseteq Issued \cup {id}
  BY <1>1 DEF Issued
<1>5. \A x \in Issued : x \in Issued'
  <2>1. SUFFICES ASSUME NEW i \in DOMAIN issued PROVE issued[i] \in Issued'
    BY DEF Issued
  <2>2. i \in DOMAIN issued' /\ issued'[i] = issued[i]
    BY <1>1
  <2> QED BY <2>2 DEF Issued
<1>6. id \in Issued'
  <2>1. Len(issued) + 1 \in DOMAIN issued'
    BY <1>1
  <2> QED BY <1>1, <2>1 DEF Issued
<1> QED BY <1>1, <1>3, <1>4, <1>5, <1>6

LEMMA RenameKeeps == ASSUME IInv, NEW p \in Writer, Rename(p) PROVE IInv'
<1>1. /\ phase[p] = "rename" /\ tmp[p] # None /\ file' = tmp[p]
      /\ tmp' = [tmp EXCEPT ![p] = None] /\ phase' = [phase EXCEPT ![p] = "none"]
      /\ dir' = dir /\ AfterSave(p, TRUE)
  BY DEF Rename, EndSave
<1>2. tmp[p] = Content(p)
  BY <1>1 DEF IInv, Control
<1>3. CASE p = "runner"
  <2>1. runner \in {"creating", "spawning"} /\ session \in Held /\ file' = session
    BY <1>1, <1>2, <1>3 DEF IInv, Control, Content, Up
  <2>2. CASE runner = "creating"
    <3>1. /\ runner' = "idle"
          /\ UNCHANGED <<session, counts, pending, issued, starts, ui, copy, overlapped>>
      BY <1>1, <1>3, <2>2 DEF AfterSave, uiVars
    <3>2. Types'
      BY <1>1, <2>1, <3>1 DEF IInv, Types
    <3>3. Control'
      BY <1>1, <1>3, <2>1, <2>2, <3>1 DEF IInv, Types, Control, Up, Content, Writer
    <3>4. Counted'
      BY <2>2, <3>1 DEF IInv, Counted, Up
    <3>5. ~overlapped' => Recorded' /\ Distinct'
      BY <2>1, <2>2, <3>1 DEF IInv, Recorded, Distinct, Up, Issued
    <3> QED BY <3>2, <3>3, <3>4, <3>5 DEF IInv
  <2>3. CASE runner = "spawning"
    <3>1. /\ runner' = "idle" /\ issued' = Append(issued, pending)
          /\ UNCHANGED <<session, counts, pending, starts, ui, copy, overlapped>>
      BY <1>1, <1>3, <2>3 DEF AfterSave, uiVars
    <3>2. pending \in session.agents /\ pending \in AgentId
      <4>1. pending \in session.agents
        BY <2>3 DEF IInv, Counted
      <4>2. session.agents \subseteq AgentId
        BY <2>1, SessionsAssumption DEF Held, AgentId
      <4> QED BY <4>1, <4>2
    <3>3. Types'
      BY <1>1, <2>1, <3>1, <3>2 DEF IInv, Types
    <3>4. Control'
      BY <1>1, <1>3, <2>1, <2>3, <3>1 DEF IInv, Types, Control, Up, Content, Writer
    <3>5. Counted'
      BY <2>3, <3>1 DEF IInv, Counted, Up
    <3>6. ASSUME ~overlapped' PROVE Recorded' /\ Distinct'
      <4>1. Recorded /\ Distinct
        BY <3>1, <3>6 DEF IInv
      <4>2. Distinct' /\ Issued' = Issued \cup {pending}
        BY <2>3, <3>1, <3>2, <4>1, IssueNew DEF IInv, Types, Recorded
      <4>3. Recorded'
        BY <2>1, <2>3, <3>1, <3>2, <4>1, <4>2 DEF Recorded, Up
      <4> QED BY <4>2, <4>3
    <3> QED BY <3>3, <3>4, <3>5, <3>6 DEF IInv
  <2> QED BY <2>1, <2>2, <2>3
<1>4. CASE p = "ui"
  <2>1. /\ ui = "recovering" /\ copy \in Held /\ file' = copy /\ ui' = "idle"
        /\ UNCHANGED <<runner, session, counts, pending, issued, starts, copy, overlapped>>
    BY <1>1, <1>2, <1>4 DEF IInv, Control, Content, AfterSave, runnerVars
  <2>2. Types'
    BY <1>1, <2>1 DEF IInv, Types
  <2>3. Control'
    BY <1>1, <1>4, <2>1 DEF IInv, Types, Control, Up, Content, Writer
  <2> QED BY <2>1, <2>2, <2>3 DEF IInv, Counted, Recorded, Distinct, Up, Issued
<1> QED BY <1>3, <1>4 DEF Writer

LEMMA SaveFailsKeeps == ASSUME IInv, NEW p \in Writer, SaveFails(p) PROVE IInv'
<1>1. /\ phase[p] # "none" /\ phase' = [phase EXCEPT ![p] = "none"]
      /\ tmp' \in {tmp, [tmp EXCEPT ![p] = Partial]}
      /\ UNCHANGED <<dir, file>> /\ AfterSave(p, FALSE)
  BY DEF SaveFails, EndSave
<1>2. CASE p = "runner"
  <2>1. /\ runner \in {"creating", "spawning"}
        /\ runner' \in {"idle", "down"} /\ (runner' = "idle" => runner = "spawning")
        /\ UNCHANGED <<session, counts, pending, issued, starts, ui, copy, overlapped>>
    BY <1>1, <1>2 DEF IInv, Control, AfterSave, uiVars
  <2>2. Types'
    BY <1>1, <2>1 DEF IInv, Types
  <2>3. Control'
    BY <1>1, <1>2, <2>1 DEF IInv, Types, Control, Up, Content, Writer
  <2> QED BY <1>1, <2>1, <2>2, <2>3 DEF IInv, Counted, Recorded, Distinct, Up, Issued
<1>3. CASE p = "ui"
  <2>1. /\ ui' = "idle"
        /\ UNCHANGED <<runner, session, counts, pending, issued, starts, copy, overlapped>>
    BY <1>1, <1>3 DEF AfterSave, runnerVars
  <2>2. Types'
    BY <1>1, <2>1 DEF IInv, Types
  <2>3. Control'
    BY <1>1, <1>3, <2>1 DEF IInv, Types, Control, Up, Content, Writer
  <2> QED BY <1>1, <2>1, <2>2, <2>3 DEF IInv, Counted, Recorded, Distinct, Up, Issued
<1> QED BY <1>2, <1>3 DEF Writer

-----------------------------------------------------------------------------
LEMMA CreateKeeps == ASSUME IInv, Create PROVE IInv'
<1>1. /\ runner = "down" /\ starts = 0 /\ runner' = "creating" /\ starts' = starts + 1
      /\ session' = [status |-> "running", agents |-> {}] /\ counts' = [r \in Role |-> 0]
      /\ phase' = [phase EXCEPT !["runner"] = "mkdir"]
      /\ UNCHANGED <<pending, issued, ui, copy, overlapped, dir, tmp, file>>
  BY DEF Create, BeginSave, uiVars
<1>2. session' \in Held /\ session'.agents = {}
  BY <1>1 DEF Held
<1>3. Types'
  BY <1>1, <1>2, SessionsAssumption DEF IInv, Types, Writer
<1>4. issued = <<>> /\ file = None /\ ui # "recovering"
  BY <1>1 DEF IInv, Control
<1>5. Control'
  BY <1>1, <1>2, <1>4 DEF IInv, Types, Control, Up, Content, Writer
<1> QED BY <1>1, <1>2, <1>3, <1>4, <1>5 DEF IInv, Counted, Recorded, Distinct, Up, Issued

\* The number of a new agent is one more than any in memory, so its id is none that was given.
LEMMA SpawnAgentKeeps == ASSUME IInv, NEW role \in Role, SpawnAgent(role) PROVE IInv'
<1> DEFINE id == <<role, counts[role] + 1>>
<1>1. /\ runner = "idle" /\ counts[role] < MaxAgents /\ runner' = "spawning"
      /\ counts' = [counts EXCEPT ![role] = counts[role] + 1]
      /\ phase' = [phase EXCEPT !["runner"] = "mkdir"]
      /\ UNCHANGED <<issued, starts, ui, copy, overlapped, dir, tmp, file>>
  BY DEF SpawnAgent, BeginSave, uiVars
<1>2. counts \in [Role -> 0..MaxAgents] /\ session \in Held /\ counts'[role] = counts[role] + 1
  BY <1>1 DEF IInv, Types, Control, Up
<1>3. pending' = id /\ session' = [session EXCEPT !.agents = @ \cup {id}]
  BY <1>2 DEF SpawnAgent, AgentIdOf
<1>4. id \in Role \X (1..MaxAgents) /\ id \in AgentId
  BY <1>1, <1>2, SessionsAssumption DEF AgentId
<1>5. /\ session' \in Held /\ session'.agents = session.agents \cup {id}
      /\ session.agents \subseteq Role \X (1..MaxAgents)
  BY <1>2, <1>3, <1>4 DEF Held
<1>6. counts' \in [Role -> 0..MaxAgents]
  BY <1>1, <1>2, SessionsAssumption
<1>7. Types'
  BY <1>1, <1>3, <1>4, <1>5, <1>6 DEF IInv, Types, Writer
<1>8. Control'
  BY <1>1, <1>5 DEF IInv, Types, Control, Up, Content, Writer
<1>9. ASSUME NEW a \in session'.agents PROVE a[2] <= counts'[a[1]]
  <2>1. CASE a = id
    BY <1>2, <2>1, SessionsAssumption
  <2>2. CASE a \in session.agents
    <3>1. a[1] \in Role /\ a[2] \in 1..MaxAgents /\ a[2] <= counts[a[1]]
      BY <1>1, <1>5, <2>2 DEF IInv, Counted, Up
    <3>2. counts[a[1]] <= counts'[a[1]] /\ counts[a[1]] \in Nat /\ counts'[a[1]] \in Nat
      BY <1>1, <1>2, <3>1, SessionsAssumption
    <3> QED BY <3>1, <3>2
  <2> QED BY <1>5, <2>1, <2>2
<1>10. Counted'
  BY <1>3, <1>5, <1>9 DEF Counted
<1>11. id \notin session.agents
  BY <1>1, <1>2 DEF IInv, Counted, Up
<1>12. ASSUME ~overlapped' PROVE Recorded' /\ Distinct'
  BY <1>1, <1>3, <1>5, <1>11, <1>12 DEF IInv, Recorded, Distinct, Up, Issued
<1> QED BY <1>7, <1>8, <1>10, <1>12 DEF IInv

LEMMA StopKeeps == ASSUME IInv, Stop PROVE IInv'
<1>1. /\ runner' = "down" /\ phase' = [phase EXCEPT !["runner"] = "none"]
      /\ UNCHANGED <<session, counts, pending, issued, starts, ui, copy, overlapped, dir, tmp, file>>
  BY DEF Stop, EndSave, uiVars
<1>2. Types'
  BY <1>1 DEF IInv, Types, Writer
<1>3. Control'
  BY <1>1 DEF IInv, Types, Control, Up, Content, Writer
<1> QED BY <1>1, <1>2, <1>3 DEF IInv, Counted, Recorded, Distinct, Up, Issued

LEMMA ResumeKeeps == ASSUME IInv, Resume PROVE IInv'
<1>1. /\ runner = "down" /\ file.status \in {"running", "interrupted"}
      /\ session' = file /\ counts' = BuildAgentCounts(file.agents)
      /\ runner' = "idle" /\ starts' = starts + 1
      /\ overlapped' = (overlapped \/ ui = "recovering")
      /\ UNCHANGED <<pending, issued, ui, copy, phase, dir, tmp, file>>
  BY DEF Resume
<1>2. file \in Held /\ file # None
  BY <1>1 DEF IInv, Types, None
<1>3. file.agents \in SUBSET (Role \X (1..MaxAgents))
  BY <1>2 DEF Held
<1>4. /\ counts' \in [Role -> 0..MaxAgents]
      /\ \A a \in file.agents : a[2] <= counts'[a[1]]
  BY <1>1, <1>3, CountsCover
<1>5. Types'
  BY <1>1, <1>2, <1>4 DEF IInv, Types
<1>6. Control'
  BY <1>1, <1>2 DEF IInv, Types, Control, Up, Content, Writer
<1>7. Counted'
  BY <1>1, <1>4 DEF Counted
<1>8. ASSUME ~overlapped' PROVE Recorded' /\ Distinct'
  BY <1>1, <1>2, <1>8 DEF IInv, Recorded, Distinct, Up, Issued
<1> QED BY <1>5, <1>6, <1>7, <1>8 DEF IInv

LEMMA RecoverKeeps == ASSUME IInv, Recover PROVE IInv'
<1>1. /\ ui = "idle" /\ file.status = "running" /\ copy' = MarkInterrupted(file)
      /\ ui' = "recovering" /\ phase' = [phase EXCEPT !["ui"] = "mkdir"]
      /\ overlapped' = (overlapped \/ Up)
      /\ UNCHANGED <<runner, session, counts, pending, issued, starts, dir, tmp, file>>
  BY DEF Recover, BeginSave, runnerVars
<1>2. file \in Held /\ file # None
  BY <1>1 DEF IInv, Types, None
<1>3. copy' \in Held /\ copy'.agents = file.agents
  BY <1>1, <1>2, Shapes
<1>4. Types'
  BY <1>1, <1>3 DEF IInv, Types, Writer, Up
<1>5. Control'
  BY <1>1, <1>2, <1>3 DEF IInv, Types, Control, Up, Content, Writer
<1>6. ASSUME ~overlapped' PROVE Recorded' /\ Distinct'
  BY <1>1, <1>2, <1>3, <1>6 DEF IInv, Recorded, Distinct, Up, Issued
<1> QED BY <1>1, <1>4, <1>5, <1>6 DEF IInv, Counted, Up

LEMMA EmptyDirKeeps == ASSUME IInv, EmptyDir PROVE IInv'
<1>1. /\ ui = "idle" /\ file' = None /\ tmp' = [p \in Writer |-> None] /\ ui' = "deleting"
      /\ UNCHANGED <<runner, session, counts, pending, issued, starts, copy, overlapped, phase, dir>>
  BY DEF EmptyDir, runnerVars
<1>2. Types'
  BY <1>1 DEF IInv, Types
<1>3. Control'
  BY <1>1 DEF IInv, Types, Control, Up, Content, Writer
<1> QED BY <1>1, <1>2, <1>3 DEF IInv, Counted, Recorded, Distinct, Up, Issued

LEMMA EndDeleteKeeps == ASSUME IInv, RemoveDir \/ DeleteFails PROVE IInv'
<1>1. /\ ui = "deleting" /\ ui' = "idle" /\ dir' \in BOOLEAN
      /\ UNCHANGED <<runner, session, counts, pending, issued, starts, copy, overlapped, phase, tmp, file>>
  BY DEF RemoveDir, DeleteFails, runnerVars, IInv, Types
<1>2. Types'
  BY <1>1 DEF IInv, Types
<1>3. Control'
  BY <1>1 DEF IInv, Types, Control, Up, Content, Writer
<1> QED BY <1>1, <1>2, <1>3 DEF IInv, Counted, Recorded, Distinct, Up, Issued

LEMMA NextKeeps == IInv /\ [Next]_vars => IInv'
<1> SUFFICES ASSUME IInv, [Next]_vars PROVE IInv'
  OBVIOUS
<1>1. CASE UNCHANGED vars
  <2>1. Types'
    BY <1>1 DEF vars, IInv, Types
  <2> QED
    BY <1>1, <2>1 DEF vars, IInv, Control, Counted, Recorded, Distinct, Up, Issued, Content
<1> QED
  BY <1>1, CreateDirKeeps, WriteTmpKeeps, RenameKeeps, SaveFailsKeeps, CreateKeeps,
     SpawnAgentKeeps, StopKeeps, ResumeKeeps, RecoverKeeps, EmptyDirKeeps, EndDeleteKeeps
     DEF Next

-----------------------------------------------------------------------------
(***************************************************************************)
(* Through crashes between any two steps of a save, failures, resumptions, *)
(* recoveries and deletions: session.json is whole, an agent id that was   *)
(* given out is in it, and none is given out twice, for any roles and any  *)
(* number of agents.                                                       *)
(***************************************************************************)
THEOREM IdsAreKept == Spec => []IdsKept
<1>1. IInv => IdsKept
  <2> SUFFICES ASSUME IInv PROVE IdsKept
    OBVIOUS
  <2>1. TypeOK
    BY Shapes, SessionsAssumption DEF IInv, Types, TypeOK
  <2>2. IssuedIsPersisted /\ NoIdReissued
    BY Shapes DEF IInv, Types, Recorded, Distinct, Issued, IssuedIsPersisted, NoIdReissued,
                  None, SessionOf
  <2> QED BY <2>1, <2>2 DEF IdsKept
<1> QED BY <1>1, InitIInv, NextKeeps, PTL DEF Spec

-----------------------------------------------------------------------------
\* StatusAgreesAlone, and what a file can be.
Alone == ~overlapped /\ Up /\ file # None => file.status = session.status

LEMMA AloneKeeps == IInv /\ Alone /\ [Next]_vars => Alone'
<1> SUFFICES ASSUME IInv, Alone, [Next]_vars, ~overlapped', Up', file' # None
             PROVE  file'.status = session'.status
  BY DEF Alone
<1>1. CASE UNCHANGED <<runner, session, file, overlapped>>
  BY <1>1 DEF Alone, Up
<1>2. ASSUME NEW p \in Writer, CreateDir(p) \/ WriteTmp(p) PROVE file'.status = session'.status
  BY <1>1, <1>2 DEF CreateDir, WriteTmp, runnerVars, uiVars
<1>3. ASSUME NEW p \in Writer, Rename(p) PROVE file'.status = session'.status
  <2>1. /\ phase[p] = "rename" /\ file' = tmp[p] /\ tmp[p] # None /\ AfterSave(p, TRUE)
    BY <1>3 DEF Rename
  <2>2. tmp[p] = Content(p)
    BY <2>1 DEF IInv, Control
  <2>3. CASE p = "runner"
    <3>1. runner \in {"creating", "spawning"}
      BY <2>1, <2>3 DEF IInv, Control
    <3> QED BY <2>1, <2>2, <2>3, <3>1 DEF AfterSave, Content
  <2>4. CASE p = "ui"
    <3>1. ui = "recovering" /\ overlapped' = overlapped /\ runner' = runner
      BY <2>1, <2>4 DEF IInv, Control, AfterSave, runnerVars
    <3> QED BY <3>1 DEF IInv, Recorded, Up
  <2> QED BY <2>3, <2>4 DEF Writer
<1>4. ASSUME NEW p \in Writer, SaveFails(p) PROVE file'.status = session'.status
  <2>1. phase[p] # "none" /\ file' = file /\ AfterSave(p, FALSE)
    BY <1>4 DEF SaveFails
  <2>2. CASE p = "runner"
    <3>1. runner \in {"creating", "spawning"}
      BY <2>1, <2>2 DEF IInv, Control
    <3>2. session' = session /\ overlapped' = overlapped
      BY <2>1, <2>2, <3>1 DEF AfterSave, uiVars
    <3> QED BY <2>1, <3>1, <3>2 DEF Alone, Up
  <2>3. CASE p = "ui"
    BY <2>1, <2>3, <1>1 DEF AfterSave, runnerVars
  <2> QED BY <2>2, <2>3 DEF Writer
<1>5. CASE Create
  BY <1>5 DEF Create, IInv, Control
<1>6. ASSUME NEW role \in Role, SpawnAgent(role) PROVE file'.status = session'.status
  <2>1. /\ runner = "idle" /\ session \in Held
        /\ session' = [session EXCEPT !.agents = @ \cup {pending'}]
        /\ file' = file /\ overlapped' = overlapped
    BY <1>6 DEF SpawnAgent, IInv, Control, Up, uiVars
  <2>2. session'.status = session.status
    BY <2>1 DEF Held
  <2> QED BY <2>1, <2>2 DEF Alone, Up
<1>7. CASE Stop
  BY <1>7 DEF Stop, Up
<1>8. CASE Resume
  BY <1>8 DEF Resume
<1>9. CASE Recover
  <2>1. UNCHANGED <<runner, session, file>> /\ (overlapped' = (overlapped \/ Up))
    BY <1>9 DEF Recover, runnerVars
  <2> QED BY <2>1 DEF Up
<1>10. CASE EmptyDir
  BY <1>10 DEF EmptyDir
<1>11. CASE RemoveDir \/ DeleteFails
  BY <1>1, <1>11 DEF RemoveDir, DeleteFails, runnerVars
<1>12. CASE UNCHANGED vars
  BY <1>1, <1>12 DEF vars
<1> QED
  BY <1>2, <1>3, <1>4, <1>5, <1>6, <1>7, <1>8, <1>9, <1>10, <1>11, <1>12 DEF Next

(***************************************************************************)
(* The status on disk is the one in memory while the session's process     *)
(* runs, unless a user interface recovered it then: a crash, a resumption  *)
(* or a failed save never leaves the two apart.                            *)
(***************************************************************************)
THEOREM StatusIsKept == Spec => []StatusAgreesAlone
<1>1. Init => Alone
  BY DEF Init, Alone
<1>2. Alone /\ IInv => StatusAgreesAlone
  BY Shapes DEF Alone, StatusAgreesAlone, StatusAgrees, SessionOf, None
<1> QED BY <1>1, <1>2, InitIInv, NextKeeps, AloneKeeps, PTL DEF Spec
=============================================================================
