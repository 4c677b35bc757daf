---------------------------- MODULE BrokerProofs ----------------------------
(***************************************************************************)
(* The safety of the message broker and of the tool server in front of it, *)
(* for every set of agents and of threads that call them.                  *)
(***************************************************************************)
EXTENDS McpProcess, SequenceTheorems, FiniteSetTheorems, TLAPS

\* Which of a call's sends can be waiting: a spawn request only of a coordinator, since the
\* call was permitted and no agent is registered anew while it waits.
SpawnsPermitted ==
  /\ \A a \in Agent : "spawn_agent" \in allowed[a] => roles[a] = "coordinator"
  /\ \A t \in Thread : \A i \in DOMAIN unsent[t] :
       unsent[t][i].to = "spawn" => roles[unsent[t][i].agent] = "coordinator"

IInv == TypeOK /\ ExactlyOnceInOrder /\ SpawnsPermitted

-----------------------------------------------------------------------------
LEMMA InitIInv == Init => IInv
<1> SUFFICES ASSUME Init PROVE IInv
  OBVIOUS
<1>1. TypeOK
  BY BrokerAssumption DEF Init, TypeOK, Role
<1>2. ExactlyOnceInOrder
  BY DEF Init, ExactlyOnceInOrder
<1>3. SpawnsPermitted
  BY DEF Init, SpawnsPermitted
<1> QED BY <1>1, <1>2, <1>3 DEF IInv

LEMMA AppendToConcat ==
  \A S : \A first, second \in Seq(S), x \in S :
    first \o Append(second, x) = Append(first \o second, x)
<1> TAKE S
<1> TAKE first, second \in Seq(S), x \in S
<1>1. first \o second \in Seq(S) /\ <<x>> \in Seq(S)
  OBVIOUS
<1>2. /\ Append(second, x) = second \o <<x>>
      /\ Append(first \o second, x) = (first \o second) \o <<x>>
  BY <1>1, AppendIsConcat
<1> QED BY <1>1, <1>2, ConcatAssociative

\* What send_message accepts goes to the end of the mailbox and of what was accepted.
LEMMA SendKeeps ==
  ASSUME IInv, NEW t \in Thread, NEW a \in Agent, NEW to \in Agent, SendMessage(t, a, to)
  PROVE  IInv'
<1> DEFINE m == <<a, Len(accepted[to]) + 1>>
<1>1. /\ mailboxes' = [mailboxes EXCEPT ![to] = Append(@, m)]
      /\ accepted' = [accepted EXCEPT ![to] = Append(@, m)]
      /\ UNCHANGED <<agents, allowed, roles, unsent, taken, statuses, results, spawns>>
  BY DEF SendMessage, sentVars
<1>2. m \in Mail
  BY DEF IInv, TypeOK, Mail
<1>3. TypeOK'
  BY <1>1, <1>2 DEF IInv, TypeOK
<1>4. ASSUME NEW b \in Agent
      PROVE  taken'[b] \o mailboxes'[b] = accepted'[b]
  <2>1. taken[b] \in Seq(Mail) /\ mailboxes[b] \in Seq(Mail)
    BY DEF IInv, TypeOK
  <2>2. taken[b] \o mailboxes[b] = accepted[b]
    BY DEF IInv, ExactlyOnceInOrder
  <2> HIDE DEF m
  <2>3. taken[b] \o Append(mailboxes[b], m) = Append(taken[b] \o mailboxes[b], m)
    <3> DEFINE S == Mail
    <3> HIDE DEF S
    <3>1. taken[b] \in Seq(S) /\ mailboxes[b] \in Seq(S) /\ m \in S
      BY <2>1, <1>2 DEF S
    <3>2. \A first, second \in Seq(S), x \in S :
             first \o Append(second, x) = Append(first \o second, x)
      BY AppendToConcat
    <3>3. \A x \in S : taken[b] \o Append(mailboxes[b], x) = Append(taken[b] \o mailboxes[b], x)
      BY <3>1, <3>2, Zenon
    <3> QED BY <3>1, <3>3
  <2> USE DEF m
  <2> QED BY <2>2, <2>3, <1>1 DEF IInv, TypeOK
<1>5. SpawnsPermitted'
  BY <1>1 DEF IInv, SpawnsPermitted
<1> QED BY <1>3, <1>4, <1>5 DEF IInv, ExactlyOnceInOrder

\* read_messages moves a mailbox, as it is, to what was handed out.
LEMMA ReadKeeps ==
  ASSUME IInv, NEW t \in Thread, NEW a \in Agent, ReadMessages(t, a)
  PROVE  IInv'
<1>1. /\ taken' = [taken EXCEPT ![a] = @ \o mailboxes[a]]
      /\ mailboxes' = [mailboxes EXCEPT ![a] = <<>>]
      /\ UNCHANGED <<agents, allowed, roles, unsent, accepted, statuses, results, spawns>>
  BY DEF ReadMessages, sentVars
<1>2. TypeOK'
  BY <1>1 DEF IInv, TypeOK
<1>3. ASSUME NEW b \in Agent
      PROVE  taken'[b] \o mailboxes'[b] = accepted'[b]
  <2>1. taken[b] \in Seq(Mail) /\ mailboxes[b] \in Seq(Mail)
    BY DEF IInv, TypeOK
  <2>2. taken[b] \o mailboxes[b] = accepted[b]
    BY DEF IInv, ExactlyOnceInOrder
  <2>3. (taken[b] \o mailboxes[b]) \o <<>> = taken[b] \o mailboxes[b]
    BY <2>1
  <2> QED BY <2>2, <2>3, <1>1 DEF IInv, TypeOK
<1>4. SpawnsPermitted'
  BY <1>1 DEF IInv, SpawnsPermitted
<1> QED BY <1>2, <1>3, <1>4 DEF IInv, ExactlyOnceInOrder

\* A call that only leaves something to send, none of it a spawn request but that of a
\* coordinator.
LEMMA CallKeeps ==
  ASSUME IInv, NEW t \in Thread, NEW sends \in Seq(Send),
         \A i \in DOMAIN sends : sends[i].to = "spawn" => roles[sends[i].agent] = "coordinator",
         agents' \in [Agent -> Status \cup {"none"}],
         unsent' = [unsent EXCEPT ![t] = sends],
         UNCHANGED <<allowed, roles, mailVars, sentVars>>
  PROVE  IInv'
<1>1. TypeOK'
  BY DEF IInv, TypeOK, mailVars, sentVars
<1>2. ExactlyOnceInOrder'
  BY DEF IInv, ExactlyOnceInOrder, mailVars
<1>3. ASSUME NEW u \in Thread, NEW i \in DOMAIN unsent'[u], unsent'[u][i].to = "spawn"
      PROVE  roles'[unsent'[u][i].agent] = "coordinator"
  <2>1. CASE u = t
    BY <2>1, <1>3 DEF IInv, TypeOK
  <2>2. CASE u # t
    BY <2>2, <1>3 DEF IInv, TypeOK, SpawnsPermitted
  <2> QED BY <2>1, <2>2
<1>4. SpawnsPermitted'
  BY <1>3 DEF IInv, SpawnsPermitted
<1> QED BY <1>1, <1>2, <1>4 DEF IInv

LEMMA NextKeeps == IInv /\ [Next]_vars => IInv'
<1> SUFFICES ASSUME IInv, [Next]_vars PROVE IInv'
  OBVIOUS
<1> USE BrokerAssumption
<1>1. ASSUME NEW a \in Agent, NEW r \in {"coordinator", "other"}, RegisterAgent(a, r, Tool)
      PROVE  IInv'
  <2>1. /\ allowed' = [allowed EXCEPT ![a] = IF r = "coordinator" THEN Tool \cup CoordinatorTools
                                                                 ELSE Tool \ CoordinatorTools]
        /\ roles' = [roles EXCEPT ![a] = r]
        /\ agents' = [agents EXCEPT ![a] = "running"]
        /\ \A t \in Thread : unsent[t] = <<>>
        /\ UNCHANGED <<unsent, mailboxes, accepted, taken, statuses, results, spawns>>
    BY <1>1 DEF RegisterAgent, mailVars, sentVars, Free
  <2>2. TypeOK'
    BY <2>1 DEF IInv, TypeOK, Role, Status, CoordinatorTools, Tool
  <2>3. ExactlyOnceInOrder'
    BY <2>1 DEF IInv, ExactlyOnceInOrder
  <2>4. SpawnsPermitted'
    BY <2>1 DEF IInv, TypeOK, SpawnsPermitted, CoordinatorTools, Tool
  <2> QED BY <2>2, <2>3, <2>4 DEF IInv
<1>2. ASSUME NEW t \in Thread, NEW a \in Agent, NEW s \in Text, UpdateStatus(t, a, s)
      PROVE  IInv'
  <2> DEFINE sends == <<Announce(a, s)>>
  <2>1. sends \in Seq(Send) /\ \A i \in DOMAIN sends : sends[i].to # "spawn"
    BY DEF Announce, Send, Status
  <2>2. agents' \in [Agent -> Status \cup {"none"}]
    BY <1>2 DEF UpdateStatus, IInv, TypeOK, Status
  <2>3. unsent' = [unsent EXCEPT ![t] = sends] /\ UNCHANGED <<allowed, roles, mailVars, sentVars>>
    BY <1>2 DEF UpdateStatus
  <2> HIDE DEF sends
  <2> QED BY <2>1, <2>2, <2>3, CallKeeps
<1>3. ASSUME NEW t \in Thread, NEW a \in Agent, ReportResult(t, a)
      PROVE  IInv'
  <2> DEFINE sends == <<[to |-> "result", agent |-> a], Announce(a, "completed")>>
  <2>1. sends \in Seq(Send) /\ \A i \in DOMAIN sends : sends[i].to # "spawn"
    BY DEF Announce, Send, Status
  <2>2. agents' \in [Agent -> Status \cup {"none"}]
    BY <1>3 DEF ReportResult, IInv, TypeOK, Status
  <2>3. unsent' = [unsent EXCEPT ![t] = sends] /\ UNCHANGED <<allowed, roles, mailVars, sentVars>>
    BY <1>3 DEF ReportResult
  <2> HIDE DEF sends
  <2> QED BY <2>1, <2>2, <2>3, CallKeeps
<1>4. ASSUME NEW t \in Thread, NEW a \in Agent, SpawnAgent(t, a)
      PROVE  IInv'
  <2> DEFINE sends == <<[to |-> "spawn", agent |-> a]>>
  <2>1. sends \in Seq(Send) /\ \A i \in DOMAIN sends : sends[i].agent = a
    BY DEF Send
  <2>2. roles[a] = "coordinator"
    BY <1>4 DEF SpawnAgent, Permits, IInv, SpawnsPermitted
  <2>3. agents' \in [Agent -> Status \cup {"none"}]
    BY <1>4 DEF SpawnAgent, IInv, TypeOK
  <2>4. unsent' = [unsent EXCEPT ![t] = sends] /\ UNCHANGED <<allowed, roles, mailVars, sentVars>>
    BY <1>4 DEF SpawnAgent
  <2> HIDE DEF sends
  <2> QED BY <2>1, <2>2, <2>3, <2>4, CallKeeps
<1>5. ASSUME NEW t \in Thread, Deliver(t)
      PROVE  IInv'
  <2> DEFINE m == Head(unsent[t])
  <2>1. /\ unsent[t] \in Seq(Send) /\ unsent[t] # <<>>
        /\ unsent' = [unsent EXCEPT ![t] = Tail(@)]
        /\ UNCHANGED <<agents, allowed, roles, mailboxes, accepted, taken>>
    BY <1>5 DEF Deliver, DeliverWithin, IInv, TypeOK, mailVars
  <2>2. m \in Send /\ Tail(unsent[t]) \in Seq(Send)
    BY <2>1
  <2>3. /\ statuses' \in Seq(Agent \X Status) /\ results' \in Seq(Agent)
        /\ spawns' \in Seq(Agent) /\ Len(spawns') <= SpawnCapacity
    <3>1. CASE m.to = "status" /\ statuses' = Append(statuses, <<m.agent, m.status>>)
               /\ UNCHANGED <<results, spawns>>
      BY <3>1, <2>2 DEF IInv, TypeOK, Send
    <3>2. CASE m.to = "result" /\ results' = Append(results, m.agent) /\ UNCHANGED <<statuses, spawns>>
      BY <3>2, <2>2 DEF IInv, TypeOK, Send
    <3>3. CASE m.to = "spawn" /\ Len(spawns) < SpawnCapacity
               /\ spawns' = Append(spawns, m.agent) /\ UNCHANGED <<statuses, results>>
      BY <3>3, <2>2 DEF IInv, TypeOK, Send
    <3> QED BY <1>5, <3>1, <3>2, <3>3 DEF Deliver, DeliverWithin
  <2>4. TypeOK'
    BY <2>1, <2>2, <2>3 DEF IInv, TypeOK
  <2>5. ExactlyOnceInOrder'
    BY <2>1 DEF IInv, ExactlyOnceInOrder
  <2>6. ASSUME NEW u \in Thread, NEW i \in DOMAIN unsent'[u], unsent'[u][i].to = "spawn"
        PROVE  roles'[unsent'[u][i].agent] = "coordinator"
    <3>1. CASE u = t
      <4>1. unsent'[t] = Tail(unsent[t])
        BY <2>1 DEF IInv, TypeOK
      <4>2. i \in DOMAIN Tail(unsent[t])
        BY <2>6, <3>1, <4>1
      <4>3. i + 1 \in DOMAIN unsent[t] /\ Tail(unsent[t])[i] = unsent[t][i + 1]
        BY <2>1, <4>2
      <4> QED BY <4>1, <4>3, <2>1, <2>6, <3>1 DEF IInv, SpawnsPermitted
    <3>2. CASE u # t
      BY <3>2, <2>6, <2>1 DEF IInv, TypeOK, SpawnsPermitted
    <3> QED BY <3>1, <3>2
  <2>7. SpawnsPermitted'
    BY <2>1, <2>6 DEF IInv, SpawnsPermitted
  <2> QED BY <2>4, <2>5, <2>7 DEF IInv
<1>6. ASSUME ReceiveSpawn
      PROVE  IInv'
  <2>1. TypeOK'
    BY <1>6 DEF ReceiveSpawn, IInv, TypeOK, mailVars
  <2> QED BY <1>6, <2>1 DEF ReceiveSpawn, IInv, mailVars, ExactlyOnceInOrder, SpawnsPermitted
<1>7. ASSUME UNCHANGED vars
      PROVE  IInv'
  BY <1>7 DEF vars, IInv, TypeOK, ExactlyOnceInOrder, SpawnsPermitted
<1> QED BY <1>1, <1>2, <1>3, <1>4, <1>5, <1>6, <1>7, SendKeeps, ReadKeeps DEF Next, Call

-----------------------------------------------------------------------------
(***************************************************************************)
(* Every message that send_message accepted is handed out once and in the  *)
(* order of acceptance, and the channel of spawn requests keeps to its     *)
(* capacity, for any number of agents and threads.                         *)
(***************************************************************************)
THEOREM MailIsKept == Spec => []MailKept
<1>1. IInv => MailKept
  BY DEF IInv, MailKept
<1> QED BY <1>1, InitIInv, NextKeeps, PTL DEF Spec

\* A spawn request enters the channel only while its agent is a coordinator, however long
\* it waited for room.
THEOREM OnlyCoordinatorsSpawn == Spec => SpawnsAreCoordinators
<1> DEFINE A == Len(spawns') > Len(spawns) => roles[spawns'[Len(spawns')]] = "coordinator"
<1>1. IInv /\ [Next]_vars => [A]_vars
  <2> SUFFICES ASSUME IInv, Next, Len(spawns') > Len(spawns)
               PROVE  roles[spawns'[Len(spawns')]] = "coordinator"
    OBVIOUS
  <2>1. spawns \in Seq(Agent)
    BY DEF IInv, TypeOK
  <2>2. spawns' # spawns /\ ~ReceiveSpawn
    BY <2>1 DEF ReceiveSpawn
  <2>3. PICK t \in Thread : Deliver(t)
    BY <2>2 DEF Next, Call, RegisterAgent, SendMessage, ReadMessages, UpdateStatus, ReportResult,
                SpawnAgent, sentVars
  <2> DEFINE m == Head(unsent[t])
  <2>4. unsent[t] # <<>> /\ m.to = "spawn" /\ spawns' = Append(spawns, m.agent)
    BY <2>2, <2>3 DEF Deliver, DeliverWithin
  <2>5. unsent[t] \in Seq(Send)
    BY DEF IInv, TypeOK
  <2>6. m \in Send /\ m = unsent[t][1] /\ 1 \in DOMAIN unsent[t]
    BY <2>4, <2>5
  <2>7. roles[m.agent] = "coordinator"
    BY <2>4, <2>6 DEF IInv, SpawnsPermitted
  <2>8. spawns'[Len(spawns')] = m.agent
    BY <2>1, <2>4
  <2> QED BY <2>7, <2>8
<1> QED BY <1>1, InitIInv, NextKeeps, PTL DEF Spec, SpawnsAreCoordinators

-----------------------------------------------------------------------------
\* What a call has still to send, at any point of it.
Announcing == {<<Announce(a, s)>> : a \in Agent, s \in Text \cup {"completed"}}
Reporting  == {<<[to |-> "result", agent |-> a], Announce(a, "completed")>> : a \in Agent}
Asking     == {<<[to |-> "spawn", agent |-> a]>> : a \in Agent}
Waiting    == {<<>>} \cup Announcing \cup Reporting \cup Asking

\* The calls that have sent a result and not yet announced the agent as completed.
Due(a) == {t \in Thread : unsent[t] = <<Announce(a, "completed")>>}

\* Such a call's result is there and its announcement is not: counting it as made, there
\* are still no more announcements than results.
Counted(a) ==
  /\ IsFiniteSet(Due(a))
  /\ Occurs(statuses, <<a, "completed">>) + Cardinality(Due(a)) <= Occurs(results, a)

ResultInv == (\A t \in Thread : unsent[t] \in Waiting) /\ \A a \in Agent : Counted(a)

LEMMA OccursAppend ==
  ASSUME NEW S, NEW q \in Seq(S), NEW x \in S, NEW y \in S
  PROVE  /\ Occurs(q, x) \in Nat
         /\ Occurs(Append(q, y), x) = IF y = x THEN Occurs(q, x) + 1 ELSE Occurs(q, x)
<1> DEFINE I == {i \in DOMAIN q : q[i] = x}
           J == {i \in DOMAIN Append(q, y) : Append(q, y)[i] = x}
           n == Len(q) + 1
<1>1. IsFiniteSet(I) /\ n \notin I
  <2>1. I \in SUBSET (1..Len(q)) /\ Len(q) \in Nat
    OBVIOUS
  <2>2. IsFiniteSet(1..Len(q))
    BY <2>1, FS_Interval
  <2>3. n \notin I
    BY <2>1
  <2> HIDE DEF I
  <2>4. IsFiniteSet(I)
    BY <2>1, <2>2, FS_Subset
  <2> QED BY <2>3, <2>4
<1>2. J = IF y = x THEN I \cup {n} ELSE I
  OBVIOUS
<1>3. Occurs(q, x) = Cardinality(I) /\ Occurs(Append(q, y), x) = Cardinality(J)
  BY DEF Occurs
<1> HIDE DEF I, J, n
<1>4. Cardinality(I) \in Nat /\ Cardinality(I \cup {n}) = Cardinality(I) + 1
  BY <1>1, FS_CardinalityType, FS_AddElement
<1> QED BY <1>2, <1>3, <1>4

\* Of what the two channels hold.
LEMMA OccursCounts ==
  ASSUME TypeOK, NEW a \in Agent
  PROVE  Occurs(statuses, <<a, "completed">>) \in Nat /\ Occurs(results, a) \in Nat
<1> DEFINE S == Agent \X Status
           x == <<a, "completed">>
<1>1. x \in S /\ statuses \in Seq(S) /\ results \in Seq(Agent)
  BY DEF TypeOK, Status
<1>2. Occurs(results, a) \in Nat
  BY <1>1, OccursAppend
<1> HIDE DEF S, x
<1>3. Occurs(statuses, x) \in Nat
  BY <1>1, OccursAppend
<1> QED BY <1>2, <1>3 DEF x

LEMMA OccursEmpty == ASSUME NEW x PROVE Occurs(<<>>, x) = 0
<1>1. {i \in DOMAIN <<>> : <<>>[i] = x} = {}
  OBVIOUS
<1> QED BY <1>1, FS_EmptySet DEF Occurs

LEMMA AnnouncesDiffer ==
  ASSUME NEW a, NEW b, NEW s, NEW r
  PROVE  <<Announce(a, s)>> = <<Announce(b, r)>> <=> a = b /\ s = r
<1>1. Announce(a, s) = Announce(b, r) <=> a = b /\ s = r
  BY DEF Announce
<1>2. ASSUME NEW x, NEW y PROVE <<x>> = <<y>> <=> x = y
  OBVIOUS
<1> QED BY <1>1, <1>2

\* A call that begins is due nothing yet.
LEMMA BeginCounted ==
  ASSUME ResultInv, NEW t \in Thread, NEW sends \in Waiting, unsent \in [Thread -> Seq(Send)],
         \A a \in Agent : sends # <<Announce(a, "completed")>>,
         unsent[t] = <<>>, unsent' = [unsent EXCEPT ![t] = sends],
         UNCHANGED <<statuses, results>>
  PROVE  ResultInv'
<1>1. \A u \in Thread : unsent'[u] = IF u = t THEN sends ELSE unsent[u]
  OBVIOUS
<1>2. ASSUME NEW a \in Agent PROVE Due(a)' = Due(a)
  <2>1. unsent[t] # <<Announce(a, "completed")>>
    OBVIOUS
  <2> QED BY <1>1, <2>1 DEF Due
<1>3. \A a \in Agent : Counted(a)'
  BY <1>2 DEF ResultInv, Counted
<1>4. \A u \in Thread : unsent'[u] \in Waiting
  BY <1>1 DEF ResultInv
<1>5. Waiting' = Waiting
  BY DEF Waiting, Announcing, Reporting, Asking, Announce
<1> QED BY <1>3, <1>4, <1>5 DEF ResultInv

LEMMA DeliverCounted ==
  ASSUME TypeOK, ResultInv, NEW t \in Thread, Deliver(t)
  PROVE  ResultInv'
<1> DEFINE m == Head(unsent[t])
<1> USE BrokerAssumption
<1>1. /\ unsent[t] # <<>> /\ unsent \in [Thread -> Seq(Send)]
      /\ unsent' = [unsent EXCEPT ![t] = Tail(@)]
      /\ statuses \in Seq(Agent \X Status) /\ results \in Seq(Agent)
  BY DEF Deliver, DeliverWithin, TypeOK
<1>2. \A u \in Thread : unsent'[u] = IF u = t THEN Tail(unsent[t]) ELSE unsent[u]
  BY <1>1
<1>3. \/ m.to = "status" /\ statuses' = Append(statuses, <<m.agent, m.status>>)
         /\ results' = results
      \/ m.to = "result" /\ results' = Append(results, m.agent) /\ statuses' = statuses
      \/ m.to = "spawn" /\ results' = results /\ statuses' = statuses
  BY DEF Deliver, DeliverWithin
<1>4. unsent[t] \in Waiting /\ \A a \in Agent : Counted(a)
  BY DEF ResultInv
<1>5. \A a \in Agent : /\ Occurs(statuses, <<a, "completed">>) \in Nat
                       /\ Occurs(results, a) \in Nat
  BY OccursCounts
<1>6. Waiting' = Waiting
  BY DEF Waiting, Announcing, Reporting, Asking, Announce
<1>7. CASE unsent[t] \in Announcing
  <2>1. PICK b \in Agent, s \in Text \cup {"completed"} : unsent[t] = <<Announce(b, s)>>
    BY <1>7 DEF Announcing
  <2>2. /\ statuses' = Append(statuses, <<b, s>>) /\ results' = results
        /\ Tail(unsent[t]) = <<>>
    BY <1>3, <2>1 DEF Announce
  <2>3. ASSUME NEW a \in Agent PROVE Counted(a)'
    <3>1. Due(a)' = Due(a) \ {t}
      <4>1. <<>> # <<Announce(a, "completed")>>
        OBVIOUS
      <4>2. Due(a)' = {u \in Thread : unsent'[u] = <<Announce(a, "completed")>>}
        BY DEF Due, Announce
      <4> QED BY <1>2, <2>2, <4>1, <4>2 DEF Due
    <3>2. t \in Due(a) <=> a = b /\ s = "completed"
      BY <2>1, AnnouncesDiffer DEF Due
    <3>3. Occurs(statuses', <<a, "completed">>) =
            IF a = b /\ s = "completed" THEN Occurs(statuses, <<a, "completed">>) + 1
                                        ELSE Occurs(statuses, <<a, "completed">>)
      <4>1. <<b, s>> \in Agent \X Status /\ <<a, "completed">> \in Agent \X Status
        BY DEF Status
      <4>2. <<b, s>> = <<a, "completed">> <=> a = b /\ s = "completed"
        OBVIOUS
      <4> DEFINE S == Agent \X Status
                 x == <<a, "completed">>
                 y == <<b, s>>
      <4>3. statuses \in Seq(S) /\ x \in S /\ y \in S /\ statuses' = Append(statuses, y)
        BY <1>1, <2>2, <4>1
      <4> HIDE DEF S, x, y
      <4>4. Occurs(statuses', x) = IF y = x THEN Occurs(statuses, x) + 1 ELSE Occurs(statuses, x)
        BY <4>3, OccursAppend
      <4> QED BY <4>2, <4>4 DEF x, y
    <3>4. /\ IsFiniteSet(Due(a)) /\ Cardinality(Due(a)) \in Nat
          /\ IsFiniteSet(Due(a) \ {t})
          /\ Cardinality(Due(a) \ {t}) = IF t \in Due(a) THEN Cardinality(Due(a)) - 1
                                                         ELSE Cardinality(Due(a))
      BY <1>4, FS_CardinalityType, FS_RemoveElement DEF Counted
    <3>5. Occurs(statuses, <<a, "completed">>) + Cardinality(Due(a)) <= Occurs(results, a)
      BY <1>4 DEF Counted
    <3>6. Occurs(statuses', <<a, "completed">>) + Cardinality(Due(a) \ {t}) <= Occurs(results, a)
      BY <1>5, <3>2, <3>3, <3>4, <3>5
    <3> QED BY <2>2, <3>1, <3>4, <3>6 DEF Counted
  <2>4. \A u \in Thread : unsent'[u] \in Waiting
    <3>1. <<>> \in Waiting
      BY DEF Waiting
    <3> QED BY <1>2, <2>2, <3>1 DEF ResultInv
  <2> QED BY <1>6, <2>3, <2>4 DEF ResultInv
<1>8. CASE unsent[t] \in Reporting
  <2>1. PICK b \in Agent : unsent[t] = <<[to |-> "result", agent |-> b], Announce(b, "completed")>>
    BY <1>8 DEF Reporting
  <2>2. /\ results' = Append(results, b) /\ statuses' = statuses
        /\ Tail(unsent[t]) = <<Announce(b, "completed")>>
    BY <1>3, <2>1
  <2>3. ASSUME NEW a \in Agent PROVE Counted(a)'
    <3>1. t \notin Due(a)
      BY <2>1 DEF Due
    <3>2. Due(a)' = IF a = b THEN Due(a) \cup {t} ELSE Due(a)
      <4>1. <<Announce(b, "completed")>> = <<Announce(a, "completed")>> <=> a = b
        BY AnnouncesDiffer
      <4>2. Due(a)' = {u \in Thread : unsent'[u] = <<Announce(a, "completed")>>}
        BY DEF Due, Announce
      <4> QED BY <1>2, <2>2, <3>1, <4>1, <4>2 DEF Due
    <3>3. Occurs(results', a) = IF a = b THEN Occurs(results, a) + 1 ELSE Occurs(results, a)
      BY <1>1, <2>2, OccursAppend
    <3>4. /\ IsFiniteSet(Due(a)) /\ Cardinality(Due(a)) \in Nat
          /\ IsFiniteSet(Due(a) \cup {t})
          /\ Cardinality(Due(a) \cup {t}) = Cardinality(Due(a)) + 1
      BY <1>4, <3>1, FS_CardinalityType, FS_AddElement DEF Counted
    <3>5. Occurs(statuses, <<a, "completed">>) + Cardinality(Due(a)) <= Occurs(results, a)
      BY <1>4 DEF Counted
    <3>6. CASE a = b
      BY <1>5, <2>2, <3>2, <3>3, <3>4, <3>5, <3>6 DEF Counted
    <3>7. CASE a # b
      BY <2>2, <3>2, <3>3, <3>4, <3>5, <3>7 DEF Counted
    <3> QED BY <3>6, <3>7
  <2>4. \A u \in Thread : unsent'[u] \in Waiting
    <3>1. <<Announce(b, "completed")>> \in Waiting
      BY DEF Waiting, Announcing
    <3> QED BY <1>2, <2>2, <3>1 DEF ResultInv
  <2> QED BY <1>6, <2>3, <2>4 DEF ResultInv
<1>9. CASE unsent[t] \in Asking
  <2>1. /\ results' = results /\ statuses' = statuses
        /\ Tail(unsent[t]) = <<>> /\ unsent[t][1].to = "spawn"
    <3>1. PICK b \in Agent : unsent[t] = <<[to |-> "spawn", agent |-> b]>>
      BY <1>9 DEF Asking
    <3> QED BY <1>3, <3>1
  <2>2. ASSUME NEW a \in Agent PROVE Due(a)' = Due(a)
    <3>1. unsent[t] # <<Announce(a, "completed")>>
      BY <2>1 DEF Announce
    <3>2. <<>> # <<Announce(a, "completed")>>
      OBVIOUS
    <3>3. Due(a)' = {u \in Thread : unsent'[u] = <<Announce(a, "completed")>>}
      BY DEF Due, Announce
    <3> QED BY <1>2, <2>1, <3>1, <3>2, <3>3 DEF Due
  <2>3. \A a \in Agent : Counted(a)'
    BY <1>4, <2>1, <2>2 DEF Counted
  <2>4. \A u \in Thread : unsent'[u] \in Waiting
    <3>1. <<>> \in Waiting
      BY DEF Waiting
    <3> QED BY <1>2, <2>1, <3>1 DEF ResultInv
  <2> QED BY <1>6, <2>3, <2>4 DEF ResultInv
<1> QED BY <1>1, <1>4, <1>7, <1>8, <1>9 DEF Waiting

LEMMA OthersCounted ==
  ASSUME ResultInv, UNCHANGED <<unsent, statuses, results>>
  PROVE  ResultInv'
BY SMTT(40) DEF ResultInv, Counted, Due, Waiting, Announcing, Reporting, Asking, Announce

LEMMA ResultKeeps == IInv /\ ResultInv /\ [Next]_vars => ResultInv'
<1> SUFFICES ASSUME IInv, ResultInv, [Next]_vars PROVE ResultInv'
  OBVIOUS
<1> USE BrokerAssumption
<1>1. unsent \in [Thread -> Seq(Send)] /\ TypeOK
  BY DEF IInv, TypeOK
<1>2. ASSUME NEW t \in Thread, NEW a \in Agent, NEW s \in Text, UpdateStatus(t, a, s)
      PROVE  ResultInv'
  <2>1. <<Announce(a, s)>> \in Waiting
    BY DEF Waiting, Announcing
  <2>2. \A b \in Agent : <<Announce(a, s)>> # <<Announce(b, "completed")>>
    BY AnnouncesDiffer
  <2> QED BY <1>1, <1>2, <2>1, <2>2, BeginCounted DEF UpdateStatus, Free, sentVars
<1>3. ASSUME NEW t \in Thread, NEW a \in Agent, ReportResult(t, a)
      PROVE  ResultInv'
  <2> DEFINE sends == <<[to |-> "result", agent |-> a], Announce(a, "completed")>>
  <2>1. sends \in Waiting
    BY DEF Waiting, Reporting
  <2>2. \A b \in Agent : sends # <<Announce(b, "completed")>>
    OBVIOUS
  <2>3. unsent[t] = <<>> /\ unsent' = [unsent EXCEPT ![t] = sends] /\ UNCHANGED <<statuses, results>>
    BY <1>3 DEF ReportResult, Free, sentVars
  <2> HIDE DEF sends
  <2> QED BY <1>1, <2>1, <2>2, <2>3, BeginCounted
<1>4. ASSUME NEW t \in Thread, NEW a \in Agent, SpawnAgent(t, a)
      PROVE  ResultInv'
  <2> DEFINE sends == <<[to |-> "spawn", agent |-> a]>>
  <2>1. sends \in Waiting
    BY DEF Waiting, Asking
  <2>2. \A b \in Agent : sends # <<Announce(b, "completed")>>
    <3>1. sends[1].to = "spawn"
      OBVIOUS
    <3>2. \A b \in Agent : <<Announce(b, "completed")>>[1].to = "status"
      BY DEF Announce
    <3> QED BY <3>1, <3>2
  <2>3. unsent[t] = <<>> /\ unsent' = [unsent EXCEPT ![t] = sends] /\ UNCHANGED <<statuses, results>>
    BY <1>4 DEF SpawnAgent, Free, sentVars
  <2> HIDE DEF sends
  <2> QED BY <1>1, <2>1, <2>2, <2>3, BeginCounted
<1>5. CASE UNCHANGED <<unsent, statuses, results>>
  BY <1>5, OthersCounted
<1> QED
  BY <1>1, <1>2, <1>3, <1>4, <1>5, DeliverCounted
     DEF Next, Call, RegisterAgent, SendMessage, ReadMessages, ReceiveSpawn, sentVars, vars

LEMMA InitResultInv == Init => ResultInv
<1> SUFFICES ASSUME Init PROVE ResultInv
  OBVIOUS
<1>1. \A t \in Thread : unsent[t] = <<>>
  BY DEF Init
<1>2. ASSUME NEW a \in Agent PROVE Due(a) = {}
  BY <1>1, SMTT(40) DEF Due
<1>3. \A a \in Agent : Counted(a)
  <2> TAKE a \in Agent
  <2>1. Occurs(statuses, <<a, "completed">>) = 0 /\ Occurs(results, a) = 0
    BY OccursEmpty DEF Init
  <2> QED BY <1>2, <2>1, FS_EmptySet DEF Counted
<1> QED BY <1>1, <1>3 DEF ResultInv, Waiting

(***************************************************************************)
(* Nobody hears that an agent has completed before its result is out,      *)
(* however many threads report results at the same time.                   *)
(***************************************************************************)
THEOREM ResultsComeFirst == Spec => []ResultComesFirst
<1>1. IInv /\ ResultInv => ResultComesFirst
  <2> SUFFICES ASSUME IInv, ResultInv, NEW a \in Agent
               PROVE  Occurs(statuses, <<a, "completed">>) <= Occurs(results, a)
    BY DEF ResultComesFirst
  <2>1. Counted(a)
    BY DEF ResultInv
  <2>2. Cardinality(Due(a)) \in Nat
    BY <2>1, FS_CardinalityType DEF Counted
  <2>3. Occurs(statuses, <<a, "completed">>) \in Nat /\ Occurs(results, a) \in Nat
    BY OccursCounts DEF IInv
  <2> QED BY <2>1, <2>2, <2>3 DEF Counted
<1> QED BY <1>1, InitIInv, NextKeeps, InitResultInv, ResultKeeps, PTL DEF Spec

-----------------------------------------------------------------------------
(***************************************************************************)
(* The tool server's process, for any number of lines.                     *)
(***************************************************************************)

\* The subscribers heard last of this agent what its status is.
HeardLast(a) ==
  \E i \in DOMAIN statuses :
    statuses[i] = <<a, agents[a]>> /\ \A j \in DOMAIN statuses : statuses[j][1] = a => j <= i

\* The loop's call announces last what it changed, and nothing else is unheard of.
Announces(a) == unsent[Main] # <<>> /\ unsent[Main][Len(unsent[Main])] = Announce(a, agents[a])
Announced ==
  /\ unsent[Main] \in Waiting
  /\ \A a \in Agent, s \in Status :
       unsent[Main] # <<>> /\ unsent[Main][Len(unsent[Main])] = Announce(a, s) => agents[a] = s
  /\ \A a \in Agent : agents[a] \notin {"none", "running"} => HeardLast(a) \/ Announces(a)

\* The answers are of lines in their order, up to the last; while that one is answered it
\* is not among them.
LinesInTurn ==
  /\ lines \in Nat /\ answers \in Seq(1..lines) /\ quiet \subseteq 1..lines
  /\ AnswersInTurn
  /\ loop \in {"call", "wait", "write"} =>
       lines > 0 /\ lines \notin quiet /\ \A i \in DOMAIN answers : answers[i] < lines

ServerInv == IInv /\ Announced /\ LinesInTurn

LEMMA InitServerInv == ProcInit => ServerInv
<1> SUFFICES ASSUME ProcInit PROVE ServerInv
  OBVIOUS
<1>1. IInv
  BY InitIInv DEF ProcInit
<1>2. Announced
  BY McpAssumption DEF ProcInit, Init, Announced, Waiting
<1>3. LinesInTurn
  BY DEF ProcInit, LinesInTurn, AnswersInTurn
<1> QED BY <1>1, <1>2, <1>3 DEF ServerInv

\* A status and its agent, in the forms the messages and the channel have.
LEMMA HeardStays ==
  ASSUME NEW a \in Agent, HeardLast(a), UNCHANGED statuses, agents'[a] = agents[a]
  PROVE  HeardLast(a)'
BY DEF HeardLast

\* The call begins with what it changes, and nothing waits to be announced but that.
LEMMA BeginAnnounces ==
  ASSUME IInv, Announced, Free(Main),
         NEW a \in Agent, NEW s \in Status, NEW sends \in Announcing \cup Reporting,
         sends[Len(sends)] = Announce(a, s),
         unsent' = [unsent EXCEPT ![Main] = sends],
         agents' = [agents EXCEPT ![a] = s], UNCHANGED statuses
  PROVE  Announced'
<1>1. unsent'[Main] = sends /\ sends # <<>> /\ sends \in Waiting
  <2>1. unsent'[Main] = sends
    BY McpAssumption DEF IInv, TypeOK
  <2>2. sends # <<>>
    BY DEF Announcing, Reporting
  <2> QED BY <2>1, <2>2 DEF Waiting
<1>2. \A b \in Agent : agents'[b] = IF b = a THEN s ELSE agents[b]
  BY DEF IInv, TypeOK
<1>3. ASSUME NEW b \in Agent, NEW r \in Status, sends[Len(sends)] = Announce(b, r)
      PROVE  agents'[b] = r
  <2>1. a = b /\ s = r
    BY <1>3 DEF Announce
  <2> QED BY <2>1, <1>2
<1>4. ASSUME NEW b \in Agent, agents'[b] \notin {"none", "running"}
      PROVE  HeardLast(b)' \/ Announces(b)'
  <2>1. CASE b = a
    BY <2>1, <1>1, <1>2 DEF Announces
  <2>2. CASE b # a
    <3>1. HeardLast(b)
      BY <2>2, <1>2, <1>4 DEF Announced, Announces, Free
    <3> QED BY <3>1, <2>2, <1>2, HeardStays
  <2> QED BY <2>1, <2>2
<1> QED BY <1>1, <1>3, <1>4 DEF Announced

LEMMA DeliverAnnounces ==
  ASSUME IInv, Announced, Deliver(Main)
  PROVE  Announced'
<1> DEFINE u == unsent[Main]
           m == Head(u)
<1>1. /\ u \in Seq(Send) /\ u # <<>> /\ u \in Waiting /\ m \in Send
      /\ unsent'[Main] = Tail(u) /\ UNCHANGED agents
  BY McpAssumption DEF Deliver, DeliverWithin, IInv, TypeOK, Announced
<1>2. statuses \in Seq(Agent \X Status)
  BY DEF IInv, TypeOK
<1>3. CASE u \in Announcing
  <2>1. PICK a \in Agent, s \in Text \cup {"completed"} : u = <<Announce(a, s)>>
    BY <1>3 DEF Announcing
  <2>2. m = Announce(a, s) /\ m.to = "status" /\ m.agent = a /\ m.status = s /\ Tail(u) = <<>>
    BY <2>1 DEF Announce
  <2>3. agents[a] = s /\ s \in Status
    BY <2>1, <1>1 DEF Announced, Status
  <2>4. statuses' = Append(statuses, <<a, s>>)
    BY <2>2 DEF Deliver, DeliverWithin
  <2>5. HeardLast(a)'
    <3>1. Len(statuses) + 1 \in DOMAIN statuses' /\ statuses'[Len(statuses) + 1] = <<a, agents'[a]>>
      BY <1>1, <1>2, <2>3, <2>4
    <3>2. \A j \in DOMAIN statuses' : j <= Len(statuses) + 1
      BY <1>2, <2>3, <2>4
    <3> QED BY <3>1, <3>2 DEF HeardLast
  <2>6. ASSUME NEW b \in Agent, b # a, agents'[b] \notin {"none", "running"}
        PROVE  HeardLast(b)'
    <3>1. ~Announces(b)
      BY <2>1, <2>6 DEF Announces, Announce
    <3>2. PICK i \in DOMAIN statuses :
            statuses[i] = <<b, agents[b]>> /\ \A j \in DOMAIN statuses : statuses[j][1] = b => j <= i
      BY <3>1, <2>6, <1>1 DEF Announced, HeardLast
    <3>3. i \in DOMAIN statuses' /\ statuses'[i] = <<b, agents'[b]>>
      BY <1>1, <1>2, <2>3, <2>4, <3>2
    <3>4. ASSUME NEW j \in DOMAIN statuses', statuses'[j][1] = b PROVE j <= i
      <4>1. CASE j \in DOMAIN statuses
        BY <4>1, <3>2, <3>4, <1>2, <2>3, <2>4
      <4>2. CASE j \notin DOMAIN statuses
        <5>1. statuses'[j] = <<a, s>>
          BY <4>2, <1>2, <2>3, <2>4
        <5> QED BY <5>1, <3>4, <2>6
      <4> QED BY <4>1, <4>2
    <3> QED BY <3>3, <3>4 DEF HeardLast
  <2> QED BY <1>1, <2>2, <2>5, <2>6 DEF Announced, Waiting
<1>4. CASE u \in Reporting
  <2>1. PICK a \in Agent : u = <<[to |-> "result", agent |-> a], Announce(a, "completed")>>
    BY <1>4 DEF Reporting
  <2>2. m.to = "result" /\ Tail(u) = <<Announce(a, "completed")>> /\ u[Len(u)] = Announce(a, "completed")
    BY <2>1
  <2>3. UNCHANGED statuses
    BY <2>2 DEF Deliver, DeliverWithin
  <2>4. Tail(u) # <<>> /\ Tail(u)[Len(Tail(u))] = u[Len(u)] /\ Tail(u) \in Waiting
    BY <2>2 DEF Waiting, Announcing
  <2>5. ASSUME NEW b \in Agent PROVE (HeardLast(b) => HeardLast(b)') /\ (Announces(b) => Announces(b)')
    BY <1>1, <2>3, <2>4 DEF HeardLast, Announces
  <2> QED BY <1>1, <2>4, <2>5 DEF Announced
<1>5. CASE u \in Asking
  <2>1. PICK a \in Agent : u = <<[to |-> "spawn", agent |-> a]>>
    BY <1>5 DEF Asking
  <2>2. m.to = "spawn" /\ Tail(u) = <<>>
    BY <2>1
  <2>3. UNCHANGED statuses
    BY <2>2 DEF Deliver, DeliverWithin
  <2>4. ASSUME NEW b \in Agent PROVE ~Announces(b)
    <3>1. u[Len(u)].to = "spawn" /\ Announce(b, agents[b]).to = "status"
      BY <2>1 DEF Announce
    <3> QED BY <3>1 DEF Announces
  <2>5. ASSUME NEW b \in Agent PROVE HeardLast(b) => HeardLast(b)'
    BY <1>1, <2>3 DEF HeardLast
  <2> QED BY <1>1, <2>2, <2>4, <2>5 DEF Announced, Waiting
<1> QED BY <1>1, <1>3, <1>4, <1>5 DEF Waiting

\* A broker whose one thread is the loop.
LEMMA CallAnnounces ==
  ASSUME IInv, Announced, Call(Main, Self)
  PROVE  Announced'
<1> USE McpAssumption
<1>1. CASE (\E to \in Agent : SendMessage(Main, Self, to)) \/ ReadMessages(Main, Self)
  <2>1. UNCHANGED <<unsent, agents, statuses>>
    BY <1>1 DEF SendMessage, ReadMessages, sentVars
  <2> QED BY <2>1 DEF Announced, HeardLast, Announces
<1>2. ASSUME NEW s \in Text, UpdateStatus(Main, Self, s) PROVE Announced'
  <2> DEFINE sends == <<Announce(Self, s)>>
  <2>1. sends \in Announcing /\ sends[Len(sends)] = Announce(Self, s) /\ s \in Status
    BY DEF Announcing, Status
  <2>2. /\ Free(Main) /\ unsent' = [unsent EXCEPT ![Main] = sends]
        /\ agents' = [agents EXCEPT ![Self] = s] /\ UNCHANGED statuses
    BY <1>2 DEF UpdateStatus, sentVars
  <2> HIDE DEF sends
  <2> QED BY <2>1, <2>2, BeginAnnounces
<1>3. CASE ReportResult(Main, Self)
  <2> DEFINE sends == <<[to |-> "result", agent |-> Self], Announce(Self, "completed")>>
  <2>1. /\ sends \in Reporting /\ sends[Len(sends)] = Announce(Self, "completed")
        /\ "completed" \in Status
    BY DEF Reporting, Status
  <2>2. /\ Free(Main) /\ unsent' = [unsent EXCEPT ![Main] = sends]
        /\ agents' = [agents EXCEPT ![Self] = "completed"] /\ UNCHANGED statuses
    BY <1>3 DEF ReportResult, sentVars
  <2> HIDE DEF sends
  <2> QED BY <2>1, <2>2, BeginAnnounces
<1>4. CASE SpawnAgent(Main, Self)
  <2> DEFINE sends == <<[to |-> "spawn", agent |-> Self]>>
  <2>1. sends \in Waiting /\ sends # <<>>
    BY DEF Waiting, Asking
  <2>2. \A a, s : sends[Len(sends)] # Announce(a, s)
    <3>1. sends[Len(sends)].to = "spawn"
      OBVIOUS
    <3>2. \A a, s : Announce(a, s).to = "status"
      BY DEF Announce
    <3> QED BY <3>1, <3>2
  <2>3. Free(Main) /\ unsent'[Main] = sends /\ UNCHANGED <<agents, statuses>>
    BY <1>4 DEF SpawnAgent, sentVars, IInv, TypeOK
  <2>4. ASSUME NEW b \in Agent, agents'[b] \notin {"none", "running"} PROVE HeardLast(b)'
    BY <2>3, <2>4 DEF Announced, Announces, Free, HeardLast
  <2> HIDE DEF sends
  <2> QED BY <2>1, <2>2, <2>3, <2>4 DEF Announced
<1> QED BY <1>1, <1>2, <1>3, <1>4 DEF Call

LEMMA RegisterAnnounces ==
  ASSUME IInv, Announced, RegisterAgent(Self, "coordinator", Tool)
  PROVE  Announced'
<1>1. /\ unsent[Main] = <<>> /\ UNCHANGED <<unsent, statuses>>
      /\ agents' = [agents EXCEPT ![Self] = "running"]
  BY McpAssumption DEF RegisterAgent, Free, sentVars
<1>2. ASSUME NEW b \in Agent, agents'[b] \notin {"none", "running"} PROVE HeardLast(b)'
  <2>1. agents'[b] = agents[b]
    BY <1>1, <1>2 DEF IInv, TypeOK
  <2>2. HeardLast(b)
    BY <1>1, <1>2, <2>1 DEF Announced, Announces
  <2> QED BY <1>1, <2>1, <2>2, HeardStays
<1> QED BY <1>1, <1>2 DEF Announced

\* The broker's part of a step of the process.
LEMMA BrokerSteps ==
  ASSUME IInv, Announced, ProcNext
  PROVE  IInv' /\ Announced'
<1> USE McpAssumption
<1>1. CASE Start
  <2>1. RegisterAgent(Self, "coordinator", Tool)
    BY <1>1 DEF Start
  <2>2. Next
    BY <2>1 DEF Next
  <2> QED BY <2>1, <2>2, NextKeeps, RegisterAnnounces
<1>2. CASE ToolCall /\ Call(Main, Self)
  <2>1. Next
    BY <1>2 DEF Next
  <2> QED BY <1>2, <2>1, NextKeeps, CallAnnounces
<1>3. CASE ToolSends
  <2>1. Deliver(Main)
    BY <1>3 DEF ToolSends
  <2>2. Next
    BY <2>1 DEF Next
  <2> QED BY <2>1, <2>2, NextKeeps, DeliverAnnounces
<1>4. CASE UNCHANGED vars
  <2>1. IInv'
    BY <1>4, NextKeeps
  <2>2. UNCHANGED <<unsent, agents, statuses>>
    BY <1>4 DEF vars
  <2> QED BY <2>1, <2>2 DEF Announced, HeardLast, Announces
<1> QED BY <1>1, <1>2, <1>3, <1>4 DEF ProcNext, ReadRequest, Serve, ToolCall, ToolAnswered,
                                     WriteResponse, WriteFails

LEMMA LinesStep ==
  ASSUME LinesInTurn, ProcNext
  PROVE  LinesInTurn'
<1>1. /\ lines \in Nat /\ answers \in Seq(1..lines) /\ quiet \subseteq 1..lines
      /\ \A i \in DOMAIN answers : answers[i] \in 1..lines
  BY DEF LinesInTurn
<1>2. ASSUME NEW kind \in LineKind \ {"none"}, ReadRequest(kind) PROVE LinesInTurn'
  <2>1. UNCHANGED answers /\ lines' = IF kind = "eof" THEN lines ELSE lines + 1
    BY <1>2 DEF ReadRequest
  <2>2. lines' \in Nat /\ lines <= lines' /\ quiet' \subseteq 1..lines'
    BY <1>1, <1>2 DEF ReadRequest
  <2>3. answers' \in Seq(1..lines')
    <3>1. 1..lines \subseteq 1..lines'
      BY <1>1, <2>2
    <3> DEFINE S == 1..lines
               T == 1..lines'
    <3>2. answers \in Seq(S) /\ S \subseteq T
      BY <1>1, <3>1
    <3> HIDE DEF S, T
    <3>3. answers \in Seq(T)
      BY <3>2
    <3> QED BY <2>1, <3>3 DEF T
  <2>4. AnswersInTurn'
    <3>1. quiet' = quiet \/ (lines' = lines + 1 /\ quiet' = quiet \cup {lines'})
      BY <1>2 DEF ReadRequest
    <3>2. \A i \in DOMAIN answers : answers[i] \notin quiet'
      BY <1>1, <3>1 DEF LinesInTurn, AnswersInTurn
    <3> QED BY <2>1, <3>2 DEF LinesInTurn, AnswersInTurn
  <2>5. ASSUME loop' \in {"call", "wait", "write"}
        PROVE  lines' > 0 /\ lines' \notin quiet' /\ \A i \in DOMAIN answers' : answers'[i] < lines'
    <3>1. kind \in {"call", "notification", "request"}
      BY <1>2, <2>5 DEF ReadRequest, AfterRead, LineKind
    <3>2. lines' = lines + 1 /\ quiet' = quiet
      BY <1>2, <2>1, <3>1 DEF ReadRequest
    <3> QED BY <1>1, <2>1, <3>2
  <2> QED BY <2>2, <2>3, <2>4, <2>5 DEF LinesInTurn
<1>3. CASE WriteResponse
  <2>1. answers' = Append(answers, lines) /\ UNCHANGED <<lines, quiet>> /\ loop' = "read"
    BY <1>3 DEF WriteResponse
  <2>2. lines > 0 /\ lines \notin quiet /\ \A i \in DOMAIN answers : answers[i] < lines
    BY <1>3 DEF WriteResponse, LinesInTurn
  <2>3. answers' \in Seq(1..lines')
    BY <1>1, <2>1, <2>2
  <2>4. AnswersInTurn'
    BY <1>1, <2>1, <2>2 DEF LinesInTurn, AnswersInTurn
  <2> QED BY <1>1, <2>1, <2>3, <2>4 DEF LinesInTurn
<1>4. CASE Start \/ ToolCall \/ ToolSends \/ ToolAnswered \/ WriteFails
  <2>1. UNCHANGED <<lines, quiet, answers>>
    BY <1>4 DEF Start, ToolCall, ToolSends, ToolAnswered, WriteFails, procVars
  <2>2. loop' \in {"call", "wait", "write"} => loop \in {"call", "wait", "write"}
    BY <1>4 DEF Start, ToolCall, ToolSends, ToolAnswered, WriteFails, procVars
  <2> QED BY <2>1, <2>2 DEF LinesInTurn, AnswersInTurn
<1> QED BY <1>2, <1>3, <1>4 DEF ProcNext, Serve

(***************************************************************************)
(* The tool server's loop answers each line once, in turn, and not the     *)
(* quiet ones, whatever writes fail; and between its calls the subscribers *)
(* have heard last what the agents' statuses are.                          *)
(***************************************************************************)
THEOREM ServerAnswersInTurn == ProcSpec => []ServerAgrees
<1>1. ServerInv => ServerAgrees
  <2> SUFFICES ASSUME ServerInv PROVE ServerAgrees
    OBVIOUS
  <2>1. ASSUME \A t \in Thread : Free(t), NEW a \in Agent, agents[a] \notin {"none", "running"}
        PROVE  agents[a] = LastStatus(a)
    <3> DEFINE of == {i \in DOMAIN statuses : statuses[i][1] = a}
    <3>1. HeardLast(a)
      BY <2>1, McpAssumption DEF ServerInv, Announced, Announces, Free
    <3>2. PICK i \in DOMAIN statuses :
            statuses[i] = <<a, agents[a]>> /\ \A j \in DOMAIN statuses : statuses[j][1] = a => j <= i
      BY <3>1 DEF HeardLast
    <3>3. i \in of /\ \A j \in of : j <= i
      BY <3>2
    <3>4. \A k \in of : (\A j \in of : j <= k) => k = i
      <4>1. of \subseteq Nat
        <5>1. statuses \in Seq(Agent \X Status)
          BY DEF ServerInv, IInv, TypeOK
        <5>2. DOMAIN statuses \subseteq Nat
          BY <5>1
        <5> QED BY <5>2
      <4> QED BY <4>1, <3>3
    <3> HIDE DEF of
    <3>5. (CHOOSE k \in of : \A j \in of : j <= k) = i
      BY <3>3, <3>4
    <3>6. LastStatus(a) = statuses[CHOOSE k \in of : \A j \in of : j <= k][2]
      BY DEF LastStatus, of
    <3>7. LastStatus(a) = statuses[i][2]
      BY <3>5, <3>6, Zenon
    <3> QED BY <3>2, <3>7
  <2> QED BY <2>1 DEF ServerInv, LinesInTurn, ServerAgrees, SubscribersAgree
<1>2. ServerInv /\ [ProcNext]_allVars => ServerInv'
  <2>1. CASE UNCHANGED allVars
    <3>1. UNCHANGED vars /\ UNCHANGED procVars
      BY <2>1 DEF allVars
    <3>2. IInv => IInv'
      BY <3>1, NextKeeps
    <3> QED BY <3>1, <3>2 DEF vars, procVars, ServerInv, Announced, HeardLast, Announces, LinesInTurn,
                              AnswersInTurn
  <2> QED BY <2>1, BrokerSteps, LinesStep DEF ServerInv
<1> QED BY <1>1, <1>2, InitServerInv, PTL DEF ProcSpec
=============================================================================
