------------------------------- MODULE Broker -------------------------------
(***************************************************************************)
(* The message broker of the agents and the tool server in front of it:    *)
(* MessageBroker (crates/mcp/src/broker.rs) and McpServer (server.rs),     *)
(* called from several threads at once.                                    *)
(*                                                                         *)
(* Every method of the broker takes the lock for one look at its maps, and *)
(* what it sends to a channel, it sends after it has let go of the lock.   *)
(* So a call is one step that reads or changes the maps, followed by one   *)
(* step for each message it has still to send.                             *)
(***************************************************************************)
EXTENDS Naturals, Sequences, FiniteSets

CONSTANTS
  Agent,          \* the agents' ids
  Thread,         \* what calls the broker concurrently
  Text,           \* the status texts an agent can set, besides the broker's own
  SpawnCapacity,  \* of the channel of spawn requests (64)
  SpawnReceived,  \* does anything receive from that channel?
  MaxMessages,    \* bound: messages accepted
  MaxUpdates      \* bound: messages sent to the channels

ASSUME BrokerAssumption ==
  /\ {"running", "completed"} \cap Text = {}
  /\ SpawnCapacity \in Nat \ {0}
  /\ SpawnReceived \in BOOLEAN
  /\ MaxMessages \in Nat /\ MaxUpdates \in Nat

VARIABLES
  mailboxes,  \* the messages waiting for an agent
  agents,     \* AgentInfo::status, "none" for an agent that is not registered
  allowed,    \* McpServer::allowed_tools
  roles,      \* AgentInfo::role
  unsent,     \* what a thread's call has still to send, oldest first
  accepted,   \* for every agent the messages send_message said true to
  taken,      \* for every agent the messages read_messages returned
  statuses,   \* the StatusUpdates on status_tx, oldest first
  results,    \* the agents with an AgentResult on result_tx, oldest first
  spawns      \* the channel of spawn requests, by who asked

vars == <<mailboxes, agents, allowed, roles, unsent, accepted, taken, statuses,
          results, spawns>>

mailVars == <<mailboxes, accepted, taken>>
sentVars == <<statuses, results, spawns>>

Tool == {"send_message", "read_messages", "update_status", "report_result",
         "spawn_agent", "list_agents"}
CoordinatorTools == {"spawn_agent", "list_agents"}
Role   == {"none", "coordinator", "other"}
Status == Text \cup {"running", "completed"}
Send   == [to : {"status"}, agent : Agent, status : Status]
          \cup [to : {"result", "spawn"}, agent : Agent]

Registered == {a \in Agent : agents[a] # "none"}

Announce(a, s) == [to |-> "status", agent |-> a, status |-> s]

\* A thread may call: it is in no other call.
Free(t) == unsent[t] = <<>>

Permits(a, tool) == a \in Registered /\ tool \in allowed[a]

\* Bound: no more calls that send anything.
MaySend ==
  Len(statuses) + Len(results) + Cardinality({t \in Thread : ~Free(t)}) < MaxUpdates

Init ==
  /\ mailboxes = [a \in Agent |-> <<>>]
  /\ agents = [a \in Agent |-> "none"]
  /\ allowed = [a \in Agent |-> {}]
  /\ roles = [a \in Agent |-> "none"]
  /\ unsent = [t \in Thread |-> <<>>]
  /\ accepted = [a \in Agent |-> <<>>]
  /\ taken = [a \in Agent |-> <<>>]
  /\ statuses = <<>> /\ results = <<>> /\ spawns = <<>>

\* Slips: the coordinator's tools stay; a mailbox is made anew.
RegisterKeepsTools(a, role, tools) ==
  /\ \A t \in Thread : Free(t)
  /\ allowed' = [allowed EXCEPT ![a] = tools]
  /\ roles' = [roles EXCEPT ![a] = role]
  /\ agents' = [agents EXCEPT ![a] = "running"]
  /\ UNCHANGED <<unsent, mailVars, sentVars>>
RegisterEmptiesMailbox(a, role, tools) ==
  /\ \A t \in Thread : Free(t)
  /\ allowed' = [allowed EXCEPT ![a] = tools \ CoordinatorTools]
  /\ roles' = [roles EXCEPT ![a] = role]
  /\ agents' = [agents EXCEPT ![a] = "running"]
  /\ mailboxes' = [mailboxes EXCEPT ![a] = <<>>]
  /\ UNCHANGED <<unsent, accepted, taken, sentVars>>

(***************************************************************************)
(* McpServer::register_agent borrows the server exclusively: no tool call  *)
(* is under way.  Registering again keeps the mailbox.                     *)
(***************************************************************************)
RegisterAgent(a, role, tools) ==
  /\ \A t \in Thread : Free(t)
  /\ allowed' = [allowed EXCEPT ![a] =
                   IF role = "coordinator" THEN tools \cup CoordinatorTools
                                           ELSE tools \ CoordinatorTools]
  /\ roles' = [roles EXCEPT ![a] = role]
  /\ agents' = [agents EXCEPT ![a] = "running"]
  /\ UNCHANGED <<unsent, mailVars, sentVars>>

\* Bound: messages accepted, for whichever agent.
Messages == UNION {{a} \X DOMAIN accepted[a] : a \in Agent}

\* The recipient is any name; nothing happens if it is not registered.
SendMessage(t, a, to) ==
  /\ Free(t) /\ Permits(a, "send_message")
  /\ to \in Registered /\ Cardinality(Messages) < MaxMessages
  /\ LET m == <<a, Len(accepted[to]) + 1>> IN
       /\ mailboxes' = [mailboxes EXCEPT ![to] = Append(@, m)]
       /\ accepted' = [accepted EXCEPT ![to] = Append(@, m)]
  /\ UNCHANGED <<agents, allowed, roles, unsent, taken, sentVars>>

ReadMessages(t, a) ==
  /\ Free(t) /\ Permits(a, "read_messages")
  /\ mailboxes[a] # <<>>
  /\ taken' = [taken EXCEPT ![a] = @ \o mailboxes[a]]
  /\ mailboxes' = [mailboxes EXCEPT ![a] = <<>>]
  /\ UNCHANGED <<agents, allowed, roles, unsent, accepted, sentVars>>

UpdateStatus(t, a, s) ==
  /\ Free(t) /\ Permits(a, "update_status") /\ MaySend
  /\ agents' = [agents EXCEPT ![a] = s]
  /\ unsent' = [unsent EXCEPT ![t] = <<Announce(a, s)>>]
  /\ UNCHANGED <<allowed, roles, mailVars, sentVars>>

\* Slip: the status is announced before the result.
ReportResultLast(t, a) ==
  /\ Free(t) /\ Permits(a, "report_result") /\ MaySend
  /\ agents' = [agents EXCEPT ![a] = "completed"]
  /\ unsent' = [unsent EXCEPT ![t] =
                  <<Announce(a, "completed"), [to |-> "result", agent |-> a]>>]
  /\ UNCHANGED <<allowed, roles, mailVars, sentVars>>

ReportResult(t, a) ==
  /\ Free(t) /\ Permits(a, "report_result") /\ MaySend
  /\ agents' = [agents EXCEPT ![a] = "completed"]
  /\ unsent' = [unsent EXCEPT ![t] =
                  <<[to |-> "result", agent |-> a], Announce(a, "completed")>>]
  /\ UNCHANGED <<allowed, roles, mailVars, sentVars>>

SpawnAgent(t, a) ==
  /\ Free(t) /\ Permits(a, "spawn_agent")
  /\ unsent' = [unsent EXCEPT ![t] = <<[to |-> "spawn", agent |-> a]>>]
  /\ UNCHANGED <<agents, allowed, roles, mailVars, sentVars>>

\* A broadcast never waits; the channel of spawn requests is waited for.
DeliverWithin(t, capacity) ==
  LET m == Head(unsent[t]) IN
  /\ unsent[t] # <<>>
  /\ unsent' = [unsent EXCEPT ![t] = Tail(@)]
  /\ \/ m.to = "status" /\ statuses' = Append(statuses, <<m.agent, m.status>>)
        /\ UNCHANGED <<results, spawns>>
     \/ m.to = "result" /\ results' = Append(results, m.agent)
        /\ UNCHANGED <<statuses, spawns>>
     \/ m.to = "spawn" /\ Len(spawns) < capacity
        /\ spawns' = Append(spawns, m.agent) /\ UNCHANGED <<statuses, results>>
  /\ UNCHANGED <<agents, allowed, roles, mailVars>>

\* Slip: a spawn request that was sent is sent again.
DeliverAgain(t) ==
  \/ /\ unsent[t] # <<>> /\ Head(unsent[t]).to = "spawn"
     /\ Len(spawns) < SpawnCapacity
     /\ spawns' = Append(spawns, Head(unsent[t]).agent)
     /\ UNCHANGED <<mailVars, agents, allowed, roles, unsent, statuses, results>>
  \/ unsent[t] # <<>> /\ Head(unsent[t]).to # "spawn" /\ DeliverWithin(t, SpawnCapacity)

Deliver(t) == DeliverWithin(t, SpawnCapacity)

\* The other end of the channel of spawn requests, where there is one.
ReceiveSpawn ==
  /\ SpawnReceived /\ spawns # <<>>
  /\ spawns' = Tail(spawns)
  /\ UNCHANGED <<mailVars, agents, allowed, roles, unsent, statuses, results>>

Call(t, a) ==
  \/ \E to \in Agent : SendMessage(t, a, to)
  \/ ReadMessages(t, a)
  \/ \E s \in Text : UpdateStatus(t, a, s)
  \/ ReportResult(t, a)
  \/ SpawnAgent(t, a)

Next ==
  \/ \E a \in Agent, r \in {"coordinator", "other"} : RegisterAgent(a, r, Tool)
  \/ \E t \in Thread, a \in Agent : Call(t, a)
  \/ \E t \in Thread : Deliver(t)
  \/ ReceiveSpawn

Spec == Init /\ [][Next]_vars

(***************************************************************************)
(* A call goes on once it has begun, and what receives the spawn requests  *)
(* keeps receiving; a thread whose call waits at the full channel gets its *)
(* turn, because the channel serves its senders first come, first served.  *)
(***************************************************************************)
FairSpec ==
  /\ Spec
  /\ \A t \in Thread : SF_vars(Deliver(t))
  /\ WF_vars(ReceiveSpawn)

-----------------------------------------------------------------------------
Mail == Agent \X (Nat \ {0})

\* The types of the variables; the channel of spawn requests holds no more than its
\* capacity, however many calls wait for room in it.
TypeOK ==
  /\ mailboxes \in [Agent -> Seq(Mail)]
  /\ agents \in [Agent -> Status \cup {"none"}]
  /\ allowed \in [Agent -> SUBSET Tool]
  /\ roles \in [Agent -> Role]
  /\ unsent \in [Thread -> Seq(Send)]
  /\ accepted \in [Agent -> Seq(Mail)] /\ taken \in [Agent -> Seq(Mail)]
  /\ statuses \in Seq(Agent \X Status)
  /\ results \in Seq(Agent)
  /\ spawns \in Seq(Agent) /\ Len(spawns) <= SpawnCapacity

\* Every message that send_message accepted is handed out exactly once and in the order
\* of acceptance, whoever sends, reads or registers again in between (the mailboxes of
\* MessageBroker).
ExactlyOnceInOrder == \A a \in Agent : taken[a] \o mailboxes[a] = accepted[a]

(***************************************************************************)
(* Every message that was accepted is handed out once and in order,        *)
(* whatever two threads do at the same time, and the channel of spawn      *)
(* requests keeps to its capacity.                                         *)
(***************************************************************************)
MailKept == TypeOK /\ ExactlyOnceInOrder

(***************************************************************************)
(* A spawn request enters the channel only while its agent is registered   *)
(* as a coordinator, however long the call waited for room after           *)
(* handle_tool_call checked the permission.                                *)
(***************************************************************************)
SpawnsAreCoordinators ==
  [][Len(spawns') > Len(spawns) => roles[spawns'[Len(spawns')]] = "coordinator"]_vars

Occurs(q, x) == Cardinality({i \in DOMAIN q : q[i] = x})

(***************************************************************************)
(* Nobody hears that an agent has completed before its result is out, as   *)
(* long as agents leave that word to report_result (Text): it sends the    *)
(* result first.                                                           *)
(***************************************************************************)
ResultComesFirst ==
  \A a \in Agent : Occurs(statuses, <<a, "completed">>) <= Occurs(results, a)

LastStatus(a) ==
  LET of == {i \in DOMAIN statuses : statuses[i][1] = a} IN
  statuses[CHOOSE i \in of : \A j \in of : j <= i][2]

(***************************************************************************)
(* Called from one thread, when no call is under way, what the subscribers *)
(* heard last of an agent is the status it has, if it has not been         *)
(* registered anew.  Two threads break it: the announcement is made after  *)
(* the lock is released, so the later change can be announced first.       *)
(***************************************************************************)
SubscribersAgree ==
  (\A t \in Thread : Free(t)) =>
    \A a \in Agent : agents[a] \notin {"none", "running"} => agents[a] = LastStatus(a)

(***************************************************************************)
(* While the spawn requests are received, as the comment on                *)
(* MessageBroker::new asks, every call returns, also one that found the    *)
(* channel full.                                                           *)
(***************************************************************************)
CallsReturn == \A t \in Thread : ~Free(t) ~> Free(t)
=============================================================================
