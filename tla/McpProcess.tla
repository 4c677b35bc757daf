----------------------------- MODULE McpProcess -----------------------------
(***************************************************************************)
(* The process fridi-mcp-server (crates/mcp/src/main.rs with StdioTransport *)
(* of transport.rs): one agent's tool server, with a broker of its own.    *)
(* Its main loop reads a line, answers it and reads the next one; what a   *)
(* tool call does is the broker's part, carried out by the loop itself.    *)
(* Nothing receives the spawn requests: main binds _spawn_rx only.         *)
(***************************************************************************)
EXTENDS Broker

CONSTANTS
  Self,     \* the agent whose server this is
  Main,     \* the main loop, the only thread
  MaxLines  \* bound: lines on stdin

ASSUME McpAssumption ==
  Self \in Agent /\ Thread = {Main} /\ ~SpawnReceived /\ MaxLines \in Nat

VARIABLES
  loop,     \* where the main loop is
  line,     \* what it read last
  lines,    \* lines read so far
  quiet,    \* the lines that call for no response
  answers   \* the lines answered on stdout, oldest first

procVars == <<loop, line, lines, quiet, answers>>

allVars == <<vars, procVars>>

\* What a line can be; "bad" is one that is not UTF-8 or not a request.
LineKind == {"none", "blank", "bad", "initialized", "notification", "request", "call", "eof"}

\* The agent registers as a coordinator, whatever its role in the workflow.
ProcInit ==
  /\ Init
  /\ loop = "start" /\ line = "none" /\ lines = 0
  /\ quiet = {} /\ answers = <<>>

Start ==
  /\ loop = "start"
  /\ RegisterAgent(Self, "coordinator", Tool)
  /\ loop' = "read"
  /\ UNCHANGED <<line, lines, quiet, answers>>

\* Slip: "initialized" is a request like any other that the loop does not know.
AfterReadAnswersAll(kind) ==
  CASE kind = "call"             -> "call"
    [] kind \in {"blank", "eof"} -> "stopped"
    [] kind = "bad"              -> "read"
    [] OTHER                     -> "write"

\* A blank line ends the loop like the end of stdin; a notification is only
\* recognised as such by its one known name.
AfterRead(kind) ==
  CASE kind = "call"                      -> "call"
    [] kind \in {"notification", "request"} -> "write"
    [] kind \in {"bad", "initialized"}    -> "read"
    [] kind \in {"blank", "eof"}          -> "stopped"

ReadRequest(kind) ==
  /\ loop = "read"
  /\ kind # "eof" => lines < MaxLines
  /\ lines' = IF kind = "eof" THEN lines ELSE lines + 1
  /\ line' = kind
  /\ quiet' = IF kind \in {"bad", "initialized", "blank"} THEN quiet \cup {lines'} ELSE quiet
  /\ loop' = AfterRead(kind)
  /\ UNCHANGED <<vars, answers>>

\* handle_tool_call; a call that has nothing to change is answered at once.
ToolCall ==
  /\ loop = "call"
  /\ loop' = "wait"
  /\ Call(Main, Self) \/ UNCHANGED vars
  /\ UNCHANGED <<line, lines, quiet, answers>>

ToolSends ==
  /\ loop = "wait"
  /\ Deliver(Main)
  /\ UNCHANGED procVars

ToolAnswered ==
  /\ loop = "wait" /\ Free(Main)
  /\ loop' = "write"
  /\ UNCHANGED <<vars, line, lines, quiet, answers>>

WriteResponse ==
  /\ loop = "write"
  /\ answers' = Append(answers, lines)
  /\ loop' = "read"
  /\ UNCHANGED <<vars, line, lines, quiet>>

\* The error is logged, and the answer is lost.
WriteFails ==
  /\ loop = "write"
  /\ loop' = "read"
  /\ UNCHANGED <<vars, line, lines, quiet, answers>>

Serve == ToolCall \/ ToolSends \/ ToolAnswered \/ WriteResponse \/ WriteFails

ProcNext ==
  \/ Start
  \/ \E kind \in LineKind \ {"none"} : ReadRequest(kind)
  \/ Serve

ProcSpec == ProcInit /\ [][ProcNext]_allVars

-----------------------------------------------------------------------------

\* The answers come in the order of their lines, at most one for each, and none for
\* "initialized" or for a line that is no request, although the loop goes on to other
\* lines after them, and after failed writes.
AnswersInTurn ==
  /\ \A i, j \in DOMAIN answers : i < j => answers[i] < answers[j]
  /\ \A i \in DOMAIN answers : answers[i] \notin quiet

(***************************************************************************)
(* The tool server's loop answers each request once, in turn and after     *)
(* what it does, through failed writes and lines it must not answer; and   *)
(* called from this one thread, the broker tells its subscribers last what *)
(* an agent's status is.                                                   *)
(***************************************************************************)
ServerAgrees == AnswersInTurn /\ SubscribersAgree

=============================================================================
