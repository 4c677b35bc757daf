------------------------------ MODULE PartsMC ------------------------------
(***************************************************************************)
(* Parts of the program that share no state with each other, for TLC: the  *)
(* tool server's process, the backlog, the triggers, the notifiers, a      *)
(* terminal, a session's view and the dialogs.  A behaviour is one of one  *)
(* of these parts, chosen at the start; the others stay as they are        *)
(* initially.  So the states of this module are those of each part, side   *)
(* by side, and none are left out by running only one.                     *)
(***************************************************************************)
EXTENDS McpProcess, Backlog, Notifier, WorkflowView, Triggers, Terminal, Dialogs, TextsMC,
        SequencesExt

CONSTANTS self, peer, main, w1, m1, c1, c2, a, b

VARIABLE part

\* One workflow, with a manual trigger or with two schedules of which the second is bad.
OfferedLists == [w \in TriggerWorkflow |-> {<<m1>>, <<c1, c2>>}]
CallBounds   == [start |-> 2, stop |-> 1, register |-> 2]

Part == {"server", "backlog", "triggers", "notifiers", "terminal", "view", "dialogs"}

PartsInit ==
  /\ part \in Part
  /\ ProcInit /\ BacklogInit /\ TriggerInit /\ TerminalInit /\ ViewInit /\ DialogInit
  /\ NotifierInit /\ (part # "notifiers" => notifiers = <<"console">>)

PartsNext ==
  /\ UNCHANGED part
  /\ \/ /\ part = "server" /\ ProcNext
        /\ UNCHANGED <<backlogVars, trgVars, notifyVars,
                       terminalVars, viewVars, dialogVars>>
     \/ /\ part = "backlog" /\ BacklogNext
        /\ UNCHANGED <<allVars, trgVars, notifyVars,
                       terminalVars, viewVars, dialogVars>>
     \/ /\ part = "triggers" /\ TriggerNext
        /\ UNCHANGED <<allVars, backlogVars, notifyVars,
                       terminalVars, viewVars, dialogVars>>
     \/ /\ part = "notifiers" /\ NotifierNext
        /\ UNCHANGED <<allVars, backlogVars, trgVars,
                       terminalVars, viewVars, dialogVars>>
     \/ /\ part = "terminal" /\ TerminalNext
        /\ UNCHANGED <<allVars, backlogVars, trgVars, notifyVars,
                       viewVars, dialogVars>>
     \/ /\ part = "view" /\ ViewNext
        /\ UNCHANGED <<allVars, backlogVars, trgVars, notifyVars,
                       terminalVars, dialogVars>>
     \/ /\ part = "dialogs" /\ DialogNext
        /\ UNCHANGED <<allVars, backlogVars, trgVars, notifyVars,
                       terminalVars, viewVars>>

partsVars ==
  <<part, allVars, backlogVars, trgVars, notifyVars,
    terminalVars, viewVars, dialogVars>>

\* The fairness of the parts that have one, as they state it.
PartsFairness ==
  /\ WF_trgVars(part = "triggers" /\ TriggerSystem)
  /\ WF_terminalVars(part = "terminal" /\ TerminalSystem)
  /\ WF_viewVars(part = "view" /\ System)

PartsSpec == PartsInit /\ [][PartsNext]_partsVars /\ PartsFairness

-----------------------------------------------------------------------------
(***************************************************************************)
(* The pure parts, against what they are meant to do, for short inputs.    *)
(***************************************************************************)
\* Reading an escaped text, where a backslash gives the next character its plain meaning,
\* gives back the text and no character with a meaning, if the text has no backslash.
UnescapeMarkdown(text) ==
  SelectSeq(text, LAMBDA c : c # "\\")
PlainMarkdown(text) ==
  \A i \in DOMAIN text :
    text[i] \in Special => i > 1 /\ text[i - 1] = "\\"

ASSUME EscapedIsPlain ==
  \A text \in BoundedSeq({"x", "*"}, 3) :
    LET escaped == EscapeMarkdown(text)
    IN  PlainMarkdown(escaped) /\ UnescapeMarkdown(escaped) = text

\* A template whose values hold no placeholder is what its placeholders are replaced by,
\* at once and in whatever order the data is walked.
Fields == [workflow |-> <<"w">>, step |-> <<"s", "s">>, status |-> <<>>]
Data   == [k \in {"{data.a}", "{data.b}"} |-> IF k = "{data.a}" THEN <<"1">> ELSE <<"2", "3">>]
ValueOf(token, message) ==
  CASE token = "{workflow}" -> Fields.workflow
    [] token = "{step}"     -> Fields.step
    [] token = "{status}"   -> Fields.status
    [] token = "{message}" /\ message # "none" -> message
    [] token \in DOMAIN Data -> Data[token]
    [] OTHER -> <<token>>

ASSUME RenderedAtOnce ==
  \A template \in BoundedSeq({"x", "{workflow}", "{step}", "{status}", "{message}", "{data.a}",
                            "{data.b}"}, 3) :
    \A message \in {<<"m">>, <<>>}, order \in SetToSeqs(DOMAIN Data) :
      RenderTemplate(template, Fields, message, Data, order) =
        FlattenSeq([i \in DOMAIN template |-> ValueOf(template[i], message)])

\* A backend is built exactly when all it needs is there, the console always and first.
ASSUME BackendsAsConfigured ==
  \A env \in Env :
    LET built == BuildNotifiers(FromEnv(env))
    IN  /\ Head(built) = "console" /\ IsInjective(built)
        /\ "slack" \in ToSet(built) <=> env.webhook = "set"
        /\ "telegram" \in ToSet(built) <=> env.token = "set" /\ env.chat = "set"
        /\ BuildNotifiers(FromFile("no section")) = <<"console">>

\* The palette's text is a prompt, kept as it is, unless it is a mark with a number.
ASSUME InputParsed ==
  \A text \in {t \in BoundedSeq({"#", "!", "1", " "}, 3) :
                t # <<>> /\ Head(t) # " " /\ Last(t) # " "} :
    LET parsed == ParseInput(text)
    IN  IF Head(text) \in {"#", "!"} /\ "1" \in ToSet(text)
            /\ {"#", "!"} \cap ToSet(Tail(text)) = {} /\ text # <<Head(text), "1", " ", "1">>
        THEN parsed.of = SelectSeq(Tail(text), LAMBDA c : c # " ") /\ parsed.source # "Prompt"
        ELSE parsed = [source |-> "Prompt", of |-> text]

\* No filter hides nothing, and typing on never brings an item back, whatever the
\* picker; a pull request is found by all that an issue is found by.
Listed == [title : {<<"a">>, <<"a", "b">>}, number : {<<"1">>}, branch : {<<"b">>}, description : {<<>>}]
ASSUME FilterNarrows ==
  \A list \in BoundedSeq(Listed, 2), text \in BoundedSeq({"a", "b", "1"}, 2), more \in {"a", "b"} :
    /\ \A pair \in {<<FilterIssues(list, text), FilterIssues(list, text \o <<more>>)>>,
                     <<FilterPRs(list, text), FilterPRs(list, text \o <<more>>)>>,
                     <<FilterWorkflows(list, text), FilterWorkflows(list, text \o <<more>>)>>} :
         /\ ToSet(pair[2]) \subseteq ToSet(pair[1])
         /\ text = <<>> => pair[1] = list
    /\ ToSet(FilterIssues(list, text)) \subseteq ToSet(FilterPRs(list, text))

\* Auto-pick takes an urgent issue where there is one, and no urgent one stands before it.
ASSUME AutoPickUrgent ==
  \A issues \in BoundedSeq([urgent : BOOLEAN, number : {1, 2}], 3) \ {<<>>} :
    LET picked == AutoPickIssue(issues)
    IN  \E i \in DOMAIN issues :
          /\ picked = issues[i]
          /\ \A j \in 1..(i - 1) : ~issues[j].urgent
          /\ picked.urgent \/ (i = 1 /\ \A j \in DOMAIN issues : ~issues[j].urgent)

\* The newest attempt that was saved is shown, and nothing that was saved hides what is live.
Saved == [attempt : {1, 2}, status : {"Running", "Failed"}, output : {"none", "saved"}]
ASSUME SelectedIsNewest ==
  \A live \in [status : {"none", "Completed"}, output : {"none", "live"}] :
    \A saved \in {set \in SUBSET Saved : \A x, y \in set : x.attempt = y.attempt => x = y} :
      LET shownInfo == SelectedInfo(live, saved)
      IN  /\ live.status # "none" =>
               /\ shownInfo.status = live.status
               /\ live.output # "none" => shownInfo.output = live.output
          /\ live.status = "none" /\ saved # {} =>
               \E step \in saved :
                 /\ shownInfo.status = step.status /\ shownInfo.attempt = step.attempt
                 /\ \A other \in saved : other.attempt <= step.attempt
          /\ live.status = "none" /\ saved = {} => shownInfo.status = "Pending"
=============================================================================
