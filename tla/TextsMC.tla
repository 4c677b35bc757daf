------------------------------ MODULE TextsMC ------------------------------
(***************************************************************************)
(* The program's pure functions, for short inputs, against what they are   *)
(* meant to compute, stated another way.  TLC evaluates these assumptions  *)
(* before it runs the parts (PartsMC extends this module).                 *)
(***************************************************************************)
EXTENDS Integers, Sequences, FiniteSets, SequencesExt

LOCAL DashboardTexts == INSTANCE Overview
LOCAL Files          == INSTANCE Directories
LOCAL Lines          == INSTANCE BacklogText

-----------------------------------------------------------------------------
CheckRun == [status : {"queued", "completed"}, conclusion : {"", "success", "failure", "cancelled"}]

\* A pull request has failed when one of its checks has; it passes only when none runs.
ASSUME CiStatusOfAll ==
  \A checks \in BoundedSeq(CheckRun, 2) :
    LET all    == ToSet(checks)
        status == DashboardTexts!FromChecks(checks)
    IN  /\ status = "none" <=> checks = <<>>
        /\ status = "failed" <=> \E c \in all : c.conclusion = "failure"
        /\ status = "passed" => \A c \in all : c.status = "completed"
        /\ (\E c \in all : c.conclusion = "failure") => \E c \in all : DashboardTexts!CheckIcon(c) = "x"

\* ... but a check that was cancelled is marked as failed in a pull request that passes.
ASSUME CancelledPasses ==
  LET cancelled == [status |-> "completed", conclusion |-> "cancelled"]
  IN  DashboardTexts!FromChecks(<<cancelled>>) = "passed" /\ DashboardTexts!CheckIcon(cancelled) = "x"

\* All forms of a remote's url name the same repository, with or without ".git"; a url
\* with a scheme never names anything but an owner and a repository.
Suffix == {<<>>, <<".git">>, <<".git", ".git">>}
ASSUME OneRepository ==
  \A suffix \in Suffix, scheme \in {"ssh", "http", "https"} :
    LET path == <<"owner", "/", "repo">>
    IN  /\ DashboardTexts!ParseRepoFromUrl(
             [scheme |-> scheme, parts |-> << <<"host">>, <<"owner">>, <<"repo">> \o suffix >>]) = path
        /\ DashboardTexts!ParseRepoFromUrl(
             [scheme |-> "none", text |-> <<"git", "@", "host", ":">> \o path \o suffix]) = path
ASSUME SchemeNamesTwo ==
  \A parts \in UNION {[1..k -> {<<>>, <<"a">>, <<".git">>}] : k \in 1..4} :
    LET repo == DashboardTexts!ParseRepoFromUrl([scheme |-> "https", parts |-> parts])
    IN  repo # DashboardTexts!Nothing => Len(repo) = 3 /\ repo[2] = "/" /\ Len(parts) >= 3
ASSUME PathHasColon ==
  \A text \in BoundedSeq({"@", ":", "/", "a"}, 5) :
    LET repo == DashboardTexts!ParseRepoFromUrl([scheme |-> "none", text |-> text])
    IN  repo # DashboardTexts!Nothing =>
          ":" \notin ToSet(repo) /\ "/" \in ToSet(repo) /\ IsSuffix(<<":">> \o repo, text)

\* A branch is in the list of its age, unless it is the main one; git's order is kept.
Branch == [parts : {2, 3}, name : {"main", "b"}, day : {1, 6, 7}, dated : BOOLEAN]
ASSUME BranchesByAge ==
  \A lines \in BoundedSeq(Branch, 2) :
    LET lists == DashboardTexts!FetchBranches(lines, 20)
        kept  == {i \in DOMAIN lines : lines[i].parts = 3 /\ lines[i].name = "b"}
    IN  /\ Len(lists.active) + Len(lists.stale) = Cardinality(kept)
        /\ \A i \in kept :
             IF lines[i].dated /\ lines[i].day <= 6 THEN lines[i] \in ToSet(lists.stale)
             ELSE lines[i] \in ToSet(lists.active)
        /\ \A list \in {lists.active, lists.stale} :
             \E at \in [DOMAIN list -> DOMAIN lines] :
               /\ \A i \in DOMAIN list : list[i] = lines[at[i]]
               /\ \A i, j \in DOMAIN list : i < j => at[i] < at[j]

\* A tick changes its own box, both ways; the count beside the title follows it, and is
\* that of the boxes that can be ticked if none stands inside a line.
Line == {<<"[x]", "space", "t">>, <<"indent", "[ ]", "space">>, <<"[ ]">>, <<"t", "[x]", "space">>}
ASSUME TicksCount ==
  \A body \in BoundedSeq(Line, 3) :
    LET boxes    == DashboardTexts!ParseCheckboxes(body)
        progress == DashboardTexts!ParseTaskProgress(body)
        ticked   == {i \in DOMAIN boxes : boxes[i]}
    IN  /\ \A i \in DOMAIN body :
             LET toggled == DashboardTexts!ToggleCheckboxInBody(body, i)
                 after   == DashboardTexts!ParseCheckboxes(toggled)
             IN  /\ DashboardTexts!ToggleCheckboxInBody(toggled, i) = body
                 /\ DOMAIN after = DOMAIN boxes
                 /\ \A j \in DOMAIN boxes : after[j] = (boxes[j] # (i = j))
        /\ ToSet(body) \subseteq {<<"[x]", "space", "t">>, <<"indent", "[ ]", "space">>} =>
             progress = IF body = <<>> THEN DashboardTexts!Nothing
                        ELSE <<Cardinality(ticked), Cardinality(DOMAIN boxes)>>

\* The dot, its label and its detail tell the same; a time is not before one that is older.
ASSUME SyncAgrees ==
  \A refreshing, failed \in BOOLEAN, seconds \in {0, 120, 121, 180} :
    LET dot    == DashboardTexts!DotState(refreshing, failed, seconds)
        detail == DashboardTexts!SyncDetail(refreshing, failed, seconds)
    IN  /\ DashboardTexts!SyncLabel(refreshing, failed, seconds) =
             CASE dot = "warning" -> "Syncing" [] dot = "error" -> "Stale" [] dot = "success" -> "Synced"
        /\ (dot = "error") = (detail[1] \in {"failed", "stale"})
        /\ detail[1] = "stale" => detail[2] >= 2
UnitSeconds == [now |-> 0, m |-> 60, h |-> 3600, d |-> 86400]
ASSUME TimeIsPast ==
  \A seconds \in {-1, 0, 59, 60, 119, 120, 3599, 3600, 86399, 86400, 200000} :
    LET time == DashboardTexts!RelativeTime(seconds)
        at   == time[2] * UnitSeconds[time[1]]
    IN  /\ seconds >= 60 => at <= seconds /\ seconds - at < UnitSeconds[time[1]]
        /\ seconds \in 0..59 => time = <<"m", 1>>

-----------------------------------------------------------------------------
DirEntry == [extension : {"yaml", "yml", "md"}, good : BOOLEAN, content : [name : {1, 2}, id : {1}]]
YamlOf(entries) == {i \in DOMAIN entries : entries[i].extension # "md"}

\* One bad file leaves no agents at all, but only itself out of the workflows; either list
\* is by name, whatever the order of the directory.
ASSUME DirectoriesRead ==
  \A entries \in BoundedSeq(DirEntry, 3) :
    LET agents    == Files!AgentsOrNone(entries)
        workflows == Files!ScanWorkflowDir(entries)
        good      == {i \in YamlOf(entries) : entries[i].good}
    IN  /\ Len(agents) = IF good = YamlOf(entries) THEN Cardinality(good) ELSE 0
        /\ Len(workflows) = Cardinality(good)
        /\ \A list \in {agents, workflows} :
             \A i, j \in DOMAIN list : i < j => list[i].name <= list[j].name
        /\ ToSet(workflows) = {entries[i].content : i \in good}

Def == [name : {0, 1, 2}, description : {"", "d"}, prompt : {<<>>, <<"repo">>}, roles : SUBSET {1}]

\* Definitions are valid when nothing is empty or named twice and every role is there; the
\* fault that is told is one of the definition it is told of, and of none before.
ASSUME DefinitionsValid ==
  \A defs \in BoundedSeq(Def, 2) :
    LET result == Files!ValidateDefinitions(defs)
        valid  == /\ \A d \in ToSet(defs) :
                       d.name # 0 /\ d.description # "" /\ d.prompt # <<>> /\ d.roles \subseteq Files!Names(defs)
                  /\ Cardinality(Files!Names(defs)) = Len(defs)
    IN  /\ (result.fault = "none") = valid
        /\ ~valid => result.at \in DOMAIN defs
        /\ result.fault # "role" =>
             \A i \in 1..(result.at - 1) : Files!Fault(SubSeq(defs, 1, i), i) = "none"

\* An agent starts with its prompt filled in, and knows the others as they are defined.
Context == [repo |-> <<"r">>, session_id |-> <<"s">>, session_dir |-> <<>>, mcp_socket |-> <<"m", "n">>]
ASSUME PromptsFilledIn ==
  \A prompt \in BoundedSeq({"repo", "session_id", "session_dir", "mcp_socket", "t"}, 3) :
    LET mine  == [name |-> 1, description |-> "d", prompt |-> prompt, roles |-> {}]
        other == [name |-> 2, description |-> "d", prompt |-> prompt, roles |-> {}]
        args  == Files!ToCliArgs(mine, <<mine, other>>, Context)
    IN  /\ args.agents[1].prompt =
             FlattenSeq([i \in DOMAIN prompt |->
               IF prompt[i] = "t" THEN <<"t">> ELSE Context[prompt[i]]])
        /\ args.agents[2].prompt = prompt

\* A text is filled in after as many steps as it has variables when their values have
\* none; a variable whose value names it is filled in for ever, with no end to the loop.
VarEnv    == (<<"A">> :> <<"v">>) @@ (<<"B">> :> <<"}", "v">>)
Cyclic == <<"A">> :> <<"${", "A", "}">>
VarText == {<<"${", "A", "}">>, <<"${", "B", "}">>, <<"${", "unset", "}">>, <<"t">>, <<"}">>}
ValueOfVar(part) ==
  CASE part = <<"${", "A", "}">> -> <<"v">> [] part = <<"${", "B", "}">> -> <<"}", "v">>
    [] part = <<"${", "unset", "}">> -> <<>> [] Len(part) = 1 -> part
ASSUME VariablesFilledIn ==
  \A parts \in BoundedSeq(VarText, 3) :
    Files!InterpolateEnv(FlattenSeq(parts), VarEnv, 3) =
      FlattenSeq([i \in DOMAIN parts |-> ValueOfVar(parts[i])])
ASSUME SelfReferenceEndless ==
  LET text == <<"t", "${", "A", "}">>
  IN  Files!InterpolateOnce(text, Cyclic) = text /\ "${" \in ToSet(text)
ASSUME RepositoryComesFirst ==
  LET text == <<"t", "${", "FRIDI_REPO", "}", "${", "A", "}">>
      env  == VarEnv @@ (<<"FRIDI_REPO">> :> <<"env">>)
  IN  /\ Files!InterpolateWithRepo(text, <<"r">>, env, 2) = <<"t", "r", "v">>
      /\ Files!InterpolateWithRepo(text, <<>>, env, 2) = <<"t", "env", "v">>

\* Spawning twice under a role adds its default definition once; a bad name adds none.
RoleName == [name : {0, 1, 2}, chars : {"good", "bad"}, length : {1, 129}]
ASSUME RolesAddedOnce ==
  \A role \in RoleName :
    LET configs == << [name |-> 1, default |-> FALSE] >>
        first   == Files!SpawnRole(configs, role)
    IN  IF first.ok THEN Files!SpawnRole(first.list, role) = first /\ IsPrefix(configs, first.list)
        ELSE role.name # 1 /\ (role.name = 0 \/ role.chars = "bad" \/ role.length = 129)

-----------------------------------------------------------------------------
\* What the program writes it reads back as it was, whatever was typed, if only the name of
\* the workflow beside it is left without a mark of a comment when it is sanitized.
Typed    == {t \in BoundedSeq({"a", "!", "#", " ", "<!", "--", ">"}, 3) :
               t # <<>> /\ Head(t) # " " /\ Last(t) # " "}
Workflow == {Lines!NoContext} \cup BoundedSeq({"w", " ", "<!", "--", ">"}, 3)
Plain(context) ==
  Lines!Places(context, Lines!Open) = {} /\ Lines!Places(context, Lines!Close) = {}
ASSUME BacklogRoundTrip ==
  \A text \in Typed, workflow \in Workflow :
    LET item == Lines!NewItem(text, workflow)
        line == Lines!ToLine(item)
    IN  Plain(item.context) =>
          /\ Lines!ParseItems(<< <<"# Backlog">>, <<>>, line >>) = <<item>>
          /\ ~Lines!PanicsOn(line)
          /\ Lines!ParseLine(Lines!ToLine([item EXCEPT !.completed = TRUE])).completed

\* The command line takes a text as it is: a space before its marks hides them until the
\* file is loaded again.
ASSUME SpaceHidesMarks ==
  LET item == Lines!NewItem(<<" ", "!", "a">>, Lines!NoContext)
  IN  item.marks = 0 /\ Lines!ParseLine(Lines!ToLine(item)).marks = 1

\* Taking the marks out once can leave one, and then the item is not read back.
ASSUME SanitizedOnce ==
  LET item == Lines!NewItem(<<"a">>, <<"<!", "<!", "--", "--">>)
  IN  ~Plain(item.context) /\ Lines!ParseLine(Lines!ToLine(item)) # item

\* A line no save writes, with a comment closed by the end of its own mark, ends the load.
ASSUME CutOffPanics ==
  Lines!PanicsOn(<<"- [ ] ", "a", " ", "<!", "--", ">">>)

\* Tags are the words of tag characters behind a # at the start or after a space.
ASSUME TagsFound ==
  \A text \in BoundedSeq({"#", "a", " ", "!"}, 5) :
    LET IsTag(i, n) == /\ text[i] = "#" /\ i < n
                       /\ i = 1 \/ text[i - 1] = " "
                       /\ \A j \in (i + 1)..n : text[j] = "a"
                       /\ n = Len(text) \/ text[n + 1] # "a"
    IN  ToSet(Lines!ExtractTags(text)) =
          {SubSeq(text, p[1] + 1, p[2]) : p \in {q \in (DOMAIN text) \X (DOMAIN text) : IsTag(q[1], q[2])}}
=============================================================================
