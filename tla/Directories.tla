---------------------------- MODULE Directories ----------------------------
(***************************************************************************)
(* What the program reads from directories of YAML files: the definitions  *)
(* of agents (agent/src/definition.rs), the roles that the orchestrator    *)
(* knows (core/src/orchestrator.rs) and the workflows that the session     *)
(* creator offers (ui/src/components/session_creator.rs); and the prompts  *)
(* and arguments that are made of a definition.                            *)
(*                                                                         *)
(* A directory is a sequence of entries in the order in which it is read,  *)
(* which is any.  Names are numbers, which the sort compares; 0 is the     *)
(* empty name.  A text is a sequence of pieces: placeholders and others.   *)
(***************************************************************************)
EXTENDS Naturals, Sequences, SequencesExt

Failed     == [ok |-> FALSE, list |-> <<>>]
Read(list) == [ok |-> TRUE, list |-> list]

\* sort_by: those with one name stay in the order in which they were read.
SortByName(list) ==
  LET order == SetToSortSeq(DOMAIN list,
                 LAMBDA i, j : list[i].name < list[j].name
                                 \/ (list[i].name = list[j].name /\ i < j))
  IN  [n \in DOMAIN list |-> list[order[n]]]

IsYaml(entry)   == entry.extension \in {"yaml", "yml"}
Contents(files) == SortByName([i \in DOMAIN files |-> files[i].content])

\* One file that cannot be read or parsed fails the whole directory: agents, and roles.
LoadAll(entries) ==
  LET files == SelectSeq(entries, IsYaml)
  IN  IF \A i \in DOMAIN files : files[i].good THEN Read(Contents(files)) ELSE Failed

LoadAgentDefinitions(entries) == LoadAll(entries)
LoadRoleConfigs(entries)      == LoadAll(entries)

\* The command line and the user interface go on without agents then.
AgentsOrNone(entries) == LoadAgentDefinitions(entries).list

\* A workflow that cannot be loaded is left out.
ScanWorkflowDir(entries) ==
  Contents(SelectSeq(entries, LAMBDA entry : IsYaml(entry) /\ entry.good))

-----------------------------------------------------------------------------
\* validate_definitions: the first definition that is at fault, and how.
Fault(defs, i) ==
  CASE defs[i].name = 0 -> "name"
    [] defs[i].name # 0 /\ defs[i].description = "" -> "description"
    [] defs[i].name # 0 /\ defs[i].description # "" /\ defs[i].prompt = <<>> -> "prompt"
    [] OTHER -> IF \E j \in 1..(i - 1) : defs[j].name = defs[i].name THEN "duplicate" ELSE "none"

Names(defs) == {defs[i].name : i \in DOMAIN defs}

ValidateDefinitions(defs) ==
  LET faulty  == {i \in DOMAIN defs : Fault(defs, i) # "none"}
      unknown == {i \in DOMAIN defs : ~ (defs[i].roles \subseteq Names(defs))}
      First(set) == CHOOSE i \in set : \A j \in set : i <= j
  IN  CASE faulty # {} -> [fault |-> Fault(defs, First(faulty)), at |-> First(faulty)]
        [] faulty = {} /\ unknown # {} -> [fault |-> "role", at |-> First(unknown)]
        [] faulty = {} /\ unknown = {} -> [fault |-> "none", at |-> 0]

\* to_claude_agents_json: an object, where the last of two with one name is kept.
ToClaudeAgents(defs) ==
  [name \in Names(defs) |->
     LET last == SelectLastInSeq(defs, LAMBDA def : def.name = name)
     IN  [description |-> defs[last].description, prompt |-> defs[last].prompt]]

-----------------------------------------------------------------------------
Placeholder == <<"repo", "session_id", "session_dir", "mcp_socket">>

Replace(text, piece, value) ==
  FlattenSeq([i \in DOMAIN text |-> IF text[i] = piece THEN value ELSE <<text[i]>>])

\* interpolate_prompt: one placeholder after the other, in this order.
InterpolatePrompt(prompt, ctx) ==
  LET after[n \in 0..Len(Placeholder)] ==
        IF n = 0 THEN prompt
        ELSE Replace(after[n - 1], Placeholder[n], ctx[Placeholder[n]])
  IN  after[Len(Placeholder)]

\* to_cli_args: the prompts of this agent are filled in, those of the others are not.
ToCliArgs(self, defs, ctx) ==
  [agents |-> ToClaudeAgents(
     [i \in DOMAIN defs |->
        IF defs[i].name = self.name
        THEN [defs[i] EXCEPT !.prompt = InterpolatePrompt(self.prompt, ctx)]
        ELSE defs[i]]),
   name |-> self.name]

-----------------------------------------------------------------------------
(***************************************************************************)
(* interpolate_env: the first "${" of the text, the first "}" after it,    *)
(* and what is between them, a variable's name; a variable that is not set *)
(* is empty.  The value is looked through again: after as many steps as    *)
(* given the text is what it is then.                                      *)
(***************************************************************************)
InterpolateOnce(text, env) ==
  LET start == SelectInSeq(text, LAMBDA piece : piece = "${")
      rest  == SubSeq(text, start + 1, Len(text))
      end   == SelectInSeq(rest, LAMBDA piece : piece = "}")
      name  == SubSeq(rest, 1, end - 1)
  IN  IF start = 0 \/ end = 0 THEN text
      ELSE SubSeq(text, 1, start - 1)
             \o (IF name \in DOMAIN env THEN env[name] ELSE <<>>)
             \o SubSeq(rest, end + 1, Len(rest))

InterpolateEnv(text, env, steps) ==
  LET after[n \in 0..steps] == IF n = 0 THEN text ELSE InterpolateOnce(after[n - 1], env)
  IN  after[steps]

\* interpolate_with_repo: the repository takes the variable's place, if there is one.
InterpolateWithRepo(text, repo, env, steps) ==
  LET IsRepo(i) == i + 2 \in DOMAIN text /\ SubSeq(text, i, i + 2) = <<"${", "FRIDI_REPO", "}">>
      Piece(i) == CASE IsRepo(i) -> repo
                    [] \E j \in {i - 1, i - 2} : j \in DOMAIN text /\ IsRepo(j) -> <<>>
                    [] OTHER -> <<text[i]>>
  IN  InterpolateEnv(IF repo = <<>> THEN text ELSE FlattenSeq([i \in DOMAIN text |-> Piece(i)]),
                     env, steps)

-----------------------------------------------------------------------------
\* spawn_agent: a role without a definition gets the default one, if its name is good.
SpawnRole(configs, role) ==
  IF \E i \in DOMAIN configs : configs[i].name = role.name THEN Read(configs)
  ELSE IF role.chars # "good" \/ role.name = 0 \/ role.length > 128 THEN Failed
  ELSE Read(Append(configs, [name |-> role.name, default |-> TRUE]))
=============================================================================
