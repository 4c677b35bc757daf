---------------------------- MODULE WorkflowFile ----------------------------
(***************************************************************************)
(* A workflow between its file and the engine: Workflow::validate of       *)
(* crates/core/src/schema.rs, WorkflowDag::from_workflow of dag.rs, and    *)
(* workflow_from_source of crates/ui/src/workflow_runner.rs.               *)
(*                                                                         *)
(* A workflow is a record of whether it has a name and of its steps, each  *)
(* with its name and the names it depends on, in the order of the file.    *)
(* A graph is a record of its nodes, which are the positions of the steps, *)
(* and its edges from a dependency to its dependent.                       *)
(***************************************************************************)
EXTENDS Naturals, Sequences

Names(w) == {w.steps[i].name : i \in DOMAIN w.steps}

HasDuplicate(w) ==
  \E i, j \in DOMAIN w.steps : i # j /\ w.steps[i].name = w.steps[j].name

HasUnknown(w) == \E i \in DOMAIN w.steps : ~(w.steps[i].dependsOn \subseteq Names(w))

HasSelfDependency(w) == \E i \in DOMAIN w.steps : w.steps[i].name \in w.steps[i].dependsOn

Validate(w) ==
  /\ w.named /\ w.steps # <<>>
  /\ ~HasDuplicate(w) /\ ~HasUnknown(w) /\ ~HasSelfDependency(w)

\* node_map, in which the last step of a name stands for it.
Node(w, name) ==
  CHOOSE i \in DOMAIN w.steps :
    /\ w.steps[i].name = name
    /\ \A j \in DOMAIN w.steps : w.steps[j].name = name => j <= i

Graph(w) ==
  [nodes |-> DOMAIN w.steps,
   edges |-> UNION {{<<Node(w, d), Node(w, w.steps[i].name)>> : d \in w.steps[i].dependsOn}
                    : i \in DOMAIN w.steps}]

\* petgraph's toposort succeeds: no nodes each have a predecessor among them.
HasOrder(g) ==
  \A T \in SUBSET g.nodes : T # {} => \E n \in T : \A m \in T : <<m, n>> \notin g.edges

FromWorkflow(w) == ~HasUnknown(w) /\ HasOrder(Graph(w))

\* What the engine runs: of a name, the step at its node.
DependenciesOf(w) ==
  [s \in Names(w) |-> {w.steps[m].name : m \in {k \in DOMAIN w.steps :
                                                  <<k, Node(w, s)>> \in Graph(w).edges}}]

\* What a prompt, an issue or a pull request is worked on with; a step's
\* name does not come from the user.
SingleStep(name) == [named |-> TRUE, steps |-> <<[name |-> name, dependsOn |-> {}]>>]

\* A workflow file that does not load is replaced by a step that reports it.
WorkflowFromSource(source) ==
  IF source.kind # "workflow" THEN SingleStep(source.step)
  ELSE IF Validate(source.workflow) THEN source.workflow ELSE SingleStep(source.step)

\* A workflow is handed to the engine.
Accepted(w) == Validate(w) /\ FromWorkflow(w)
=============================================================================
