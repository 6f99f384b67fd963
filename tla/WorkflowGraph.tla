---------------------------- MODULE WorkflowGraph ----------------------------
(***************************************************************************)
(* The instantiated dependency graph of one workflow and the rules by      *)
(* which a LOCKED node is unlocked: constant data once                     *)
(* InitializeNodesFromTemplates has resolved the templates.                *)
(*                                                                         *)
(* An UnlockConfiguration is kept as the set of its groups, a group as the *)
(* set of its conditions: the legacy anyOf/allOf format as it is, and the  *)
(* recursive format through its disjunctive normal form.  The empty set    *)
(* stands for a nil configuration (Validate refuses an empty anyOf).       *)
(***************************************************************************)
CONSTANTS Node,       \* the workflow_nodes rows of the workflow
          DependsOn,  \* depends_on of each node, as node ids
          Config,     \* unlock_configuration of each node
          EndNode,    \* workflows.end_node_id, or NoNode when it is null
          Outcome,    \* the outcome strings plugins report
          NoNode, NoOutcome, Any

NodeState == {"LOCKED", "READY", "IN_PROGRESS", "COMPLETED", "FAILED"}

Condition == [node : Node, state : NodeState \cup {Any}, outcome : Outcome \cup {Any}]

Conditions(n) == UNION Config[n]

(* Validate, for both formats: no empty group, and a condition asks for a  *)
(* state or an outcome.                                                    *)
Valid(rule) == \A g \in rule : g # {} /\ \A c \in g : c.state # Any \/ c.outcome # Any

(* What ResolveToInstanceIDs gives back: a valid rule on nodes of this     *)
(* workflow.  A rule that is not, or names a template without a node here, *)
(* is an error and the workflow does not start.                            *)
Resolved == {rule \in SUBSET SUBSET Condition : Valid(rule)}

(* What the construction of a workflow guarantees of the data, and two     *)
(* restrictions of this model: no condition asks for LOCKED or READY (the  *)
(* states an unlock pass itself changes), and nothing waits for the end    *)
(* node.                                                                   *)
ASSUME GraphAssumption ==
  /\ DependsOn \in [Node -> SUBSET Node]
  /\ Config \in [Node -> Resolved]
  /\ EndNode \in Node \cup {NoNode}
  /\ NoNode \notin Node
  /\ Node # {}
  /\ NoOutcome \notin Outcome \cup {Any}
  /\ Any \notin NodeState \cup Outcome
  /\ \A n \in Node : \A c \in Conditions(n) :
        /\ c.state \notin {"LOCKED", "READY"}
        /\ c.node # EndNode
  /\ \A n \in Node : EndNode \notin DependsOn[n]
  /\ EndNode \in Node => DependsOn[EndNode] # {} \/ Config[EndNode] # {}

(* evaluateCondition / the loop body of evaluateGroup: st and oc are the   *)
(* states and outcomes of nodeMap.                                         *)
Holds(c, st, oc) ==
  /\ c.state = Any \/ st[c.node] = c.state
  /\ c.outcome = Any \/ oc[c.node] = c.outcome

Evaluate(n, st, oc) == \E g \in Config[n] : \A c \in g : Holds(c, st, oc)

(* Mutant: one completed dependency is enough. *)
SomeCompleted(n, st) == DependsOn[n] # {} => \E d \in DependsOn[n] : st[d] = "COMPLETED"

AllCompleted(n, st) == \A d \in DependsOn[n] : st[d] = "COMPLETED"

(* areDependenciesMet: the configuration decides alone when there is one.  *)
Met(n, st, oc) ==
  IF Config[n] # {} THEN Evaluate(n, st, oc) ELSE AllCompleted(n, st)

(* The nodes InitializeNodesFromTemplates makes READY at once.             *)
Roots == {n \in Node : DependsOn[n] = {} /\ Config[n] = {}}

(* evaluateWorkflowCompletion: the end node if there is one, else all.     *)
Finished(st) ==
  IF EndNode # NoNode THEN st[EndNode] = "COMPLETED"
                      ELSE \A n \in Node : st[n] = "COMPLETED"

(* The nodes whose rule looks only at completed dependencies.  A condition *)
(* on an outcome alone is one: only a completed node has an outcome.       *)
WaitsForCompletion == {n \in Node : \A c \in Conditions(n) : c.state \in {"COMPLETED", Any}}

(* No rule has an alternative or looks at anything but completed nodes.    *)
Conjunctive ==
  /\ \A n \in Node : \A g, h \in Config[n] : g = h
  /\ WaitsForCompletion = Node
=============================================================================
