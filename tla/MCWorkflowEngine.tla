--------------------------- MODULE MCWorkflowEngine ---------------------------
(* A small workflow with every kind of rule: a join, an alternative on an  *)
(* outcome with a successor that the end node does not wait for, and an   *)
(* end node.                                                               *)
EXTENDS WorkflowEngine

CONSTANTS a, b, j, k, d, e, ok

Cond(n, s, o) == [node |-> n, state |-> s, outcome |-> o]

MCDependsOn == [n \in Node |-> CASE n = j -> {a, b} [] n = d -> {k} [] n = e -> {j} [] OTHER -> {}]

MCConfig ==
  [n \in Node |->
     IF n = k THEN {{Cond(a, Any, ok)}, {Cond(b, "COMPLETED", Any)}} ELSE {}]
=============================================================================

