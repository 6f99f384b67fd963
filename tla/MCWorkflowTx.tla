----------------------------- MODULE MCWorkflowTx -----------------------------
(* Two roots, their join j, which the end node waits for, and a successor  *)
(* of each root alone: when j has been missed, these two find it at once.  *)
EXTENDS WorkflowTx

CONSTANTS a, b, j, s, u, e

MCDependsOn ==
  [n \in Node |-> CASE n = j -> {a, b} [] n = s -> {a} [] n = e -> {j} [] OTHER -> {}]

MCConfig ==
  [n \in Node |->
     IF n = u THEN {{[node |-> b, state |-> "COMPLETED", outcome |-> Any]}} ELSE {}]

MCRank == [n \in Node |->
  CASE n = e -> 1 [] n = b -> 2 [] n = j -> 3 [] n = a -> 4 [] n = u -> 5 [] OTHER -> 6]
=============================================================================
