--------------------------- MODULE DependencyOrder ---------------------------
(***************************************************************************)
(* What a workflow promises its domain, whoever executes it: a node is     *)
(* opened (leaves LOCKED) only when the rule it waits for is fulfilled, a  *)
(* finished node and its outcome are final, and the domain is told that    *)
(* the workflow completed only when it has.  It says nothing of how or in  *)
(* how many transactions this is done, and nothing of progress.            *)
(***************************************************************************)
EXTENDS WorkflowGraph

VARIABLES open,     \* the nodes that have left LOCKED
          done,     \* the nodes that are COMPLETED
          outcome,  \* the outcome of each node
          told      \* the domain was told that the workflow completed

vars == <<open, done, outcome, told>>

Fulfilled(n, D, oc) ==
  IF Config[n] # {}
    THEN \E g \in Config[n] : \A c \in g :
            c.node \in D /\ (c.outcome = Any \/ oc[c.node] = c.outcome)
    ELSE DependsOn[n] \subseteq D

Complete(D) == IF EndNode # NoNode THEN EndNode \in D ELSE Node \subseteq D

Init ==
  /\ open = Roots
  /\ done = {}
  /\ outcome = [n \in Node |-> NoOutcome]
  /\ told = FALSE

Advance ==
  /\ open \subseteq open' /\ done \subseteq done' /\ done' \subseteq open'
  /\ \A n \in (open' \ open) \cap WaitsForCompletion : Fulfilled(n, done', outcome')
  /\ \A n \in Node : outcome'[n] # outcome[n] => n \in done' \ done
  /\ told => told'
  /\ told' => told \/ Complete(done')

Spec == Init /\ [][Advance]_vars
=============================================================================
