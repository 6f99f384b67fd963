------------------------------ MODULE WorkflowTx ------------------------------
(***************************************************************************)
(* HandleTaskUpdate statement by statement: several notifications are      *)
(* processed at once, each in its own READ COMMITTED transaction.  A read  *)
(* sees what is committed, a write locks its row until the transaction     *)
(* ends and replaces it with values computed from what was read before,    *)
(* and no read locks anything (there is no SELECT ... FOR UPDATE).         *)
(*                                                                         *)
(* The start of the instance and the registration of READY nodes are       *)
(* WorkflowEngine's; here a task exists from the commit that made its node *)
(* READY.  Of the workflow row only the status is kept: Save(&wf) writes   *)
(* the whole row, so an append to GlobalContext rewrites the status too.   *)
(***************************************************************************)
EXTENDS WorkflowGraph, Naturals, FiniteSets

CONSTANTS Caller,      \* goroutines inside HandleTaskUpdate
          Appends,     \* nodes whose tasks send AppendGlobalContext
          Rank,        \* the order of node ids, in which rows are written
          OnePerTask,  \* a task has at most one notification in flight
          WfRow, Free

ASSUME TxAssumption ==
  /\ Appends \subseteq Node
  /\ Rank \in [Node -> Nat]
  /\ \A m, n \in Node : Rank[m] = Rank[n] => m = n
  /\ OnePerTask \in BOOLEAN
  /\ WfRow \notin Node
  /\ Free \notin Caller

VARIABLES
  row,       \* committed workflow_nodes: state and outcome
  wfStatus,  \* committed workflows.status
  told,      \* a committed transaction called the handler with COMPLETED
  tasks,     \* nodes whose task exists
  missed,    \* history: a commit left a LOCKED node whose rule is fulfilled
  owner,     \* who holds the lock of each row
  tx         \* per caller: the transaction in progress

vars == <<row, wfStatus, told, tasks, missed, owner, tx>>

NodeRow == [state : NodeState, outcome : Outcome \cup {NoOutcome}]
WfStatus == {"IN_PROGRESS", "COMPLETED", "FAILED"}

States(r) == [n \in Node |-> r[n].state]
Outcomes(r) == [n \in Node |-> r[n].outcome]

(* A transaction: the notification (node, to, oc), the workflow status it  *)
(* read or set (status), whether the workflow row is to be saved, the rows *)
(* to write (plan) and those not yet written (todo), the nodes that become *)
(* READY (opens) and whether it found the workflow finished.               *)
Idle == [pc |-> "idle", node |-> NoNode, to |-> "LOCKED", oc |-> NoOutcome,
         status |-> "IN_PROGRESS", plan |-> [n \in {} |-> NoOutcome], todo |-> {},
         opens |-> {}, saved |-> FALSE, fin |-> FALSE]

Steps == {"idle", "context", "node", "siblings", "write", "workflow", "commit"}
Plans == UNION {[S -> NodeRow] : S \in SUBSET Node}
Transaction == [pc : Steps, node : Node \cup {NoNode}, to : NodeState,
                oc : Outcome \cup {NoOutcome}, status : WfStatus, plan : Plans,
                todo : SUBSET Node, opens : SUBSET Node, saved : BOOLEAN, fin : BOOLEAN]

TypeOK ==
  /\ row \in [Node -> NodeRow]
  /\ wfStatus \in WfStatus
  /\ told \in BOOLEAN
  /\ tasks \subseteq Node
  /\ missed \in BOOLEAN
  /\ owner \in [Node \cup {WfRow} -> Caller \cup {Free}]
  /\ tx \in [Caller -> Transaction]

Init ==
  /\ row = [n \in Node |-> [state |-> IF n \in Roots THEN "READY" ELSE "LOCKED",
                            outcome |-> NoOutcome]]
  /\ wfStatus = "IN_PROGRESS"
  /\ told = FALSE
  /\ tasks = Roots
  /\ missed = FALSE
  /\ owner = [r \in Node \cup {WfRow} |-> Free]
  /\ tx = [c \in Caller |-> Idle]

At(c, pc) == tx[c].pc = pc
Set(c, t) == tx' = [tx EXCEPT ![c] = t]
db == <<row, wfStatus, told, tasks, missed>>

----------------------------------------------------------------------------
(* The transaction begins and reads the workflow row.                      *)
Begin(c, n, to, o) ==
  /\ At(c, "idle")
  /\ n \in tasks
  /\ OnePerTask => \A d \in Caller : tx[d].node # n
  /\ to # "COMPLETED" => o = NoOutcome
  /\ Set(c, [Idle EXCEPT !.pc = IF n \in Appends THEN "context" ELSE "node",
                         !.node = n, !.to = to, !.oc = o, !.status = wfStatus])
  /\ UNCHANGED <<db, owner>>

(* An UPDATE waits for the row's lock and keeps it until the end.          *)
Lock(c, r) ==
  /\ owner[r] \in {Free, c}
  /\ owner' = [owner EXCEPT ![r] = c]

SaveContext(c) ==
  /\ At(c, "context")
  /\ Lock(c, WfRow)
  /\ Set(c, [tx[c] EXCEPT !.pc = "node", !.saved = TRUE])
  /\ UNCHANGED db

(* The node is read again, and the state machine looks at what it read.    *)
Plan(t, pl, pc) == [t EXCEPT !.pc = pc, !.plan = pl, !.todo = DOMAIN pl]

ReadNodeFailed(c) ==
  LET t == tx[c]
      r == row[t.node]
  IN  /\ At(c, "node") /\ t.to = "FAILED"
      /\ \/ /\ r.state = "FAILED"
            /\ Set(c, [t EXCEPT !.pc = "commit"])
         \/ /\ r.state \in {"READY", "IN_PROGRESS"}
            /\ Set(c, [Plan(t, [n \in {t.node} |-> [r EXCEPT !.state = "FAILED"]], "write")
                         EXCEPT !.status = "FAILED"])
      /\ UNCHANGED <<db, owner>>

(* Mutant: the state is not checked. *)
ReadNodeInProgressAlways(c) ==
  LET t == tx[c]
      r == row[t.node]
  IN  /\ At(c, "node") /\ t.to = "IN_PROGRESS"
      /\ Set(c, Plan(t, [n \in {t.node} |-> [r EXCEPT !.state = "IN_PROGRESS"]], "write"))
      /\ UNCHANGED <<db, owner>>

(* Mutant: the plugin's state is stored without being mapped. *)
ReadNodeInProgressUnmapped(c) ==
  LET t == tx[c]
      r == row[t.node]
  IN  /\ At(c, "node") /\ t.to = "IN_PROGRESS"
      /\ r.state \in {"READY", "FAILED", "IN_PROGRESS"}
      /\ Set(c, Plan(t, [n \in {t.node} |-> [r EXCEPT !.state = "INPROGRESS"]], "write"))
      /\ UNCHANGED <<db, owner>>

ReadNodeInProgress(c) ==
  LET t == tx[c]
      r == row[t.node]
  IN  /\ At(c, "node") /\ t.to = "IN_PROGRESS"
      /\ r.state \in {"READY", "FAILED", "IN_PROGRESS"}
      /\ Set(c, Plan(t, [n \in {t.node} |-> [r EXCEPT !.state = "IN_PROGRESS"]], "write"))
      /\ UNCHANGED <<db, owner>>

ReadNodeCompleted(c) ==
  LET t == tx[c]
      r == row[t.node]
  IN  /\ At(c, "node") /\ t.to = "COMPLETED"
      /\ \/ r.state = "COMPLETED" /\ Set(c, [t EXCEPT !.pc = "commit"])
         \/ r.state \in {"READY", "IN_PROGRESS"} /\ Set(c, [t EXCEPT !.pc = "siblings"])
      /\ UNCHANGED <<db, owner>>

(* Mutant: every sibling is written back, changed or not. *)
EverySibling(t, U, closes) == Node

(* nodesToUpdate: the node, what it unlocks and the end node it completes. *)
Changed(t, U, closes) == {t.node} \cup U \cup (IF closes THEN {EndNode} ELSE {})

(* getSiblingNodes and everything TransitionToCompleted computes from it.  *)
SiblingPlan(r, t) ==
  LET mine   == [r EXCEPT ![t.node] = [state |-> "COMPLETED", outcome |-> t.oc]]
      U      == {m \in Node : mine[m].state = "LOCKED" /\ Met(m, States(mine), Outcomes(mine))}
      opened == [m \in Node |-> IF m \in U THEN [mine[m] EXCEPT !.state = "READY"] ELSE mine[m]]
      closes == EndNode # NoNode /\ opened[EndNode].state = "READY"
      final  == [m \in Node |-> IF m = EndNode /\ closes
                                  THEN [opened[m] EXCEPT !.state = "COMPLETED"] ELSE opened[m]]
      fin    == Finished(States(final))
  IN  [Plan(t, [m \in Changed(t, U, closes) |-> final[m]], "write") EXCEPT
         !.opens  = {m \in U : final[m].state = "READY"},
         !.fin    = fin,
         !.status = IF fin THEN "COMPLETED" ELSE @]

ReadSiblings(c) ==
  /\ At(c, "siblings")
  /\ Set(c, SiblingPlan(row, tx[c]))
  /\ UNCHANGED <<db, owner>>

(* UpdateWorkflowNodesInTx: the rows one by one, in the order of their ids *)
(* (TransitionToCompleted sorts them).                                     *)
NextRow(t) == CHOOSE n \in t.todo : \A m \in t.todo : Rank[n] <= Rank[m]

SavesWorkflow(t) == t.fin \/ t.to = "FAILED"

WriteRow(c) ==
  LET t == tx[c]
      n == NextRow(t)
      rest == t.todo \ {n}
  IN  /\ At(c, "write")
      /\ Lock(c, n)
      /\ Set(c, [t EXCEPT !.todo = rest,
                          !.pc = IF rest # {} THEN "write"
                                 ELSE IF SavesWorkflow(t) THEN "workflow" ELSE "commit"])
      /\ UNCHANGED db

SaveWorkflow(c) ==
  /\ At(c, "workflow")
  /\ Lock(c, WfRow)
  /\ Set(c, [tx[c] EXCEPT !.pc = "commit", !.saved = TRUE])
  /\ UNCHANGED db

Release(c) == [r \in Node \cup {WfRow} |-> IF owner[r] = c THEN Free ELSE owner[r]]

Overlooked(r) == \E n \in Node : r[n].state = "LOCKED" /\ Met(n, States(r), Outcomes(r))

Applied(t) == [n \in Node |-> IF n \in DOMAIN t.plan THEN t.plan[n] ELSE row[n]]

Commit(c) ==
  LET t == tx[c]
  IN  /\ At(c, "commit")
      /\ row' = Applied(t)
      /\ wfStatus' = IF t.saved THEN t.status ELSE wfStatus
      /\ told' = (told \/ t.fin)
      /\ tasks' = tasks \cup t.opens
      /\ missed' = (missed \/ Overlooked(row'))
      /\ owner' = Release(c)
      /\ Set(c, Idle)

(* An illegal transition, or any statement that fails: nothing is written  *)
(* and the notification is lost.                                           *)
Rollback(c) ==
  /\ ~At(c, "idle")
  /\ owner' = Release(c)
  /\ Set(c, Idle)
  /\ UNCHANGED db

Next ==
  \E c \in Caller :
    \/ \E n \in Node, to \in {"IN_PROGRESS", "COMPLETED", "FAILED"},
          o \in Outcome \cup {NoOutcome} : Begin(c, n, to, o)
    \/ SaveContext(c)
    \/ ReadNodeFailed(c) \/ ReadNodeInProgress(c) \/ ReadNodeCompleted(c)
    \/ ReadSiblings(c) \/ WriteRow(c) \/ SaveWorkflow(c)
    \/ Commit(c) \/ Rollback(c)

Spec == Init /\ [][Next]_vars

----------------------------------------------------------------------------
(* Properties *)

(* When overlapping notifications are harmless: a task has one of them in  *)
(* flight, no rule has an alternative, and no join has been missed yet     *)
(* (CompletionPropagates).  Two completions that both fulfil an            *)
(* alternative, or that both find the join an earlier pass has missed,     *)
(* open the same node, and the later commit takes its progress back.       *)
Orderly == OnePerTask /\ Conjunctive /\ ~missed

(* While they are, nothing finished is taken back and nothing is opened    *)
(* early: stale writes hit only rows nobody else writes.                   *)
Promise == INSTANCE DependencyOrder WITH
  open <- {n \in Node : row[n].state # "LOCKED"},
  done <- {n \in Node : row[n].state = "COMPLETED"},
  outcome <- Outcomes(row)

KeepsPromise == Promise!Init /\ [][Orderly => Promise!Advance]_vars

(* Two overlapping completions do not open the same node, whose task would *)
(* be initialised twice, whatever else is committed between their reads    *)
(* and their writes.                                                       *)
OpenedOnce ==
  Orderly =>
    /\ \A c \in Caller : tx[c].opens \cap tasks = {}
    /\ \A c, d \in Caller : c # d => tx[c].opens \cap tx[d].opens = {}

(* An append locks the workflow row first and a completion locks it last,  *)
(* and node rows are locked in the order of their ids.  While              *)
(* notifications are Orderly nobody waits for somebody who waits, so there *)
(* is no cycle of waiting; otherwise two transactions may want the same    *)
(* nodes, and nothing is claimed.                                          *)
Wants(c) == IF At(c, "write") THEN NextRow(tx[c]) ELSE WfRow
Waits(c, d) ==
  /\ c # d
  /\ At(c, "write") \/ At(c, "workflow") \/ At(c, "context")
  /\ owner[Wants(c)] = d
NoDeadlock == Orderly => \A c, d, f \in Caller : ~(Waits(c, d) /\ Waits(d, f))

(* state_machine.go:35: "transitions a workflow node to COMPLETED state    *)
(* and propagates updates": with no transaction in progress, a node whose  *)
(* rule is fulfilled is not LOCKED.                                        *)
CompletionPropagates ==
  (\A c \in Caller : At(c, "idle")) =>
    \A n \in WaitsForCompletion :
      row[n].state = "LOCKED" => ~Met(n, States(row), Outcomes(row))
=============================================================================
