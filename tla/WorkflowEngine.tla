---------------------------- MODULE WorkflowEngine ----------------------------
(***************************************************************************)
(* The generic workflow engine (workflow/manager) for one workflow: the    *)
(* start of the instance, the notifications its tasks send, and the        *)
(* registration of READY nodes with the task manager, which happens        *)
(* outside the transaction that made them READY.                           *)
(*                                                                         *)
(* Here each HandleTaskUpdate transaction is one step; WorkflowTx takes    *)
(* the transaction apart.  GlobalContext and ExtendedState are left to     *)
(* WorkflowTx: no guard of the engine reads them.                          *)
(***************************************************************************)
EXTENDS WorkflowGraph

CONSTANT Caller     \* the goroutines that can be inside the manager at once

VARIABLES
  phase,       \* the instance: "none", "starting" (inside the caller's
               \* transaction), "running" (committed), "aborted" (rolled back)
  nodeState,   \* workflow_nodes.state
  outcome,     \* workflow_nodes.outcome
  wfStatus,    \* workflows.status
  told,        \* OnWorkflowStatusChanged(..., COMPLETED) was called and committed
  handler,     \* handlerMap holds the workflow's event handler (memory only)
  pending,     \* per call: READY nodes it still has to hand to InitTask
  tasks,       \* nodes InitTask succeeded for
  dropped      \* READY nodes whose registration was given up

vars == <<phase, nodeState, outcome, wfStatus, told, handler, pending, tasks, dropped>>
rows == <<nodeState, outcome, wfStatus, told>>

TypeOK ==
  /\ phase \in {"none", "starting", "running", "aborted"}
  /\ nodeState \in [Node -> NodeState]
  /\ outcome \in [Node -> Outcome \cup {NoOutcome}]
  /\ wfStatus \in {"IN_PROGRESS", "COMPLETED", "FAILED"}
  /\ told \in BOOLEAN
  /\ handler \in BOOLEAN
  /\ pending \in [Caller -> SUBSET Node]
  /\ tasks \subseteq Node
  /\ dropped \subseteq Node

Init ==
  /\ phase = "none"
  /\ nodeState = [n \in Node |-> IF n \in Roots THEN "READY" ELSE "LOCKED"]
  /\ outcome = [n \in Node |-> NoOutcome]
  /\ wfStatus = "IN_PROGRESS"
  /\ told = FALSE
  /\ handler = FALSE
  /\ pending = [c \in Caller |-> {}]
  /\ tasks = {}
  /\ dropped = {}

----------------------------------------------------------------------------
(* StartWorkflowInstance                                                   *)

(* Rows are written in the caller's transaction, then READY nodes are      *)
(* registered one after the other while nobody else can see the rows.      *)
BeginStart(c) ==
  /\ phase = "none"
  /\ phase' = "starting"
  /\ pending' = [pending EXCEPT ![c] = Roots]
  /\ UNCHANGED <<rows, handler, tasks, dropped>>

(* All registered: the handler enters handlerMap, the caller commits.      *)
CommitStart ==
  /\ phase = "starting"
  /\ \A c \in Caller : pending[c] = {}
  /\ phase' = "running"
  /\ handler' = TRUE
  /\ UNCHANGED <<rows, pending, tasks, dropped>>

(* The status callback or the caller's commit fails after the tasks were   *)
(* registered: the rows vanish, tasks and handlerMap entry stay.           *)
AbortStart ==
  /\ phase = "starting"
  /\ \A c \in Caller : pending[c] = {}
  /\ phase' = "aborted"
  /\ handler' = TRUE
  /\ UNCHANGED <<rows, pending, tasks, dropped>>

----------------------------------------------------------------------------
(* registerNodesWithTaskManager                                            *)

(* Mutant: the loop stops after its first node. *)
RegisterOnlyFirst(c, n) ==
  /\ n \in pending[c]
  /\ pending' = [pending EXCEPT ![c] = {}]
  /\ tasks' = tasks \cup {n}
  /\ UNCHANGED <<phase, rows, handler, dropped>>

Register(c, n) ==
  /\ n \in pending[c]
  /\ pending' = [pending EXCEPT ![c] = @ \ {n}]
  /\ tasks' = tasks \cup {n}
  /\ UNCHANGED <<phase, rows, handler, dropped>>

(* The template lookup or InitTask fails: the loop returns, and the rest   *)
(* of the list is forgotten; before the commit the caller rolls back.      *)
RegisterFails(c) ==
  /\ pending[c] # {}
  /\ dropped' = dropped \cup pending[c]
  /\ pending' = [pending EXCEPT ![c] = {}]
  /\ phase' = IF phase = "starting" THEN "aborted" ELSE phase
  /\ UNCHANGED <<rows, handler, tasks>>

----------------------------------------------------------------------------
(* HandleTaskUpdate of a notification of node n's task.  The row must be   *)
(* visible, the handler known and the transition legal, or the call fails  *)
(* and its transaction rolls back.  Notifications that change no row here  *)
(* (INITIALIZED, or a state the node already has) are stuttering steps.    *)

Accepts(c, n) ==
  /\ phase = "running"
  /\ handler
  /\ pending[c] = {}
  /\ n \in tasks

(* Mutant: canTransitionToInProgress accepts every state but LOCKED. *)
UpdateInProgressAlways(c, n) ==
  /\ Accepts(c, n)
  /\ nodeState' = [nodeState EXCEPT ![n] = "IN_PROGRESS"]
  /\ UNCHANGED <<phase, outcome, wfStatus, told, handler, pending, tasks, dropped>>

(* Mutant: the plugin's state is stored without being mapped. *)
UpdateInProgressUnmapped(c, n) ==
  /\ Accepts(c, n)
  /\ nodeState[n] \in {"READY", "FAILED"}
  /\ nodeState' = [nodeState EXCEPT ![n] = "INPROGRESS"]
  /\ UNCHANGED <<phase, outcome, wfStatus, told, handler, pending, tasks, dropped>>

UpdateInProgress(c, n) ==
  /\ Accepts(c, n)
  /\ nodeState[n] \in {"READY", "FAILED"}
  /\ nodeState' = [nodeState EXCEPT ![n] = "IN_PROGRESS"]
  /\ UNCHANGED <<phase, outcome, wfStatus, told, handler, pending, tasks, dropped>>

(* Mutant: the failure is not propagated to the workflow. *)
UpdateFailedNodeOnly(c, n) ==
  /\ Accepts(c, n)
  /\ nodeState[n] \in {"READY", "IN_PROGRESS"}
  /\ nodeState' = [nodeState EXCEPT ![n] = "FAILED"]
  /\ UNCHANGED <<phase, outcome, wfStatus, told, handler, pending, tasks, dropped>>

UpdateFailed(c, n) ==
  /\ Accepts(c, n)
  /\ nodeState[n] \in {"READY", "IN_PROGRESS"}
  /\ nodeState' = [nodeState EXCEPT ![n] = "FAILED"]
  /\ wfStatus' = "FAILED"
  /\ UNCHANGED <<phase, outcome, told, handler, pending, tasks, dropped>>

(* TransitionToCompleted, in its order: the node, one unlock pass over the *)
(* siblings, the automatic completion of a READY end node, the list of new *)
(* READY nodes, the completion test.                                       *)
MarkDone(n) == [nodeState EXCEPT ![n] = "COMPLETED"]

(* Mutant: the pass does not skip nodes that are already open. *)
UnlockedAgain(st, oc) == {m \in Node : st[m] # "COMPLETED" /\ Met(m, st, oc)}

(* Mutant: nodeStateMap keeps the state the node had before its completion. *)
UnlockedStale(st, oc) == {m \in Node : st[m] = "LOCKED" /\ Met(m, nodeState, outcome)}

(* Mutant: the first dependency that is completed decides. *)
UnlockedEarly(st, oc) ==
  {m \in Node : st[m] = "LOCKED" /\ \E d \in DependsOn[m] : st[d] = "COMPLETED"}

Unlocked(st, oc) == {m \in Node : st[m] = "LOCKED" /\ Met(m, st, oc)}

Open(st, U) == [m \in Node |-> IF m \in U THEN "READY" ELSE st[m]]

CloseEnd(st) ==
  [m \in Node |-> IF m = EndNode /\ st[m] = "READY" THEN "COMPLETED" ELSE st[m]]

UpdateCompleted(c, n, o) ==
  LET st == MarkDone(n)
      oc == [outcome EXCEPT ![n] = o]
      U  == Unlocked(st, oc)
      final == CloseEnd(Open(st, U))
  IN  /\ Accepts(c, n)
      /\ nodeState[n] \in {"READY", "IN_PROGRESS"}
      /\ nodeState' = final
      /\ outcome' = oc
      /\ pending' = [pending EXCEPT ![c] = {m \in U : final[m] = "READY"}]
      /\ wfStatus' = IF Finished(final) THEN "COMPLETED" ELSE wfStatus
      /\ told' = (told \/ Finished(final))
      /\ UNCHANGED <<phase, handler, tasks, dropped>>

----------------------------------------------------------------------------
(* The process dies: calls in progress are lost, a start in progress is    *)
(* rolled back by the database, and handlerMap comes back empty.           *)
Crash ==
  /\ phase \in {"starting", "running"}
  /\ handler' = FALSE
  /\ dropped' = dropped \cup UNION {pending[c] : c \in Caller}
  /\ pending' = [c \in Caller |-> {}]
  /\ phase' = IF phase = "starting" THEN "aborted" ELSE phase
  /\ UNCHANGED <<rows, tasks>>

Next ==
  \/ CommitStart \/ AbortStart \/ Crash
  \/ \E c \in Caller :
       \/ BeginStart(c)
       \/ RegisterFails(c)
       \/ \E n \in Node :
            \/ Register(c, n)
            \/ UpdateInProgress(c, n)
            \/ UpdateFailed(c, n)
            \/ \E o \in Outcome \cup {NoOutcome} : UpdateCompleted(c, n, o)

(* A call that is registering goes on by itself: its goroutine runs until  *)
(* it returns.  When a task reports is up to its user, so no update is     *)
(* fair.                                                                   *)
Fairness == \A c \in Caller : \A n \in Node : WF_vars(Register(c, n))

Spec == Init /\ [][Next]_vars /\ Fairness

----------------------------------------------------------------------------
(* Properties *)

(* A node that has left LOCKED had, and still has, its rule fulfilled:     *)
(* areDependenciesMet guards every LOCKED -> READY step, and no later      *)
(* update takes a dependency back.                                         *)
UnlockJustified ==
  \A n \in WaitsForCompletion : nodeState[n] # "LOCKED" => Met(n, nodeState, outcome)

(* No node stays LOCKED once its rule is fulfilled: the single unlock pass *)
(* of TransitionToCompleted finds every node the completion enables.       *)
NoMissedUnlock ==
  \A n \in WaitsForCompletion : nodeState[n] = "LOCKED" => ~Met(n, nodeState, outcome)

(* The workflow's status and the calls of OnWorkflowStatusChanged agree    *)
(* with its nodes: COMPLETED is reported exactly when the completion test  *)
(* holds, and a failed node shows in the status until the workflow ends.   *)
StatusTruthful ==
  /\ wfStatus = "COMPLETED" => Finished(nodeState)
  /\ told <=> Finished(nodeState)
  /\ (\E n \in Node : nodeState[n] = "FAILED") => wfStatus = "FAILED" \/ told

(* The passes of registerNodesWithTaskManager (manager.go:329-345) go on   *)
(* outside any transaction while later notifications are handled, and      *)
(* after a crash or a failed registration.  Notifications being handled    *)
(* one after the other, as they are in this module, no two passes have a   *)
(* node in common, none repeats a node that has its task, and none takes a *)
(* LOCKED node or the end node.  Overlapping transactions may do           *)
(* otherwise: what holds for them is OpenedOnce of WorkflowTx.             *)
TaskOncePerNode ==
  /\ \A c \in Caller : pending[c] \cap tasks = {}
  /\ \A c, d \in Caller : c # d => pending[c] \cap pending[d] = {}
  /\ \A n \in tasks \cup UNION {pending[c] : c \in Caller} :
        nodeState[n] # "LOCKED" /\ n # EndNode

(* In a running workflow a node that left LOCKED has its task, or a call   *)
(* still has to register it, unless a registration failed or the process   *)
(* died: no interleaving of the passes with each other and with later      *)
(* notifications loses one.                                                *)
OpenNodesAccounted ==
  phase = "running" =>
    \A n \in Node \ {EndNode} : nodeState[n] # "LOCKED" =>
      n \in tasks \cup dropped \cup UNION {pending[c] : c \in Caller}

(* What was unlocked is registered, failures and restarts aside.           *)
ReadyRegistered ==
  \A n \in Node \ {EndNode} :
    (phase = "running" /\ nodeState[n] = "READY") ~> (n \in tasks \cup dropped)

(* The engine keeps the promise of DependencyOrder.                        *)
Promise == INSTANCE DependencyOrder WITH
  open <- {n \in Node : nodeState[n] # "LOCKED"},
  done <- {n \in Node : nodeState[n] = "COMPLETED"}

KeepsPromise == Promise!Spec
=============================================================================
