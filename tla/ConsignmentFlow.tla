--------------------------- MODULE ConsignmentFlow ---------------------------
(***************************************************************************)
(* One consignment: its row, the requests that initialise it, the          *)
(* workflow that StartWorkflow begins under the consignment's id on the    *)
(* Temporal runtime, the runtime's handlers, and the completion handler    *)
(* that finishes the consignment.                                          *)
(*                                                                         *)
(* The workflow library and Temporal are external.  Assumed of them: an id *)
(* is started once, a second StartWorkflow is refused; an exclusive split  *)
(* takes one of its branches, and the workflow completes at an END when    *)
(* the nodes of the branches it took are done (migration 015 has two       *)
(* splits and two ENDs, so some of its nodes never begin); the completion  *)
(* handler is tried until it returns nil, and an attempt that was given up *)
(* may still run.  The order in which nodes are activated is left open.    *)
(***************************************************************************)
EXTENDS Naturals

CONSTANTS
  Caller,     \* requests PUT /consignments/{id} that can overlap
  Code,       \* HS codes
  Supported,  \* those with a workflow template for the consignment's flow
  Node,       \* task nodes of the workflow
  Route,      \* the sets of task nodes that lead from its START to an END
  Attempt,    \* overlapping attempts of the completion handler
  MaxCrashes, \* bound: the backend does not die for ever
  NoCode, Free

ASSUME ConsignmentAssumption ==
  /\ Supported \subseteq Code
  /\ NoCode \notin Code
  /\ Free \notin Caller
  /\ Route \subseteq SUBSET Node
  /\ MaxCrashes \in Nat

VARIABLES
  row,      \* the consignments row as committed; items is one code or none
  call,     \* the requests: pc, the row as they read it, the chosen code
  lock,     \* the request whose transaction has updated the row
  run,      \* the execution: "none", "running", "completing", "closed"
  runCode,  \* the code whose template the execution runs
  node,     \* the nodes as the execution sees them
  task,     \* the nodes' rows at the task manager
  finish,   \* attempts of the completion handler: pc and the row they read
  crashes,  \* how often the backend died
  early     \* history: the workflow was over before its code was committed

vars == <<row, call, lock, run, runCode, node, task, finish, crashes, early>>
flow == <<run, runCode, node, task>>

Row == [state : {"NONE", "INITIALIZED", "IN_PROGRESS", "FINISHED"}, item : Code \cup {NoCode}]
NewRow == [state |-> "NONE", item |-> NoCode]
IdleCall == [pc |-> "idle", seen |-> NewRow, code |-> NoCode]
IdleAttempt == [pc |-> "idle", seen |-> NewRow]

TypeOK ==
  /\ row \in Row
  /\ call \in [Caller -> [pc : {"idle", "read", "saved", "started"}, seen : Row,
                          code : Code \cup {NoCode}]]
  /\ lock \in Caller \cup {Free}
  /\ run \in {"none", "running", "completing", "closed"}
  /\ runCode \in Code \cup {NoCode}
  /\ node \in [Node -> {"none", "active", "done"}]
  /\ task \in [Node -> {"none", "open", "ended"}]
  /\ finish \in [Attempt -> [pc : {"idle", "read", "saved"}, seen : Row]]
  /\ crashes \in 0..MaxCrashes
  /\ early \in BOOLEAN

Init ==
  /\ row = NewRow
  /\ call = [c \in Caller |-> IdleCall]
  /\ lock = Free
  /\ run = "none"
  /\ runCode = NoCode
  /\ node = [n \in Node |-> "none"]
  /\ task = [n \in Node |-> "none"]
  /\ finish = [h \in Attempt |-> IdleAttempt]
  /\ crashes = 0
  /\ early = FALSE

----------------------------------------------------------------------------
(* Requests                                                                *)

CreateShell ==
  /\ row.state = "NONE"
  /\ row' = [state |-> "INITIALIZED", item |-> NoCode]
  /\ UNCHANGED <<call, lock, flow, finish, crashes, early>>

(* InitializeConsignmentByID reads the row and tests its state before its  *)
(* transaction begins.                                                     *)
ReadInitialized(c, code) ==
  /\ call[c].pc = "idle"
  /\ row.state = "INITIALIZED"
  /\ call' = [call EXCEPT ![c] = [pc |-> "read", seen |-> row, code |-> code]]
  /\ UNCHANGED <<row, lock, flow, finish, crashes, early>>

(* tx.Save: the whole row, uncommitted; other writers of the row wait.     *)
SaveInProgress(c) ==
  /\ call[c].pc = "read"
  /\ lock = Free
  /\ lock' = c
  /\ call' = [call EXCEPT ![c].pc = "saved"]
  /\ UNCHANGED <<row, flow, finish, crashes, early>>

(* Mutant: a workflow that exists already is taken for the one wanted. *)
StartWorkflowOrJoin(c) ==
  /\ call[c].pc = "saved"
  /\ call[c].code \in Supported
  /\ run' = IF run = "none" THEN "running" ELSE run
  /\ runCode' = IF run = "none" THEN call[c].code ELSE runCode
  /\ call' = [call EXCEPT ![c].pc = "started"]
  /\ UNCHANGED <<row, lock, node, task, finish, crashes, early>>

(* The template is found and the workflow starts, before the commit.       *)
StartWorkflow(c) ==
  /\ call[c].pc = "saved"
  /\ call[c].code \in Supported
  /\ run = "none"
  /\ run' = "running"
  /\ runCode' = call[c].code
  /\ call' = [call EXCEPT ![c].pc = "started"]
  /\ UNCHANGED <<row, lock, node, task, finish, crashes, early>>

(* The workflow has started but the answer does not arrive: the error      *)
(* rolls the transaction back.                                             *)
StartUnanswered(c) ==
  /\ call[c].pc = "saved"
  /\ call[c].code \in Supported
  /\ run = "none"
  /\ run' = "running"
  /\ runCode' = call[c].code
  /\ call' = [call EXCEPT ![c] = IdleCall]
  /\ lock' = Free
  /\ UNCHANGED <<row, node, task, finish, crashes, early>>

Initialized(c) == [call[c].seen EXCEPT !.state = "IN_PROGRESS", !.item = call[c].code]

(* Mutant: the row is committed before the workflow is started. *)
CommitFirst(c) ==
  /\ call[c].pc \in {"saved", "started"}
  /\ row' = Initialized(c)
  /\ call' = [call EXCEPT ![c] = IdleCall]
  /\ lock' = Free
  /\ UNCHANGED <<flow, finish, crashes, early>>

Commit(c) ==
  /\ call[c].pc = "started"
  /\ row' = Initialized(c)
  /\ call' = [call EXCEPT ![c] = IdleCall]
  /\ lock' = Free
  /\ UNCHANGED <<flow, finish, crashes, early>>

(* The save, the template, StartWorkflow or the commit fails; more than    *)
(* one code, or one without a template, fails here too.                    *)
Rollback(c) ==
  /\ call[c].pc # "idle"
  /\ call' = [call EXCEPT ![c] = IdleCall]
  /\ lock' = IF lock = c THEN Free ELSE lock
  /\ UNCHANGED <<row, flow, finish, crashes, early>>

----------------------------------------------------------------------------
(* The runtime's handlers and the execution                                *)

(* The nodes whose task was activated.                                     *)
Begun == {n \in Node : task[n] # "none"}

(* activationHandler, for a node of a branch that can still be taken.      *)
(* When its answer is lost the node stays inactive and every further       *)
(* attempt fails on the task's primary key.                                *)
Activate(n) ==
  /\ run = "running"
  /\ node[n] = "none"
  /\ task[n] = "none"
  /\ \E R \in Route : Begun \cup {n} \subseteq R
  /\ task' = [task EXCEPT ![n] = "open"]
  /\ \/ node' = [node EXCEPT ![n] = "active"]
     \/ UNCHANGED node
  /\ UNCHANGED <<row, call, lock, run, runCode, finish, crashes, early>>

(* The task ends and taskDoneWrapper reports it, once; an error is only    *)
(* logged.                                                                 *)
TaskDone(n) ==
  /\ task[n] = "open"
  /\ task' = [task EXCEPT ![n] = "ended"]
  /\ \/ node' = [node EXCEPT ![n] = "done"]
     \/ UNCHANGED node
  /\ UNCHANGED <<row, call, lock, run, runCode, finish, crashes, early>>

CompleteWorkflow ==
  /\ run = "running"
  /\ Begun \in Route
  /\ \A n \in Begun : node[n] = "done"
  /\ run' = "completing"
  /\ early' = (row.item = NoCode)
  /\ UNCHANGED <<row, call, lock, runCode, node, task, finish, crashes>>

----------------------------------------------------------------------------
(* CompletionHandler: markConsignmentAsFinished, a read and a save of the  *)
(* whole row.                                                              *)

(* Mutant: OnWorkflowStatusChanged does not look at the status. *)
FinishReadAnyStatus(h) ==
  /\ run \in {"running", "completing"}
  /\ row.state # "NONE"
  /\ finish[h].pc = "idle"
  /\ finish' = [finish EXCEPT ![h] = [pc |-> "read", seen |-> row]]
  /\ UNCHANGED <<row, call, lock, flow, crashes, early>>

FinishRead(h) ==
  /\ run = "completing"
  /\ finish[h].pc = "idle"
  /\ finish' = [finish EXCEPT ![h] = [pc |-> "read", seen |-> row]]
  /\ UNCHANGED <<row, call, lock, flow, crashes, early>>

(* Mutant: the workflow's own word is stored. *)
FinishSaveCompleted(h) ==
  /\ finish[h].pc = "read"
  /\ lock = Free
  /\ row' = [finish[h].seen EXCEPT !.state = "COMPLETED"]
  /\ finish' = [finish EXCEPT ![h].pc = "saved"]
  /\ UNCHANGED <<call, lock, flow, crashes, early>>

FinishSave(h) ==
  /\ finish[h].pc = "read"
  /\ lock = Free
  /\ row' = [finish[h].seen EXCEPT !.state = "FINISHED"]
  /\ finish' = [finish EXCEPT ![h].pc = "saved"]
  /\ UNCHANGED <<call, lock, flow, crashes, early>>

FinishReturns(h) ==
  /\ finish[h].pc = "saved"
  /\ finish' = [finish EXCEPT ![h] = IdleAttempt]
  /\ run' = "closed"
  /\ UNCHANGED <<row, call, lock, runCode, node, task, crashes, early>>

(* Mutant: an error of the save is swallowed. *)
FinishFailsQuietly(h) ==
  /\ finish[h].pc = "read"
  /\ lock = Free
  /\ finish' = [finish EXCEPT ![h] = IdleAttempt]
  /\ run' = "closed"
  /\ UNCHANGED <<row, call, lock, runCode, node, task, crashes, early>>

(* The read or the save fails, and the error goes back to the library.     *)
(* An update that waits for the row's lock goes on waiting.                *)
FinishFails(h) ==
  /\ finish[h].pc = "read"
  /\ lock = Free
  /\ finish' = [finish EXCEPT ![h] = IdleAttempt]
  /\ UNCHANGED <<row, call, lock, flow, crashes, early>>

(* The backend dies; the execution is Temporal's and stays.                *)
Crash ==
  /\ crashes < MaxCrashes
  /\ crashes' = crashes + 1
  /\ call' = [c \in Caller |-> IdleCall]
  /\ finish' = [h \in Attempt |-> IdleAttempt]
  /\ lock' = Free
  /\ UNCHANGED <<row, flow, early>>

Next ==
  \/ CreateShell \/ CompleteWorkflow \/ Crash
  \/ \E c \in Caller :
       \/ \E code \in Code : ReadInitialized(c, code)
       \/ SaveInProgress(c)
       \/ StartWorkflow(c) \/ StartUnanswered(c)
       \/ Commit(c) \/ Rollback(c)
  \/ \E n \in Node : Activate(n) \/ TaskDone(n)
  \/ \E h \in Attempt :
       FinishRead(h) \/ FinishSave(h) \/ FinishReturns(h) \/ FinishFails(h)

Proceed(c) == SaveInProgress(c) \/ StartWorkflow(c) \/ Commit(c) \/ Rollback(c)

(* A request runs until it returns; the library keeps trying the           *)
(* completion handler, and the database does not fail it for ever.         *)
Fairness ==
  /\ \A c \in Caller : WF_vars(Proceed(c))
  /\ \A h \in Attempt : WF_vars(FinishRead(h)) /\ SF_vars(FinishSave(h))

Spec == Init /\ [][Next]_vars /\ Fairness

----------------------------------------------------------------------------
(* Properties *)

(* A consignment in progress has a workflow, and it is the workflow of the *)
(* code stored with it, although any number of requests may have found     *)
(* INITIALIZED: InitializeConsignmentByID starts before it commits, and    *)
(* whoever does not start rolls back.                                      *)
ItemIsRun ==
  row.state = "IN_PROGRESS" => run # "none" /\ row.item = runCode

(* A consignment is FINISHED only when no task of its workflow is open,    *)
(* whichever branches were taken: an attempt of CompletionHandler acts on  *)
(* a row it read earlier, maybe before a crash, a commit or another        *)
(* attempt.  The row it writes back has the code of that workflow or none, *)
(* and none only when the workflow was over before the initialisation was  *)
(* committed: markConsignmentAsFinished then saves what it read before the *)
(* commit, or the initialisation was rolled back after StartWorkflow.      *)
FinishedTruthful ==
  row.state = "FINISHED" =>
    /\ \A n \in Node : task[n] # "open"
    /\ row.item = runCode \/ (row.item = NoCode /\ early)

(* FINISHED is final: no late request, restart or attempt reopens it.      *)
FinishedIsFinal == [][row.state = "FINISHED" => row'.state = "FINISHED"]_vars

(* A completed workflow finishes its consignment, whatever requests hold   *)
(* the row, and whatever attempts fail or die.                             *)
CompletionArrives == (run = "completing") ~> (row.state = "FINISHED")
=============================================================================
