------------------------- MODULE ConsignmentFlowProofs -------------------------
(* Proofs about ConsignmentFlow, for any set of requests, codes, nodes and    *)
(* attempts.                                                                  *)
EXTENDS ConsignmentFlow, TLAPS

(* Only one transaction has the row, and while one that started the workflow  *)
(* is open the committed row still says INITIALIZED.                          *)
Ownership ==
  \A c \in Caller :
    /\ call[c].pc \in {"saved", "started"} <=> lock = c
    /\ call[c].pc # "idle" => row.state # "NONE" /\ call[c].code \in Code
    /\ call[c].pc = "started" => run # "none" /\ call[c].code = runCode

(* What the execution says of its nodes and their tasks: when it is over,     *)
(* the branches it took are done and nothing begins any more.                 *)
Execution ==
  /\ run # "none" => runCode \in Code
  /\ \A n \in Node : node[n] = "done" => task[n] = "ended"
  /\ run \in {"completing", "closed"} => \A n \in Node : task[n] # "open"

(* A row with the code of the run, or one that was read too early to have it. *)
Written(r) == r.item = runCode \/ (r.item = NoCode /\ early)

(* Before an execution exists the row is new; an item belongs to it.  When it *)
(* was over before the row had an item, that is on record.                    *)
RowFollows ==
  /\ run = "none" => row.state \in {"NONE", "INITIALIZED"}
  /\ row.state \in {"NONE", "INITIALIZED"} => row.item = NoCode
  /\ row.state = "IN_PROGRESS" => row.item = runCode
  /\ row.state = "FINISHED" =>
       run \in {"completing", "closed"} /\ Written(row)
  /\ run \in {"completing", "closed"} /\ row.state \in {"NONE", "INITIALIZED"} => early

(* An attempt works for a workflow that is over, with the item it has read.   *)
Attempts ==
  \A h \in Attempt :
    /\ finish[h].pc # "idle" => run \in {"completing", "closed"}
    /\ finish[h].pc = "read" => Written(finish[h].seen)

(* A request that has started the workflow is alone in its phase: until it    *)
(* ends nobody has written the row, so it is not yet FINISHED.                *)
StartedFirst ==
  \A c \in Caller : call[c].pc = "started" => row.state = "INITIALIZED"

Inv == TypeOK /\ Ownership /\ Execution /\ RowFollows /\ Attempts /\ StartedFirst

----------------------------------------------------------------------------
(* The disjuncts of Next, one by one.                                      *)
Moves(c) ==
  \/ \E code \in Code : ReadInitialized(c, code)
  \/ SaveInProgress(c)
  \/ StartWorkflow(c) \/ StartUnanswered(c)
  \/ Commit(c) \/ Rollback(c)

(* The types are kept by every step of the model.                          *)
LEMMA StepTypes == TypeOK /\ Next => TypeOK'
<1> SUFFICES ASSUME TypeOK, Next PROVE TypeOK'
  OBVIOUS
<1> USE ConsignmentAssumption DEF TypeOK, Row, NewRow, IdleCall, IdleAttempt, flow
<1>1. CASE CreateShell
  BY <1>1 DEF CreateShell
<1>2. CASE CompleteWorkflow
  BY <1>2 DEF CompleteWorkflow, Begun
<1>3. CASE Crash
  BY <1>3 DEF Crash
<1>4. ASSUME NEW c \in Caller, Moves(c) PROVE TypeOK'
  <2>1. ASSUME NEW code \in Code, ReadInitialized(c, code) PROVE TypeOK'
    BY <2>1 DEF ReadInitialized
  <2>2. CASE SaveInProgress(c)
    <3>1. call' = [call EXCEPT ![c] = [@ EXCEPT !.pc = "saved"]]
      BY <2>2 DEF SaveInProgress
    <3>2. UNCHANGED <<row, run, runCode, node, task, finish, crashes, early>> /\ lock' = c
      BY <2>2 DEF SaveInProgress
    <3>3. call' \in [Caller -> [pc : {"idle", "read", "saved", "started"}, seen : Row,
                                code : Code \cup {NoCode}]]
      BY <3>1
    <3>4. QED
      BY <3>2, <3>3
  <2>3. CASE StartWorkflow(c)
    <3>1. call' = [call EXCEPT ![c] = [@ EXCEPT !.pc = "started"]]
      BY <2>3 DEF StartWorkflow
    <3>2. /\ UNCHANGED <<row, lock, node, task, finish, crashes, early>>
          /\ run' = "running" /\ runCode' = call[c].code
      BY <2>3 DEF StartWorkflow
    <3>3. call' \in [Caller -> [pc : {"idle", "read", "saved", "started"}, seen : Row,
                                code : Code \cup {NoCode}]]
      BY <3>1
    <3>4. runCode' \in Code \cup {NoCode}
      BY <3>2
    <3>5. QED
      BY <3>2, <3>3, <3>4
  <2>4. CASE StartUnanswered(c)
    BY <2>4 DEF StartUnanswered
  <2>5. CASE Commit(c)
    BY <2>5 DEF Commit, Initialized
  <2>6. CASE Rollback(c)
    BY <2>6 DEF Rollback
  <2>7. QED
    BY <1>4, <2>1, <2>2, <2>3, <2>4, <2>5, <2>6 DEF Moves
<1>5. ASSUME NEW n \in Node, Activate(n) \/ TaskDone(n) PROVE TypeOK'
  BY <1>5 DEF Activate, TaskDone
<1>6. ASSUME NEW h \in Attempt, FinishRead(h) PROVE TypeOK'
  BY <1>6 DEF FinishRead
<1>7. ASSUME NEW h \in Attempt, FinishSave(h) PROVE TypeOK'
  <2>1. finish' = [finish EXCEPT ![h] = [@ EXCEPT !.pc = "saved"]]
    BY <1>7 DEF FinishSave
  <2>2. row' = [finish[h].seen EXCEPT !.state = "FINISHED"]
    BY <1>7 DEF FinishSave
  <2>3. row' \in Row
    BY <2>2
  <2>4. finish' \in [Attempt -> [pc : {"idle", "read", "saved"}, seen : Row]]
    BY <2>1
  <2>5. QED
    BY <1>7, <2>3, <2>4 DEF FinishSave
<1>8. ASSUME NEW h \in Attempt, FinishReturns(h) \/ FinishFails(h) PROVE TypeOK'
  BY <1>8 DEF FinishReturns, FinishFails
<1>9. QED
  BY <1>1, <1>2, <1>3, <1>4, <1>5, <1>6, <1>7, <1>8 DEF Next, Moves

(* The lock of the row changes hands only through a free one.                *)
LEMMA StepOwnership == Inv /\ TypeOK' /\ Next => Ownership'
<1> SUFFICES ASSUME Inv, TypeOK', Next PROVE Ownership'
  OBVIOUS
<1> USE ConsignmentAssumption DEF Inv, TypeOK, Row, NewRow, IdleCall, IdleAttempt, flow, Ownership,
          Execution, RowFollows, Attempts, StartedFirst, Written
<1>1. CASE CreateShell
  BY <1>1 DEF CreateShell
<1>2. CASE CompleteWorkflow
  BY <1>2 DEF CompleteWorkflow, Begun
<1>3. CASE Crash
  BY <1>3 DEF Crash
<1>4. ASSUME NEW c \in Caller, Moves(c) PROVE Ownership'
  <2>1. ASSUME NEW code \in Code, ReadInitialized(c, code) PROVE Ownership'
    BY <2>1 DEF ReadInitialized
  <2>2. CASE SaveInProgress(c)
    BY <2>2 DEF SaveInProgress
  <2>3. CASE StartWorkflow(c)
    BY <2>3 DEF StartWorkflow
  <2>4. CASE StartUnanswered(c)
    BY <2>4 DEF StartUnanswered
  <2>5. CASE Commit(c)
    BY <2>5 DEF Commit, Initialized
  <2>6. CASE Rollback(c)
    BY <2>6 DEF Rollback
  <2>7. QED
    BY <1>4, <2>1, <2>2, <2>3, <2>4, <2>5, <2>6 DEF Moves
<1>5. ASSUME NEW n \in Node, Activate(n) \/ TaskDone(n) PROVE Ownership'
  BY <1>5 DEF Activate, TaskDone
<1>6. ASSUME NEW h \in Attempt, FinishRead(h) PROVE Ownership'
  BY <1>6 DEF FinishRead
<1>7. ASSUME NEW h \in Attempt, FinishSave(h) PROVE Ownership'
  BY <1>7 DEF FinishSave
<1>8. ASSUME NEW h \in Attempt, FinishReturns(h) \/ FinishFails(h) PROVE Ownership'
  BY <1>8 DEF FinishReturns, FinishFails
<1>9. QED
  BY <1>1, <1>2, <1>3, <1>4, <1>5, <1>6, <1>7, <1>8 DEF Next, Moves

(* A node the execution counts as done stays done, its task ended.           *)
LEMMA StepExecution == Inv /\ TypeOK' /\ Next => Execution'
<1> SUFFICES ASSUME Inv, TypeOK', Next PROVE Execution'
  OBVIOUS
<1> USE ConsignmentAssumption DEF Inv, TypeOK, Row, NewRow, IdleCall, IdleAttempt, flow, Ownership,
          Execution, RowFollows, Attempts, StartedFirst, Written
<1>1. CASE CreateShell
  BY <1>1 DEF CreateShell
<1>2. CASE CompleteWorkflow
  BY <1>2 DEF CompleteWorkflow, Begun
<1>3. CASE Crash
  BY <1>3 DEF Crash
<1>4. ASSUME NEW c \in Caller, Moves(c) PROVE Execution'
  <2>1. ASSUME NEW code \in Code, ReadInitialized(c, code) PROVE Execution'
    BY <2>1 DEF ReadInitialized
  <2>2. CASE SaveInProgress(c)
    BY <2>2 DEF SaveInProgress
  <2>3. CASE StartWorkflow(c)
    BY <2>3 DEF StartWorkflow
  <2>4. CASE StartUnanswered(c)
    BY <2>4 DEF StartUnanswered
  <2>5. CASE Commit(c)
    BY <2>5 DEF Commit, Initialized
  <2>6. CASE Rollback(c)
    BY <2>6 DEF Rollback
  <2>7. QED
    BY <1>4, <2>1, <2>2, <2>3, <2>4, <2>5, <2>6 DEF Moves
<1>5. ASSUME NEW n \in Node, Activate(n) \/ TaskDone(n) PROVE Execution'
  BY <1>5 DEF Activate, TaskDone
<1>6. ASSUME NEW h \in Attempt, FinishRead(h) PROVE Execution'
  BY <1>6 DEF FinishRead
<1>7. ASSUME NEW h \in Attempt, FinishSave(h) PROVE Execution'
  BY <1>7 DEF FinishSave
<1>8. ASSUME NEW h \in Attempt, FinishReturns(h) \/ FinishFails(h) PROVE Execution'
  BY <1>8 DEF FinishReturns, FinishFails
<1>9. QED
  BY <1>1, <1>2, <1>3, <1>4, <1>5, <1>6, <1>7, <1>8 DEF Next, Moves

(* The row is written by a commit or by an attempt, with what they know.     *)
LEMMA StepRow == Inv /\ TypeOK' /\ Next => RowFollows'
<1> SUFFICES ASSUME Inv, TypeOK', Next PROVE RowFollows'
  OBVIOUS
<1> USE ConsignmentAssumption DEF Inv, TypeOK, Row, NewRow, IdleCall, IdleAttempt, flow, Ownership,
          Execution, RowFollows, Attempts, StartedFirst, Written
<1>1. CASE CreateShell
  BY <1>1 DEF CreateShell
<1>2. CASE CompleteWorkflow
  BY <1>2 DEF CompleteWorkflow, Begun
<1>3. CASE Crash
  BY <1>3 DEF Crash
<1>4. ASSUME NEW c \in Caller, Moves(c) PROVE RowFollows'
  <2>1. ASSUME NEW code \in Code, ReadInitialized(c, code) PROVE RowFollows'
    BY <2>1 DEF ReadInitialized
  <2>2. CASE SaveInProgress(c)
    BY <2>2 DEF SaveInProgress
  <2>3. CASE StartWorkflow(c)
    BY <2>3 DEF StartWorkflow
  <2>4. CASE StartUnanswered(c)
    BY <2>4 DEF StartUnanswered
  <2>5. CASE Commit(c)
    BY <2>5 DEF Commit, Initialized
  <2>6. CASE Rollback(c)
    BY <2>6 DEF Rollback
  <2>7. QED
    BY <1>4, <2>1, <2>2, <2>3, <2>4, <2>5, <2>6 DEF Moves
<1>5. ASSUME NEW n \in Node, Activate(n) \/ TaskDone(n) PROVE RowFollows'
  BY <1>5 DEF Activate, TaskDone
<1>6. ASSUME NEW h \in Attempt, FinishRead(h) PROVE RowFollows'
  BY <1>6 DEF FinishRead
<1>7. ASSUME NEW h \in Attempt, FinishSave(h) PROVE RowFollows'
  BY <1>7 DEF FinishSave
<1>8. ASSUME NEW h \in Attempt, FinishReturns(h) \/ FinishFails(h) PROVE RowFollows'
  BY <1>8 DEF FinishReturns, FinishFails
<1>9. QED
  BY <1>1, <1>2, <1>3, <1>4, <1>5, <1>6, <1>7, <1>8 DEF Next, Moves

(* What an attempt has read is the item of the run, or it read too early.    *)
LEMMA StepAttempts == Inv /\ TypeOK' /\ Next => Attempts'
<1> SUFFICES ASSUME Inv, TypeOK', Next PROVE Attempts'
  OBVIOUS
<1> USE ConsignmentAssumption DEF Inv, TypeOK, Row, NewRow, IdleCall, IdleAttempt, flow, Ownership,
          Execution, RowFollows, Attempts, StartedFirst, Written
<1>1. CASE CreateShell
  BY <1>1 DEF CreateShell
<1>2. CASE CompleteWorkflow
  BY <1>2 DEF CompleteWorkflow, Begun
<1>3. CASE Crash
  BY <1>3 DEF Crash
<1>4. ASSUME NEW c \in Caller, Moves(c) PROVE Attempts'
  <2>1. ASSUME NEW code \in Code, ReadInitialized(c, code) PROVE Attempts'
    BY <2>1 DEF ReadInitialized
  <2>2. CASE SaveInProgress(c)
    BY <2>2 DEF SaveInProgress
  <2>3. CASE StartWorkflow(c)
    BY <2>3 DEF StartWorkflow
  <2>4. CASE StartUnanswered(c)
    BY <2>4 DEF StartUnanswered
  <2>5. CASE Commit(c)
    BY <2>5 DEF Commit, Initialized
  <2>6. CASE Rollback(c)
    BY <2>6 DEF Rollback
  <2>7. QED
    BY <1>4, <2>1, <2>2, <2>3, <2>4, <2>5, <2>6 DEF Moves
<1>5. ASSUME NEW n \in Node, Activate(n) \/ TaskDone(n) PROVE Attempts'
  BY <1>5 DEF Activate, TaskDone
<1>6. ASSUME NEW h \in Attempt, FinishRead(h) PROVE Attempts'
  <2>1. Written(row)
    BY <1>6 DEF FinishRead, Written
  <2>2. UNCHANGED <<run, runCode, early>> /\ run = "completing"
    BY <1>6 DEF FinishRead
  <2>3. finish' = [finish EXCEPT ![h] = [pc |-> "read", seen |-> row]]
    BY <1>6 DEF FinishRead
  <2>4. QED
    BY <2>1, <2>2, <2>3 DEF Written
<1>7. ASSUME NEW h \in Attempt, FinishSave(h) PROVE Attempts'
  BY <1>7 DEF FinishSave
<1>8. ASSUME NEW h \in Attempt, FinishReturns(h) \/ FinishFails(h) PROVE Attempts'
  BY <1>8 DEF FinishReturns, FinishFails
<1>9. QED
  BY <1>1, <1>2, <1>3, <1>4, <1>5, <1>6, <1>7, <1>8 DEF Next, Moves

(* Nobody writes the row while the one who started the workflow has it.     *)
LEMMA StepStarted == Inv /\ TypeOK' /\ Next => StartedFirst'
<1> SUFFICES ASSUME Inv, TypeOK', Next PROVE StartedFirst'
  OBVIOUS
<1> USE ConsignmentAssumption DEF Inv, TypeOK, Row, NewRow, IdleCall, IdleAttempt, flow, Ownership,
          Execution, RowFollows, Attempts, StartedFirst, Written
<1>1. CASE CreateShell
  BY <1>1 DEF CreateShell
<1>2. CASE CompleteWorkflow
  BY <1>2 DEF CompleteWorkflow, Begun
<1>3. CASE Crash
  BY <1>3 DEF Crash
<1>4. ASSUME NEW c \in Caller, Moves(c) PROVE StartedFirst'
  <2>1. ASSUME NEW code \in Code, ReadInitialized(c, code) PROVE StartedFirst'
    BY <2>1 DEF ReadInitialized
  <2>2. CASE SaveInProgress(c)
    BY <2>2 DEF SaveInProgress
  <2>3. CASE StartWorkflow(c)
    BY <2>3 DEF StartWorkflow
  <2>4. CASE StartUnanswered(c)
    BY <2>4 DEF StartUnanswered
  <2>5. CASE Commit(c)
    BY <2>5 DEF Commit, Initialized
  <2>6. CASE Rollback(c)
    BY <2>6 DEF Rollback
  <2>7. QED
    BY <1>4, <2>1, <2>2, <2>3, <2>4, <2>5, <2>6 DEF Moves
<1>5. ASSUME NEW n \in Node, Activate(n) \/ TaskDone(n) PROVE StartedFirst'
  BY <1>5 DEF Activate, TaskDone
<1>6. ASSUME NEW h \in Attempt, FinishRead(h) PROVE StartedFirst'
  BY <1>6 DEF FinishRead
<1>7. ASSUME NEW h \in Attempt, FinishSave(h) PROVE StartedFirst'
  BY <1>7 DEF FinishSave
<1>8. ASSUME NEW h \in Attempt, FinishReturns(h) \/ FinishFails(h) PROVE StartedFirst'
  BY <1>8 DEF FinishReturns, FinishFails
<1>9. QED
  BY <1>1, <1>2, <1>3, <1>4, <1>5, <1>6, <1>7, <1>8 DEF Next, Moves

LEMMA InitInv == Init => Inv
<1> SUFFICES ASSUME Init PROVE Inv
  OBVIOUS
<1> USE ConsignmentAssumption DEF Init, NewRow, IdleCall, IdleAttempt
<1>1. TypeOK
  <2>1. NewRow \in Row
    BY DEF Row
  <2>2. call \in [Caller -> [pc : {"idle", "read", "saved", "started"}, seen : Row,
                            code : Code \cup {NoCode}]]
    BY <2>1
  <2>3. finish \in [Attempt -> [pc : {"idle", "read", "saved"}, seen : Row]]
    BY <2>1
  <2>4. early \in BOOLEAN
    OBVIOUS
  <2>5. /\ node \in [Node -> {"none", "active", "done"}]
        /\ task \in [Node -> {"none", "open", "ended"}]
        /\ run \in {"none", "running", "completing", "closed"}
    OBVIOUS
  <2>6. lock \in Caller \cup {Free} /\ runCode \in Code \cup {NoCode} /\ crashes \in 0..MaxCrashes
    OBVIOUS
  <2>7. QED
    BY <2>1, <2>2, <2>3, <2>4, <2>5, <2>6 DEF TypeOK
<1>2. Ownership /\ StartedFirst
  BY DEF Ownership, StartedFirst
<1>3. Execution /\ RowFollows
  BY DEF Execution, RowFollows
<1>4. Attempts
  BY DEF Attempts
<1>5. QED
  BY <1>1, <1>2, <1>3, <1>4 DEF Inv

LEMMA StepInv == Inv /\ [Next]_vars => Inv'
<1> SUFFICES ASSUME Inv, [Next]_vars PROVE Inv'
  OBVIOUS
<1>1. CASE Next
  <2>1. TypeOK'
    BY <1>1, StepTypes DEF Inv
  <2>2. QED
    BY <1>1, <2>1, StepOwnership, StepExecution, StepRow, StepAttempts, StepStarted DEF Inv
<1>2. CASE UNCHANGED vars
  BY <1>2 DEF vars, Inv, TypeOK, Ownership, Execution, RowFollows, Attempts, StartedFirst, Written
<1>3. QED
  BY <1>1, <1>2

LEMMA Invariant == Spec => []Inv
BY InitInv, StepInv, PTL DEF Spec

(* TypeOK: the row, the requests and the attempts keep their types.        *)
THEOREM TypeCorrect == Spec => []TypeOK
<1>1. Inv => TypeOK
  BY DEF Inv
<1>2. QED
  BY Invariant, <1>1, PTL

(* ItemIsRun: for any number of requests that have found INITIALIZED, the  *)
(* code stored in progress is the code of the workflow that runs.          *)
THEOREM OneWorkflowPerConsignment == Spec => []ItemIsRun
<1>1. Inv => ItemIsRun
  BY DEF Inv, RowFollows, ItemIsRun
<1>2. QED
  BY Invariant, <1>1, PTL

(* FinishedTruthful: whatever branches the workflow takes, and whatever    *)
(* attempts overlap or die, markConsignmentAsFinished writes FINISHED when *)
(* no task is open, and drops the code only if the workflow was over       *)
(* before the initialisation was committed.                                *)
THEOREM FinishedIsTrue == Spec => []FinishedTruthful
<1>1. Inv => FinishedTruthful
  BY DEF Inv, Execution, RowFollows, Written, FinishedTruthful
<1>2. QED
  BY Invariant, <1>1, PTL

(* FinishedIsFinal: a request that read INITIALIZED long ago cannot reopen *)
(* a finished consignment.                                                 *)
THEOREM FinishedStays == Spec => FinishedIsFinal
<1>1. Inv /\ [Next]_vars => [row.state = "FINISHED" => row'.state = "FINISHED"]_vars
  <2> SUFFICES ASSUME Inv, Next, row.state = "FINISHED" PROVE row'.state = "FINISHED"
    OBVIOUS
  <2>1. ASSUME NEW c \in Caller, Commit(c) PROVE FALSE
    BY <2>1 DEF Commit, Inv, StartedFirst
  <2>2. ASSUME NEW h \in Attempt, FinishSave(h) PROVE row'.state = "FINISHED"
    BY <2>2 DEF FinishSave, Inv, TypeOK, Row
  <2>3. CASE row' = row
    BY <2>3
  <2>4. QED
    BY <2>1, <2>2, <2>3 DEF Next, CreateShell, CompleteWorkflow, Crash, ReadInitialized,
         SaveInProgress, StartWorkflow, StartUnanswered, Rollback, Activate, TaskDone, FinishRead,
         FinishReturns, FinishFails
<1>2. QED
  BY Invariant, <1>1, PTL DEF Spec, FinishedIsFinal
=============================================================================
