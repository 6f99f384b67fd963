--------------------------- MODULE WorkflowTxProofs ---------------------------
(***************************************************************************)
(* Proofs about WorkflowTx, for every graph, any number of notifications   *)
(* at once and every order of the node ids.                                *)
(***************************************************************************)
EXTENDS WorkflowTx, TLAPS, WellFoundedInduction

----------------------------------------------------------------------------
(* The inductive invariant                                                 *)

(* Only a completed node has an outcome; a node with a task is open; the   *)
(* end node has no task, it is completed by the pass that opens it.        *)
RowsSound ==
  /\ \A n \in Node : row[n].outcome # NoOutcome => row[n].state = "COMPLETED"
  /\ \A n \in tasks : row[n].state # "LOCKED"
  /\ EndNode \notin tasks
  /\ EndNode \in Node => row[EndNode].state \in {"LOCKED", "COMPLETED"}

(* What a transaction has planned is an open row that obeys the same, for  *)
(* its own node and for nodes without a task.                              *)
Sound(t) ==
  /\ t.pc = "idle" => t.node = NoNode
  /\ t.pc # "idle" => t.node \in tasks
  /\ t.pc \in {"idle", "context", "node", "siblings"} =>
       DOMAIN t.plan = {} /\ t.opens = {} /\ t.fin = FALSE
  /\ t.pc = "siblings" => t.to = "COMPLETED"
  /\ t.pc = "write" => t.todo # {}
  /\ t.todo \subseteq DOMAIN t.plan
  /\ t.opens \subseteq DOMAIN t.plan \ {t.node, EndNode}
  /\ DOMAIN t.plan # {} => t.node \in DOMAIN t.plan
  /\ \A n \in DOMAIN t.plan :
       /\ t.plan[n].state # "LOCKED"
       /\ t.plan[n].outcome # NoOutcome => n = t.node /\ t.plan[n].state = "COMPLETED"
       /\ n = EndNode => t.plan[n].state = "COMPLETED"

(* The rows as the transaction computes with them.                         *)
Mine(t) == [row EXCEPT ![t.node] = t.plan[t.node]]

(* What was planned still fits the committed rows, whatever was committed  *)
(* since they were read: the node may still move, every other row of the   *)
(* plan is still LOCKED and its rule fulfilled with the transaction's own  *)
(* node, and a workflow found complete is.                                 *)
Fits(t) ==
  /\ t.pc = "siblings" => row[t.node].state # "COMPLETED"
  /\ t.node \in DOMAIN t.plan => row[t.node].state # "COMPLETED"
  /\ \A n \in DOMAIN t.plan \ {t.node} :
       row[n].state = "LOCKED" /\ Met(n, States(Mine(t)), Outcomes(Mine(t)))
  /\ t.fin => Finished(States(Applied(t)))

(* Who holds a node's row is to write it.                                  *)
Locks == \A n \in Node : owner[n] # Free => n \in DOMAIN tx[owner[n]].plan

(* One notification of a task is in flight.                                *)
Apart == OnePerTask => \A c, d \in Caller :
                         c # d /\ tx[c].node = tx[d].node => tx[c].node = NoNode

Inv ==
  /\ TypeOK
  /\ RowsSound
  /\ \A c \in Caller : Sound(tx[c])
  /\ Locks
  /\ Apart
  /\ ~missed => ~Overlooked(row)
  /\ Orderly => \A c \in Caller : Fits(tx[c])

----------------------------------------------------------------------------
(* What the completion of nodes does to a rule                             *)

(* A rule that waits for completed nodes stays fulfilled when the nodes    *)
(* other than the end node keep their completion and their outcomes.       *)
LEMMA MetMonotone ==
  ASSUME NEW n \in WaitsForCompletion,
         NEW st1, NEW oc1, NEW st2, NEW oc2,
         \A m \in Node \ {EndNode} : st1[m] = "COMPLETED" => st2[m] = "COMPLETED",
         \A m \in Node \ {EndNode} : oc1[m] # NoOutcome => oc2[m] = oc1[m],
         Met(n, st1, oc1)
  PROVE  Met(n, st2, oc2)
<1>0. n \in Node
  BY DEF WaitsForCompletion
<1>1. CASE Config[n] = {}
  <2>1. \A d \in DependsOn[n] : d \in Node \ {EndNode}
    BY <1>0, GraphAssumption
  <2> QED
    BY <1>1, <2>1 DEF Met, AllCompleted
<1>2. CASE Config[n] # {}
  <2>1. PICK g \in Config[n] : \A c \in g : Holds(c, st1, oc1)
    BY <1>2 DEF Met, Evaluate
  <2>2. ASSUME NEW c \in g
        PROVE  Holds(c, st2, oc2)
    <3>1. c \in Conditions(n) /\ c \in Condition
      BY <1>0, GraphAssumption DEF Conditions, Resolved
    <3>2. c.node \in Node \ {EndNode} /\ c.state \in {"COMPLETED", Any}
      BY <1>0, <3>1, GraphAssumption DEF Condition, WaitsForCompletion
    <3>3. c.outcome # Any => c.outcome # NoOutcome
      BY <3>1, GraphAssumption DEF Condition
    <3> QED
      BY <2>1, <3>2, <3>3 DEF Holds
  <2> QED
    BY <1>2, <2>2 DEF Met, Evaluate
<1> QED
  BY <1>1, <1>2

(* Without alternatives, a node whose completion fulfils a rule is one     *)
(* that every state fulfilling the rule has completed.                     *)
LEMMA Pivot ==
  ASSUME NEW n \in Node, NEW x \in Node, Conjunctive,
         NEW st0, NEW oc0, NEW st1, NEW oc1, NEW st2, NEW oc2,
         \A m \in Node \ {x} : st1[m] = st0[m] /\ oc1[m] = oc0[m],
         ~Met(n, st0, oc0), Met(n, st1, oc1), Met(n, st2, oc2),
         oc2[x] # NoOutcome => st2[x] = "COMPLETED"
  PROVE  st2[x] = "COMPLETED"
<1>1. CASE Config[n] = {}
  <2>1. \A d \in DependsOn[n] : d \in Node
    BY GraphAssumption
  <2>2. PICK d \in DependsOn[n] : st0[d] # "COMPLETED"
    BY <1>1 DEF Met, AllCompleted
  <2>3. st1[d] = "COMPLETED" /\ st2[d] = "COMPLETED"
    BY <1>1 DEF Met, AllCompleted
  <2> QED
    BY <2>1, <2>2, <2>3
<1>2. CASE Config[n] # {}
  <2>1. PICK g \in Config[n] : \A c \in g : Holds(c, st1, oc1)
    BY <1>2 DEF Met, Evaluate
  <2>2. PICK c \in g : ~Holds(c, st0, oc0)
    BY <1>2, <2>1 DEF Met, Evaluate
  <2>3. Holds(c, st1, oc1)
    BY <2>1, <2>2
  <2>4. Holds(c, st2, oc2)
    BY <1>2, <2>1, <2>2 DEF Met, Evaluate, Conjunctive
  <2>5. c \in Conditions(n) /\ c \in Condition /\ Valid(Config[n])
    BY <2>1, <2>2, GraphAssumption DEF Conditions, Resolved
  <2>6. c.node \in Node /\ (c.state # Any \/ c.outcome # Any)
    BY <2>1, <2>2, <2>5 DEF Condition, Valid
  <2>7. c.node = x
    BY <2>2, <2>3, <2>6 DEF Holds
  <2>8. c.state \in {"COMPLETED", Any}
    BY <2>5, GraphAssumption DEF Conjunctive, WaitsForCompletion
  <2>9. c.outcome # Any => c.outcome # NoOutcome
    BY <2>5, GraphAssumption DEF Condition
  <2> QED
    BY <2>4, <2>6, <2>7, <2>8, <2>9 DEF Holds
<1> QED
  BY <1>1, <1>2

(* When nothing is completed yet, only the rules of roots are fulfilled.   *)
LEMMA NothingMetAtFirst ==
  ASSUME Init PROVE ~Overlooked(row)
<1> SUFFICES ASSUME NEW n \in Node, row[n].state = "LOCKED",
                    Met(n, States(row), Outcomes(row))
             PROVE  FALSE
  BY DEF Overlooked
<1>1. \A m \in Node : row[m].state \in {"LOCKED", "READY"} /\ row[m].outcome = NoOutcome
  BY DEF Init
<1>2. n \notin Roots
  BY DEF Init
<1>3. CASE Config[n] = {}
  <2>1. PICK d \in DependsOn[n] : d \in Node
    BY <1>2, <1>3, GraphAssumption DEF Roots
  <2> QED
    BY <1>1, <1>3, <2>1 DEF Met, AllCompleted, States
<1>4. CASE Config[n] # {}
  <2>1. PICK g \in Config[n] : \A c \in g : Holds(c, States(row), Outcomes(row))
    BY <1>4 DEF Met, Evaluate
  <2>2. Valid(Config[n]) /\ g \subseteq Condition
    BY <2>1, GraphAssumption DEF Resolved
  <2>3. PICK c \in g : c \in Condition /\ (c.state # Any \/ c.outcome # Any)
    BY <2>1, <2>2 DEF Valid
  <2>4. c.state \notin {"LOCKED", "READY"} /\ c.outcome # NoOutcome
    BY <2>1, <2>3, GraphAssumption DEF Condition, Conditions
  <2>5. c.node \in Node /\ Holds(c, States(row), Outcomes(row))
    BY <2>1, <2>3 DEF Condition
  <2> QED
    BY <1>1, <2>3, <2>4, <2>5 DEF Holds, States, Outcomes
<1> QED
  BY <1>3, <1>4

(* The row to write next is one of those that remain.                      *)
LEMMA NextRowRemains ==
  ASSUME NEW t, t.todo \subseteq Node, t.todo # {}
  PROVE  NextRow(t) \in t.todo
<1> DEFINE R == {Rank[n] : n \in t.todo}
           L == {ss \in Nat \X Nat : ss[1] < ss[2]}
<1>1. R \subseteq Nat /\ R # {}
  BY TxAssumption
<1>2. IsWellFoundedOn(L, Nat)
  BY NatLessThanWellFounded DEF OpToRel
<1>3. PICK k \in R : \A i \in R : <<i, k>> \notin L
  <2> HIDE DEF R, L
  <2> QED
    BY <1>1, <1>2, WFMin
<1>4. ASSUME NEW i \in R
      PROVE  k <= i
  <2>1. i \in Nat /\ k \in Nat
    BY <1>1
  <2>2. ~(i < k)
    BY <1>3, <2>1
  <2> QED
    BY <2>1, <2>2
<1>5. \E n \in t.todo : \A m \in t.todo : Rank[n] <= Rank[m]
  BY <1>4
<1> QED
  BY <1>5 DEF NextRow

----------------------------------------------------------------------------
(* What the invariant says of the transactions in progress                 *)

(* The transaction's own view: its node with what it planned for it, and   *)
(* every other row as committed.                                           *)
LEMMA MineTypes ==
  ASSUME TypeOK, NEW c \in Caller, Sound(tx[c]), DOMAIN tx[c].plan # {}
  PROVE  /\ tx[c].node \in DOMAIN tx[c].plan /\ DOMAIN tx[c].plan \subseteq Node
         /\ tx[c].plan \in [DOMAIN tx[c].plan -> NodeRow]
         /\ Mine(tx[c])[tx[c].node] = tx[c].plan[tx[c].node]
         /\ \A m \in Node \ {tx[c].node} : Mine(tx[c])[m] = row[m]
<1>1. tx[c].plan \in Plans
  BY DEF TypeOK, Transaction
<1>2. DOMAIN tx[c].plan \subseteq Node /\ tx[c].plan \in [DOMAIN tx[c].plan -> NodeRow]
  BY <1>1 DEF Plans
<1>3. tx[c].node \in DOMAIN tx[c].plan
  BY DEF Sound
<1> QED
  BY <1>2, <1>3 DEF TypeOK, Mine

(* As long as no join has been missed, two transactions never plan to      *)
(* write the same row: the completion of either node would be needed to    *)
(* open it, and neither has seen the other's.                              *)
LEMMA Disjoint ==
  ASSUME Inv, Orderly, NEW c \in Caller, NEW d \in Caller, c # d,
         NEW n \in DOMAIN tx[c].plan, n \in DOMAIN tx[d].plan
  PROVE  FALSE
<1> DEFINE x == tx[c].node
           y == tx[d].node
<1>1. TypeOK /\ Sound(tx[c]) /\ Sound(tx[d]) /\ Fits(tx[c]) /\ Fits(tx[d])
  BY DEF Inv
<1>2. /\ n \in Node /\ x \in DOMAIN tx[c].plan /\ y \in DOMAIN tx[d].plan
      /\ x \in Node /\ y \in Node
      /\ Mine(tx[d])[y] = tx[d].plan[y]
      /\ \A m \in Node \ {x} : Mine(tx[c])[m] = row[m]
      /\ \A m \in Node \ {y} : Mine(tx[d])[m] = row[m]
  BY <1>1, MineTypes
<1>3. x # y
  BY <1>2, GraphAssumption DEF Inv, Apart, Orderly
<1>4. x \in tasks /\ y \in tasks
  BY <1>1, <1>2 DEF Sound
<1>5. row[x].state # "LOCKED" /\ row[y].state # "LOCKED"
  BY <1>4 DEF Inv, RowsSound
<1>6. n # x /\ n # y
  BY <1>1, <1>2, <1>3, <1>5 DEF Fits
<1>7. /\ row[n].state = "LOCKED"
      /\ Met(n, States(Mine(tx[c])), Outcomes(Mine(tx[c])))
      /\ Met(n, States(Mine(tx[d])), Outcomes(Mine(tx[d])))
  BY <1>1, <1>6 DEF Fits
<1>8. ~Met(n, States(row), Outcomes(row))
  BY <1>2, <1>7 DEF Inv, Orderly, Overlooked
<1>9. \A m \in Node \ {x} : /\ States(Mine(tx[c]))[m] = States(row)[m]
                            /\ Outcomes(Mine(tx[c]))[m] = Outcomes(row)[m]
  BY <1>2 DEF States, Outcomes
<1>10. Mine(tx[d])[x] = row[x]
  BY <1>2, <1>3
<1>11. Outcomes(Mine(tx[d]))[x] # NoOutcome => States(Mine(tx[d]))[x] = "COMPLETED"
  BY <1>2, <1>10 DEF States, Outcomes, Inv, RowsSound
<1>12. States(Mine(tx[d]))[x] = "COMPLETED"
  <2> HIDE DEF x, y
  <2> QED
    BY <1>2, <1>7, <1>8, <1>9, <1>11, Pivot DEF Orderly
<1>13. row[x].state = "COMPLETED"
  BY <1>2, <1>10, <1>12 DEF States
<1> QED
  BY <1>1, <1>2, <1>13 DEF Fits

(* A row that is completed is not one a transaction is about to write.     *)
LEMMA CompletedRowsStay ==
  ASSUME Inv, Orderly, NEW c \in Caller, NEW n \in DOMAIN tx[c].plan
  PROVE  n \in Node /\ row[n].state # "COMPLETED"
<1>1. TypeOK /\ Sound(tx[c]) /\ Fits(tx[c])
  BY DEF Inv
<1>2. n \in Node
  BY <1>1, MineTypes
<1> QED
  BY <1>1, <1>2 DEF Fits

----------------------------------------------------------------------------
(* The invariant holds initially and every step keeps it                   *)
LEMMA IdleTypes ==
  /\ Idle \in Transaction /\ Idle.pc = "idle" /\ Idle.node = NoNode
  /\ DOMAIN Idle.plan = {} /\ Idle.opens = {} /\ Idle.todo = {} /\ Idle.fin = FALSE
<1> DEFINE p == [n \in {} |-> NoOutcome]
<1>1. p \in [{} -> NodeRow] /\ DOMAIN p = {}
  OBVIOUS
<1>2. p \in Plans
  BY <1>1 DEF Plans
<1> HIDE DEF p
<1>3. Idle = [pc |-> "idle", node |-> NoNode, to |-> "LOCKED", oc |-> NoOutcome,
              status |-> "IN_PROGRESS", plan |-> p, todo |-> {},
              opens |-> {}, saved |-> FALSE, fin |-> FALSE]
  BY DEF Idle, p
<1> QED
  BY <1>1, <1>2, <1>3 DEF Transaction, Steps, NodeState, WfStatus

LEMMA InitInv == Init => Inv
<1> SUFFICES ASSUME Init PROVE Inv
  OBVIOUS
<1>2. TypeOK
  BY IdleTypes DEF Init, TypeOK, NodeRow, NodeState, WfStatus, Roots
<1>3. RowsSound
  BY GraphAssumption DEF Init, RowsSound, Roots
<1>4. \A c \in Caller : tx[c] = Idle
  BY DEF Init
<1>5. \A c \in Caller : Sound(tx[c]) /\ Fits(tx[c])
  BY <1>4, IdleTypes, GraphAssumption DEF Sound, Fits
<1>6. Locks /\ Apart
  BY <1>4, IdleTypes DEF Init, Locks, Apart
<1> QED
  BY <1>2, <1>3, <1>5, <1>6, NothingMetAtFirst DEF Inv

(* A statement that commits nothing: what its transaction has become is    *)
(* sound and fits the committed rows.                                      *)
LEMMA LocalStep ==
  ASSUME Inv, NEW c \in Caller, NEW t \in Transaction,
         Sound(t), Orderly => Fits(t), Set(c, t), UNCHANGED db,
         DOMAIN tx[c].plan \subseteq DOMAIN t.plan,
         \/ owner' = owner
         \/ \E r \in DOMAIN t.plan \cup {WfRow} : owner' = [owner EXCEPT ![r] = c],
         \/ t.node = tx[c].node
         \/ OnePerTask => \A d \in Caller : tx[d].node # t.node
  PROVE  Inv'
<1>1. /\ tx' \in [Caller -> Transaction] /\ tx'[c] = t
      /\ \A d \in Caller \ {c} : tx'[d] = tx[d]
  BY DEF Inv, TypeOK, Set
<1>2. UNCHANGED <<row, wfStatus, told, tasks, missed>>
  BY DEF db
<1>3. DOMAIN t.plan \subseteq Node
  BY DEF Transaction, Plans
<1>4. TypeOK'
  BY <1>1, <1>2, <1>3 DEF Inv, TypeOK
<1>5. RowsSound' /\ (~missed => ~Overlooked(row))'
  BY <1>2 DEF Inv, RowsSound, Overlooked
<1>6. \A d \in Caller : Sound(tx[d])'
  BY <1>1, <1>2 DEF Inv, Sound
<1>7. Locks'
  BY <1>1, <1>3, TxAssumption DEF Inv, TypeOK, Locks
<1>8. Apart'
  BY <1>1 DEF Inv, Apart
<1>9. ASSUME Orderly', NEW d \in Caller
      PROVE  Fits(tx[d])'
  <2>1. Orderly
    BY <1>2, <1>9 DEF Orderly
  <2>2. Fits(tx'[d])
    BY <1>1, <2>1 DEF Inv
  <2> QED
    BY <1>2, <2>2 DEF Fits, Mine, Applied
<1> QED
  BY <1>4, <1>5, <1>6, <1>7, <1>8, <1>9 DEF Inv

LEMMA BeginStep ==
  ASSUME Inv, NEW c \in Caller, NEW n \in Node, NEW to \in NodeState,
         NEW o \in Outcome \cup {NoOutcome}, Begin(c, n, to, o)
  PROVE  Inv'
<1> DEFINE t == [Idle EXCEPT !.pc = IF n \in Appends THEN "context" ELSE "node",
                             !.node = n, !.to = to, !.oc = o, !.status = wfStatus]
<1>1. /\ t \in Transaction /\ t.pc \in {"context", "node"} /\ t.node = n
      /\ DOMAIN t.plan = {} /\ t.opens = {} /\ t.todo = {} /\ t.fin = FALSE
  BY IdleTypes DEF Inv, TypeOK, Transaction, Steps
<1>2. n \in tasks /\ DOMAIN tx[c].plan = {}
  BY DEF Begin, At, Inv, Sound
<1>3. Sound(t) /\ Fits(t)
  <2> HIDE DEF t
  <2> QED
    BY <1>1, <1>2 DEF Sound, Fits
<1>4. /\ Set(c, t) /\ UNCHANGED <<db, owner>>
      /\ OnePerTask => \A d \in Caller : tx[d].node # t.node
  BY <1>1 DEF Begin
<1> HIDE DEF t
<1> QED
  BY <1>1, <1>2, <1>3, <1>4, LocalStep

LEMMA SaveContextStep ==
  ASSUME Inv, NEW c \in Caller, SaveContext(c) PROVE Inv'
<1> DEFINE t == [tx[c] EXCEPT !.pc = "node", !.saved = TRUE]
<1>1. tx[c] \in Transaction /\ Sound(tx[c]) /\ (Orderly => Fits(tx[c]))
  BY DEF Inv, TypeOK
<1>2. /\ t \in Transaction /\ t.pc = "node" /\ t.node = tx[c].node
      /\ t.plan = tx[c].plan /\ t.opens = tx[c].opens /\ t.todo = tx[c].todo
      /\ t.fin = tx[c].fin
  BY <1>1 DEF Transaction, Steps
<1>3. tx[c].pc = "context" /\ Set(c, t) /\ owner' = [owner EXCEPT ![WfRow] = c] /\ UNCHANGED db
  BY DEF SaveContext, At, Lock
<1> HIDE DEF t
<1>4. Sound(t) /\ Fits(t)
  BY <1>1, <1>2, <1>3 DEF Sound, Fits
<1> QED
  BY <1>2, <1>3, <1>4, LocalStep

(* A pass that plans nothing but its own node, or that finds the work done *)
(* already.                                                                *)
LEMMA ReadNodeStep ==
  ASSUME Inv, NEW c \in Caller,
         ReadNodeFailed(c) \/ ReadNodeInProgress(c) \/ ReadNodeCompleted(c)
  PROVE  Inv'
<1> DEFINE n == tx[c].node
           r == row[n]
<1>1. /\ tx[c] \in Transaction /\ Sound(tx[c]) /\ tx[c].pc = "node"
      /\ UNCHANGED <<db, owner>>
  BY DEF Inv, TypeOK, ReadNodeFailed, ReadNodeInProgress, ReadNodeCompleted, At
<1>2. /\ DOMAIN tx[c].plan = {} /\ tx[c].opens = {} /\ tx[c].todo = {} /\ tx[c].fin = FALSE
      /\ n \in tasks /\ n \in Node /\ n # EndNode
  BY <1>1 DEF Sound, Inv, TypeOK, RowsSound
<1>3. r \in NodeRow /\ (r.outcome # NoOutcome => r.state = "COMPLETED") /\ r.state # "LOCKED"
  BY <1>2 DEF Inv, TypeOK, RowsSound
<1>4. ASSUME NEW pc \in {"commit", "siblings"}, Set(c, [tx[c] EXCEPT !.pc = pc]),
             pc = "siblings" => tx[c].to = "COMPLETED" /\ r.state # "COMPLETED"
      PROVE  Inv'
  <2> DEFINE t == [tx[c] EXCEPT !.pc = pc]
  <2>1. /\ t \in Transaction /\ t.pc = pc /\ t.node = n /\ t.plan = tx[c].plan
        /\ t.opens = {} /\ t.todo = {} /\ t.fin = FALSE /\ t.to = tx[c].to
    BY <1>1, <1>2 DEF Transaction, Steps
  <2>2. Set(c, t)
    BY <1>4
  <2> HIDE DEF t
  <2>3. Sound(t) /\ Fits(t)
    BY <1>2, <1>4, <2>1 DEF Sound, Fits
  <2> QED
    BY <1>1, <2>1, <2>2, <2>3, LocalStep
<1>5. ASSUME NEW st \in {"IN_PROGRESS", "FAILED"}, NEW ws \in WfStatus,
             r.state # "COMPLETED",
             Set(c, [Plan(tx[c], [m \in {n} |-> [r EXCEPT !.state = st]], "write")
                       EXCEPT !.status = ws])
      PROVE  Inv'
  <2> DEFINE p == [m \in {n} |-> [r EXCEPT !.state = st]]
             t == [Plan(tx[c], p, "write") EXCEPT !.status = ws]
  <2>1. p \in [{n} -> NodeRow] /\ p[n].state = st /\ p[n].outcome = NoOutcome
    BY <1>3, <1>5 DEF NodeRow, NodeState
  <2>2. p \in Plans /\ DOMAIN p = {n}
    BY <1>2, <2>1 DEF Plans
  <2>3. Set(c, t)
    BY <1>5
  <2> HIDE DEF p
  <2>4. /\ t \in Transaction /\ t.pc = "write" /\ t.node = n /\ t.plan = p
        /\ t.opens = {} /\ t.todo = {n} /\ t.fin = FALSE
    BY <1>1, <1>2, <2>2 DEF Plan, Transaction, Steps
  <2> HIDE DEF t
  <2>5. Sound(t) /\ Fits(t)
    BY <1>2, <1>5, <2>1, <2>2, <2>4 DEF Sound, Fits
  <2> QED
    BY <1>1, <1>2, <2>2, <2>3, <2>4, <2>5, LocalStep
<1>6. CASE ReadNodeFailed(c)
  <2>1. CASE Set(c, [tx[c] EXCEPT !.pc = "commit"])
    BY <1>4, <2>1
  <2>2. CASE /\ r.state \in {"READY", "IN_PROGRESS"}
             /\ Set(c, [Plan(tx[c], [m \in {n} |-> [r EXCEPT !.state = "FAILED"]], "write")
                          EXCEPT !.status = "FAILED"])
    BY <1>5, <2>2 DEF WfStatus
  <2> QED
    BY <1>6, <2>1, <2>2 DEF ReadNodeFailed
<1>7. CASE ReadNodeInProgress(c)
  <2> DEFINE u == Plan(tx[c], [m \in {n} |-> [r EXCEPT !.state = "IN_PROGRESS"]], "write")
  <2>1. r.state \in {"READY", "FAILED", "IN_PROGRESS"} /\ Set(c, u)
    BY <1>7 DEF ReadNodeInProgress
  <2>2. u = [u EXCEPT !.status = tx[c].status] /\ tx[c].status \in WfStatus
    BY <1>1 DEF Plan, Transaction
  <2> QED
    BY <1>5, <2>1, <2>2
<1>8. CASE ReadNodeCompleted(c)
  <2>1. \/ Set(c, [tx[c] EXCEPT !.pc = "commit"])
        \/ /\ tx[c].to = "COMPLETED" /\ r.state \in {"READY", "IN_PROGRESS"}
           /\ Set(c, [tx[c] EXCEPT !.pc = "siblings"])
    BY <1>8 DEF ReadNodeCompleted
  <2> QED
    BY <1>4, <2>1
<1> QED
  BY <1>6, <1>7, <1>8

(* The pass that completes the node: what it plans is its node, the LOCKED *)
(* nodes whose rule that fulfils, and the end node only if it is among     *)
(* them.                                                                   *)
LEMMA ReadSiblingsStep ==
  ASSUME Inv, NEW c \in Caller, ReadSiblings(c) PROVE Inv'
<1> DEFINE n      == tx[c].node
           mine   == [row EXCEPT ![n] = [state |-> "COMPLETED", outcome |-> tx[c].oc]]
           U      == {m \in Node : /\ mine[m].state = "LOCKED"
                                   /\ Met(m, States(mine), Outcomes(mine))}
           opened == [m \in Node |-> IF m \in U THEN [mine[m] EXCEPT !.state = "READY"]
                                               ELSE mine[m]]
           closes == EndNode # NoNode /\ opened[EndNode].state = "READY"
           final  == [m \in Node |-> IF m = EndNode /\ closes
                                       THEN [opened[m] EXCEPT !.state = "COMPLETED"]
                                       ELSE opened[m]]
           fin    == Finished(States(final))
           p      == [m \in Changed(tx[c], U, closes) |-> final[m]]
           ready  == {m \in U : final[m].state = "READY"}
           t      == [Plan(tx[c], p, "write") EXCEPT
                        !.opens  = ready,
                        !.fin    = fin,
                        !.status = IF fin THEN "COMPLETED" ELSE @]
<1>1. /\ tx[c] \in Transaction /\ Sound(tx[c]) /\ (Orderly => Fits(tx[c]))
      /\ tx[c].pc = "siblings" /\ UNCHANGED <<db, owner>>
  BY DEF Inv, TypeOK, ReadSiblings, At
<1>2. Set(c, t)
  BY DEF ReadSiblings, SiblingPlan
<1>3. /\ DOMAIN tx[c].plan = {} /\ tx[c].to = "COMPLETED" /\ n \in tasks /\ n \in Node
      /\ n # EndNode /\ tx[c].oc \in Outcome \cup {NoOutcome}
      /\ (Orderly => row[n].state # "COMPLETED")
  BY <1>1 DEF Sound, Fits, Inv, TypeOK, RowsSound, Transaction
<1>4. row \in [Node -> NodeRow] /\ RowsSound
  BY DEF Inv, TypeOK
<1>5. /\ mine[n] = [state |-> "COMPLETED", outcome |-> tx[c].oc]
      /\ \A m \in Node \ {n} : mine[m] = row[m]
      /\ mine \in [Node -> NodeRow]
  BY <1>3, <1>4 DEF NodeRow, NodeState
<1>6. \A m \in U : /\ m \in Node \ {n} /\ row[m].state = "LOCKED"
                   /\ Met(m, States(mine), Outcomes(mine))
  <2> SUFFICES ASSUME NEW m \in U
               PROVE  /\ m \in Node \ {n} /\ row[m].state = "LOCKED"
                      /\ Met(m, States(mine), Outcomes(mine))
    OBVIOUS
  <2>1. m \in Node /\ mine[m].state = "LOCKED" /\ Met(m, States(mine), Outcomes(mine))
    <3> HIDE DEF mine
    <3> QED
      BY Zenon
  <2> HIDE DEF mine, U
  <2> QED
    BY <1>5, <2>1
<1> HIDE DEF mine
<1>7. U \subseteq Node
  OBVIOUS
<1> HIDE DEF U
<1>8. /\ \A m \in U : opened[m] = [mine[m] EXCEPT !.state = "READY"]
      /\ \A m \in Node \ U : opened[m] = mine[m]
      /\ opened \in [Node -> NodeRow]
  BY <1>5, <1>7 DEF NodeRow, NodeState
<1>9. closes <=> EndNode \in U
  <2>1. EndNode \in Node <=> EndNode # NoNode
    BY GraphAssumption
  <2>2. CASE EndNode \in U
    <3>1. opened[EndNode].state = "READY"
      BY <1>5, <1>7, <1>8, <2>2 DEF NodeRow
    <3> QED
      BY <1>7, <2>1, <2>2, <3>1
  <2>3. CASE EndNode \in Node \ U
    <3>1. opened[EndNode] = row[EndNode]
      BY <1>3, <1>5, <1>8, <2>3
    <3> QED
      BY <1>4, <2>3, <3>1 DEF RowsSound
  <2> QED
    BY <2>1, <2>2, <2>3
<1> HIDE DEF opened, closes
<1>10. Changed(tx[c], U, closes) = {n} \cup U
  BY <1>9 DEF Changed
<1>11. /\ \A m \in Node \ U : final[m] = mine[m]
       /\ \A m \in U : /\ final[m].outcome = row[m].outcome
                       /\ m = EndNode => final[m].state = "COMPLETED"
                       /\ m # EndNode => final[m].state = "READY"
       /\ final \in [Node -> NodeRow]
  <2>1. \A m \in Node : final[m] = IF m = EndNode /\ m \in U
                                     THEN [opened[m] EXCEPT !.state = "COMPLETED"]
                                     ELSE opened[m]
    BY <1>9
  <2>2. \A m \in U : opened[m] = [state |-> "READY", outcome |-> row[m].outcome]
    <3> SUFFICES ASSUME NEW m \in U
                 PROVE  opened[m] = [state |-> "READY", outcome |-> row[m].outcome]
      OBVIOUS
    <3>1. mine[m] = row[m] /\ row[m] \in NodeRow /\ opened[m] = [mine[m] EXCEPT !.state = "READY"]
      BY <1>4, <1>5, <1>6, <1>7, <1>8
    <3> QED
      BY <3>1 DEF NodeRow
  <2>3. final \in [Node -> NodeRow]
    <3>1. \A m \in Node : final[m] \in NodeRow
      BY <1>8, <2>1 DEF NodeRow, NodeState
    <3> QED
      BY <3>1
  <2> HIDE DEF final
  <2>4. ASSUME NEW m \in U
        PROVE  /\ final[m].outcome = row[m].outcome
               /\ m = EndNode => final[m].state = "COMPLETED"
               /\ m # EndNode => final[m].state = "READY"
    <3>1. m \in Node /\ opened[m] = [state |-> "READY", outcome |-> row[m].outcome]
      BY <1>7, <2>2
    <3>2. CASE m = EndNode
      <4>1. final[m] = [opened[m] EXCEPT !.state = "COMPLETED"]
        BY <2>1, <3>1, <3>2
      <4>2. final[m] = [state |-> "COMPLETED", outcome |-> row[m].outcome]
        BY <3>1, <4>1
      <4> QED
        BY <3>2, <4>2
    <3>3. CASE m # EndNode
      <4>1. final[m] = opened[m]
        BY <2>1, <3>1, <3>3
      <4> QED
        BY <3>1, <3>3, <4>1
    <3> QED
      BY <3>2, <3>3
  <2>5. \A m \in Node \ U : final[m] = mine[m]
    BY <1>8, <2>1
  <2> QED
    BY <2>3, <2>4, <2>5
<1>12. fin \in BOOLEAN
  BY DEF Finished
<1> HIDE DEF final, fin
<1>13. /\ DOMAIN p = {n} \cup U /\ \A m \in {n} \cup U : p[m] = final[m]
       /\ p \in [{n} \cup U -> NodeRow] /\ {n} \cup U \subseteq Node
  BY <1>3, <1>7, <1>10, <1>11
<1>14. p \in Plans
  BY <1>13 DEF Plans
<1>15. ready \subseteq U \ {EndNode}
  BY <1>11
<1> HIDE DEF p, ready
<1>16. /\ t \in Transaction /\ t.pc = "write" /\ t.node = n /\ t.plan = p
       /\ t.opens = ready /\ t.todo = {n} \cup U /\ t.fin = fin
  BY <1>1, <1>7, <1>12, <1>13, <1>14, <1>15 DEF Plan, Transaction, Steps, WfStatus
<1> HIDE DEF t
<1>17. Sound(t)
  <2>1. \A m \in U : final[m].outcome = NoOutcome
    BY <1>4, <1>6, <1>11 DEF RowsSound
  <2>2. n \notin U /\ final[n] = [state |-> "COMPLETED", outcome |-> tx[c].oc]
    BY <1>3, <1>5, <1>6, <1>11
  <2>3. ASSUME NEW m \in DOMAIN p
        PROVE  /\ p[m].state # "LOCKED"
               /\ p[m].outcome # NoOutcome => m = n /\ p[m].state = "COMPLETED"
               /\ m = EndNode => p[m].state = "COMPLETED"
    BY <1>3, <1>11, <1>13, <2>1, <2>2
  <2> QED
    BY <1>3, <1>6, <1>13, <1>15, <1>16, <2>3 DEF Sound
<1>18. ASSUME Orderly PROVE Fits(t)
  <2>1. p[n] = [state |-> "COMPLETED", outcome |-> tx[c].oc]
    BY <1>3, <1>5, <1>6, <1>11, <1>13
  <2>2. Mine(t) = mine
    BY <1>16, <2>1 DEF Mine, mine
  <2>3. \A m \in DOMAIN t.plan \ {t.node} :
           row[m].state = "LOCKED" /\ Met(m, States(Mine(t)), Outcomes(Mine(t)))
    BY <1>6, <1>13, <1>16, <2>2
  <2>4. Applied(t) = final
    <3>1. \A m \in Node \ ({n} \cup U) : final[m] = row[m]
      BY <1>5, <1>11
    <3> QED
      BY <1>11, <1>13, <1>16, <3>1 DEF Applied
  <2> QED
    BY <1>3, <1>16, <1>18, <2>3, <2>4 DEF Fits, fin
<1> QED
  BY <1>1, <1>2, <1>3, <1>16, <1>17, <1>18, LocalStep

LEMMA WriteRowStep ==
  ASSUME Inv, NEW c \in Caller, WriteRow(c) PROVE Inv'
<1> DEFINE n  == NextRow(tx[c])
           pc == IF tx[c].todo \ {n} # {} THEN "write"
                 ELSE IF SavesWorkflow(tx[c]) THEN "workflow" ELSE "commit"
           t  == [tx[c] EXCEPT !.todo = tx[c].todo \ {n}, !.pc = pc]
<1>1. /\ tx[c] \in Transaction /\ Sound(tx[c]) /\ (Orderly => Fits(tx[c]))
      /\ tx[c].pc = "write" /\ owner' = [owner EXCEPT ![n] = c] /\ UNCHANGED db
      /\ Set(c, t)
  BY DEF Inv, TypeOK, WriteRow, At, Lock
<1>2. tx[c].todo \subseteq Node /\ tx[c].todo # {}
  BY <1>1 DEF Sound, Transaction
<1>3. n \in tx[c].todo
  BY <1>2, NextRowRemains
<1>4. pc \in {"write", "workflow", "commit"} /\ (pc = "write" => tx[c].todo \ {n} # {})
  OBVIOUS
<1> HIDE DEF n, pc
<1>5. /\ t \in Transaction /\ t.pc = pc /\ t.node = tx[c].node /\ t.plan = tx[c].plan
      /\ t.opens = tx[c].opens /\ t.todo = tx[c].todo \ {n} /\ t.fin = tx[c].fin
  BY <1>1, <1>2, <1>4 DEF Transaction, Steps
<1> HIDE DEF t
<1>6. Sound(t)
  BY <1>1, <1>4, <1>5 DEF Sound
<1>7. Orderly => Fits(t)
  BY <1>1, <1>4, <1>5 DEF Fits, Mine, Applied
<1>8. n \in DOMAIN t.plan
  BY <1>1, <1>3, <1>5 DEF Sound
<1> QED
  BY <1>1, <1>5, <1>6, <1>7, <1>8, LocalStep

LEMMA SaveWorkflowStep ==
  ASSUME Inv, NEW c \in Caller, SaveWorkflow(c) PROVE Inv'
<1> DEFINE t == [tx[c] EXCEPT !.pc = "commit", !.saved = TRUE]
<1>1. /\ tx[c] \in Transaction /\ Sound(tx[c]) /\ (Orderly => Fits(tx[c]))
      /\ tx[c].pc = "workflow" /\ owner' = [owner EXCEPT ![WfRow] = c] /\ UNCHANGED db
      /\ Set(c, t)
  BY DEF Inv, TypeOK, SaveWorkflow, At, Lock
<1>2. /\ t \in Transaction /\ t.pc = "commit" /\ t.node = tx[c].node /\ t.plan = tx[c].plan
      /\ t.opens = tx[c].opens /\ t.todo = tx[c].todo /\ t.fin = tx[c].fin
  BY <1>1 DEF Transaction, Steps
<1> HIDE DEF t
<1>3. Sound(t) /\ (Orderly => Fits(t))
  BY <1>1, <1>2 DEF Sound, Fits, Mine, Applied
<1> QED
  BY <1>1, <1>2, <1>3, LocalStep

(* The end of a transaction gives its locks back.                          *)
LEMMA EndOfTransaction ==
  ASSUME Inv, NEW c \in Caller, Set(c, Idle), owner' = Release(c)
  PROVE  /\ tx' \in [Caller -> Transaction] /\ tx'[c] = Idle
         /\ \A d \in Caller \ {c} : tx'[d] = tx[d]
         /\ owner' \in [Node \cup {WfRow} -> Caller \cup {Free}]
         /\ Locks' /\ Apart'
<1>1. /\ tx' \in [Caller -> Transaction] /\ tx'[c] = Idle
      /\ \A d \in Caller \ {c} : tx'[d] = tx[d]
  BY IdleTypes DEF Inv, TypeOK, Set
<1>2. owner' \in [Node \cup {WfRow} -> Caller \cup {Free}]
  BY DEF Inv, TypeOK, Release
<1>3. ASSUME NEW n \in Node, owner'[n] # Free
      PROVE  n \in DOMAIN tx'[owner'[n]].plan
  <2>1. owner'[n] = owner[n] /\ owner[n] \in Caller \ {c}
    BY <1>3 DEF Inv, TypeOK, Release
  <2> QED
    BY <1>1, <2>1, TxAssumption DEF Inv, Locks
<1>4. Apart'
  BY <1>1, IdleTypes DEF Inv, Apart
<1> QED
  BY <1>1, <1>2, <1>3, <1>4 DEF Locks

LEMMA RollbackStep ==
  ASSUME Inv, NEW c \in Caller, Rollback(c) PROVE Inv'
<1>1. Set(c, Idle) /\ owner' = Release(c)
  BY DEF Rollback
<1>2. UNCHANGED <<row, wfStatus, told, tasks, missed>>
  BY DEF Rollback, db
<1>3. TypeOK' /\ RowsSound' /\ (~missed => ~Overlooked(row))'
  BY <1>1, <1>2, EndOfTransaction DEF Inv, TypeOK, RowsSound, Overlooked
<1>4. ASSUME NEW d \in Caller PROVE Sound(tx[d])' /\ (Orderly => Fits(tx[d]))'
  <2>1. Orderly' <=> Orderly
    BY <1>2 DEF Orderly
  <2>2. CASE d = c
    <3>1. tx'[d] = Idle
      BY <1>1, <2>2, EndOfTransaction
    <3> QED
      BY <3>1, IdleTypes, GraphAssumption DEF Sound, Fits
  <2>3. CASE d # c
    <3>1. tx'[d] = tx[d]
      BY <1>1, <2>3, EndOfTransaction
    <3> QED
      BY <1>2, <2>1, <3>1 DEF Inv, Sound, Fits, Mine, Applied
  <2> QED
    BY <2>2, <2>3
<1> QED
  BY <1>1, <1>3, <1>4, EndOfTransaction DEF Inv

(* What a commit does to the rows while no join has been missed: it takes  *)
(* back nothing that is completed, and touches no task but its own.        *)
LEMMA CommitKeeps ==
  ASSUME Inv, Orderly, NEW c \in Caller, Commit(c), NEW n \in Node
  PROVE  /\ row'[n] = IF n \in DOMAIN tx[c].plan THEN tx[c].plan[n] ELSE row[n]
         /\ row[n].state = "COMPLETED" => row'[n] = row[n]
         /\ n \in tasks \ {tx[c].node} => row'[n] = row[n]
<1>1. row'[n] = IF n \in DOMAIN tx[c].plan THEN tx[c].plan[n] ELSE row[n]
  BY DEF Commit, Applied
<1>2. n \in tasks \ {tx[c].node} => n \notin DOMAIN tx[c].plan
  BY DEF Inv, Fits, RowsSound
<1> QED
  BY <1>1, <1>2, CompletedRowsStay

LEMMA CommitRows ==
  ASSUME Inv, NEW c \in Caller, Commit(c)
  PROVE  TypeOK' /\ RowsSound' /\ (~missed => ~Overlooked(row))'
<1>1. Set(c, Idle) /\ owner' = Release(c)
  BY DEF Commit
<1>2. /\ tx[c] \in Transaction /\ Sound(tx[c])
      /\ row \in [Node -> NodeRow] /\ RowsSound
  BY DEF Inv, TypeOK
<1>3. /\ tx[c].plan \in [DOMAIN tx[c].plan -> NodeRow] /\ DOMAIN tx[c].plan \subseteq Node
      /\ tx[c].opens \subseteq Node
  BY <1>2 DEF Transaction, Plans
<1>4. /\ row' \in [Node -> NodeRow]
      /\ \A n \in DOMAIN tx[c].plan : row'[n] = tx[c].plan[n]
      /\ \A n \in Node \ DOMAIN tx[c].plan : row'[n] = row[n]
  BY <1>2, <1>3 DEF Commit, Applied
<1>5. TypeOK'
  BY <1>1, <1>2, <1>3, <1>4, EndOfTransaction DEF Inv, TypeOK, Commit, Transaction
<1>6. \A n \in Node : row'[n].outcome # NoOutcome => row'[n].state = "COMPLETED"
  BY <1>2, <1>3, <1>4 DEF Sound, RowsSound
<1>7. \A n \in tasks' : row'[n].state # "LOCKED"
  BY <1>2, <1>3, <1>4 DEF Sound, RowsSound, Commit, Inv, TypeOK
<1>8. EndNode \notin tasks'
  BY <1>2 DEF Sound, RowsSound, Commit
<1>9. EndNode \in Node => row'[EndNode].state \in {"LOCKED", "COMPLETED"}
  BY <1>2, <1>4 DEF Sound, RowsSound
<1>10. (~missed => ~Overlooked(row))'
  BY DEF Commit
<1> QED
  BY <1>5, <1>6, <1>7, <1>8, <1>9, <1>10 DEF RowsSound

(* What another transaction has planned still fits the rows afterwards.    *)
LEMMA CommitFits ==
  ASSUME Inv, Orderly, NEW c \in Caller, Commit(c), NEW d \in Caller \ {c},
         tx'[d] = tx[d], tx[d].pc # "idle"
  PROVE  Fits(tx[d])'
<1> DEFINE y == tx[d].node
           P == DOMAIN tx[d].plan
<1>1. /\ TypeOK /\ RowsSound /\ Sound(tx[c]) /\ Sound(tx[d])
      /\ Fits(tx[c]) /\ Fits(tx[d])
  BY DEF Inv
<1>2. y \in tasks /\ y \in Node /\ tx[c].node \in tasks
  BY <1>1 DEF Sound, TypeOK, Commit, At
<1>3. y # tx[c].node
  BY <1>2, GraphAssumption DEF Inv, TypeOK, Apart, Orderly
<1>4. row'[y] = row[y]
  BY <1>2, <1>3, CommitKeeps
<1>5. \A m \in Node : row[m].state = "COMPLETED" => row'[m] = row[m]
  BY CommitKeeps
<1>6. ASSUME P # {}
      PROVE  /\ \A m \in Node \ {y} : Mine(tx[d])'[m] = row'[m]
             /\ \A m \in Node \ {y} : Mine(tx[d])[m] = row[m]
             /\ Mine(tx[d])'[y] = tx[d].plan[y] /\ Mine(tx[d])[y] = tx[d].plan[y]
             /\ P \subseteq Node
  <2>1. row' \in [Node -> NodeRow]
    BY CommitRows DEF TypeOK
  <2> QED
    BY <1>1, <1>2, <1>6, <2>1, MineTypes DEF Mine
<1>7. ASSUME NEW n \in P \ {y}
      PROVE  /\ row'[n].state = "LOCKED"
             /\ Met(n, States(Mine(tx[d]))', Outcomes(Mine(tx[d]))')
  <2>1. /\ n \in Node /\ row[n].state = "LOCKED"
        /\ Met(n, States(Mine(tx[d])), Outcomes(Mine(tx[d])))
    BY <1>1, <1>6 DEF Fits
  <2>2. n \notin DOMAIN tx[c].plan
    BY <1>7, Disjoint
  <2>3. row'[n] = row[n]
    BY <2>1, <2>2, CommitKeeps
  <2>4. n \in WaitsForCompletion
    BY <2>1 DEF Orderly, Conjunctive
  <2>5. ASSUME NEW m \in Node
        PROVE  /\ States(Mine(tx[d]))[m] = "COMPLETED" => States(Mine(tx[d]))'[m] = "COMPLETED"
               /\ Outcomes(Mine(tx[d]))[m] # NoOutcome =>
                    Outcomes(Mine(tx[d]))'[m] = Outcomes(Mine(tx[d]))[m]
    <3>1. CASE m = y
      BY <1>6, <2>5, <3>1 DEF States, Outcomes
    <3>2. CASE m # y
      <4>1. row[m].outcome # NoOutcome => row[m].state = "COMPLETED"
        BY <1>1 DEF RowsSound
      <4> QED
        BY <1>5, <1>6, <2>5, <3>2, <4>1 DEF States, Outcomes
    <3> QED
      BY <3>1, <3>2
  <2>6. Met(n, States(Mine(tx[d]))', Outcomes(Mine(tx[d]))')
    BY <2>1, <2>4, <2>5, MetMonotone
  <2> QED
    BY <2>1, <2>3, <2>6
<1>8. ASSUME tx[d].fin PROVE Finished(States(Applied(tx[d])))'
  <2>1. Finished(States(Applied(tx[d])))
    BY <1>1, <1>8 DEF Fits
  <2>2. \A m \in Node : States(Applied(tx[d]))[m] = "COMPLETED"
                        => States(Applied(tx[d]))'[m] = "COMPLETED"
    BY <1>5 DEF States, Applied
  <2> QED
    BY <2>1, <2>2, GraphAssumption DEF Finished
<1> QED
  BY <1>1, <1>2, <1>4, <1>7, <1>8 DEF Fits

LEMMA CommitStep ==
  ASSUME Inv, NEW c \in Caller, Commit(c) PROVE Inv'
<1>1. Set(c, Idle) /\ owner' = Release(c)
  BY DEF Commit
<1>2. /\ tx'[c] = Idle /\ (\A d \in Caller \ {c} : tx'[d] = tx[d])
      /\ Locks' /\ Apart'
  BY <1>1, EndOfTransaction
<1>3. ASSUME NEW d \in Caller PROVE Sound(tx[d])'
  <2>1. CASE d = c
    BY <1>2, <2>1, IdleTypes DEF Sound
  <2>2. CASE d # c
    <3>1. tx'[d] = tx[d] /\ tasks \subseteq tasks'
      BY <1>2, <2>2 DEF Commit
    <3> QED
      BY <3>1 DEF Inv, Sound
  <2> QED
    BY <2>1, <2>2
<1>4. ASSUME Orderly', NEW d \in Caller PROVE Fits(tx[d])'
  <2>1. Orderly
    BY <1>4 DEF Orderly, Commit
  <2>2. CASE tx'[d].pc = "idle"
    BY <1>3, <2>2, GraphAssumption, CommitRows DEF Sound, Fits, TypeOK
  <2>3. CASE tx'[d].pc # "idle"
    <3>1. d # c /\ tx'[d] = tx[d]
      BY <1>2, <2>3, IdleTypes
    <3> QED
      BY <2>1, <2>3, <3>1, CommitFits
  <2> QED
    BY <2>2, <2>3
<1> QED
  BY <1>2, <1>3, <1>4, CommitRows DEF Inv

LEMMA NextInv == Inv /\ [Next]_vars => Inv'
<1> SUFFICES ASSUME Inv, [Next]_vars PROVE Inv'
  OBVIOUS
<1>1. CASE UNCHANGED vars
  BY <1>1 DEF vars, Inv, TypeOK, RowsSound, Sound, Locks, Apart, Overlooked, Orderly, Fits,
              Mine, Applied
<1>2. ASSUME NEW c \in Caller,
             \/ \E n \in Node, to \in {"IN_PROGRESS", "COMPLETED", "FAILED"},
                   o \in Outcome \cup {NoOutcome} : Begin(c, n, to, o)
             \/ SaveContext(c)
             \/ ReadNodeFailed(c) \/ ReadNodeInProgress(c) \/ ReadNodeCompleted(c)
             \/ ReadSiblings(c) \/ WriteRow(c) \/ SaveWorkflow(c)
             \/ Commit(c) \/ Rollback(c)
      PROVE  Inv'
  <2>1. {"IN_PROGRESS", "COMPLETED", "FAILED"} \subseteq NodeState
    BY DEF NodeState
  <2> QED
    BY <1>2, <2>1, BeginStep, SaveContextStep, ReadNodeStep, ReadSiblingsStep, WriteRowStep,
       SaveWorkflowStep, CommitStep, RollbackStep
<1> QED
  BY <1>1, <1>2 DEF Next

LEMMA Invariance == Spec => []Inv
BY InitInv, NextInv, PTL DEF Spec

----------------------------------------------------------------------------
(* Theorems                                                                *)

(* Every row, task, lock and transaction in progress is of its type,       *)
(* whatever notifications overlap.                                         *)
THEOREM TxTypeCorrect == Spec => []TypeOK
<1>1. Inv => TypeOK
  BY DEF Inv
<1> QED
  BY <1>1, Invariance, PTL

(* While no rule has an alternative and no join has been missed, at most   *)
(* one of the transactions in progress opens a node, and only a node that  *)
(* has no task yet: TaskManager.InitTask is called once for it.            *)
THEOREM NodesOpenOnce == Spec => []OpenedOnce
<1>1. Inv => OpenedOnce
  <2> SUFFICES ASSUME Inv, Orderly
               PROVE  /\ \A c \in Caller : tx[c].opens \cap tasks = {}
                      /\ \A c, d \in Caller : c # d => tx[c].opens \cap tx[d].opens = {}
    BY DEF OpenedOnce
  <2>1. \A c \in Caller : tx[c].opens \subseteq DOMAIN tx[c].plan \ {tx[c].node}
    BY DEF Inv, Sound
  <2>2. \A c \in Caller : tx[c].opens \cap tasks = {}
    BY <2>1 DEF Inv, Fits, RowsSound
  <2>3. \A c, d \in Caller : c # d => tx[c].opens \cap tx[d].opens = {}
    BY <2>1, Disjoint
  <2> QED
    BY <2>2, <2>3
<1> QED
  BY <1>1, Invariance, PTL

(* While notifications are Orderly (one in flight per task, no rule with   *)
(* alternatives, no join missed) no transaction waits for one that waits   *)
(* itself, in whatever order the rows' locks are asked for: then only the  *)
(* lock of the workflow row is ever contended, and its holder asks for no  *)
(* other.  The theorem claims nothing about other states.                  *)
THEOREM NobodyWaitsForAWaiter == Spec => []NoDeadlock
<1>1. Inv => NoDeadlock
  <2> SUFFICES ASSUME Inv, Orderly, NEW c \in Caller, NEW d \in Caller, NEW f \in Caller,
                      Waits(c, d), Waits(d, f)
               PROVE  FALSE
    BY DEF NoDeadlock
  <2>1. ASSUME NEW g \in Caller, NEW h \in Caller, Waits(g, h)
        PROVE  ~At(g, "write") /\ owner[WfRow] = h /\ g # h
    <3>1. CASE At(g, "write")
      <4>1. tx[g].todo # {} /\ tx[g].todo \subseteq DOMAIN tx[g].plan
        BY <3>1 DEF At, Inv, Sound
      <4>2. tx[g].todo \subseteq Node
        BY DEF Inv, TypeOK, Transaction
      <4>3. NextRow(tx[g]) \in DOMAIN tx[g].plan /\ NextRow(tx[g]) \in Node
        BY <4>1, <4>2, NextRowRemains
      <4>4. owner[NextRow(tx[g])] = h /\ g # h
        BY <2>1, <3>1 DEF Waits, Wants
      <4>5. NextRow(tx[g]) \in DOMAIN tx[h].plan
        BY <4>3, <4>4, TxAssumption DEF Inv, Locks
      <4> QED
        BY <4>3, <4>4, <4>5, Disjoint
    <3>2. CASE ~At(g, "write")
      BY <2>1, <3>2 DEF Waits, Wants
    <3> QED
      BY <3>1, <3>2
  <2> QED
    BY <2>1
<1> QED
  BY <1>1, Invariance, PTL

----------------------------------------------------------------------------
(* The promise of DependencyOrder                                          *)
LEMMA PromiseInit == Init => Promise!Init
<1> SUFFICES ASSUME Init PROVE Promise!Init
  OBVIOUS
<1>1. /\ \A n \in Node : row[n].state = IF n \in Roots THEN "READY" ELSE "LOCKED"
      /\ \A n \in Node : row[n].outcome = NoOutcome
      /\ told = FALSE
  BY DEF Init
<1>2. Roots \subseteq Node
  BY DEF Roots
<1> QED
  BY <1>1, <1>2 DEF Promise!Init, Promise!Roots, Roots, Outcomes

(* A statement that commits nothing is a stutter of it.                    *)
LEMMA LocalAdvance ==
  ASSUME Inv, UNCHANGED <<row, told>> PROVE Promise!Advance
BY DEF Promise!Advance, Outcomes

(* A commit is one of its steps.                                           *)
LEMMA CommitAdvance ==
  ASSUME Inv, Orderly, NEW c \in Caller, Commit(c)
  PROVE  Promise!Advance
<1> DEFINE t     == tx[c]
           open  == {n \in Node : row[n].state # "LOCKED"}
           done  == {n \in Node : row[n].state = "COMPLETED"}
           open1 == {n \in Node : row'[n].state # "LOCKED"}
           done1 == {n \in Node : row'[n].state = "COMPLETED"}
<1>1. Sound(t) /\ Fits(t) /\ RowsSound /\ TypeOK /\ t.pc = "commit"
  BY DEF Inv, Commit, At
<1>2. \A n \in Node :
        /\ row'[n] = IF n \in DOMAIN t.plan THEN t.plan[n] ELSE row[n]
        /\ row[n].state = "COMPLETED" => row'[n] = row[n]
  BY CommitKeeps
<1>3. open \subseteq open1 /\ done \subseteq done1 /\ done1 \subseteq open1
  BY <1>1, <1>2 DEF Sound
<1>4. ASSUME NEW n \in open1 \ open
      PROVE  Promise!Fulfilled(n, done1, Outcomes(row'))
  <2>1. n \in Node /\ n \in DOMAIN t.plan /\ row[n].state = "LOCKED"
    BY <1>2
  <2>2. t.node \in tasks /\ t.node \in Node
    BY <1>1 DEF Sound, TypeOK
  <2>3. n # t.node
    BY <1>1, <2>1, <2>2 DEF RowsSound
  <2>4. Met(n, States(Mine(t)), Outcomes(Mine(t)))
    BY <1>1, <2>1, <2>3 DEF Fits
  <2>5. \A m \in Node : Mine(t)[m].state = "COMPLETED" => row'[m] = Mine(t)[m]
    BY <1>1, <1>2, <2>1, <2>2, MineTypes
  <2>6. \A m \in Node : Mine(t)[m].outcome # NoOutcome => Mine(t)[m].state = "COMPLETED"
    <3>1. t.plan[t.node].outcome # NoOutcome => t.plan[t.node].state = "COMPLETED"
      BY <1>1, <2>1 DEF Sound
    <3>2. \A m \in Node : row[m].outcome # NoOutcome => row[m].state = "COMPLETED"
      BY <1>1 DEF RowsSound
    <3>3. /\ Mine(t)[t.node] = t.plan[t.node]
          /\ \A m \in Node \ {t.node} : Mine(t)[m] = row[m]
      BY <1>1, <2>1, MineTypes
    <3> QED
      BY <3>1, <3>2, <3>3
  <2>7. CASE Config[n] = {}
    <3>1. DependsOn[n] \subseteq Node
      BY <2>1, GraphAssumption
    <3>2. \A m \in DependsOn[n] : Mine(t)[m].state = "COMPLETED"
      BY <2>4, <2>7, <3>1 DEF Met, AllCompleted, States
    <3> QED
      BY <2>5, <2>7, <3>1, <3>2 DEF Promise!Fulfilled
  <2>8. CASE Config[n] # {}
    <3>1. PICK g \in Config[n] : \A x \in g : Holds(x, States(Mine(t)), Outcomes(Mine(t)))
      BY <2>4, <2>8 DEF Met, Evaluate
    <3>2. ASSUME NEW x \in g
          PROVE  x.node \in done1 /\ (x.outcome = Any \/ Outcomes(row')[x.node] = x.outcome)
      <4>1. x \in Condition /\ x \in Conditions(n) /\ Valid(Config[n])
        BY <2>1, <3>1, GraphAssumption DEF Conditions, Resolved
      <4>2. x.node \in Node /\ (x.state # Any \/ x.outcome # Any) /\ x.outcome # NoOutcome
        BY <3>1, <4>1, GraphAssumption DEF Condition, Valid
      <4>3. x.state \in {"COMPLETED", Any}
        BY <2>1, <4>1 DEF Orderly, Conjunctive, WaitsForCompletion
      <4>4. /\ x.state = Any \/ Mine(t)[x.node].state = x.state
            /\ x.outcome = Any \/ Mine(t)[x.node].outcome = x.outcome
        BY <3>1, <4>2 DEF Holds, States, Outcomes
      <4>5. Mine(t)[x.node].state = "COMPLETED"
        BY <2>6, <4>2, <4>3, <4>4
      <4>6. row'[x.node] = Mine(t)[x.node]
        BY <2>5, <4>2, <4>5
      <4> QED
        BY <4>2, <4>4, <4>5, <4>6 DEF Outcomes
    <3> QED
      BY <2>8, <3>1, <3>2 DEF Promise!Fulfilled
  <2> QED
    BY <2>7, <2>8
<1>5. ASSUME NEW n \in Node, Outcomes(row')[n] # Outcomes(row)[n]
      PROVE  n \in done1 \ done
  <2>1. row'[n].outcome # row[n].outcome
    BY <1>5 DEF Outcomes
  <2>2. n \in DOMAIN t.plan /\ row[n].state # "COMPLETED"
    BY <1>2, <2>1
  <2>3. row[n].outcome = NoOutcome /\ row'[n] = t.plan[n]
    BY <1>1, <1>2, <2>2 DEF RowsSound
  <2> QED
    BY <1>1, <2>1, <2>2, <2>3 DEF Sound
<1>6. told' = (told \/ t.fin)
  BY DEF Commit
<1>7. t.fin => Promise!Complete(done1)
  <2>1. row' = Applied(t)
    BY DEF Commit
  <2> QED
    BY <1>1, <2>1, GraphAssumption DEF Fits, Finished, States, Promise!Complete
<1>8. /\ open' = open1 /\ done' = done1 /\ Outcomes(row)' = Outcomes(row')
  BY DEF Outcomes
<1> QED
  BY <1>3, <1>4, <1>5, <1>6, <1>7, <1>8 DEF Promise!Advance

(* The overlapping transactions keep the promise of DependencyOrder as     *)
(* long as no rule has an alternative and no join has been missed: a node  *)
(* is opened only when its rule is fulfilled, completions and outcomes are *)
(* final, and the handler hears of the end of a workflow that has ended.   *)
THEOREM TxKeepsPromise == Spec => KeepsPromise
<1>1. Inv /\ [Next]_vars => (Orderly => Promise!Advance) \/ UNCHANGED vars
  <2> SUFFICES ASSUME Inv, Next, Orderly PROVE Promise!Advance
    OBVIOUS
  <2>1. PICK c \in Caller : Commit(c) \/ UNCHANGED db
    BY DEF Next, Begin, SaveContext, ReadNodeFailed, ReadNodeInProgress, ReadNodeCompleted,
           ReadSiblings, WriteRow, SaveWorkflow, Rollback
  <2>2. CASE Commit(c)
    BY <2>2, CommitAdvance
  <2>3. CASE UNCHANGED db
    BY <2>3, LocalAdvance DEF db
  <2> QED
    BY <2>1, <2>2, <2>3
<1> QED
  BY <1>1, PromiseInit, Invariance, PTL DEF Spec, KeepsPromise
=============================================================================
