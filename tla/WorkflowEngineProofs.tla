------------------------- MODULE WorkflowEngineProofs -------------------------
(***************************************************************************)
(* Proofs about WorkflowEngine, for every graph, configuration, set of     *)
(* outcomes and set of callers that GraphAssumption allows.                *)
(***************************************************************************)
EXTENDS WorkflowEngine, TLAPS

Step == [Next]_vars

----------------------------------------------------------------------------
(* What the completion of nodes does to a rule.                            *)

(* A rule that waits for completed nodes stays fulfilled when the nodes    *)
(* other than the end node keep their completion and their outcomes.       *)
LEMMA MetMonotone ==
  ASSUME NEW n \in WaitsForCompletion,
         NEW st1, NEW oc1, NEW st2, NEW oc2,
         \A m \in Node \ {EndNode} : st1[m] = "COMPLETED" => st2[m] = "COMPLETED",
         \A m \in Node \ {EndNode} : oc1[m] # NoOutcome => oc2[m] = oc1[m],
         Met(n, st1, oc1)
  PROVE  Met(n, st2, oc2)
<1>0. n \in Node
  BY DEF WaitsForCompletion
<1>1. CASE Config[n] = {}
  <2>1. \A d \in DependsOn[n] : d \in Node \ {EndNode}
    BY <1>0, GraphAssumption
  <2> QED
    BY <1>1, <2>1 DEF Met, AllCompleted
<1>2. CASE Config[n] # {}
  <2>1. PICK g \in Config[n] : \A c \in g : Holds(c, st1, oc1)
    BY <1>2 DEF Met, Evaluate
  <2>2. ASSUME NEW c \in g
        PROVE  Holds(c, st2, oc2)
    <3>1. c \in Conditions(n) /\ c \in Condition
      BY <1>0, GraphAssumption DEF Conditions, Resolved
    <3>2. c.node \in Node \ {EndNode} /\ c.state \in {"COMPLETED", Any}
      BY <1>0, <3>1, GraphAssumption DEF Condition, Resolved, Valid, WaitsForCompletion
    <3>3. c.outcome # Any => c.outcome # NoOutcome
      BY <3>1, GraphAssumption DEF Condition
    <3> QED
      BY <2>1, <3>2, <3>3 DEF Holds
  <2> QED
    BY <1>2, <2>2 DEF Met, Evaluate
<1> QED
  BY <1>1, <1>2

----------------------------------------------------------------------------
LEMMA TypeStep == TypeOK /\ Step => TypeOK'
<1> SUFFICES ASSUME TypeOK, Step PROVE TypeOK'
  OBVIOUS
<1> USE DEF TypeOK, NodeState
<1>1. CASE CommitStart \/ AbortStart
  BY <1>1 DEF CommitStart, AbortStart, rows
<1>2. CASE Crash
  <2>1. UNION {pending[c] : c \in Caller} \subseteq Node
    OBVIOUS
  <2> QED
    BY <1>2, <2>1 DEF Crash, rows
<1>3. ASSUME NEW c \in Caller, BeginStart(c)
      PROVE  TypeOK'
  BY <1>3 DEF BeginStart, rows, Roots
<1>4. ASSUME NEW c \in Caller, RegisterFails(c)
      PROVE  TypeOK'
  BY <1>4 DEF RegisterFails, rows
<1>5. ASSUME NEW c \in Caller, NEW n \in Node, Register(c, n)
      PROVE  TypeOK'
  BY <1>5 DEF Register, rows
<1>6. ASSUME NEW c \in Caller, NEW n \in Node,
             UpdateInProgress(c, n) \/ UpdateFailed(c, n)
      PROVE  TypeOK'
  BY <1>6 DEF UpdateInProgress, UpdateFailed
<1>7. ASSUME NEW c \in Caller, NEW n \in Node, NEW o \in Outcome \cup {NoOutcome},
             UpdateCompleted(c, n, o)
      PROVE  TypeOK'
  BY <1>7 DEF UpdateCompleted, MarkDone, Unlocked, Open, CloseEnd
<1>8. CASE UNCHANGED vars
  BY <1>8 DEF vars
<1> QED
  BY <1>1, <1>2, <1>3, <1>4, <1>5, <1>6, <1>7, <1>8 DEF Next, Step

(* Every variable keeps its type.                                          *)
THEOREM TypeCorrect == Spec => []TypeOK
<1>1. Init => TypeOK
  BY DEF Init, TypeOK, NodeState
<1> QED
  BY <1>1, TypeStep, PTL DEF Spec, Step

----------------------------------------------------------------------------
(* The inductive invariant.  UnlockJustified and NoMissedUnlock need to    *)
(* know that an outcome belongs to a completed node; TaskOncePerNode needs *)
(* the state of the start: nothing is registered before it, and the roots  *)
(* are open from the first moment.                                         *)

OutcomeOfCompleted ==
  \A n \in Node : outcome[n] # NoOutcome => nodeState[n] = "COMPLETED"

StartsWithRoots ==
  /\ \A n \in Roots : nodeState[n] # "LOCKED"
  /\ phase = "none" => /\ tasks = {}
                       /\ \A c \in Caller : pending[c] = {}
  /\ phase \in {"none", "starting"} =>
        \A n \in Node : nodeState[n] # "LOCKED" => n \in Roots

IsAccounted(n) == n \in tasks \/ n \in dropped \/ \E c \in Caller : n \in pending[c]

Accounted ==
  phase \in {"starting", "running"} =>
    \A n \in Node : nodeState[n] # "LOCKED" /\ n # EndNode => IsAccounted(n)

Registration ==
  /\ \A c \in Caller : \A n \in pending[c] : n \notin tasks
  /\ \A c, d \in Caller : c # d => \A n \in pending[c] : n \notin pending[d]
  /\ \A n \in tasks : nodeState[n] # "LOCKED" /\ n # EndNode
  /\ \A c \in Caller : \A n \in pending[c] : nodeState[n] # "LOCKED" /\ n # EndNode

Inv ==
  /\ TypeOK
  /\ OutcomeOfCompleted
  /\ StartsWithRoots
  /\ Registration
  /\ Accounted
  /\ UnlockJustified
  /\ NoMissedUnlock
  /\ StatusTruthful

(* No step takes a completion or an outcome back, or locks a node again.   *)
LEMMA StepsKeepCompletion ==
  ASSUME TypeOK, OutcomeOfCompleted, Step
  PROVE  \A n \in Node :
           /\ nodeState[n] = "COMPLETED" => nodeState'[n] = "COMPLETED"
           /\ nodeState[n] # "LOCKED" => nodeState'[n] # "LOCKED"
           /\ outcome[n] # NoOutcome => outcome'[n] = outcome[n]
           /\ outcome'[n] # outcome[n] => nodeState[n] # "COMPLETED" /\ nodeState'[n] = "COMPLETED"
           /\ outcome'[n] # NoOutcome => nodeState'[n] = "COMPLETED"
<1> USE DEF TypeOK, NodeState, OutcomeOfCompleted
<1>1. CASE UNCHANGED rows
  BY <1>1 DEF rows
<1>2. ASSUME NEW c \in Caller, NEW n \in Node, UpdateInProgress(c, n) \/ UpdateFailed(c, n)
      PROVE  \A m \in Node :
               /\ nodeState'[m] = IF m = n THEN nodeState'[n] ELSE nodeState[m]
               /\ nodeState[n] \in {"READY", "IN_PROGRESS", "FAILED"}
               /\ nodeState'[n] \in {"IN_PROGRESS", "FAILED"}
               /\ outcome' = outcome
  BY <1>2 DEF UpdateInProgress, UpdateFailed
<1>3. ASSUME NEW c \in Caller, NEW n \in Node, NEW o \in Outcome \cup {NoOutcome},
             UpdateCompleted(c, n, o)
      PROVE  \A m \in Node :
               /\ nodeState[n] \in {"READY", "IN_PROGRESS"}
               /\ nodeState[m] = "COMPLETED" \/ m = n => nodeState'[m] = "COMPLETED"
               /\ nodeState[m] # "LOCKED" => nodeState'[m] # "LOCKED"
               /\ outcome'[m] = IF m = n THEN o ELSE outcome[m]
  BY <1>3 DEF UpdateCompleted, MarkDone, Unlocked, Open, CloseEnd
<1>4. \/ UNCHANGED rows
      \/ \E c \in Caller, n \in Node : UpdateInProgress(c, n) \/ UpdateFailed(c, n)
      \/ \E c \in Caller, n \in Node, o \in Outcome \cup {NoOutcome} : UpdateCompleted(c, n, o)
  BY DEF Step, Next, vars, CommitStart, AbortStart, Crash, BeginStart, RegisterFails,
         Register, rows
<1> QED
  BY <1>1, <1>2, <1>3, <1>4

(* Only a completion unlocks or completes anything but its own node.       *)
LEMMA CompletionEffect ==
  ASSUME TypeOK, NEW c \in Caller, NEW n \in Node, NEW o \in Outcome \cup {NoOutcome},
         UpdateCompleted(c, n, o)
  PROVE  LET st == MarkDone(n)
             U == Unlocked(st, outcome')
         IN  /\ U = {m \in Node : st[m] = "LOCKED" /\ Met(m, st, outcome')}
             /\ st \in [Node -> NodeState]
             /\ nodeState' \in [Node -> NodeState]
             /\ \A m \in Node \ {EndNode} :
                  nodeState'[m] = IF m \in U THEN "READY" ELSE st[m]
             /\ EndNode \in Node =>
                  nodeState'[EndNode] = IF EndNode \in U \/ st[EndNode] = "READY"
                                          THEN "COMPLETED" ELSE st[EndNode]
             /\ \A m \in Node : st[m] = IF m = n THEN "COMPLETED" ELSE nodeState[m]
             /\ pending' = [pending EXCEPT ![c] = U \ {EndNode}]
             /\ \A m \in Node : outcome'[m] = IF m = n THEN o ELSE outcome[m]
             /\ nodeState[n] \in {"READY", "IN_PROGRESS"}
<1> USE DEF TypeOK, NodeState
<1>1. /\ outcome' = [outcome EXCEPT ![n] = o]
      /\ nodeState' = CloseEnd(Open(MarkDone(n), Unlocked(MarkDone(n), outcome')))
      /\ pending' = [pending EXCEPT ![c] =
                       {m \in Unlocked(MarkDone(n), outcome') : nodeState'[m] = "READY"}]
      /\ nodeState[n] \in {"READY", "IN_PROGRESS"}
  BY DEF UpdateCompleted
<1>2. MarkDone(n) \in [Node -> NodeState]
      /\ \A m \in Node : MarkDone(n)[m] = IF m = n THEN "COMPLETED" ELSE nodeState[m]
  BY DEF MarkDone
<1> DEFINE st == MarkDone(n)
           U == Unlocked(st, outcome')
<1> HIDE DEF st
<1>3. U = {m \in Node : st[m] = "LOCKED" /\ Met(m, st, outcome')}
  BY DEF Unlocked
<1> HIDE DEF U
<1>4. /\ nodeState' \in [Node -> NodeState]
      /\ \A m \in Node \ {EndNode} : nodeState'[m] = IF m \in U THEN "READY" ELSE st[m]
      /\ EndNode \in Node =>
           nodeState'[EndNode] = IF EndNode \in U \/ st[EndNode] = "READY"
                                   THEN "COMPLETED" ELSE st[EndNode]
  BY <1>1, <1>2, <1>3 DEF Open, CloseEnd, st, U
<1>5. {m \in U : nodeState'[m] = "READY"} = U \ {EndNode}
  BY <1>3, <1>4
<1> QED
  BY <1>1, <1>2, <1>3, <1>4, <1>5 DEF st, U

LEMMA InitInv == Init => Inv
<1> SUFFICES ASSUME Init PROVE Inv
  OBVIOUS
<1>1. TypeOK /\ OutcomeOfCompleted /\ StartsWithRoots /\ Registration /\ Accounted
  BY DEF Init, TypeOK, NodeState, OutcomeOfCompleted, StartsWithRoots, Registration,
         Accounted, IsAccounted, Roots
<1>2. UnlockJustified
  BY DEF Init, UnlockJustified, Roots, Met, AllCompleted, WaitsForCompletion
<1>3. NoMissedUnlock
  <2> SUFFICES ASSUME NEW n \in WaitsForCompletion, nodeState[n] = "LOCKED",
                      Met(n, nodeState, outcome)
               PROVE  FALSE
    BY DEF NoMissedUnlock
  <2>1. n \in Node /\ n \notin Roots
    BY DEF Init, WaitsForCompletion
  <2>2. CASE Config[n] = {}
    <3>1. PICK d \in DependsOn[n] : TRUE
      BY <2>1, <2>2 DEF Roots
    <3>2. d \in Node
      BY <2>1, GraphAssumption
    <3> QED
      BY <2>2, <3>1, <3>2 DEF Init, Met, AllCompleted
  <2>3. CASE Config[n] # {}
    <3>1. PICK g \in Config[n] : \A c \in g : Holds(c, nodeState, outcome)
      BY <2>3 DEF Met, Evaluate
    <3>2. PICK c \in g : TRUE
      BY <2>1, GraphAssumption DEF Resolved, Valid
    <3>3. c \in Conditions(n) /\ c \in Condition
      BY <2>1, <3>1, <3>2, GraphAssumption DEF Conditions, Resolved
    <3>4. /\ c.node \in Node
          /\ c.state \in {"COMPLETED", Any}
          /\ c.outcome # Any => c.outcome # NoOutcome
          /\ c.state # Any \/ c.outcome # Any
      BY <2>1, <3>3, GraphAssumption DEF Condition, Resolved, Valid, WaitsForCompletion
    <3> QED
      BY <3>1, <3>2, <3>4 DEF Init, Holds
  <2> QED
    BY <2>2, <2>3
<1>4. StatusTruthful
  <2>1. \A n \in Node : nodeState[n] \in {"READY", "LOCKED"}
    BY DEF Init
  <2>2. ~Finished(nodeState)
    BY <2>1, GraphAssumption DEF Finished
  <2> QED
    BY <2>1, <2>2 DEF Init, StatusTruthful
<1> QED
  BY <1>1, <1>2, <1>3, <1>4 DEF Inv

LEMMA StepOutcome == Inv /\ Step => OutcomeOfCompleted'
<1> SUFFICES ASSUME Inv, Step PROVE OutcomeOfCompleted'
  OBVIOUS
<1>1. TypeOK /\ OutcomeOfCompleted
  BY DEF Inv
<1> QED
  BY <1>1, StepsKeepCompletion DEF OutcomeOfCompleted

(* A rule found fulfilled stays fulfilled, and what is unlocked has its    *)
(* rule fulfilled by the completion that unlocks it.                       *)
LEMMA StepJustified == Inv /\ Step => UnlockJustified'
<1> SUFFICES ASSUME Inv, Step,
                    NEW m \in WaitsForCompletion, nodeState'[m] # "LOCKED"
             PROVE  Met(m, nodeState', outcome')
  BY DEF UnlockJustified
<1>0. TypeOK /\ OutcomeOfCompleted /\ m \in Node
  BY DEF Inv, WaitsForCompletion
<1>1. CASE nodeState[m] # "LOCKED"
  <2>1. Met(m, nodeState, outcome)
    BY <1>1 DEF Inv, UnlockJustified
  <2> QED
    BY <1>0, <2>1, StepsKeepCompletion, MetMonotone
<1>2. CASE nodeState[m] = "LOCKED"
  <2>1. PICK c \in Caller, n \in Node, o \in Outcome \cup {NoOutcome} : UpdateCompleted(c, n, o)
    BY <1>0, <1>2 DEF Step, Next, vars, CommitStart, AbortStart, Crash, BeginStart,
         RegisterFails, Register, rows, UpdateInProgress, UpdateFailed, TypeOK
  <2> DEFINE st == MarkDone(n)
             U == Unlocked(st, outcome')
  <2>2. /\ U = {x \in Node : st[x] = "LOCKED" /\ Met(x, st, outcome')}
        /\ \A x \in Node \ {EndNode} : nodeState'[x] = IF x \in U THEN "READY" ELSE st[x]
        /\ EndNode \in Node => nodeState'[EndNode] = IF EndNode \in U \/ st[EndNode] = "READY"
                                                       THEN "COMPLETED" ELSE st[EndNode]
        /\ \A x \in Node : st[x] = IF x = n THEN "COMPLETED" ELSE nodeState[x]
        /\ nodeState[n] \in {"READY", "IN_PROGRESS"}
    BY <1>0, <2>1, CompletionEffect
  <2> HIDE DEF st, U
  <2>3. m # n /\ st[m] = "LOCKED"
    BY <1>0, <1>2, <2>2
  <2>4. m \in U
    BY <1>0, <2>2, <2>3
  <2>5. Met(m, st, outcome')
    BY <2>2, <2>4
  <2>6. \A x \in Node \ {EndNode} : st[x] = "COMPLETED" => nodeState'[x] = "COMPLETED"
    BY <2>2
  <2> QED
    BY <2>5, <2>6, MetMonotone
<1> QED
  BY <1>1, <1>2

(* The pass over the siblings sees every rule the completion fulfils.      *)
LEMMA StepNoMissed == Inv /\ Step => NoMissedUnlock'
<1> SUFFICES ASSUME Inv, Step,
                    NEW m \in WaitsForCompletion, nodeState'[m] = "LOCKED",
                    Met(m, nodeState', outcome')
             PROVE  FALSE
  BY DEF NoMissedUnlock
<1>0. TypeOK /\ OutcomeOfCompleted /\ m \in Node /\ nodeState[m] = "LOCKED"
  <2>1. TypeOK /\ OutcomeOfCompleted /\ m \in Node
    BY DEF Inv, WaitsForCompletion
  <2> QED
    BY <2>1, StepsKeepCompletion
<1>1. ~Met(m, nodeState, outcome)
  BY <1>0 DEF Inv, NoMissedUnlock
<1>2. CASE UNCHANGED rows
  BY <1>1, <1>2 DEF rows
<1>3. ASSUME NEW c \in Caller, NEW n \in Node, UpdateInProgress(c, n) \/ UpdateFailed(c, n)
      PROVE  FALSE
  <2>1. outcome' = outcome
        /\ \A x \in Node : nodeState'[x] = "COMPLETED" => nodeState[x] = "COMPLETED"
    BY <1>0, <1>3 DEF UpdateInProgress, UpdateFailed, TypeOK
  <2> QED
    BY <1>1, <2>1, MetMonotone
<1>4. ASSUME NEW c \in Caller, NEW n \in Node, NEW o \in Outcome \cup {NoOutcome},
             UpdateCompleted(c, n, o)
      PROVE  FALSE
  <2> DEFINE st == MarkDone(n)
             U == Unlocked(st, outcome')
  <2>2. /\ U = {x \in Node : st[x] = "LOCKED" /\ Met(x, st, outcome')}
        /\ \A x \in Node \ {EndNode} : nodeState'[x] = IF x \in U THEN "READY" ELSE st[x]
        /\ EndNode \in Node => nodeState'[EndNode] = IF EndNode \in U \/ st[EndNode] = "READY"
                                                       THEN "COMPLETED" ELSE st[EndNode]
        /\ \A x \in Node : st[x] = IF x = n THEN "COMPLETED" ELSE nodeState[x]
        /\ nodeState[n] \in {"READY", "IN_PROGRESS"}
    BY <1>0, <1>4, CompletionEffect
  <2> HIDE DEF st, U
  <2>3. m \notin U /\ st[m] = "LOCKED"
    BY <1>0, <2>2
  <2>4. \A x \in Node \ {EndNode} : nodeState'[x] = "COMPLETED" => st[x] = "COMPLETED"
    BY <2>2
  <2>5. Met(m, st, outcome')
    BY <2>4, MetMonotone
  <2> QED
    BY <1>0, <2>2, <2>3, <2>5
<1>5. \/ UNCHANGED rows
      \/ \E c \in Caller, n \in Node : UpdateInProgress(c, n) \/ UpdateFailed(c, n)
      \/ \E c \in Caller, n \in Node, o \in Outcome \cup {NoOutcome} : UpdateCompleted(c, n, o)
  BY DEF Step, Next, vars, CommitStart, AbortStart, Crash, BeginStart, RegisterFails,
         Register, rows
<1> QED
  BY <1>2, <1>3, <1>4, <1>5

(* What the completion test says, before and after each kind of step.      *)
LEMMA StepStatus == Inv /\ Step => StatusTruthful'
<1> SUFFICES ASSUME Inv, Step PROVE StatusTruthful'
  OBVIOUS
<1>0. TypeOK /\ OutcomeOfCompleted /\ StatusTruthful /\ Registration
  BY DEF Inv
<1>1. CASE UNCHANGED rows
  BY <1>0, <1>1 DEF rows, StatusTruthful, Finished
<1>2. Finished(nodeState) => Finished(nodeState')
  BY <1>0, StepsKeepCompletion, GraphAssumption DEF Finished
<1>3. ASSUME NEW c \in Caller, NEW n \in Node, UpdateInProgress(c, n) \/ UpdateFailed(c, n)
      PROVE  StatusTruthful'
  <2>1. /\ \A x \in Node : x # n => nodeState'[x] = nodeState[x]
        /\ nodeState[n] \in {"READY", "IN_PROGRESS", "FAILED"}
        /\ nodeState'[n] \in {"IN_PROGRESS", "FAILED"}
        /\ n # EndNode
        /\ told' = told
    BY <1>0, <1>3 DEF UpdateInProgress, UpdateFailed, Accepts, TypeOK, Registration
  <2>2. Finished(nodeState') => Finished(nodeState)
    BY <2>1, GraphAssumption DEF Finished
  <2>3. CASE UpdateInProgress(c, n)
    <3>1. nodeState'[n] = "IN_PROGRESS" /\ wfStatus' = wfStatus
      BY <1>0, <2>3 DEF UpdateInProgress, TypeOK
    <3> QED
      BY <1>0, <1>2, <2>1, <2>2, <3>1 DEF StatusTruthful
  <2>4. CASE UpdateFailed(c, n)
    <3>1. wfStatus' = "FAILED"
      BY <2>4 DEF UpdateFailed
    <3> QED
      BY <1>0, <1>2, <2>1, <2>2, <3>1 DEF StatusTruthful
  <2> QED
    BY <1>3, <2>3, <2>4
<1>4. ASSUME NEW c \in Caller, NEW n \in Node, NEW o \in Outcome \cup {NoOutcome},
             UpdateCompleted(c, n, o)
      PROVE  StatusTruthful'
  <2> DEFINE st == MarkDone(n)
             U == Unlocked(st, outcome')
  <2>1. /\ wfStatus' = IF Finished(nodeState') THEN "COMPLETED" ELSE wfStatus
        /\ told' = (told \/ Finished(nodeState'))
    BY <1>4 DEF UpdateCompleted
  <2>2. /\ \A x \in Node \ {EndNode} : nodeState'[x] = IF x \in U THEN "READY" ELSE st[x]
        /\ EndNode \in Node => nodeState'[EndNode] = IF EndNode \in U \/ st[EndNode] = "READY"
                                                       THEN "COMPLETED" ELSE st[EndNode]
        /\ \A x \in Node : st[x] = IF x = n THEN "COMPLETED" ELSE nodeState[x]
    BY <1>0, <1>4, CompletionEffect
  <2> HIDE DEF st, U
  <2>3. \A x \in Node : nodeState'[x] = "FAILED" => nodeState[x] = "FAILED"
    BY <2>2
  <2> QED
    BY <1>0, <1>2, <2>1, <2>3 DEF StatusTruthful
<1>5. \/ UNCHANGED rows
      \/ \E c \in Caller, n \in Node : UpdateInProgress(c, n) \/ UpdateFailed(c, n)
      \/ \E c \in Caller, n \in Node, o \in Outcome \cup {NoOutcome} : UpdateCompleted(c, n, o)
  BY DEF Step, Next, vars, CommitStart, AbortStart, Crash, BeginStart, RegisterFails,
         Register, rows
<1> QED
  BY <1>1, <1>3, <1>4, <1>5

(* Who has been registered, who still has to be, and that nobody is        *)
(* registered twice or forgotten.                                          *)
LEMMA StepRegistration ==
  Inv /\ Step => StartsWithRoots' /\ Registration' /\ Accounted'
<1> SUFFICES ASSUME Inv, Step
             PROVE  StartsWithRoots' /\ Registration' /\ Accounted'
  OBVIOUS
<1>0. TypeOK /\ OutcomeOfCompleted /\ StartsWithRoots /\ Registration /\ Accounted
  BY DEF Inv
<1> USE DEF StartsWithRoots, Registration, Accounted, IsAccounted
<1>1. \A n \in Node : nodeState[n] # "LOCKED" => nodeState'[n] # "LOCKED"
  BY <1>0, StepsKeepCompletion
<1>2. Roots \subseteq Node /\ EndNode \notin Roots
  BY GraphAssumption DEF Roots
<1>3. CASE UNCHANGED vars
  BY <1>0, <1>3 DEF vars
<1>4. CASE CommitStart \/ AbortStart
  BY <1>0, <1>4 DEF CommitStart, AbortStart, rows
<1>5. CASE Crash
  <2>1. \A n : (\E c \in Caller : n \in pending[c]) => n \in dropped'
    BY <1>5 DEF Crash
  <2>2. \A c \in Caller : pending'[c] = {}
    BY <1>5 DEF Crash
  <2> QED
    BY <1>0, <1>5, <2>1, <2>2 DEF Crash, rows
<1>6. ASSUME NEW c \in Caller, BeginStart(c)
      PROVE  StartsWithRoots' /\ Registration' /\ Accounted'
  BY <1>0, <1>2, <1>6 DEF BeginStart, rows, TypeOK
<1>7. ASSUME NEW c \in Caller, RegisterFails(c)
      PROVE  StartsWithRoots' /\ Registration' /\ Accounted'
  BY <1>0, <1>7 DEF RegisterFails, rows, TypeOK
<1>8. ASSUME NEW c \in Caller, NEW n \in Node, Register(c, n)
      PROVE  StartsWithRoots' /\ Registration' /\ Accounted'
  BY <1>0, <1>8 DEF Register, rows, TypeOK
<1>9. ASSUME NEW c \in Caller, NEW n \in Node, UpdateInProgress(c, n) \/ UpdateFailed(c, n)
      PROVE  StartsWithRoots' /\ Registration' /\ Accounted'
  <2>1. /\ phase = "running"
        /\ UNCHANGED <<phase, tasks, dropped, pending>>
        /\ \A x \in Node : nodeState[x] # "LOCKED" <=> nodeState'[x] # "LOCKED"
    BY <1>0, <1>9 DEF UpdateInProgress, UpdateFailed, Accepts, TypeOK
  <2>2. \A x : x \in tasks \/ (\E d \in Caller : x \in pending[d]) => x \in Node
    BY <1>0 DEF TypeOK
  <2> QED
    BY <1>0, <1>2, <2>1, <2>2
<1>10. ASSUME NEW c \in Caller, NEW n \in Node, NEW o \in Outcome \cup {NoOutcome},
              UpdateCompleted(c, n, o)
       PROVE  StartsWithRoots' /\ Registration' /\ Accounted'
  <2> DEFINE st == MarkDone(n)
             U == Unlocked(st, outcome')
  <2>1. /\ phase = "running" /\ pending[c] = {}
        /\ UNCHANGED <<phase, tasks, dropped>>
    BY <1>10 DEF UpdateCompleted, Accepts
  <2>2. /\ U = {x \in Node : st[x] = "LOCKED" /\ Met(x, st, outcome')}
        /\ \A x \in Node \ {EndNode} : nodeState'[x] = IF x \in U THEN "READY" ELSE st[x]
        /\ \A x \in Node : st[x] = IF x = n THEN "COMPLETED" ELSE nodeState[x]
        /\ pending' = [pending EXCEPT ![c] = U \ {EndNode}]
        /\ nodeState[n] \in {"READY", "IN_PROGRESS"}
    BY <1>0, <1>10, CompletionEffect
  <2> HIDE DEF st, U
  <2>3. \A x \in U : x \in Node /\ nodeState[x] = "LOCKED"
    BY <2>2
  <2>4. \A d \in Caller : pending'[d] = IF d = c THEN U \ {EndNode} ELSE pending[d]
    BY <1>0, <2>2 DEF TypeOK
  <2>5. \A x \in Node \ {EndNode} : nodeState[x] = "LOCKED" /\ nodeState'[x] # "LOCKED" => x \in U
    BY <2>2
  <2>6. \A x \in U \ {EndNode} : nodeState'[x] # "LOCKED"
    BY <2>2, <2>3
  <2>7. \A x \in U : x \notin tasks /\ \A d \in Caller : x \notin pending[d]
    BY <1>0, <2>3
  <2>8. StartsWithRoots'
    BY <1>0, <1>1, <1>2, <2>1
  <2>9. \A d \in Caller : \A x \in pending[d] : x \in Node
    BY <1>0 DEF TypeOK
  <2>10. Registration'
    <3>1. \A d \in Caller : \A x \in pending'[d] : x \notin tasks'
      BY <1>0, <2>1, <2>4, <2>7
    <3>2. \A d, f \in Caller : d # f => \A x \in pending'[d] : x \notin pending'[f]
      BY <1>0, <2>4, <2>7
    <3>3. \A x \in tasks' : nodeState'[x] # "LOCKED" /\ x # EndNode
      BY <1>0, <1>1, <2>1 DEF TypeOK
    <3>4. \A d \in Caller : \A x \in pending'[d] : nodeState'[x] # "LOCKED" /\ x # EndNode
      BY <1>0, <1>1, <2>4, <2>6, <2>9
    <3> QED
      BY <3>1, <3>2, <3>3, <3>4
  <2>11. Accounted'
    BY <1>0, <2>1, <2>4, <2>5
  <2> QED
    BY <2>8, <2>10, <2>11
<1> QED
  BY <1>3, <1>4, <1>5, <1>6, <1>7, <1>8, <1>9, <1>10 DEF Step, Next

LEMMA InvCorrect == Spec => []Inv
<1>1. Inv /\ Step => Inv'
  <2>1. Inv /\ Step => TypeOK'
    BY TypeStep DEF Inv
  <2> QED
    BY <2>1, StepOutcome, StepRegistration, StepJustified, StepNoMissed, StepStatus DEF Inv
<1> QED
  BY InitInv, <1>1, PTL DEF Spec, Step

(* A node runs only after what it depends on is complete, for ever after.  *)
THEOREM UnlockIsJustified == Spec => []UnlockJustified
<1>1. Inv => UnlockJustified
  BY DEF Inv
<1> QED
  BY <1>1, InvCorrect, PTL

(* One unlock pass per completion is enough when updates are serialised.   *)
THEOREM NoUnlockIsMissed == Spec => []NoMissedUnlock
<1>1. Inv => NoMissedUnlock
  BY DEF Inv
<1> QED
  BY <1>1, InvCorrect, PTL

(* The status and the callbacks agree with the nodes.                      *)
THEOREM StatusIsTruthful == Spec => []StatusTruthful
<1>1. Inv => StatusTruthful
  BY DEF Inv
<1> QED
  BY <1>1, InvCorrect, PTL

(* No two registration passes, pending or done, share a node, for every    *)
(* graph and number of passes at once, if notifications are handled one    *)
(* after the other; NodesOpenOnce of WorkflowTxProofs is about overlapping *)
(* ones.                                                                   *)
THEOREM TasksOncePerNode == Spec => []TaskOncePerNode
<1>1. Inv => TaskOncePerNode
  <2> SUFFICES ASSUME Inv PROVE TaskOncePerNode
    OBVIOUS
  <2>1. Registration
    BY DEF Inv
  <2> QED
    BY <2>1 DEF Registration, TaskOncePerNode
<1> QED
  BY <1>1, InvCorrect, PTL

(* No open node is forgotten but by a failure or a crash.                  *)
THEOREM OpenNodesAreAccounted == Spec => []OpenNodesAccounted
<1>1. Inv => OpenNodesAccounted
  <2> SUFFICES ASSUME Inv, phase = "running",
                      NEW n \in Node \ {EndNode}, nodeState[n] # "LOCKED"
               PROVE  n \in tasks \cup dropped \cup UNION {pending[c] : c \in Caller}
    BY DEF OpenNodesAccounted
  <2>1. IsAccounted(n)
    BY DEF Inv, Accounted
  <2> QED
    BY <2>1 DEF IsAccounted
<1> QED
  BY <1>1, InvCorrect, PTL

----------------------------------------------------------------------------
(* The refinement.                                                         *)

(* A fulfilled rule that waits for completed nodes is fulfilled in the     *)
(* abstract sense: every node it names is done.                            *)
LEMMA MetIsFulfilled ==
  ASSUME NEW n \in WaitsForCompletion, NEW st, NEW oc,
         \A m \in Node : oc[m] # NoOutcome => st[m] = "COMPLETED",
         Met(n, st, oc)
  PROVE  Promise!Fulfilled(n, {m \in Node : st[m] = "COMPLETED"}, oc)
<1>0. n \in Node
  BY DEF WaitsForCompletion
<1>1. CASE Config[n] = {}
  <2>1. DependsOn[n] \subseteq Node
    BY <1>0, GraphAssumption
  <2> QED
    BY <1>1, <2>1 DEF Met, AllCompleted, Promise!Fulfilled
<1>2. CASE Config[n] # {}
  <2>1. PICK g \in Config[n] : \A c \in g : Holds(c, st, oc)
    BY <1>2 DEF Met, Evaluate
  <2>2. ASSUME NEW c \in g
        PROVE  /\ c.node \in {m \in Node : st[m] = "COMPLETED"}
               /\ c.outcome = Any \/ oc[c.node] = c.outcome
    <3>1. c \in Conditions(n) /\ c \in Condition
      BY <1>0, GraphAssumption DEF Conditions, Resolved
    <3>2. /\ c.node \in Node
          /\ c.state \in {"COMPLETED", Any}
          /\ c.state # Any \/ c.outcome # Any
          /\ c.outcome # Any => c.outcome # NoOutcome
      BY <1>0, <3>1, GraphAssumption DEF Condition, Resolved, Valid, WaitsForCompletion
    <3>3. Holds(c, st, oc)
      BY <2>1
    <3> QED
      BY <3>2, <3>3 DEF Holds
  <2> QED
    BY <1>2, <2>2 DEF Promise!Fulfilled
<1> QED
  BY <1>1, <1>2

(* The engine implements DependencyOrder: every step of it is a step of    *)
(* the promise or leaves what the domain sees unchanged.                   *)
THEOREM EngineKeepsPromise == Spec => KeepsPromise
<1> USE DEF Promise!WaitsForCompletion, Promise!Conditions, Promise!Roots
<1>1. Init => Promise!Init
  BY DEF Init, Promise!Init, Roots
<1>2. Inv /\ Inv' /\ Step => [Promise!Advance]_(Promise!vars)
  <2> SUFFICES ASSUME Inv, Inv', Step PROVE Promise!Advance
    BY DEF Promise!vars
  <2> DEFINE D == {m \in Node : nodeState[m] = "COMPLETED"}
             O == {m \in Node : nodeState[m] # "LOCKED"}
  <2>0. TypeOK /\ OutcomeOfCompleted /\ StatusTruthful
    BY DEF Inv
  <2>1. O \subseteq O' /\ D \subseteq D' /\ D' \subseteq O'
    BY <2>0, StepsKeepCompletion
  <2>2. \A n \in (O' \ O) \cap WaitsForCompletion : Promise!Fulfilled(n, D', outcome')
    <3> SUFFICES ASSUME NEW n \in WaitsForCompletion, nodeState'[n] # "LOCKED"
                 PROVE  Promise!Fulfilled(n, D', outcome')
      OBVIOUS
    <3>1. Met(n, nodeState', outcome')
      BY DEF Inv, UnlockJustified
    <3>2. \A m \in Node : outcome'[m] # NoOutcome => nodeState'[m] = "COMPLETED"
      BY DEF Inv, OutcomeOfCompleted
    <3> QED
      BY <3>1, <3>2, MetIsFulfilled
  <2>3. \A n \in Node : outcome'[n] # outcome[n] => n \in D' \ D
    BY <2>0, StepsKeepCompletion
  <2>4. told => told'
    BY DEF Step, Next, vars, rows, CommitStart, AbortStart, Crash, BeginStart,
           RegisterFails, Register, UpdateInProgress, UpdateFailed, UpdateCompleted
  <2>5. told' => Promise!Complete(D')
    <3>1. told' => Finished(nodeState')
      BY DEF Inv, StatusTruthful
    <3> QED
      BY <3>1, GraphAssumption DEF Finished, Promise!Complete
  <2> QED
    BY <2>1, <2>2, <2>3, <2>4, <2>5 DEF Promise!Advance, WaitsForCompletion, Conditions
<1> QED
  BY <1>1, <1>2, InvCorrect, PTL DEF Spec, KeepsPromise, Promise!Spec, Step
=============================================================================
