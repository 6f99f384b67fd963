------------------------- MODULE PaymentSessionProofs -------------------------
(***************************************************************************)
(* Proofs about PaymentSession, for every set of references, every TTL and *)
(* threshold and every bound on the clock; the one about webhooks for one  *)
(* request at a time, without which it is false.                           *)
(***************************************************************************)
EXTENDS PaymentSession, TLAPS

(* The SMT backend cannot read the empty string.                           *)
LEMMA NotStartedApart == NotStarted \notin {"IDLE", "PAYING", "PAID"}
BY Zenon DEF NotStarted

LEMMA EdgesTo ==
  ASSUME NEW F, NEW act, NEW to, NEW task, NEW e \in Edges(F, act, to, task)
  PROVE  e.from \in F /\ e.act = act /\ e.to = to
BY DEF Edges

(* The payment table: a payment begins with INITIATE_PAYMENT only, is made *)
(* only when one is in progress, and nothing leads back to the beginning.  *)
LEMMA PaymentMoves ==
  ASSUME NEW s, NEW act, NEW e \in Moves("PAYMENT", s, act)
  PROVE  /\ e.to \in PluginStates("PAYMENT")
         /\ e.to # NotStarted
         /\ e.to = "PAYING" => act = "INITIATE_PAYMENT"
         /\ e.to = "PAID" => s = "PAYING"
<1>1. e \in PaymentFSM /\ e.from = s /\ e.act = act
  BY DEF Moves, Table
<1>2. e.to \in PluginStates("PAYMENT")
  BY <1>1 DEF PluginStates, Table
<1>3. CASE e \in Edges({NotStarted}, "START", "IDLE", Keep)
  <2>1. e.from \in {NotStarted} /\ e.act = "START" /\ e.to = "IDLE"
    BY <1>3, EdgesTo
  <2> QED
    BY <1>1, <1>2, <2>1, NotStartedApart
<1>4. CASE e \in Edges({"IDLE", "PAYING"}, "INITIATE_PAYMENT", "PAYING", InProgress)
  <2>1. e.from \in {"IDLE", "PAYING"} /\ e.act = "INITIATE_PAYMENT" /\ e.to = "PAYING"
    BY <1>4, EdgesTo
  <2> QED
    BY <1>1, <1>2, <2>1, NotStartedApart
<1>5. CASE e \in Edges({"PAYING"}, "PAYMENT_SUCCESS", "PAID", Completed)
  <2>1. e.from \in {"PAYING"} /\ e.act = "PAYMENT_SUCCESS" /\ e.to = "PAID"
    BY <1>5, EdgesTo
  <2> QED
    BY <1>1, <1>2, <2>1, NotStartedApart
<1>6. CASE e \in Edges({"PAYING"}, "PAYMENT_FAILED", "IDLE", Initialized)
  <2>1. e.from \in {"PAYING"} /\ e.act = "PAYMENT_FAILED" /\ e.to = "IDLE"
    BY <1>6, EdgesTo
  <2> QED
    BY <1>1, <1>2, <2>1, NotStartedApart
<1>7. CASE e \in Edges({"PAYING"}, "PAYMENT_TIMEOUT", "IDLE", Initialized)
  <2>1. e.from \in {"PAYING"} /\ e.act = "PAYMENT_TIMEOUT" /\ e.to = "IDLE"
    BY <1>7, EdgesTo
  <2> QED
    BY <1>1, <1>2, <2>1, NotStartedApart
<1> QED
  BY <1>1, <1>3, <1>4, <1>5, <1>6, <1>7 DEF PaymentFSM

PaymentActs == {"ROTATE", "START", "INITIATE_PAYMENT", "PAYMENT_SUCCESS", "PAYMENT_FAILED",
                "PAYMENT_TIMEOUT"}

LEMMA EdgeOf ==
  ASSUME NEW F, NEW f \in F, NEW act, NEW to, NEW task, Edges(F, act, to, task) \subseteq PaymentFSM
  PROVE  act \in {e.act : e \in PaymentFSM}
<1> DEFINE e == [from |-> f, act |-> act, to |-> to, task |-> task]
<1>1. e \in PaymentFSM /\ e.act = act
  BY DEF Edges
<1> QED
  BY <1>1

LEMMA ActsOfPayment == PaymentActs \subseteq Act
<1> DEFINE A == {e.act : e \in PaymentFSM}
<1>1. "START" \in A
  BY EdgeOf DEF PaymentFSM
<1>2. "INITIATE_PAYMENT" \in A
  BY EdgeOf DEF PaymentFSM
<1>3. "PAYMENT_SUCCESS" \in A
  BY EdgeOf DEF PaymentFSM
<1>4. "PAYMENT_FAILED" \in A
  BY EdgeOf DEF PaymentFSM
<1>5. "PAYMENT_TIMEOUT" \in A
  BY EdgeOf DEF PaymentFSM
<1> QED
  BY <1>1, <1>2, <1>3, <1>4, <1>5, Zenon DEF PaymentActs, Act

LEMMA CallingTyped ==
  ASSUME NEW pc \in Steps, NEW act \in PaymentActs, NEW s \in Session \cup {NoSession}
  PROVE  Calling(pc, act, s) \in Op
BY ActsOfPayment DEF Calling, Op

LEMMA Working ==
  ASSUME op \in Op \cup {NoOp}, op.pc # "idle"
  PROVE  op \in Op /\ op.pc \in Steps /\ op.ses \in Session \cup {NoSession}
BY DEF Op, NoOp

----------------------------------------------------------------------------
(* Type correctness.  A handler that reads the session finds one: nothing  *)
(* but Start leaves the first state, and only after a session is saved.    *)

HasSession(l) == l.session \in Session

Sessions ==
  /\ plugin # NotStarted => HasSession(local) /\ HasSession(saved)
  /\ op.pc = "move" => HasSession(local) /\ HasSession(saved)
  /\ op.pc = "record" => plugin # NotStarted
  /\ op.pc \in {"checkout", "stamp", "record"} => op.ses \in Session

TypeInv == TypeOK /\ Sessions

LEMMA TypeInit == Init => TypeInv
<1> SUFFICES ASSUME Init PROVE TypeInv
  OBVIOUS
<1>1. plugin \in PluginStates("PAYMENT") /\ plugin = NotStarted
  BY DEF Init, PluginStates
<1>2. now \in Time /\ drawn \subseteq Ref /\ rows \in [Ref -> Status \cup {NoRow}]
  BY PaymentAssumption DEF Init, Time
<1>3. local \in LocalStore /\ saved \in LocalStore
  BY DEF Init, LocalStore
<1>4. op = NoOp /\ op.pc = "idle"
  BY DEF Init, NoOp
<1>5. hook \in [Hook -> HookCall \cup {NoHook}]
  BY DEF Init
<1> QED
  BY <1>1, <1>2, <1>3, <1>4, <1>5 DEF TypeInv, TypeOK, Sessions

LEMMA TypeStep == TypeInv /\ [Next]_vars => TypeInv'
<1> SUFFICES ASSUME TypeInv, [Next]_vars PROVE TypeInv'
  OBVIOUS
<1> USE NotStartedApart DEF TypeInv, TypeOK, Sessions, HasSession
<1>1. CASE UNCHANGED vars
  BY <1>1 DEF vars
<1>2. CASE Start
  <2>1. PICK r \in Ref \ drawn :
          /\ drawn' = drawn \cup {r}
          /\ Store(WithSession(NewSession(r)), Calling("move", "START", NoSession))
    BY <1>2 DEF Start
  <2> DEFINE l == WithSession(NewSession(r))
  <2>2. l \in LocalStore /\ l.session \in Session
    BY DEF WithSession, NewSession, LocalStore, Session
  <2>3. Calling("move", "START", NoSession) \in Op
    BY CallingTyped DEF Steps, PaymentActs
  <2> HIDE DEF l
  <2>4. /\ local' = l /\ saved' \in LocalStore /\ op' \in Op \cup {NoOp}
        /\ \/ saved' = l /\ op' = Calling("move", "START", NoSession)
           \/ saved' = saved /\ op' = NoOp
    BY <2>1, <2>2, <2>3 DEF Store, l
  <2>5. plugin = NotStarted
    BY <1>2 DEF Start
  <2> QED
    BY <1>2, <2>1, <2>2, <2>4, <2>5 DEF Start, Calling, NoOp
<1>3. CASE Render
  <2>1. local.session \in Session
    BY <1>3 DEF Render, LocalStore
  <2>2. \/ op' = Calling("record", "PAYMENT_TIMEOUT", local.session) /\ plugin = "PAYING"
        \/ op' = Calling("renew", "ROTATE", local.session)
    BY <1>3 DEF Render
  <2>3. op' \in Op
    BY <2>1, <2>2, CallingTyped DEF Steps, PaymentActs
  <2> QED
    BY <1>3, <2>1, <2>2, <2>3 DEF Render, Calling
<1>4. CASE Record
  <2> DEFINE l == [local EXCEPT !.history = @ \cup
                     {[ref |-> op.ses.ref,
                       status |-> IF op.act = "PAYMENT_FAILED" THEN "FAILED" ELSE "TIMEOUT"]}]
             k == [op EXCEPT !.pc = IF op.act = "PAYMENT_FAILED" THEN "renew" ELSE "move"]
  <2>1. op \in Op /\ op.ses \in Session /\ HasSession(local)
    BY <1>4, Working DEF Record
  <2>2. l \in LocalStore /\ l.session = local.session
    BY <2>1 DEF LocalStore, Entry, Session
  <2>3. k \in Op /\ k.pc \in {"renew", "move"}
    BY <2>1 DEF Op, Steps
  <2> HIDE DEF l, k
  <2>4. /\ local' = l /\ saved' \in LocalStore /\ op' \in Op \cup {NoOp}
        /\ \/ saved' = l /\ op' = k
           \/ saved' = saved /\ op' = NoOp
    BY <1>4, <2>2, <2>3 DEF Record, Store, l, k
  <2> QED
    BY <1>4, <2>1, <2>2, <2>3, <2>4 DEF Record, NoOp
<1>5. CASE Renew
  <2> DEFINE k == IF op.act = "PAYMENT_FAILED" THEN [op EXCEPT !.pc = "move"] ELSE NoOp
  <2>1. PICK r \in Ref \ drawn :
          drawn' = drawn \cup {r} /\ Store(WithSession(NewSession(r)), k)
    BY <1>5 DEF Renew
  <2> DEFINE l == WithSession(NewSession(r))
  <2>2. l \in LocalStore /\ l.session \in Session
    BY DEF WithSession, NewSession, LocalStore, Session
  <2>3. k \in Op \cup {NoOp} /\ k.pc \in {"move", "idle"}
    <3>1. op \in Op
      BY <1>5, Working DEF Renew
    <3> QED
      BY <3>1 DEF Op, Steps, NoOp
  <2> HIDE DEF l, k
  <2>4. /\ local' = l /\ saved' \in LocalStore /\ op' \in Op \cup {NoOp}
        /\ \/ saved' = l /\ op' = k
           \/ saved' = saved /\ op' = NoOp
    BY <2>1, <2>2, <2>3 DEF Store, l
  <2> QED
    BY <1>5, <2>1, <2>2, <2>3, <2>4 DEF Renew, NoOp
<1>6. CASE Initiate
  <2>1. local.session \in Session
    BY <1>6 DEF Initiate
  <2>2. op' = Calling("checkout", "INITIATE_PAYMENT", local.session)
    BY <1>6 DEF Initiate
  <2>3. op' \in Op
    BY <2>1, <2>2, CallingTyped DEF Steps, PaymentActs
  <2> QED
    BY <1>6, <2>1, <2>2, <2>3 DEF Initiate, Calling
<1>7. CASE Checkout
  <2>1. op \in Op
    BY <1>7, Working DEF Checkout
  <2>2. op' \in Op /\ op'.pc = "stamp" /\ op'.ses = op.ses
    BY <1>7, <2>1 DEF Checkout, Op, Steps
  <2> QED
    BY <1>7, <2>2 DEF Checkout, Status
<1>8. CASE CheckoutFails
  BY <1>8 DEF CheckoutFails, NoOp
<1>9. CASE Stamp
  <2>1. PICK at \in Time :
          Store(WithSession([op.ses EXCEPT !.initiated = at]), [op EXCEPT !.pc = "move"])
    BY <1>9 DEF Stamp
  <2> DEFINE l == WithSession([op.ses EXCEPT !.initiated = at])
             k == [op EXCEPT !.pc = "move"]
  <2>2. op \in Op /\ op.ses \in Session
    BY <1>9, Working DEF Stamp
  <2>3. l \in LocalStore /\ l.session \in Session
    BY <2>2 DEF WithSession, LocalStore, Session
  <2>4. k \in Op
    BY <2>2 DEF Op, Steps
  <2> HIDE DEF l, k
  <2>5. /\ local' = l /\ saved' \in LocalStore /\ op' \in Op \cup {NoOp}
        /\ \/ saved' = l /\ op' = k
           \/ saved' = saved /\ op' = NoOp
    BY <2>1, <2>3, <2>4 DEF Store, l, k
  <2>6. k.pc = "move"
    BY <2>2 DEF k, Op
  <2> QED
    BY <1>9, <2>3, <2>5, <2>6 DEF Stamp, NoOp
<1>10. CASE Succeed
  <2>1. Calling("move", "PAYMENT_SUCCESS", NoSession) \in Op
    BY CallingTyped DEF Steps, PaymentActs
  <2> QED
    BY <1>10, <2>1 DEF Succeed, Calling
<1>11. CASE Fail
  <2>1. local.session \in Session
    BY <1>11 DEF Fail
  <2>2. op' = Calling("record", "PAYMENT_FAILED", local.session) /\ plugin' = plugin
          /\ plugin = "PAYING"
    BY <1>11 DEF Fail
  <2>3. op' \in Op
    BY <2>1, <2>2, CallingTyped DEF Steps, PaymentActs
  <2> QED
    BY <1>11, <2>1, <2>2, <2>3 DEF Fail, Calling
<1>12. CASE Move
  <2>1. op \in Op
    BY <1>12, Working DEF Move
  <2>2. plugin' \in PluginStates("PAYMENT")
    BY <1>12, PaymentMoves DEF Move
  <2>3. op' \in {NoOp, Calling("renew", "ROTATE", op.ses)}
    BY <1>12 DEF Move
  <2>4. op' \in Op \cup {NoOp}
    BY <2>1, <2>3, CallingTyped DEF Op, Steps, PaymentActs
  <2> QED
    BY <1>12, <2>2, <2>3, <2>4 DEF Move, Calling, NoOp
<1>13. CASE Evict
  BY <1>13 DEF Evict, NoOp
<1>14. CASE Crash
  BY <1>14 DEF Crash, NoOp
<1>15. CASE Tick
  BY <1>15, PaymentAssumption DEF Tick, Time
<1>16. ASSUME NEW h \in Hook, NEW r \in Ref, NEW st \in {"SUCCESS", "FAILED"}, HookRead(h, r, st)
       PROVE  TypeInv'
  <2>1. [pc |-> "write", ref |-> r, status |-> st] \in HookCall
    BY DEF HookCall, Status
  <2> QED
    BY <1>16, <2>1 DEF HookRead
<1>17. ASSUME NEW h \in Hook, HookWrite(h)
       PROVE  TypeInv'
  <2>1. hook[h] \in HookCall
    BY <1>17 DEF HookWrite, NoHook
  <2> QED
    BY <1>17, <2>1 DEF HookWrite, HookCall
<1>18. ASSUME NEW h \in Hook, HookFails(h)
       PROVE  TypeInv'
  BY <1>18 DEF HookFails
<1> QED
  BY <1>1, <1>2, <1>3, <1>4, <1>5, <1>6, <1>7, <1>8, <1>9, <1>10, <1>11, <1>12, <1>13, <1>14,
     <1>15, <1>16, <1>17, <1>18 DEF Next

(* Type correctness of the payment task and the payment service.           *)
THEOREM PaymentTypeCorrect == Spec => []TypeOK
<1>1. TypeInv => TypeOK
  BY DEF TypeInv
<1> QED
  BY <1>1, TypeInit, TypeStep, PTL DEF Spec

----------------------------------------------------------------------------
(* Every stamp, and every payment, has a row behind it: what a call is     *)
(* about to write counts too.                                              *)

Backed(l) == l.session # NoSession /\ l.session.initiated # NoTime => rows[l.session.ref] # NoRow
HasRows == \E r \in Ref : rows[r] # NoRow

CheckoutInv ==
  /\ Backed(local) /\ Backed(saved)
  /\ plugin \in {"PAYING", "PAID"} => HasRows
  /\ op.pc = "stamp" => rows[op.ses.ref] # NoRow
  /\ op.pc = "move" /\ op.act = "INITIATE_PAYMENT" => HasRows
  /\ op.pc \in {"checkout", "stamp"} => op.act = "INITIATE_PAYMENT"
  /\ op.pc \in {"record", "renew"} => op.act # "INITIATE_PAYMENT"

LEMMA CheckoutInit == Init => CheckoutInv
<1> SUFFICES ASSUME Init PROVE CheckoutInv
  OBVIOUS
<1>1. Backed(local) /\ Backed(saved)
  BY DEF Init, Backed
<1>2. plugin \notin {"PAYING", "PAID"}
  BY NotStartedApart DEF Init
<1>3. op.pc = "idle"
  BY DEF Init, NoOp
<1> QED
  BY <1>1, <1>2, <1>3 DEF CheckoutInv

(* Rows are created and updated, never removed.                            *)
LEMMA RowsStay ==
  ASSUME TypeInv, [Next]_vars, NEW r \in Ref, rows[r] # NoRow
  PROVE  rows'[r] # NoRow
<1> USE DEF TypeInv, TypeOK
<1>1. CASE UNCHANGED rows
  BY <1>1
<1>2. CASE Checkout
  BY <1>2, PaymentAssumption DEF Checkout
<1>3. ASSUME NEW h \in Hook, HookWrite(h)
      PROVE  rows'[r] # NoRow
  <2>1. hook[h].status \in Status
    BY <1>3 DEF HookWrite, HookCall, NoHook
  <2> QED
    BY <1>3, <2>1, PaymentAssumption DEF HookWrite, Status
<1>4. UNCHANGED rows \/ Checkout \/ \E h \in Hook : HookWrite(h)
  BY DEF Next, vars, Start, Render, Record, Renew, Initiate, CheckoutFails, Stamp, Succeed,
         Fail, Move, Evict, Crash, Tick, HookRead, HookFails
<1> QED
  BY <1>1, <1>2, <1>3, <1>4

(* The same of a store when the step is over.                              *)
BackedNext(l) ==
  l.session # NoSession /\ l.session.initiated # NoTime => rows'[l.session.ref] # NoRow

LEMMA BackedStays ==
  ASSUME TypeInv, [Next]_vars, NEW l \in LocalStore, Backed(l)
  PROVE  BackedNext(l)
<1>1. l.session # NoSession => l.session.ref \in Ref
  BY DEF LocalStore, Session
<1> QED
  BY <1>1, RowsStay DEF Backed, BackedNext

LEMMA StoreBacked ==
  ASSUME TypeInv, CheckoutInv, [Next]_vars,
         NEW l, NEW next, Store(l, next), BackedNext(l)
  PROVE  Backed(local)' /\ Backed(saved)' /\ op' \in {next, NoOp}
<1>1. BackedNext(saved)
  BY BackedStays DEF TypeInv, TypeOK, CheckoutInv
<1> QED
  BY <1>1 DEF Store, Backed, BackedNext

LEMMA NewBacked ==
  ASSUME NEW r
  PROVE  BackedNext(WithSession(NewSession(r)))
<1>1. WithSession(NewSession(r)).session.initiated = NoTime
  BY DEF WithSession, NewSession
<1> QED
  BY <1>1 DEF BackedNext

LEMMA CheckoutStep == TypeInv /\ CheckoutInv /\ [Next]_vars => CheckoutInv'
<1> SUFFICES ASSUME TypeInv, CheckoutInv, [Next]_vars PROVE CheckoutInv'
  OBVIOUS
<1> USE NotStartedApart DEF CheckoutInv
<1>1. local \in LocalStore /\ saved \in LocalStore /\ op \in Op \cup {NoOp}
  BY DEF TypeInv, TypeOK
<1>2. HasRows => HasRows'
  BY RowsStay DEF HasRows
<1>3. BackedNext(local) /\ BackedNext(saved)
  BY <1>1, BackedStays
<1>4. op.pc = "stamp" => rows'[op.ses.ref] # NoRow /\ HasRows
  <2>1. op.pc = "stamp" => op.ses.ref \in Ref
    BY DEF TypeInv, Sessions, Session
  <2> QED
    BY <2>1, RowsStay DEF HasRows
<1>6. ASSUME local' \in {local, saved}, saved' = saved
      PROVE  Backed(local)' /\ Backed(saved)'
  BY <1>3, <1>6 DEF Backed, BackedNext
<1>8. CASE UNCHANGED vars
  BY <1>2, <1>4, <1>6, <1>8 DEF vars
<1>9. CASE Start
  <2>1. PICK r \in Ref : Store(WithSession(NewSession(r)), Calling("move", "START", NoSession))
    BY <1>9 DEF Start
  <2>2. /\ Backed(local)' /\ Backed(saved)'
        /\ op' \in {Calling("move", "START", NoSession), NoOp}
    BY <2>1, NewBacked, StoreBacked
  <2> QED
    BY <1>2, <1>9, <2>2 DEF Start, Calling, NoOp
<1>10. CASE Render
  BY <1>2, <1>6, <1>10 DEF Render, Calling
<1>11. CASE Record
  <2> DEFINE l == [local EXCEPT !.history = @ \cup
                     {[ref |-> op.ses.ref,
                       status |-> IF op.act = "PAYMENT_FAILED" THEN "FAILED" ELSE "TIMEOUT"]}]
             k == [op EXCEPT !.pc = IF op.act = "PAYMENT_FAILED" THEN "renew" ELSE "move"]
  <2>1. op \in Op /\ op.pc = "record"
    BY <1>1, <1>11, Working DEF Record
  <2>2. k.pc \in {"renew", "move"} /\ k.act = op.act
    BY <2>1 DEF Op
  <2>3. l.session = local.session
    BY <1>1 DEF LocalStore
  <2>4. Store(l, k)
    BY <1>11 DEF Record
  <2> HIDE DEF l, k
  <2>5. BackedNext(l)
    BY <1>3, <2>3 DEF BackedNext
  <2>6. Backed(local)' /\ Backed(saved)' /\ op' \in {k, NoOp}
    BY <2>4, <2>5, StoreBacked
  <2>7. op.act # "INITIATE_PAYMENT"
    BY <2>1
  <2> QED
    BY <1>2, <1>11, <2>2, <2>6, <2>7 DEF Record, NoOp
<1>12. CASE Renew
  <2> DEFINE k == IF op.act = "PAYMENT_FAILED" THEN [op EXCEPT !.pc = "move"] ELSE NoOp
  <2>1. PICK r \in Ref : Store(WithSession(NewSession(r)), k)
    BY <1>12 DEF Renew
  <2>2. Backed(local)' /\ Backed(saved)' /\ op' \in {k, NoOp}
    BY <2>1, NewBacked, StoreBacked
  <2>3. op \in Op
    BY <1>1, <1>12, Working DEF Renew
  <2>4. k.pc \in {"move", "idle"} /\ k.act # "INITIATE_PAYMENT"
    BY <2>3 DEF Op, NoOp
  <2> HIDE DEF k
  <2> QED
    BY <1>2, <1>12, <2>2, <2>4 DEF Renew, NoOp
<1>13. CASE Initiate
  BY <1>2, <1>6, <1>13 DEF Initiate, Calling
<1>14. CASE Checkout
  <2>1. op \in Op /\ op.ses.ref \in Ref
    BY <1>1, <1>14, Working DEF Checkout, TypeInv, Sessions, Session
  <2>2. op' = [op EXCEPT !.pc = "stamp"] /\ op'.ses = op.ses /\ op'.pc = "stamp"
          /\ op'.act = op.act
    BY <1>14, <2>1 DEF Checkout, Op
  <2>3. rows'[op.ses.ref] # NoRow
    BY <1>14, <2>1, PaymentAssumption DEF Checkout, TypeInv, TypeOK
  <2> QED
    BY <1>2, <1>6, <1>14, <2>2, <2>3 DEF Checkout
<1>15. CASE CheckoutFails
  BY <1>2, <1>6, <1>15 DEF CheckoutFails, NoOp
<1>16. CASE Stamp
  <2> DEFINE k == [op EXCEPT !.pc = "move"]
  <2>1. PICK at \in Time : Store(WithSession([op.ses EXCEPT !.initiated = at]), k)
    BY <1>16 DEF Stamp
  <2> DEFINE l == WithSession([op.ses EXCEPT !.initiated = at])
  <2>2. op \in Op /\ op.ses \in Session
    BY <1>1, <1>16, Working DEF Stamp, TypeInv, Sessions
  <2>3. l.session.ref = op.ses.ref
    BY <1>1, <2>2 DEF WithSession, LocalStore, Session
  <2>4. k.pc = "move"
    BY <2>2 DEF Op
  <2> HIDE DEF l, k
  <2>5. BackedNext(l)
    BY <1>4, <1>16, <2>3 DEF Stamp, BackedNext
  <2>6. Backed(local)' /\ Backed(saved)' /\ op' \in {k, NoOp}
    BY <2>1, <2>5, StoreBacked DEF l
  <2> QED
    BY <1>2, <1>4, <1>16, <2>4, <2>6 DEF Stamp, NoOp
<1>17. CASE Succeed
  BY <1>2, <1>6, <1>17 DEF Succeed, Calling
<1>18. CASE Fail
  BY <1>2, <1>6, <1>18 DEF Fail, Calling
<1>19. CASE Move
  <2>1. plugin' \in {"PAYING", "PAID"} => HasRows
    BY <1>19, PaymentMoves DEF Move
  <2> QED
    BY <1>2, <1>6, <1>19, <2>1 DEF Move, Calling, NoOp
<1>20. CASE Evict
  BY <1>2, <1>6, <1>20 DEF Evict, NoOp
<1>21. CASE Crash
  BY <1>2, <1>6, <1>21 DEF Crash, NoOp
<1>22. CASE Tick
  BY <1>2, <1>4, <1>6, <1>22 DEF Tick
<1>23. ASSUME NEW h \in Hook, (\E r \in Ref, st \in {"SUCCESS", "FAILED"} : HookRead(h, r, st))
                                \/ HookWrite(h) \/ HookFails(h)
       PROVE  CheckoutInv'
  BY <1>2, <1>4, <1>6, <1>23 DEF HookRead, HookWrite, HookFails
<1> QED
  BY <1>8, <1>9, <1>10, <1>11, <1>12, <1>13, <1>14, <1>15, <1>16, <1>17, <1>18, <1>19, <1>20,
     <1>21, <1>22, <1>23 DEF Next

(* No payment is in progress or made, and no session shows a checkout,     *)
(* without a row the gateway can validate: for every interleaving of       *)
(* crashes, failed writes and webhooks.                                    *)
THEOREM CheckoutComesFirst == Spec => []CheckoutFirst
<1>1. CheckoutInv => CheckoutFirst
  BY DEF CheckoutInv, CheckoutFirst, Backed, HasRows
<1> QED
  BY <1>1, TypeInit, TypeStep, CheckoutInit, CheckoutStep, PTL DEF Spec

----------------------------------------------------------------------------
(* The history: the copy in memory may be ahead of the database, but what  *)
(* the database has is in it, so no write takes an entry away.             *)

HistoryInv == saved.history \subseteq local.history

LEMMA HistoryStep ==
  ASSUME TypeInv, HistoryInv, [Next]_vars
  PROVE  HistoryInv' /\ saved.history \subseteq saved'.history
<1> USE DEF HistoryInv
<1>1. local \in LocalStore /\ saved \in LocalStore
  BY DEF TypeInv, TypeOK
<1>2. CASE local' \in {local, saved} /\ saved' = saved
  BY <1>2
<1>3. ASSUME NEW l, NEW next, Store(l, next), local.history \subseteq l.history
      PROVE  HistoryInv' /\ saved.history \subseteq saved'.history
  BY <1>3 DEF Store
<1>4. ASSUME NEW s
      PROVE  WithSession(s).history = local.history
  BY <1>1 DEF WithSession, LocalStore
<1>5. CASE Start
  BY <1>3, <1>4, <1>5 DEF Start
<1>6. CASE Record
  <2> DEFINE l == [local EXCEPT !.history = @ \cup
                     {[ref |-> op.ses.ref,
                       status |-> IF op.act = "PAYMENT_FAILED" THEN "FAILED" ELSE "TIMEOUT"]}]
  <2>1. local.history \subseteq l.history
    BY <1>1 DEF LocalStore
  <2> QED
    BY <1>3, <1>6, <2>1 DEF Record
<1>7. CASE Renew
  BY <1>3, <1>4, <1>7 DEF Renew
<1>8. CASE Stamp
  BY <1>3, <1>4, <1>8 DEF Stamp
<1>9. \/ local' \in {local, saved} /\ saved' = saved
      \/ Start \/ Record \/ Renew \/ Stamp
  BY DEF Next, vars, Render, Initiate, Checkout, CheckoutFails, Succeed, Fail, Move, Evict,
         Crash, Tick, HookRead, HookWrite, HookFails
<1> QED
  BY <1>2, <1>5, <1>6, <1>7, <1>8, <1>9

(* The saved history of ended attempts only grows: a write of the session  *)
(* or of an entry rewrites the column, and forgets nothing.                *)
THEOREM HistoryOnlyGrows == Spec => HistoryAppendOnly
<1>1. Init => HistoryInv
  BY DEF Init, HistoryInv
<1>2. TypeInv /\ HistoryInv /\ [Next]_vars => HistoryInv'
  BY HistoryStep
<1>3. TypeInv /\ HistoryInv /\ [Next]_vars => [saved.history \subseteq saved'.history]_vars
  BY HistoryStep
<1> QED
  BY <1>1, <1>2, <1>3, TypeInit, TypeStep, PTL DEF Spec, HistoryAppendOnly

----------------------------------------------------------------------------
(* Webhooks, one at a time: the row a request is about to write is not a   *)
(* success, because nobody wrote it since the request read it.             *)

HookInv == \A h \in Hook : hook[h].pc = "write" => rows[hook[h].ref] # "SUCCESS"

LEMMA HookStep ==
  ASSUME \A g, h \in Hook : g = h, TypeInv, HookInv, [Next]_vars
  PROVE  HookInv' /\ \A r \in Ref : rows[r] = "SUCCESS" => rows'[r] = "SUCCESS"
<1> USE DEF HookInv
<1>1. /\ rows \in [Ref -> Status \cup {NoRow}]
      /\ hook \in [Hook -> HookCall \cup {NoHook}]
  BY DEF TypeInv, TypeOK
<1>2. \A h \in Hook : hook[h].pc = "write" => hook[h].ref \in Ref
  BY <1>1 DEF HookCall, NoHook
<1>3. CASE rows' = rows /\ hook' = hook
  BY <1>3
<1>4. CASE Checkout
  <2>1. op.ses.ref \in Ref /\ rows[op.ses.ref] # "SUCCESS"
    BY <1>4, PaymentAssumption DEF Checkout, TypeInv, Sessions, Session
  <2> QED
    BY <1>1, <1>2, <1>4, <2>1 DEF Checkout
<1>5. ASSUME NEW h \in Hook, NEW r \in Ref, NEW st \in {"SUCCESS", "FAILED"}, HookRead(h, r, st)
      PROVE  HookInv' /\ rows' = rows
  BY <1>1, <1>5 DEF HookRead, Ignores
<1>6. ASSUME NEW h \in Hook, HookWrite(h)
      PROVE  HookInv' /\ \A r \in Ref : rows[r] = "SUCCESS" => rows'[r] = "SUCCESS"
  BY <1>1, <1>2, <1>6 DEF HookWrite, NoHook
<1>7. CASE rows' = rows /\ \A h \in Hook : hook'[h] \in {hook[h], NoHook}
  BY <1>7 DEF NoHook
<1>8. ASSUME NEW h \in Hook, HookFails(h)
      PROVE  rows' = rows /\ \A g \in Hook : hook'[g] \in {hook[g], NoHook}
  BY <1>1, <1>8 DEF HookFails
<1>9. CASE Crash
  BY <1>7, <1>9 DEF Crash
<1>10. \/ rows' = rows /\ hook' = hook
       \/ Checkout \/ Crash
       \/ \E h \in Hook :
            \/ \E r \in Ref, st \in {"SUCCESS", "FAILED"} : HookRead(h, r, st)
            \/ HookWrite(h) \/ HookFails(h)
  BY DEF Next, vars, Start, Render, Record, Renew, Initiate, CheckoutFails, Stamp, Succeed,
         Fail, Move, Evict, Tick
<1> QED
  BY <1>3, <1>4, <1>5, <1>6, <1>7, <1>8, <1>9, <1>10

(* A payment the gateway confirmed stays confirmed, whatever arrives later *)
(* and however often, as long as no two webhooks are handled at once.      *)
THEOREM SuccessStays ==
  ASSUME \A g, h \in Hook : g = h
  PROVE  Spec => SuccessIsFinal
<1>1. Init => HookInv
  BY DEF Init, HookInv, NoHook
<1>2. TypeInv /\ HookInv /\ [Next]_vars => HookInv'
  BY HookStep
<1>3. TypeInv /\ HookInv /\ [Next]_vars
        => [\A r \in Ref : rows[r] = "SUCCESS" => rows'[r] = "SUCCESS"]_vars
  BY HookStep
<1> QED
  BY <1>1, <1>2, <1>3, TypeInit, TypeStep, PTL DEF Spec, SuccessIsFinal
=============================================================================
