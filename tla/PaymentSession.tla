---------------------------- MODULE PaymentSession ----------------------------
(***************************************************************************)
(* One PAYMENT task and the payment service: the session the plugin keeps  *)
(* in the task's local store, the history of ended attempts beside it, the *)
(* payment_transactions rows the checkouts create, and the gateway's       *)
(* webhooks, which arrive in any order, repeated, and at the same time.    *)
(*                                                                         *)
(* One call of the task at a time: overlapping calls, failed writes of the *)
(* plugin state and evictions during a call are TaskLifecycle's.  Time is  *)
(* a counter; the gateway link, amounts and methods are left out.          *)
(***************************************************************************)
EXTENDS PluginTables, Naturals

CONSTANTS Ref,            \* reference numbers newSession can draw
          Hook,           \* webhook requests the service handles at once
          TTL, Threshold, \* in ticks
          MaxTime,        \* bound on the clock
          NoTime, NoSession, NoRow

ASSUME PaymentAssumption ==
  /\ TTL \in Nat /\ Threshold \in Nat /\ MaxTime \in Nat
  /\ NoTime \notin Nat
  /\ NoRow \notin {"PENDING", "SUCCESS", "FAILED"}

VARIABLES
  now,
  plugin,   \* plugin_state of the task
  local,    \* the container's copy of the local store: session and history
  saved,    \* tasks.local_state
  drawn,    \* references generated so far
  rows,     \* payment_transactions.status of each reference
  op,       \* the call of the task in progress
  hook      \* the webhook requests in progress

vars == <<now, plugin, local, saved, drawn, rows, op, hook>>

Time == 0..MaxTime
Status == {"PENDING", "SUCCESS", "FAILED"}
Session == [ref : Ref, generated : Time, initiated : Time \cup {NoTime}]
Entry == [ref : Ref, status : {"FAILED", "TIMEOUT"}]
LocalStore == [session : Session \cup {NoSession}, history : SUBSET Entry]

ASSUME SessionAssumption == NoSession \notin Session

(* A call: the action it will apply (ROTATE stands for none) and the       *)
(* session it read.                                                        *)
Steps == {"checkout", "stamp", "record", "renew", "move"}
NoOp == [pc |-> "idle", act |-> "NONE", ses |-> NoSession]
Act == {e.act : e \in PaymentFSM} \cup {"ROTATE"}
Op == [pc : Steps, act : Act, ses : Session \cup {NoSession}]
NoHook == [pc |-> "idle"]
HookCall == [pc : {"write"}, ref : Ref, status : Status]

TypeOK ==
  /\ now \in Time
  /\ plugin \in PluginStates("PAYMENT")
  /\ local \in LocalStore
  /\ saved \in LocalStore
  /\ drawn \subseteq Ref
  /\ rows \in [Ref -> Status \cup {NoRow}]
  /\ op \in Op \cup {NoOp}
  /\ hook \in [Hook -> HookCall \cup {NoHook}]

Init ==
  /\ now = 0
  /\ plugin = NotStarted
  /\ local = [session |-> NoSession, history |-> {}]
  /\ saved = local
  /\ drawn = {}
  /\ rows = [r \in Ref |-> NoRow]
  /\ op = NoOp
  /\ hook = [h \in Hook |-> NoHook]

----------------------------------------------------------------------------
(* The local store                                                         *)

(* SetState: the copy in memory changes first.  When the write to the      *)
(* database fails the call ends in an error and the copy stays ahead.      *)
Store(l, next) ==
  /\ local' = l
  /\ \/ saved' = l /\ op' = next
     \/ saved' = saved /\ op' = NoOp

NewSession(r) == [ref |-> r, generated |-> now, initiated |-> NoTime]

(* Mutant: the key is written alone, and the rest of the store with it. *)
WithSessionAlone(s) == [session |-> s, history |-> {}]

WithSession(s) == [local EXCEPT !.session = s]

Expired(s) == now > s.generated + TTL
Calling(pc, act, s) == [pc |-> pc, act |-> act, ses |-> s]

Start ==
  /\ op = NoOp /\ plugin = NotStarted
  /\ \E r \in Ref \ drawn :
       /\ drawn' = drawn \cup {r}
       /\ Store(WithSession(NewSession(r)), Calling("move", "START", NoSession))
  /\ UNCHANGED <<now, plugin, rows, hook>>

----------------------------------------------------------------------------
(* GetRenderInfo: the lazy timeout of a payment in progress, then the      *)
(* rotation of a session that has lived its TTL, whatever the state.       *)

TimedOut(s) == s.initiated # NoTime /\ now > s.initiated + TTL + Threshold

Render ==
  LET s == local.session
      timeout == plugin = "PAYING" /\ TimedOut(s)
  IN  /\ op = NoOp
      /\ plugin # "PAID" /\ s # NoSession
      /\ \/ timeout /\ op' = Calling("record", "PAYMENT_TIMEOUT", s)
         \/ ~timeout /\ Expired(s) /\ op' = Calling("renew", "ROTATE", s)
      /\ UNCHANGED <<now, plugin, local, saved, drawn, rows, hook>>

(* Mutant: the entry is given the name of the action for its status. *)
RecordAction ==
  /\ op.pc = "record"
  /\ Store([local EXCEPT !.history = @ \cup {[ref |-> op.ses.ref, status |-> op.act]}],
           [op EXCEPT !.pc = IF op.act = "PAYMENT_FAILED" THEN "renew" ELSE "move"])
  /\ UNCHANGED <<now, plugin, drawn, rows, hook>>

(* recordTransaction; a failed payment gets its new session before the     *)
(* transition, a timed out one after it.                                   *)
Record ==
  /\ op.pc = "record"
  /\ Store([local EXCEPT !.history = @ \cup
              {[ref |-> op.ses.ref,
                status |-> IF op.act = "PAYMENT_FAILED" THEN "FAILED" ELSE "TIMEOUT"]}],
           [op EXCEPT !.pc = IF op.act = "PAYMENT_FAILED" THEN "renew" ELSE "move"])
  /\ UNCHANGED <<now, plugin, drawn, rows, hook>>

Renew ==
  /\ op.pc = "renew"
  /\ \E r \in Ref \ drawn :
       /\ drawn' = drawn \cup {r}
       /\ Store(WithSession(NewSession(r)),
                IF op.act = "PAYMENT_FAILED" THEN [op EXCEPT !.pc = "move"] ELSE NoOp)
  /\ UNCHANGED <<now, plugin, rows, hook>>

----------------------------------------------------------------------------
(* INITIATE_PAYMENT: the checkout, the stamp in the session, and the       *)
(* transition unless a payment is in progress already.                     *)

Initiate ==
  /\ op = NoOp
  /\ plugin \in {"IDLE", "PAYING"}
  /\ ~Expired(local.session)
  /\ op' = Calling("checkout", "INITIATE_PAYMENT", local.session)
  /\ UNCHANGED <<now, plugin, local, saved, drawn, rows, hook>>

(* reference_number is unique.                                             *)
Checkout ==
  /\ op.pc = "checkout"
  /\ rows[op.ses.ref] = NoRow
  /\ rows' = [rows EXCEPT ![op.ses.ref] = "PENDING"]
  /\ op' = [op EXCEPT !.pc = "stamp"]
  /\ UNCHANGED <<now, plugin, local, saved, drawn, hook>>

(* Mutant: the error of CreateCheckoutSession is not looked at. *)
CheckoutFailsUnseen ==
  /\ op.pc = "checkout"
  /\ op' = [op EXCEPT !.pc = "stamp"]
  /\ UNCHANGED <<now, plugin, local, saved, drawn, rows, hook>>

(* The reference has a row already, or the insert fails.                   *)
CheckoutFails ==
  /\ op.pc = "checkout"
  /\ op' = NoOp
  /\ UNCHANGED <<now, plugin, local, saved, drawn, rows, hook>>

(* The time may be the client's.                                           *)
Stamp ==
  /\ op.pc = "stamp"
  /\ \E at \in Time :
       Store(WithSession([op.ses EXCEPT !.initiated = at]), [op EXCEPT !.pc = "move"])
  /\ UNCHANGED <<now, plugin, drawn, rows, hook>>

Succeed ==
  /\ op = NoOp /\ plugin = "PAYING"
  /\ op' = Calling("move", "PAYMENT_SUCCESS", NoSession)
  /\ UNCHANGED <<now, plugin, local, saved, drawn, rows, hook>>

Fail ==
  /\ op = NoOp /\ plugin = "PAYING"
  /\ op' = Calling("record", "PAYMENT_FAILED", local.session)
  /\ UNCHANGED <<now, plugin, local, saved, drawn, rows, hook>>

(* The transition of the action, and the rotation that follows a timeout.  *)
Move ==
  /\ op.pc = "move"
  /\ IF op.act = "INITIATE_PAYMENT" /\ plugin = "PAYING"
       THEN plugin' = plugin
       ELSE \E e \in Moves("PAYMENT", plugin, op.act) : plugin' = e.to
  /\ op' = IF op.act = "PAYMENT_TIMEOUT" /\ Expired(op.ses)
             THEN Calling("renew", "ROTATE", op.ses) ELSE NoOp
  /\ UNCHANGED <<now, local, saved, drawn, rows, hook>>

----------------------------------------------------------------------------
(* ProcessWebhook: the row is read and, unless it already has the reported *)
(* status or SUCCESS, written back.                                        *)

(* Mutant: only a repetition is ignored. *)
IgnoresRepeated(old, new) == old = new

Ignores(old, new) == old = new \/ old = "SUCCESS"

HookRead(h, r, st) ==
  /\ hook[h] = NoHook
  /\ rows[r] # NoRow
  /\ ~Ignores(rows[r], st)
  /\ hook' = [hook EXCEPT ![h] = [pc |-> "write", ref |-> r, status |-> st]]
  /\ UNCHANGED <<now, plugin, local, saved, drawn, rows, op>>

HookWrite(h) ==
  /\ hook[h].pc = "write"
  /\ rows' = [rows EXCEPT ![hook[h].ref] = hook[h].status]
  /\ hook' = [hook EXCEPT ![h] = NoHook]
  /\ UNCHANGED <<now, plugin, local, saved, drawn, op>>

HookFails(h) ==
  /\ hook[h].pc = "write"
  /\ hook' = [hook EXCEPT ![h] = NoHook]
  /\ UNCHANGED <<now, plugin, local, saved, drawn, rows, op>>

----------------------------------------------------------------------------
(* The container is evicted and rebuilt from the row; the process dies.    *)
Evict ==
  /\ op = NoOp
  /\ local' = saved
  /\ UNCHANGED <<now, plugin, saved, drawn, rows, op, hook>>

Crash ==
  /\ local' = saved
  /\ op' = NoOp
  /\ hook' = [h \in Hook |-> NoHook]
  /\ UNCHANGED <<now, plugin, saved, drawn, rows>>

Tick ==
  /\ now < MaxTime
  /\ now' = now + 1
  /\ UNCHANGED <<plugin, local, saved, drawn, rows, op, hook>>

Next ==
  \/ Start \/ Render \/ Record \/ Renew
  \/ Initiate \/ Checkout \/ CheckoutFails \/ Stamp
  \/ Succeed \/ Fail \/ Move
  \/ Evict \/ Crash \/ Tick
  \/ \E h \in Hook :
       \/ \E r \in Ref, st \in {"SUCCESS", "FAILED"} : HookRead(h, r, st)
       \/ HookWrite(h)
       \/ HookFails(h)

Spec == Init /\ [][Next]_vars

----------------------------------------------------------------------------
(* Properties *)

(* A session is stamped, and a payment is in progress or made, only after  *)
(* the service has a row the gateway can validate: across crashes, failed  *)
(* writes and copies of the store that are ahead of the database.          *)
CheckoutFirst ==
  /\ \A l \in {local, saved} :
       l.session # NoSession /\ l.session.initiated # NoTime => rows[l.session.ref] # NoRow
  /\ plugin \in {"PAYING", "PAID"} => \E r \in Ref : rows[r] # NoRow

(* plugin/payment.go:106: the history of ended attempts is "append-only".  *)
(* The session lives in the same column, and each rewrites all of it.      *)
HistoryAppendOnly == [][saved.history \subseteq saved'.history]_vars

(* payments/service.go:99: "Ignore if we already recorded a final status": *)
(* whatever is delivered after a success, the payment stays a success.     *)
SuccessIsFinal == [][\A r \in Ref : rows[r] = "SUCCESS" => rows'[r] = "SUCCESS"]_vars

(* plugin/payment.go:248: the rotation of an old session "applies to both  *)
(* IDLE and refreshed-from-timeout": it does not take the session, and     *)
(* with it the time it was initiated at, from a payment in progress, which *)
(* would then never time out.                                              *)
RotationSparesPayment ==
  [][op.pc = "renew" /\ op.act # "PAYMENT_FAILED" /\ plugin = "PAYING"
       => local'.session = local.session]_vars
=============================================================================
