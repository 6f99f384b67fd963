------------------------- MODULE TaskLifecycleProofs -------------------------
(***************************************************************************)
(* Proofs about TaskLifecycle, for every set of types, callers and         *)
(* container objects: types and the build mutex for every number of        *)
(* overlapping calls; the agreement of container and row, and durable      *)
(* reports, for calls that come one at a time.                             *)
(***************************************************************************)
EXTENDS TaskLifecycle, FiniteSetTheorems, TLAPS

AllEdges == {NoEdge} \cup UNION {Table[t] : t \in DOMAIN Table}

LEMMA EdgesTask ==
  ASSUME NEW F, NEW act, NEW to, NEW task, NEW e \in Edges(F, act, to, task)
  PROVE  e.task = task /\ e.to = to /\ e.from \in F
BY DEF Edges

LEMMA NotStartedIsPlugin == NotStarted \in Plugin
<1>1. "PAYMENT" \in DOMAIN Table
  BY DEF Table
<1>2. NotStarted \in PluginStates("PAYMENT")
  BY DEF PluginStates
<1> QED
  BY <1>1, <1>2 DEF Plugin

(* Every edge of the three tables leads to a plugin state, and to a task   *)
(* state unless it keeps the one there is.                                 *)
LEMMA EdgeTargets ==
  ASSUME NEW e \in AllEdges
  PROVE  e.to \in Plugin /\ e.task \in TaskState \cup {Keep}
<1>2. CASE e = NoEdge
  BY <1>2, NotStartedIsPlugin DEF NoEdge, Keep
<1>3. ASSUME NEW t \in DOMAIN Table, e \in Table[t]
      PROVE  e.to \in Plugin /\ e.task \in TaskState \cup {Keep}
  <2>1. e.to \in Plugin
    BY <1>3 DEF Plugin, PluginStates
  <2>2. Table[t] \in {SimpleFormFSM, WaitForEventFSM, PaymentFSM}
    BY <1>3 DEF Table
  <2>3. e.task \in TaskState \cup {Keep}
    <3>1. CASE e \in SimpleFormFSM
      BY <3>1, EdgesTask DEF SimpleFormFSM, TaskState
    <3>2. CASE e \in WaitForEventFSM
      BY <3>2, EdgesTask DEF WaitForEventFSM, TaskState
    <3>3. CASE e \in PaymentFSM
      BY <3>3, EdgesTask DEF PaymentFSM, TaskState
    <3> QED
      BY <1>3, <2>2, <3>1, <3>2, <3>3
  <2> QED
    BY <2>1, <2>3
<1> QED
  BY <1>2, <1>3 DEF AllEdges

LEMMA MovesAreEdges ==
  ASSUME type \in Type, NEW s, NEW act, NEW e \in Moves(type, s, act)
  PROVE  e \in AllEdges
BY TaskAssumption DEF Moves, AllEdges

(* The row exists before anything is cached or worked on, and a call that  *)
(* works has a container; only an edge with a task state writes it.        *)
Placed ==
  /\ cached # NoBox => row # NoRow
  /\ \A c \in Caller :
       /\ call[c].pc \notin {"idle", "new", "create", "lookup", "lock"} => row # NoRow
       /\ call[c].pc \notin {"idle", "new", "lookup", "lock"} => call[c].box \in Box
       /\ call[c].pc = "status" => call[c].edge.task # Keep

TypeInv == TypeOK /\ Placed

LEMMA FreshAndIdle == Fresh \in State /\ Idle \in Call /\ Idle.pc = "idle"
BY NotStartedIsPlugin DEF Fresh, State, TaskState, Idle, Call, Locations, Acts

LEMMA TypeInit == Init => TypeInv
<1> SUFFICES ASSUME Init PROVE TypeInv
  OBVIOUS
<1>3. call \in [Caller -> Call] /\ mem \in [Box -> State]
  BY FreshAndIdle DEF Init
<1>4. \A c \in Caller : call[c].pc = "idle"
  BY DEF Init, Idle
<1>5. reports \in 0..2
  BY DEF Init
<1>6. type \in Type /\ row = NoRow /\ cached = NoBox /\ building = Nobody
        /\ started = FALSE /\ behind = {} /\ misread = FALSE
  BY DEF Init
<1>7. TypeOK
  BY <1>3, <1>5, <1>6, Zenon DEF TypeOK
<1> QED
  BY <1>4, <1>6, <1>7 DEF TypeInv, Placed

----------------------------------------------------------------------------
(* An assignment to the fields of a call's record keeps the record's type. *)

LEMMA CallTyped ==
  ASSUME NEW k \in Call
  PROVE  /\ k.pc \in Locations /\ k.act \in Acts /\ k.box \in Box \cup {NoBox}
         /\ k.prev \in Plugin /\ k.failed \in BOOLEAN
         /\ k.edge \in AllEdges
BY DEF Call, AllEdges

LEMMA TypeStep == TypeInv /\ [Next]_vars => TypeInv'
<1> SUFFICES ASSUME TypeInv, [Next]_vars PROVE TypeInv'
  OBVIOUS
<1> USE DEF TypeInv, TypeOK, Placed, history
<1>1. CASE UNCHANGED vars
  BY <1>1 DEF vars
<1>2. CASE Evict
  BY <1>2 DEF Evict
<1>3. CASE Crash
  BY <1>3, FreshAndIdle DEF Crash
<1>4. ASSUME NEW c \in Caller, BeginInit(c)
      PROVE  TypeInv'
  <2> DEFINE k == [Idle EXCEPT !.act = "START", !.box = cached,
                     !.pc = IF cached # NoBox THEN "check" ELSE "new"]
  <2>1. k \in Call
    BY FreshAndIdle DEF Call, Locations, Acts
  <2>2. call' = [call EXCEPT ![c] = k]
    BY <1>4 DEF BeginInit
  <2>3. TypeOK'
    BY <1>4, <2>1, <2>2 DEF BeginInit
  <2>4. k.box = cached /\ k.pc = IF cached # NoBox THEN "check" ELSE "new"
    BY FreshAndIdle DEF Call
  <2> QED
    BY <1>4, <2>1, <2>2, <2>3, <2>4 DEF BeginInit
<1>5. ASSUME NEW c \in Caller, NEW act \in Actions(type), BeginExecute(c, act)
      PROVE  TypeInv'
  <2> DEFINE k == [Idle EXCEPT !.act = act, !.box = cached,
                     !.pc = IF cached # NoBox THEN "check" ELSE "lookup"]
  <2>1. k \in Call
    <3>1. act \in Acts
      BY TaskAssumption DEF Acts
    <3> QED
      BY <3>1, FreshAndIdle DEF Call, Locations
  <2>2. call' = [call EXCEPT ![c] = k]
    BY <1>5 DEF BeginExecute
  <2>3. TypeOK'
    BY <1>5, <2>1, <2>2 DEF BeginExecute
  <2>4. k.box = cached /\ k.pc = IF cached # NoBox THEN "check" ELSE "lookup"
    BY FreshAndIdle DEF Call
  <2> QED
    BY <1>5, <2>1, <2>2, <2>3, <2>4 DEF BeginExecute
<1>6. ASSUME NEW c \in Caller, NewBox(c)
      PROVE  TypeInv'
  <2> DEFINE v == [Fresh EXCEPT !.plugin = IF row = NoRow THEN NotStarted ELSE row.plugin]
  <2>1. v \in State
    BY <1>6, FreshAndIdle, NotStartedIsPlugin DEF NewBox, State
  <2>2. PICK b \in Box \ InUse : /\ mem' = [mem EXCEPT ![b] = v]
                                 /\ behind' = behind \ {b}
                                 /\ GoWith(c, "create", b)
    BY <1>6 DEF NewBox
  <2> DEFINE k == [call[c] EXCEPT !.pc = "create", !.box = b]
  <2>3. call' \in [Caller -> Call] /\ mem' \in [Box -> State]
    <3>1. k \in Call
      BY DEF Call, Locations
    <3>2. call' = [call EXCEPT ![c] = k]
      BY <2>2 DEF GoWith
    <3> QED
      BY <2>1, <2>2, <3>1, <3>2
  <2>4. TypeOK'
    BY <1>6, <2>2, <2>3 DEF NewBox
  <2> QED
    BY <1>6, <2>2, <2>4 DEF NewBox, GoWith, At, Call
<1>7. ASSUME NEW c \in Caller, CreateRow(c)
      PROVE  TypeInv'
  <2>1. call' \in [Caller -> Call]
    BY <1>7 DEF CreateRow, Go, Call, Locations
  <2>2. row' \in State /\ row' # NoRow
    BY <1>7, FreshAndIdle, TaskAssumption DEF CreateRow
  <2>3. TypeOK'
    BY <1>7, <2>1, <2>2 DEF CreateRow
  <2> QED
    BY <1>7, <2>2, <2>3 DEF CreateRow, Go, At, Call
<1>8. ASSUME NEW c \in Caller, CacheNew(c)
      PROVE  TypeInv'
  BY <1>8 DEF Put, CacheNew, At, Go, Call, Locations
<1>9. ASSUME NEW c \in Caller, LockBuild(c) \/ FoundUnderLock(c)
      PROVE  TypeInv'
  BY <1>9 DEF LockBuild, FoundUnderLock, At, Go, GoWith, Call, Locations
<1>10. ASSUME NEW c \in Caller, ReadRow(c)
      PROVE  TypeInv'
  <2> DEFINE v == [Fresh EXCEPT !.task = row.task]
  <2>1. v \in State
    BY <1>10, FreshAndIdle, NotStartedIsPlugin DEF ReadRow, State
  <2>2. PICK b \in Box \ InUse : /\ mem' = [mem EXCEPT ![b] = v]
                                 /\ behind' = behind \ {b}
                                 /\ GoWith(c, "rebuild", b)
    BY <1>10 DEF ReadRow
  <2> DEFINE k == [call[c] EXCEPT !.pc = "rebuild", !.box = b]
  <2>3. call' \in [Caller -> Call] /\ mem' \in [Box -> State]
    <3>1. k \in Call
      BY DEF Call, Locations
    <3>2. call' = [call EXCEPT ![c] = k]
      BY <2>2 DEF GoWith
    <3> QED
      BY <2>1, <2>2, <3>1, <3>2
  <2>4. TypeOK'
    BY <1>10, <2>2, <2>3 DEF ReadRow
  <2> QED
    BY <1>10, <2>2, <2>4 DEF ReadRow, GoWith, At, Call
<1>11. ASSUME NEW c \in Caller, ReadPlugin(c)
      PROVE  TypeInv'
  BY <1>11 DEF ReadPlugin, At, Go, Call, Locations, State
<1>12. ASSUME NEW c \in Caller, MisreadPlugin(c) \/ StoreBox(c)
      PROVE  TypeInv'
  <2>1. call' \in [Caller -> Call]
    BY <1>12 DEF Put, MisreadPlugin, StoreBox, Go, Call, Locations
  <2>2. call[c].box \in Box /\ row # NoRow
    BY <1>12 DEF Put, MisreadPlugin, StoreBox, At
  <2>3. cached' \in Box \cup {NoBox} /\ building' \in Caller \cup {Nobody} /\ behind' \subseteq Box
    BY <1>12, <2>2 DEF Put, MisreadPlugin, StoreBox
  <2>4. misread' \in BOOLEAN
    BY <1>12, Zenon DEF Put, MisreadPlugin, StoreBox
  <2>5. TypeOK'
    BY <1>12, <2>1, <2>3, <2>4 DEF Put, MisreadPlugin, StoreBox
  <2> QED
    BY <1>12, <2>2, <2>5 DEF Put, MisreadPlugin, StoreBox, Go, At, Call
<1>13. ASSUME NEW c \in Caller, Check(c)
      PROVE  TypeInv'
  BY <1>13 DEF Check, At, Call, Locations, State
<1>14. ASSUME NEW c \in Caller,
              CreateFails(c) \/ RowMissing(c) \/ Refuse(c) \/ HandlerFails(c) \/ NoMove(c)
      PROVE  TypeInv'
  BY <1>14, FreshAndIdle DEF CreateFails, RowMissing, Refuse, HandlerFails, NoMove, Return
<1>15. ASSUME NEW c \in Caller, Dispatch(c)
      PROVE  TypeInv'
  BY <1>15 DEF Dispatch, At, Go, Call, Locations
<1>16. ASSUME NEW c \in Caller, ExternalFails(c)
      PROVE  TypeInv'
  <2> DEFINE act == call[c].act
             k == [call[c] EXCEPT !.pc = "decide", !.act = OnFailure[act], !.failed = ~Starts(act)]
  <2>1. OnFailure[act] \in Acts
    <3>1. act \in {"SUBMIT_FORM_COMPLETE", "SUBMIT_FORM_AWAIT_OGA", "START"}
      BY <1>16 DEF ExternalFails, OnFailure
    <3>2. OnFailure[act] \in {"SUBMIT_FORM_FAILED", "START_FAILED"}
      BY <3>1 DEF OnFailure
    <3> QED
      BY <3>2 DEF Acts
  <2>2. (~Starts(act)) \in BOOLEAN
    BY Zenon DEF Starts
  <2>3. k \in Call
    BY <2>1, <2>2 DEF Call, Locations
  <2>4. call' = [call EXCEPT ![c] = k]
    BY <1>16 DEF ExternalFails
  <2>5. TypeOK'
    BY <1>16, <2>3, <2>4 DEF ExternalFails
  <2> QED
    BY <1>16, <2>4, <2>5 DEF ExternalFails, At, Call
<1>17. ASSUME NEW c \in Caller, Decide(c)
      PROVE  TypeInv'
  <2>1. PICK e \in Moves(type, mem[call[c].box].plugin, call[c].act) :
          call' = [call EXCEPT ![c].pc = "set", ![c].edge = e]
    BY <1>17 DEF Decide
  <2>2. e \in AllEdges
    BY MovesAreEdges
  <2> DEFINE k == [call[c] EXCEPT !.pc = "set", !.edge = e]
  <2>3. call' \in [Caller -> Call]
    <3>1. k \in Call
      BY <2>2 DEF Call, Locations, AllEdges
    <3>2. call' = [call EXCEPT ![c] = k]
      BY <2>1
    <3> QED
      BY <3>1, <3>2
  <2>4. TypeOK'
    BY <1>17, <2>3 DEF Decide
  <2> QED
    BY <1>17, <2>1, <2>4 DEF Decide, At, Call
<1>18. ASSUME NEW c \in Caller, SetMemory(c)
      PROVE  TypeInv'
  BY <1>18, EdgeTargets, CallTyped DEF SetMemory, At, Go, After, Call, Locations, State
<1>19. ASSUME NEW c \in Caller, WritePlugin(c) \/ WriteStatus(c)
      PROVE  TypeInv'
  <2> DEFINE e == call[c].edge
  <2>1. e.to \in Plugin /\ e.task \in TaskState \cup {Keep}
    BY CallTyped, EdgeTargets
  <2>2. row \in State
    BY <1>19 DEF WritePlugin, WriteStatus, At
  <2>3. row' \in State
    BY <1>19, <2>1, <2>2 DEF WritePlugin, WriteStatus, State, At
  <2>4. call' \in [Caller -> Call]
    <3>1. PICK pc \in {"status", "finish"} : Go(c, pc)
      BY <1>19 DEF WritePlugin, WriteStatus
    <3>2. [call[c] EXCEPT !.pc = pc] \in Call
      BY DEF Call, Locations
    <3> QED
      BY <3>1, <3>2 DEF Go
  <2>5. TypeOK'
    BY <1>19, <2>3, <2>4 DEF WritePlugin, WriteStatus
  <2> QED
    BY <1>19, <2>3, <2>5, TaskAssumption DEF WritePlugin, WriteStatus, Go, At, Call
<1>20. ASSUME NEW c \in Caller, WriteFails(c)
      PROVE  TypeInv'
  <2>1. behind' \subseteq Box
    BY <1>20 DEF WriteFails, At
  <2> QED
    BY <1>20, <2>1, FreshAndIdle DEF WriteFails, Return
<1>21. ASSUME NEW c \in Caller, Finish(c)
      PROVE  TypeInv'
  BY <1>21, FreshAndIdle DEF Finish, Return
<1>22. ASSUME NEW c \in Caller, Switch(c)
      PROVE  TypeInv'
  <2> DEFINE k == [call[c] EXCEPT !.pc = "finish", !.edge = NoEdge]
  <2>1. k \in Call
    BY DEF Call, Locations
  <2>2. call' = [call EXCEPT ![c] = k]
    BY <1>22 DEF Switch
  <2>3. TypeOK'
    BY <1>22, <2>1, <2>2 DEF Switch
  <2> QED
    BY <1>22, <2>2, <2>3 DEF Switch, At, Call
<1> QED
  BY <1>1, <1>2, <1>3, <1>4, <1>5, <1>6, <1>7, <1>8, <1>9, <1>10, <1>11, <1>12, <1>13, <1>14,
     <1>15, <1>16, <1>17, <1>18, <1>19, <1>20, <1>21, <1>22 DEF Next, Step

(* The type invariant: the values the task manager, its containers and the *)
(* task_infos row can hold, whatever calls overlap.                        *)
THEOREM TaskTypeCorrect == Spec => []TypeOK
<1>1. TypeInv => TypeOK
  BY DEF TypeInv
<1> QED
  BY <1>1, TypeInit, TypeStep, PTL DEF Spec

----------------------------------------------------------------------------
(* Calls that come one at a time.  At most one call is in progress; while  *)
(* it makes a container nothing is cached, and afterwards nothing but its  *)
(* own container is.                                                       *)
Making == {"new", "create", "cache", "lookup", "lock", "rebuild", "store"}
Moved == {"plugin", "status", "finish"}

Quiet == \A c \in Caller : At(c, "idle")
Alone == \A c, d \in Caller : c # d => At(c, "idle") \/ At(d, "idle")

Same(b) == b \notin behind => mem[b] = row

(* No edge leaves the plugin state s.                                      *)
Stuck(t, s) == \A e \in Table[t] : e.from # s

(* How far container and row have come, by where the call is; switched is  *)
(* a payment's method switched without a transition.                       *)
Fits(c) ==
  LET k == call[c]
      s == mem[k.box]
      e == k.edge
      switched == k.pc = "finish" /\ e = NoEdge
  IN  /\ k.pc \in Making => cached = NoBox
      /\ k.pc \in Working => cached \in {NoBox, k.box}
      /\ k.pc = "create" /\ row = NoRow => s = Fresh
      /\ k.pc = "cache" => s = Fresh /\ row = Fresh
      /\ k.pc = "rebuild" => s.task = row.task /\ k.box \notin behind
      /\ k.pc \in {"store", "check", "dispatch", "decide", "set", "finish"} => Same(k.box)
      /\ k.pc = "plugin" => k.box \in behind \/ s = After(row, e)
      /\ k.pc = "status" => k.box \in behind \/ s = [row EXCEPT !.task = e.task]
      /\ k.pc = "dispatch" => ~Stuck(type, s.plugin)
      /\ k.pc \in Moved \cup {"set"} => e \in Table[type] \/ switched
      /\ k.pc = "set" => e.from = s.plugin
      /\ k.pc \in Moved /\ ~switched => s.plugin = e.to /\ (e.task # Keep => s.task = e.task)
      /\ k.pc \in {"status", "finish"} /\ ~switched => row.plugin = e.to
      /\ k.pc = "finish" /\ e.task # Keep => row.task = e.task

Kept == Quiet /\ cached # NoBox => Same(cached)

(* A final task state is the end: no edge leaves the plugin state it came  *)
(* with, in the row and in every container in use, however far a failed    *)
(* write has left them apart.                                              *)
Ended(s) == s.task \in Final => Stuck(type, s.plugin)
RowFinal == row # NoRow /\ row.task \in Final

SoundStore ==
  /\ row # NoRow => Ended(row)
  /\ cached # NoBox => Ended(mem[cached])
  /\ cached # NoBox /\ RowFinal => Stuck(type, mem[cached].plugin)
  /\ reports > 0 => reports = 1 /\ RowFinal

SoundCall(c) ==
  LET k == call[c]
      s == mem[k.box]
  IN  /\ k.pc \in Working \cup {"store"} => Ended(s)
      /\ k.pc \in {"plugin", "finish"} /\ k.edge.task = Keep => s.task \notin Final
      /\ RowFinal => k.pc \notin {"dispatch", "decide", "set", "plugin", "status"}
      /\ RowFinal /\ k.pc \in {"store", "check"} => Stuck(type, s.plugin)
      /\ reports > 0 => k.pc # "finish"

Sound == SoundStore /\ \A c \in Caller : SoundCall(c)

OneCall == Alone /\ (\A c \in Caller : Fits(c)) /\ Kept /\ (~misread => Sound)
OneCallInv == TypeInv /\ (OneAtATime => OneCall)

(* In all three tables nothing leaves the state a final edge leads to.     *)
Closed == {"SUBMITTED", "OGA_REVIEWED", "RECEIVED_CALLBACK", "PAID"}

LEMMA NotFinal ==
  /\ Keep \notin Final /\ InProgress \notin Final /\ Initialized \notin Final
  /\ NotStarted \notin Closed
<1>1. Keep \notin Final /\ InProgress \notin Final /\ Initialized \notin Final
  BY Zenon DEF Keep, Final, Completed, Failed, InProgress, Initialized
<1>2. NotStarted \notin Closed
  BY Zenon DEF NotStarted, Closed
<1> QED
  BY <1>1, <1>2

LEMMA NoEdgeKeeps == NoEdge.task = Keep
BY DEF NoEdge

LEMMA FreshIsNotFinal == Fresh.task \notin Final /\ Keep \notin Final
BY NotFinal DEF Fresh

LEMMA FinalEdgesLead ==
  ASSUME NEW e \in SimpleFormFSM \cup WaitForEventFSM \cup PaymentFSM
  PROVE  (e.task \in Final => e.to \in Closed) /\ e.from \notin Closed
<1>1. ASSUME NEW F, NEW act, NEW to, NEW task, e \in Edges(F, act, to, task),
             task \in {InProgress, Keep, Initialized} \/ to \in Closed, F \cap Closed = {}
      PROVE  (e.task \in Final => e.to \in Closed) /\ e.from \notin Closed
  BY <1>1, EdgesTask, NotFinal
<1>2. {NotStarted} \cap Closed = {}
  BY NotFinal
<1>3. Editable \cap Closed = {} /\ (Editable \cup {"OGA_FEEDBACK_PROVIDED"}) \cap Closed = {}
        /\ {"FORM_INITIALIZED", "DRAFT", "OGA_FEEDBACK_PROVIDED"} \cap Closed = {}
        /\ AtOga \cap Closed = {} /\ {"OGA_ACKNOWLEDGED"} \cap Closed = {}
  BY DEF Editable, AtOga, Closed
<1>4. {"NOTIFY_FAILED"} \cap Closed = {} /\ {"NOTIFIED_SERVICE"} \cap Closed = {}
        /\ {"IDLE"} \cap Closed = {} /\ {"PAYING"} \cap Closed = {}
        /\ {"IDLE", "PAYING"} \cap Closed = {}
  BY DEF Closed
<1>5. "SUBMITTED" \in Closed /\ "OGA_REVIEWED" \in Closed /\ "RECEIVED_CALLBACK" \in Closed
        /\ "PAID" \in Closed
  BY DEF Closed
<1>6. CASE e \in SimpleFormFSM
  BY <1>1, <1>2, <1>3, <1>5, <1>6 DEF SimpleFormFSM
<1>7. CASE e \in WaitForEventFSM
  BY <1>1, <1>2, <1>4, <1>5, <1>7 DEF WaitForEventFSM
<1>8. CASE e \in PaymentFSM
  BY <1>1, <1>2, <1>4, <1>5, <1>8 DEF PaymentFSM
<1> QED
  BY <1>6, <1>7, <1>8

LEMMA FinalEdges ==
  ASSUME NEW t \in DOMAIN Table, NEW e \in Table[t], e.task \in Final
  PROVE  Stuck(t, e.to)
<1>1. Table[t] \subseteq SimpleFormFSM \cup WaitForEventFSM \cup PaymentFSM
  BY DEF Table
<1> QED
  BY <1>1, FinalEdgesLead DEF Stuck

LEMMA BeginsAlone ==
  ASSUME TypeInv, OneAtATime, Cardinality(InFlight) < Overlap[type]
  PROVE  Quiet
<1>1. IsFiniteSet(InFlight)
  BY TaskAssumption, FS_Subset DEF InFlight
<1>2. Cardinality(InFlight) = 0
  BY <1>1, FS_CardinalityType DEF OneAtATime
<1>3. InFlight = {}
  BY <1>1, <1>2, FS_EmptySet
<1> QED
  BY <1>3 DEF Quiet, InFlight

(* A step of one call: what has to be shown of the others comes free.      *)
LEMMA OnlyThisCall ==
  ASSUME TypeInv, Alone, NEW c \in Caller, ~At(c, "idle") \/ Quiet,
         NEW k, call' = [call EXCEPT ![c] = k], type' = type,
         Fits(c)', k.pc = "idle" => Kept',
         ~misread' => SoundStore' /\ SoundCall(c)'
  PROVE  OneCall'
<1>1. call'[c] = k /\ \A d \in Caller \ {c} : call'[d] = call[d] /\ call'[d].pc = "idle"
  BY DEF TypeInv, TypeOK, Alone, Quiet, At
<1>2. Alone'
  BY <1>1 DEF Alone, At
<1>3. ASSUME NEW d \in Caller PROVE Fits(d)'
  BY <1>1 DEF Fits, Making, Working, Moved
<1>4. Kept'
  BY <1>1 DEF Kept, Quiet, At
<1>5. ~misread' => Sound'
  <2> SUFFICES ASSUME ~misread', NEW d \in Caller, d # c PROVE SoundCall(d)'
    BY DEF Sound
  <2> QED
    BY <1>1 DEF SoundCall, Working
<1> QED
  BY <1>2, <1>3, <1>4, <1>5 DEF OneCall

LEMMA KnownOf ==
  ASSUME OneCallInv, OneAtATime, NEW c \in Caller
  PROVE  /\ TypeInv /\ Alone /\ Fits(c) /\ Kept
         /\ ~misread => SoundStore /\ SoundCall(c)
         /\ call[c] \in Call /\ mem \in [Box -> State]
         /\ cached # NoBox => cached \in Box
BY DEF OneCallInv, OneCall, Sound, TypeInv, TypeOK

LEMMA Returns ==
  ASSUME OneCallInv, OneAtATime, NEW c \in Caller, ~At(c, "idle"), Return(c), type' = type,
         cached' # NoBox => Same(cached)', ~misread' => SoundStore'
  PROVE  OneCall'
<1>1. call'[c] = Idle /\ call' = [call EXCEPT ![c] = Idle] /\ Idle.pc = "idle"
  BY KnownOf, FreshAndIdle DEF Return, TypeInv, TypeOK
<1>2. Fits(c)'
  BY <1>1 DEF Fits, Making, Working, Moved
<1>3. SoundCall(c)'
  BY <1>1 DEF SoundCall, Working
<1>4. Kept'
  BY DEF Kept
<1> QED
  BY <1>1, <1>2, <1>3, <1>4, KnownOf, OnlyThisCall

LEMMA BeginStep ==
  ASSUME OneCallInv, OneAtATime, NEW c \in Caller,
         BeginInit(c) \/ \E act \in Actions(type) : BeginExecute(c, act)
  PROVE  OneCall'
<1>1. Quiet /\ UNCHANGED <<type, row, mem, cached, reports, behind, misread>>
  BY BeginsAlone DEF BeginInit, BeginExecute, OneCallInv, history
<1>2. PICK k : /\ call' = [call EXCEPT ![c] = k]
               /\ k.box = cached
               /\ IF cached # NoBox THEN k.pc = "check" ELSE k.pc \in {"new", "lookup"}
  <2>1. CASE BeginInit(c)
    <3> DEFINE k == [Idle EXCEPT !.act = "START", !.box = cached,
                       !.pc = IF cached # NoBox THEN "check" ELSE "new"]
    <3>1. k.box = cached /\ k.pc = IF cached # NoBox THEN "check" ELSE "new"
      BY FreshAndIdle DEF Call
    <3> QED
      BY <2>1, <3>1 DEF BeginInit
  <2>2. ASSUME NEW act \in Actions(type), BeginExecute(c, act)
        PROVE  \E k : /\ call' = [call EXCEPT ![c] = k]
                      /\ k.box = cached
                      /\ IF cached # NoBox THEN k.pc = "check" ELSE k.pc \in {"new", "lookup"}
    <3> DEFINE k == [Idle EXCEPT !.act = act, !.box = cached,
                       !.pc = IF cached # NoBox THEN "check" ELSE "lookup"]
    <3>1. k.box = cached /\ k.pc = IF cached # NoBox THEN "check" ELSE "lookup"
      BY FreshAndIdle DEF Call
    <3> QED
      BY <2>2, <3>1 DEF BeginExecute
  <2> QED
    BY <2>1, <2>2
<1>3. call'[c] = k /\ k.pc # "idle"
  BY <1>2, KnownOf DEF TypeInv, TypeOK
<1>4. Fits(c)'
  <2>1. CASE cached = NoBox
    <3>1. call'[c].pc \in {"new", "lookup"} /\ cached' = NoBox
      BY <2>1, <1>1, <1>2, <1>3
    <3> QED
      BY <3>1 DEF Fits, Working, Moved
  <2>2. CASE cached # NoBox
    <3>1. call'[c].pc = "check" /\ call'[c].box = cached'
      BY <2>2, <1>1, <1>2, <1>3
    <3>2. Same(call[c].box)' <=> Same(cached)
      BY <1>1, <3>1 DEF Same
    <3>3. Same(cached)
      BY <2>2, <1>1, KnownOf DEF Kept
    <3> QED
      BY <3>1, <3>2, <3>3 DEF Fits, Making, Moved
  <2> QED
    BY <2>1, <2>2
<1>5. ~misread' => SoundStore' /\ SoundCall(c)'
  BY <1>1, <1>2, <1>3, KnownOf DEF SoundStore, SoundCall, RowFinal, Ended, Working
<1> QED
  BY <1>1, <1>2, <1>3, <1>4, <1>5, KnownOf, OnlyThisCall

(* InitTask: the new container is as the new row.                          *)
LEMMA MakeStep ==
  ASSUME OneCallInv, OneAtATime, NEW c \in Caller,
         NewBox(c) \/ CreateRow(c) \/ CacheNew(c)
  PROVE  OneCall'
<1>0. UNCHANGED <<type, reports, misread>> /\ ~At(c, "idle")
  BY DEF NewBox, CreateRow, CacheNew, At, history
<1>1. CASE NewBox(c)
  <2> DEFINE v == [Fresh EXCEPT !.plugin = IF row = NoRow THEN NotStarted ELSE row.plugin]
  <2>1. PICK b \in Box \ InUse : mem' = [mem EXCEPT ![b] = v] /\ GoWith(c, "create", b)
    BY <1>1 DEF NewBox
  <2> DEFINE k == [call[c] EXCEPT !.pc = "create", !.box = b]
  <2>2. call' = [call EXCEPT ![c] = k] /\ call'[c] = k /\ k.pc = "create" /\ k.box = b
    BY <2>1, KnownOf DEF GoWith, TypeInv, TypeOK, Call
  <2>3. row' = row /\ cached' = NoBox
    BY <1>1, KnownOf DEF NewBox, At, Fits, Making
  <2>4. row = NoRow => mem'[b] = Fresh
    BY <2>1, KnownOf DEF Fresh
  <2>5. Fits(c)'
    BY <2>2, <2>3, <2>4 DEF Fits, Making, Working, Moved
  <2>6. ~misread' => SoundStore' /\ SoundCall(c)'
    BY <1>0, <2>2, <2>3, KnownOf DEF SoundStore, SoundCall, RowFinal, Ended, Working
  <2> QED
    BY <1>0, <2>2, <2>5, <2>6, KnownOf, OnlyThisCall
<1>2. CASE CreateRow(c)
  <2> DEFINE k == [call[c] EXCEPT !.pc = "cache"]
  <2>1. call' = [call EXCEPT ![c] = k] /\ call'[c] = k /\ k.pc = "cache" /\ k.box = call[c].box
    BY <1>2, KnownOf DEF CreateRow, Go, TypeInv, TypeOK, Call
  <2>2. /\ row' = Fresh /\ mem' = mem /\ cached' = NoBox
        /\ mem[call[c].box] = Fresh
    BY <1>2, KnownOf DEF CreateRow, At, Fits, Making
  <2>3. ~RowFinal' /\ Ended(row)'
    BY <2>2, <1>2, KnownOf, FreshIsNotFinal DEF RowFinal, Ended, CreateRow
  <2>4. Fits(c)'
    BY <2>1, <2>2 DEF Fits, Making, Working, Moved
  <2>5. ~misread' => SoundStore' /\ SoundCall(c)'
    BY <1>0, <1>2, <2>1, <2>2, <2>3, KnownOf, FreshIsNotFinal
    DEF CreateRow, SoundStore, SoundCall, RowFinal, Ended, Working
  <2> QED
    BY <1>0, <2>1, <2>4, <2>5, KnownOf, OnlyThisCall
<1>3. CASE CacheNew(c)
  <2> DEFINE k == [call[c] EXCEPT !.pc = "check"]
             b == call[c].box
  <2>1. call' = [call EXCEPT ![c] = k] /\ call'[c] = k /\ k.pc = "check" /\ k.box = b
    BY <1>3, KnownOf DEF CacheNew, Go, TypeInv, TypeOK, Call
  <2>2. row' = row /\ mem' = mem /\ behind' = behind /\ cached' = b /\ mem[b] = Fresh /\ row = Fresh
    BY <1>3, KnownOf DEF CacheNew, Put, At, Fits
  <2>3. Fits(c)'
    BY <2>1, <2>2 DEF Fits, Same, Making, Working, Moved
  <2>4. ~misread' => SoundStore' /\ SoundCall(c)'
    BY <1>0, <2>1, <2>2, KnownOf, FreshIsNotFinal
    DEF SoundStore, SoundCall, RowFinal, Ended, Working
  <2> QED
    BY <1>0, <2>1, <2>3, <2>4, KnownOf, OnlyThisCall
<1> QED
  BY <1>1, <1>2, <1>3

(* getTask: what is built agrees with the row unless a query failed.       *)
LEMMA LookupStep ==
  ASSUME OneCallInv, OneAtATime, NEW c \in Caller,
         LockBuild(c) \/ FoundUnderLock(c) \/ RowMissing(c)
  PROVE  OneCall'
<1>1. UNCHANGED <<type, row, mem, cached, reports, behind, misread>> /\ ~At(c, "idle")
        /\ cached = NoBox
  BY KnownOf DEF LockBuild, FoundUnderLock, RowMissing, At, Fits, Making, history
<1>2. CASE LockBuild(c)
  <2> DEFINE k == [call[c] EXCEPT !.pc = "lock"]
  <2>1. call' = [call EXCEPT ![c] = k] /\ call'[c] = k /\ k.pc = "lock"
    BY <1>2, KnownOf DEF LockBuild, Go, TypeInv, TypeOK, Call
  <2>2. Fits(c)'
    BY <1>1, <2>1 DEF Fits, Working, Moved
  <2>3. ~misread' => SoundStore' /\ SoundCall(c)'
    BY <1>1, <2>1, KnownOf DEF SoundStore, SoundCall, RowFinal, Ended, Working
  <2> QED
    BY <1>1, <2>1, <2>2, <2>3, KnownOf, OnlyThisCall
<1>3. CASE RowMissing(c)
  <2>1. ~misread' => SoundStore'
    BY <1>1, KnownOf DEF SoundStore, RowFinal, Ended
  <2> QED
    BY <1>1, <1>3, <2>1, Returns DEF RowMissing
<1> QED
  BY <1>1, <1>2, <1>3 DEF FoundUnderLock

LEMMA ReadRowStep ==
  ASSUME OneCallInv, OneAtATime, NEW c \in Caller, ReadRow(c)
  PROVE  OneCall'
<1> DEFINE v == [Fresh EXCEPT !.task = row.task]
<1>1. PICK b \in Box \ InUse : /\ mem' = [mem EXCEPT ![b] = v]
                               /\ behind' = behind \ {b}
                               /\ GoWith(c, "rebuild", b)
  BY DEF ReadRow
<1> DEFINE k == [call[c] EXCEPT !.pc = "rebuild", !.box = b]
<1>2. call' = [call EXCEPT ![c] = k] /\ call'[c] = k /\ k.pc = "rebuild" /\ k.box = b
  BY <1>1, KnownOf DEF GoWith, TypeInv, TypeOK, Call
<1>3. UNCHANGED <<type, row, cached, reports, misread>> /\ ~At(c, "idle") /\ cached = NoBox
  BY DEF ReadRow, At, history
<1>4. mem'[b].task = row.task /\ b \notin behind'
  BY <1>1, KnownOf DEF Fresh
<1>5. Fits(c)'
  BY <1>2, <1>3, <1>4 DEF Fits, Working, Moved
<1>6. ~misread' => SoundStore' /\ SoundCall(c)'
  BY <1>2, <1>3, KnownOf DEF SoundStore, SoundCall, RowFinal, Ended, Working
<1> QED
  BY <1>2, <1>3, <1>5, <1>6, KnownOf, OnlyThisCall

LEMMA RebuildStep ==
  ASSUME OneCallInv, OneAtATime, NEW c \in Caller, ReadPlugin(c) \/ MisreadPlugin(c)
  PROVE  OneCall'
<1> DEFINE k == [call[c] EXCEPT !.pc = "store"]
           b == call[c].box
<1>1. call' = [call EXCEPT ![c] = k] /\ call'[c] = k /\ k.pc = "store" /\ k.box = b
  BY KnownOf DEF ReadPlugin, MisreadPlugin, Go, TypeInv, TypeOK, Call
<1>2. /\ UNCHANGED <<type, row, cached, reports>> /\ ~At(c, "idle") /\ cached = NoBox
      /\ b \in Box /\ row \in State /\ mem[b].task = row.task
  BY KnownOf DEF ReadPlugin, MisreadPlugin, At, Fits, Making, TypeInv, TypeOK, Placed, history
<1>3. CASE ReadPlugin(c)
  <2>1. mem'[b] = row
    <3>1. mem'[b] = [mem[b] EXCEPT !.plugin = row.plugin]
      BY <1>2, <1>3, KnownOf DEF ReadPlugin
    <3>2. mem[b] \in State
      BY <1>2, KnownOf
    <3> QED
      BY <1>2, <3>1, <3>2 DEF State
  <2>2. Fits(c)'
    BY <1>1, <1>2, <2>1 DEF Fits, Same, Working, Moved
  <2>3. misread' = misread
    BY <1>3 DEF ReadPlugin, history
  <2>4. ~misread' => SoundStore' /\ SoundCall(c)'
    BY <1>1, <1>2, <2>1, <2>3, KnownOf, TaskAssumption
    DEF SoundStore, SoundCall, RowFinal, Ended, Working
  <2> QED
    BY <1>1, <1>2, <2>2, <2>4, KnownOf, OnlyThisCall
<1>4. CASE MisreadPlugin(c)
  <2>1. misread' /\ b \in behind'
    BY <1>4 DEF MisreadPlugin
  <2>2. Fits(c)'
    BY <1>1, <1>2, <2>1 DEF Fits, Same, Working, Moved
  <2> QED
    BY <1>1, <1>2, <2>1, <2>2, KnownOf, OnlyThisCall
<1> QED
  BY <1>3, <1>4

LEMMA StoreStep ==
  ASSUME OneCallInv, OneAtATime, NEW c \in Caller, StoreBox(c)
  PROVE  OneCall'
<1> DEFINE k == [call[c] EXCEPT !.pc = "check"]
           b == call[c].box
<1>1. call' = [call EXCEPT ![c] = k] /\ call'[c] = k /\ k.pc = "check" /\ k.box = b
  BY KnownOf DEF StoreBox, Go, TypeInv, TypeOK, Call
<1>2. /\ UNCHANGED <<type, row, mem, reports, behind, misread>> /\ call[c].pc = "store" /\ cached' = b
  BY DEF StoreBox, Put, At, history
<1>3. Fits(c)'
  <2>1. Same(b)
    BY <1>2, KnownOf DEF Fits
  <2>2. Same(call[c].box)'
    BY <1>1, <1>2, <2>1 DEF Same
  <2> QED
    BY <1>1, <1>2, <2>2 DEF Fits, Making, Moved
<1>4. ~misread' => SoundStore' /\ SoundCall(c)'
  BY <1>1, <1>2, KnownOf DEF SoundStore, SoundCall, RowFinal, Ended, Working
<1> QED
  BY <1>1, <1>2, <1>3, <1>4, KnownOf, OnlyThisCall DEF At

(* A step that moves the call on and changes nothing else.                 *)
LEMMA MovesOn ==
  ASSUME OneCallInv, OneAtATime, NEW c \in Caller, NEW k,
         call[c].pc \in Working, k.pc \in {"dispatch", "decide", "set"}, k.box = call[c].box,
         call' = [call EXCEPT ![c] = k],
         UNCHANGED <<type, row, mem, cached, reports, behind, misread>>,
         call[c].pc \in {"check", "dispatch", "decide"},
         k.pc = "set" => k.edge \in Table[type] /\ k.edge.from = mem[k.box].plugin,
         call[c].pc = "check" \/ k.pc = "dispatch" => ~Stuck(type, mem[k.box].plugin)
  PROVE  OneCall'
<1>1. call'[c] = k /\ ~At(c, "idle")
  BY KnownOf DEF TypeInv, TypeOK, At
<1>2. Fits(c)'
  <2>1. Same(k.box) /\ cached \in {NoBox, k.box}
    BY KnownOf DEF Fits
  <2>2. Same(call[c].box)'
    BY <1>1, <2>1 DEF Same
  <2> QED
    BY <1>1, <2>1, <2>2 DEF Fits, Making, Moved
<1>3. ~misread' => SoundStore' /\ SoundCall(c)'
  BY <1>1, KnownOf DEF SoundStore, SoundCall, RowFinal, Ended, Working
<1> QED
  BY <1>1, <1>2, <1>3, KnownOf, OnlyThisCall

LEMMA PluginStep ==
  ASSUME OneCallInv, OneAtATime, NEW c \in Caller,
         Check(c) \/ Switch(c) \/ Dispatch(c) \/ ExternalFails(c) \/ Decide(c)
  PROVE  OneCall'
<1>0. UNCHANGED <<type, row, mem, cached, reports, behind, misread>>
  BY DEF Check, Switch, Dispatch, ExternalFails, Decide, history
<1>1. CASE Check(c)
  <2> DEFINE k == [call[c] EXCEPT !.prev = mem[call[c].box].plugin, !.pc = "dispatch"]
  <2>1. call' = [call EXCEPT ![c] = k] /\ k.pc = "dispatch" /\ k.box = call[c].box
    BY <1>1, KnownOf DEF Check, TypeInv, TypeOK, Call
  <2>2. ~Stuck(type, mem[k.box].plugin)
    BY <1>1, <2>1 DEF Check, Moves, Stuck
  <2>9. call[c].pc = "check" /\ call[c].pc \in Working
    BY <1>1 DEF Check, At, Working
  <2> HIDE DEF k
  <2> QED
    BY <1>0, <2>1, <2>2, <2>9, MovesOn
<1>2. CASE Dispatch(c)
  <2> DEFINE k == [call[c] EXCEPT !.pc = "decide"]
  <2>1. call' = [call EXCEPT ![c] = k] /\ k.pc = "decide" /\ k.box = call[c].box
    BY <1>2, KnownOf DEF Dispatch, Go, TypeInv, TypeOK, Call
  <2>9. call[c].pc = "dispatch" /\ call[c].pc \in Working
    BY <1>2 DEF Dispatch, At, Working
  <2> HIDE DEF k
  <2> QED
    BY <1>0, <2>1, <2>9, MovesOn
<1>3. CASE ExternalFails(c)
  <2> DEFINE act == call[c].act
             k == [call[c] EXCEPT !.pc = "decide", !.act = OnFailure[act], !.failed = ~Starts(act)]
  <2>1. call' = [call EXCEPT ![c] = k] /\ k.pc = "decide" /\ k.box = call[c].box
    BY <1>3, KnownOf DEF ExternalFails, TypeInv, TypeOK, Call
  <2>9. call[c].pc = "dispatch" /\ call[c].pc \in Working
    BY <1>3 DEF ExternalFails, At, Working
  <2> HIDE DEF k
  <2> QED
    BY <1>0, <2>1, <2>9, MovesOn
<1>4. CASE Decide(c)
  <2>1. PICK e \in Moves(type, mem[call[c].box].plugin, call[c].act) :
          call' = [call EXCEPT ![c].pc = "set", ![c].edge = e]
    BY <1>4 DEF Decide
  <2> DEFINE k == [call[c] EXCEPT !.pc = "set", !.edge = e]
  <2>2. /\ call' = [call EXCEPT ![c] = k] /\ k.pc = "set" /\ k.box = call[c].box
        /\ k.edge = e
    BY <2>1, KnownOf DEF TypeInv, TypeOK, Call
  <2>3. e \in Table[type] /\ e.from = mem[k.box].plugin
    BY <2>1, <2>2 DEF Moves
  <2>9. call[c].pc = "decide" /\ call[c].pc \in Working
    BY <1>4 DEF Decide, At, Working
  <2> HIDE DEF k
  <2> QED
    BY <1>0, <2>2, <2>3, <2>9, MovesOn
<1>5. CASE Switch(c)
  <2> DEFINE k == [call[c] EXCEPT !.pc = "finish", !.edge = NoEdge]
  <2>1. /\ call' = [call EXCEPT ![c] = k] /\ call'[c] = k
        /\ k.pc = "finish" /\ k.box = call[c].box /\ k.edge = NoEdge
    BY <1>5, KnownOf DEF Switch, TypeInv, TypeOK, Call
  <2>2. call[c].pc = "dispatch" /\ call[c].pc \in Working /\ ~At(c, "idle")
    BY <1>5 DEF Switch, At, Working
  <2> HIDE DEF k
  <2>3. Fits(c)'
    <3>1. Same(k.box) /\ cached \in {NoBox, k.box}
      BY <2>1, <2>2, KnownOf DEF Fits
    <3>2. Same(call[c].box)'
      BY <1>0, <2>1, <3>1 DEF Same
    <3> QED
      BY <1>0, <2>1, <3>1, <3>2, NoEdgeKeeps DEF Fits, Making, Moved
  <2>4. ~misread' => SoundStore' /\ SoundCall(c)'
    <3>1. ~Stuck(type, mem[k.box].plugin)
      BY <2>1, <2>2, KnownOf DEF Fits
    <3> QED
      BY <1>0, <2>1, <2>2, <3>1, KnownOf DEF SoundStore, SoundCall, RowFinal, Ended, Working
  <2> QED
    BY <1>0, <2>1, <2>2, <2>3, <2>4, KnownOf, OnlyThisCall
<1> QED
  BY <1>1, <1>2, <1>3, <1>4, <1>5

(* Transition, memory first.                                               *)
LEMMA SetMemoryStep ==
  ASSUME OneCallInv, OneAtATime, NEW c \in Caller, SetMemory(c)
  PROVE  OneCall'
<1> DEFINE e == call[c].edge
           b == call[c].box
           k == [call[c] EXCEPT !.pc = "plugin"]
<1>1. /\ call' = [call EXCEPT ![c] = k] /\ call'[c] = k
      /\ k.pc = "plugin" /\ k.box = b /\ k.edge = e
  BY KnownOf DEF SetMemory, Go, TypeInv, TypeOK, Call
<1>2. UNCHANGED <<type, row, cached, reports, behind, misread>> /\ call[c].pc = "set" /\ b \in Box
  BY KnownOf DEF SetMemory, At, TypeInv, Placed, history
<1>3. mem'[b] = After(mem[b], e) /\ \A d \in Box \ {b} : mem'[d] = mem[d]
  BY <1>2, KnownOf DEF SetMemory
<1>4. /\ cached \in {NoBox, b} /\ Same(b) /\ e \in Table[type] /\ e.from = mem[b].plugin
  BY <1>2, KnownOf DEF Fits, Working
<1>5. mem'[b].plugin = e.to /\ mem'[b].task = (IF e.task = Keep THEN mem[b].task ELSE e.task)
  BY <1>3 DEF After
<1>6. Fits(c)'
  <2>1. b \in behind' \/ mem'[b] = After(row', e)
    BY <1>2, <1>3, <1>4 DEF Same
  <2>2. e \in Table[type'] /\ (e.task # Keep => mem'[b].task = e.task)
    BY <1>2, <1>4, <1>5
  <2>3. cached' \in {NoBox, b}
    BY <1>2, <1>4
  <2> HIDE DEF e, b, k
  <2> QED
    BY <1>1, <1>5, <2>1, <2>2, <2>3 DEF Fits, Making
<1>7. ASSUME ~misread PROVE SoundStore' /\ SoundCall(c)'
  <2>1. ~RowFinal /\ reports \in 0..2 /\ ~(reports > 0)
    BY <1>2, <1>7, KnownOf DEF SoundCall, SoundStore, TypeInv, TypeOK
  <2>2. mem[b].task \notin Final
    BY <1>2, <1>4, <1>7, KnownOf DEF SoundCall, Ended, Stuck, Working
  <2>3. type \in DOMAIN Table
    BY KnownOf, TaskAssumption DEF TypeInv, TypeOK
  <2>4. mem'[b].task \in Final => Stuck(type, e.to)
    BY <1>4, <1>5, <2>2, <2>3, FinalEdges
  <2>5. mem'[b].task \in Final => Stuck(type', mem'[b].plugin)
    BY <1>2, <1>5, <2>4
  <2> QED
    BY <1>1, <1>2, <1>4, <1>5, <2>1, <2>2, <2>5, KnownOf, <1>7 DEF SoundStore, SoundCall, RowFinal, Ended
<1> QED
  BY <1>1, <1>2, <1>6, <1>7, KnownOf, OnlyThisCall DEF At

(* Transition, the two writes: the row catches up with the container.      *)
LEMMA WriteStep ==
  ASSUME OneCallInv, OneAtATime, NEW c \in Caller, WritePlugin(c) \/ WriteStatus(c)
  PROVE  OneCall'
<1> DEFINE e == call[c].edge
           b == call[c].box
           k == [call[c] EXCEPT !.pc = IF At(c, "plugin") /\ e.task # Keep THEN "status" ELSE "finish"]
<1>1. /\ call' = [call EXCEPT ![c] = k] /\ call'[c] = k /\ k.box = b /\ k.edge = e
      /\ k.pc = IF At(c, "plugin") /\ e.task # Keep THEN "status" ELSE "finish"
  BY KnownOf DEF WritePlugin, WriteStatus, Go, At, TypeInv, TypeOK, Call
<1>2. /\ UNCHANGED <<type, mem, cached, reports, behind, misread>>
      /\ call[c].pc \in {"plugin", "status"} /\ row \in State /\ mem[b] \in State
      /\ call[c].pc = "status" => e.task # Keep
  BY KnownOf DEF WritePlugin, WriteStatus, At, TypeInv, TypeOK, Placed, history
<1>3. /\ cached \in {NoBox, b} /\ e \in Table[type]
      /\ mem[b].plugin = e.to /\ (e.task # Keep => mem[b].task = e.task)
  BY <1>2, KnownOf DEF Fits, Working, Moved
<1>4. /\ row' \in State /\ row'.plugin = e.to
      /\ row'.task = IF call[c].pc = "plugin" THEN row.task ELSE e.task
  <2>1. e.to \in Plugin /\ e.task \in TaskState \cup {Keep}
    BY KnownOf, CallTyped, EdgeTargets
  <2>2. CASE WritePlugin(c)
    BY <1>2, <2>1, <2>2 DEF WritePlugin, At, State
  <2>3. CASE WriteStatus(c)
    <3>1. row.plugin = e.to
      BY <2>3, KnownOf DEF WriteStatus, At, Fits
    <3> QED
      BY <1>2, <2>1, <2>3, <3>1 DEF WriteStatus, At, State
  <2> QED
    BY <2>2, <2>3
<1>5. CASE call[c].pc = "plugin" /\ e.task # Keep
  <2>1. b \in behind \/ mem[b] = After(row, e)
    BY <1>5, KnownOf DEF Fits
  <2>2. b \in behind' \/ mem'[b] = [row' EXCEPT !.task = e.task]
    <3>1. After(row, e) = [row' EXCEPT !.task = e.task]
      BY <1>4, <1>5 DEF After, State
    <3> QED
      BY <1>2, <2>1, <3>1
  <2>3. k.pc = "status"
    BY <1>1, <1>5 DEF At
  <2>4. Fits(c)'
    <3> HIDE DEF e, b, k
    <3> QED
      BY <1>1, <1>2, <1>3, <1>4, <2>2, <2>3 DEF Fits, Making
  <2>5. ~misread' => SoundStore' /\ SoundCall(c)'
    <3> SUFFICES ASSUME ~misread PROVE SoundStore' /\ SoundCall(c)'
      BY <1>2
    <3>1. ~RowFinal /\ ~(reports > 0) /\ Ended(mem[b])
      BY <1>5, KnownOf DEF SoundStore, SoundCall, Working
    <3>2. ~RowFinal'
      BY <1>2, <1>4, <1>5, <3>1, KnownOf DEF RowFinal, TypeInv, Placed
    <3> QED
      BY <1>1, <1>2, <1>3, <1>4, <2>3, <3>1, <3>2 DEF SoundStore, SoundCall, RowFinal, Ended
  <2> QED
    BY <1>1, <1>2, <2>3, <2>4, <2>5, KnownOf, OnlyThisCall DEF At
<1>6. CASE call[c].pc = "plugin" /\ e.task = Keep
  <2>1. b \in behind' \/ mem'[b] = row'
    <3>1. b \in behind \/ mem[b] = After(row, e)
      BY <1>6, KnownOf DEF Fits
    <3>2. After(row, e) = row'
      BY <1>4, <1>6 DEF After, State
    <3> QED
      BY <1>2, <3>1, <3>2
  <2>2. k.pc = "finish"
    BY <1>1, <1>6 DEF At
  <2>3. Fits(c)'
    <3> HIDE DEF e, b, k
    <3> QED
      BY <1>1, <1>2, <1>3, <1>4, <1>6, <2>1, <2>2 DEF Fits, Same, Making
  <2>4. ~misread' => SoundStore' /\ SoundCall(c)'
    <3> SUFFICES ASSUME ~misread PROVE SoundStore' /\ SoundCall(c)'
      BY <1>2
    <3>1. ~RowFinal /\ ~(reports > 0) /\ mem[b].task \notin Final
      BY <1>6, KnownOf DEF SoundStore, SoundCall, Working
    <3>2. ~RowFinal'
      BY <1>2, <1>4, <1>6, <3>1, KnownOf DEF RowFinal, TypeInv, Placed
    <3> QED
      BY <1>1, <1>2, <1>3, <1>4, <2>2, <3>1, <3>2 DEF SoundStore, SoundCall, RowFinal, Ended
  <2> QED
    BY <1>1, <1>2, <2>2, <2>3, <2>4, KnownOf, OnlyThisCall DEF At
<1>7. CASE call[c].pc = "status"
  <2>1. b \in behind' \/ mem'[b] = row'
    <3>1. b \in behind \/ mem[b] = [row EXCEPT !.task = e.task]
      BY <1>7, KnownOf DEF Fits
    <3>2. row' = [row EXCEPT !.task = e.task]
      BY <1>7 DEF WritePlugin, WriteStatus, At
    <3> QED
      BY <1>2, <3>1, <3>2
  <2>2. k.pc = "finish"
    BY <1>1, <1>7 DEF At
  <2>3. Fits(c)'
    <3> HIDE DEF e, b, k
    <3> QED
      BY <1>1, <1>2, <1>3, <1>4, <1>7, <2>1, <2>2 DEF Fits, Same, Making
  <2>4. ~misread' => SoundStore' /\ SoundCall(c)'
    <3> SUFFICES ASSUME ~misread PROVE SoundStore' /\ SoundCall(c)'
      BY <1>2
    <3>1. ~(reports > 0) /\ Ended(mem[b])
      BY <1>7, KnownOf DEF SoundStore, SoundCall, Working
    <3>2. row'.task \in Final => Stuck(type, e.to)
      BY <1>3, <1>4, <1>7, KnownOf, FinalEdges, TaskAssumption DEF TypeInv, TypeOK
    <3> QED
      BY <1>1, <1>2, <1>3, <1>4, <1>7, <2>2, <3>1, <3>2 DEF SoundStore, SoundCall, RowFinal, Ended
  <2> QED
    BY <1>1, <1>2, <2>2, <2>3, <2>4, KnownOf, OnlyThisCall DEF At
<1> QED
  BY <1>2, <1>5, <1>6, <1>7

LEMMA EndStep ==
  ASSUME OneCallInv, OneAtATime, NEW c \in Caller,
         \/ CreateFails(c) \/ Refuse(c) \/ HandlerFails(c) \/ NoMove(c)
         \/ WriteFails(c) \/ Finish(c)
  PROVE  OneCall'
<1>1. UNCHANGED <<type, row, mem, cached, misread>> /\ Return(c)
        /\ call[c].pc \in {"create"} \cup Working
  BY DEF CreateFails, Refuse, HandlerFails, NoMove, WriteFails, Finish, At, Working, history
<1>2. cached \in {NoBox, call[c].box}
  BY <1>1, KnownOf DEF Fits, Making
<1>3. cached' # NoBox => Same(cached)'
  <2>1. CASE WriteFails(c)
    BY <1>1, <1>2, <2>1 DEF WriteFails, Same
  <2>2. CASE CreateFails(c)
    BY <1>1, <2>2, KnownOf DEF CreateFails, At, Fits, Making
  <2>3. CASE Refuse(c) \/ HandlerFails(c) \/ NoMove(c) \/ Finish(c)
    <3>1. Same(call[c].box) /\ behind' = behind
      BY <2>3, KnownOf DEF Refuse, HandlerFails, NoMove, Finish, At, Fits
    <3> QED
      BY <1>1, <1>2, <3>1 DEF Same
  <2> QED
    BY <2>1, <2>2, <2>3
<1>4. ~misread' => SoundStore'
  <2>1. CASE reports' = reports
    BY <1>1, <2>1, KnownOf DEF SoundStore, RowFinal, Ended
  <2>2. CASE reports' # reports /\ ~misread
    <3>1. /\ Ends(c) /\ call[c].pc = "finish" /\ reports' = reports + 1
      BY <2>2 DEF CreateFails, Refuse, HandlerFails, NoMove, WriteFails, Finish, At, history
    <3>2. reports = 0
      BY <2>2, <3>1, KnownOf DEF SoundCall, TypeInv, TypeOK
    <3>3. RowFinal
      BY <2>2, <3>1, NoEdgeKeeps, KnownOf DEF Ends, Fits, SoundCall, RowFinal, TypeInv, Placed, Moved
    <3> QED
      BY <1>1, <2>2, <3>1, <3>2, <3>3, KnownOf DEF SoundStore, RowFinal, Ended
  <2> QED
    BY <1>1, <2>1, <2>2
<1> QED
  BY <1>1, <1>3, <1>4, Returns DEF At, Working

LEMMA EvictStep ==
  ASSUME OneCallInv, OneAtATime, Evict
  PROVE  OneCall'
<1>1. UNCHANGED <<type, row, mem, call, reports, behind, misread>> /\ cached' = NoBox
  BY DEF Evict, history
<1>2. Alone' /\ Kept'
  BY <1>1, FreshAndIdle DEF OneCallInv, OneCall, Alone, Kept, At
<1>3. ASSUME NEW c \in Caller PROVE Fits(c)'
  BY <1>1, KnownOf DEF Fits, Same
<1>4. ~misread' => Sound'
  BY <1>1, KnownOf DEF OneCallInv, OneCall, Sound, SoundStore, SoundCall, RowFinal, Ended
<1> QED
  BY <1>2, <1>3, <1>4 DEF OneCall

LEMMA CrashStep ==
  ASSUME OneCallInv, OneAtATime, Crash
  PROVE  OneCall'
<1>1. UNCHANGED <<type, row, mem, reports, behind, misread>> /\ cached' = NoBox
        /\ \A c \in Caller : call'[c].pc = "idle"
  BY FreshAndIdle DEF Crash, history
<1>2. Alone' /\ Kept'
  BY <1>1 DEF Alone, Kept, At
<1>3. ASSUME NEW c \in Caller PROVE Fits(c)'
  BY <1>1 DEF Fits, Making, Working, Moved
<1>4. ~misread' => Sound'
  BY <1>1 DEF OneCallInv, OneCall, Sound, SoundStore, SoundCall, RowFinal, Ended, Working
<1> QED
  BY <1>2, <1>3, <1>4 DEF OneCall

LEMMA OneCallInit == Init => OneCallInv
<1> SUFFICES ASSUME Init PROVE OneCallInv
  OBVIOUS
<1>1. TypeInv
  BY TypeInit
<1>2. row = NoRow /\ cached = NoBox /\ reports = 0 /\ \A c \in Caller : call[c].pc = "idle"
  BY FreshAndIdle DEF Init
<1>3. Alone /\ Kept
  BY <1>2 DEF Alone, Kept, At
<1>4. \A c \in Caller : Fits(c)
  BY <1>2 DEF Fits, Making, Working, Moved
<1>5. Sound
  BY <1>2 DEF Sound, SoundStore, SoundCall, RowFinal, Working
<1> QED
  BY <1>1, <1>3, <1>4, <1>5 DEF OneCallInv, OneCall

LEMMA OneCallStep == OneCallInv /\ [Next]_vars => OneCallInv'
<1> SUFFICES ASSUME OneCallInv, [Next]_vars, OneAtATime' PROVE OneCall'
  BY TypeStep DEF OneCallInv
<1>1. OneAtATime
  BY DEF OneAtATime, Next, Step, vars, history, Evict, Crash, BeginInit, BeginExecute, NewBox,
     CreateRow, CreateFails, CacheNew, LockBuild, FoundUnderLock, ReadRow, RowMissing, ReadPlugin,
     MisreadPlugin, StoreBox, Check, Refuse, Switch, Dispatch, ExternalFails, HandlerFails, Decide,
     NoMove, SetMemory, WritePlugin, WriteStatus, WriteFails, Finish
<1>2. CASE UNCHANGED vars
  BY <1>1, <1>2 DEF vars, OneCallInv, OneCall, Alone, Fits, Kept, Quiet, Same, At, Sound,
     SoundStore, SoundCall, RowFinal, Ended
<1>3. CASE Evict \/ Crash
  BY <1>1, <1>3, EvictStep, CrashStep
<1>4. ASSUME NEW c \in Caller, BeginInit(c) \/ \E act \in Actions(type) : BeginExecute(c, act)
      PROVE  OneCall'
  BY <1>1, <1>4, BeginStep
<1>5. ASSUME NEW c \in Caller, Step(c) PROVE OneCall'
  BY <1>1, <1>5, MakeStep, LookupStep, ReadRowStep, RebuildStep, StoreStep, PluginStep,
     SetMemoryStep, WriteStep, EndStep DEF Step
<1> QED
  BY <1>2, <1>3, <1>4, <1>5 DEF Next

(* Between calls that come one at a time the cached container and the row  *)
(* agree, unless a write or a query of the store has failed: memory-first  *)
(* transitions and rebuilding from two queries leave no other gap.         *)
THEOREM ContainerAgreesWithRow == Spec => []StoreAgrees
<1>1. OneCallInv => StoreAgrees
  BY DEF OneCallInv, OneCall, StoreAgrees, Kept, Quiet, Same, InFlight, At
<1> QED
  BY <1>1, OneCallInit, OneCallStep, PTL DEF Spec

(* With calls one at a time a reported end is in both columns of the row,  *)
(* no action leads out of it, and it is reported once, through evictions,  *)
(* crashes and failed writes.                                              *)
THEOREM ReportIsDurable == Spec => []ReportFollowsStore
<1>1. OneCallInv => ReportFollowsStore
  BY DEF OneCallInv, OneCall, ReportFollowsStore, Sound, SoundStore, RowFinal, Ended, Stuck, Moves
<1> QED
  BY <1>1, OneCallInit, OneCallStep, PTL DEF Spec

----------------------------------------------------------------------------
(* containerBuildMu belongs to the call that builds a container, and to    *)
(* nobody once that call has left getTask, whichever way: whoever waits    *)
(* for it waits for a call that can go on.  This is what CallsReturn rests *)
(* on besides fairness.                                                    *)
MutexHeld ==
  \A c \in Caller : call[c].pc \in {"lock", "rebuild", "store"} <=> building = c

LEMMA MutexStep == TypeInv /\ MutexHeld /\ [Next]_vars => MutexHeld'
<1> SUFFICES ASSUME TypeInv, MutexHeld, [Next]_vars PROVE MutexHeld'
  OBVIOUS
<1> USE TaskAssumption DEF TypeInv, TypeOK, history
<1>1. CASE UNCHANGED vars \/ Evict
  BY <1>1 DEF vars, Evict, MutexHeld
<1>2. CASE Crash
  BY <1>2, FreshAndIdle DEF Crash, MutexHeld
<1>3. ASSUME NEW c \in Caller, NEW k, call' = [call EXCEPT ![c] = k],
             \/ /\ building' = building
                /\ \/ call[c].pc \in {"lock", "rebuild", "store"} /\ k.pc \in {"lock", "rebuild", "store"}
                   \/ call[c].pc \notin {"lock", "rebuild", "store"} /\ k.pc \notin {"lock", "rebuild", "store"}
             \/ building = Nobody /\ building' = c /\ k.pc = "lock"
             \/ /\ call[c].pc \in {"lock", "rebuild", "store"} /\ building' = Nobody
                /\ k.pc \notin {"lock", "rebuild", "store"}
      PROVE  MutexHeld'
  BY <1>3 DEF MutexHeld
<1>4. ASSUME NEW c \in Caller, BeginInit(c)
      PROVE  MutexHeld'
  <2> DEFINE k == [Idle EXCEPT !.act = "START", !.box = cached,
                     !.pc = IF cached # NoBox THEN "check" ELSE "new"]
  <2>1. call' = [call EXCEPT ![c] = k] /\ k.pc \in {"check", "new"}
    BY <1>4, FreshAndIdle DEF BeginInit, Call
  <2> HIDE DEF k
  <2> QED
    BY <1>3, <1>4, <2>1 DEF BeginInit, At
<1>5. ASSUME NEW c \in Caller, NEW act \in Actions(type), BeginExecute(c, act)
      PROVE  MutexHeld'
  <2> DEFINE k == [Idle EXCEPT !.act = act, !.box = cached,
                     !.pc = IF cached # NoBox THEN "check" ELSE "lookup"]
  <2>1. call' = [call EXCEPT ![c] = k] /\ k.pc \in {"check", "lookup"}
    BY <1>5, FreshAndIdle DEF BeginExecute, Call
  <2> HIDE DEF k
  <2> QED
    BY <1>3, <1>5, <2>1 DEF BeginExecute, At
<1>6. ASSUME NEW c \in Caller,
             NewBox(c) \/ CreateRow(c) \/ CacheNew(c) \/ ReadRow(c) \/ ReadPlugin(c) \/ MisreadPlugin(c)
      PROVE  MutexHeld'
  <2>1. call[c] \in Call
    OBVIOUS
  <2> QED
    BY <1>6, <2>1 DEF NewBox, CreateRow, CacheNew, ReadRow, ReadPlugin, MisreadPlugin,
       Go, GoWith, At, Call, MutexHeld
<1>7. ASSUME NEW c \in Caller, LockBuild(c) \/ FoundUnderLock(c) \/ StoreBox(c)
      PROVE  MutexHeld'
  <2>1. call[c] \in Call
    OBVIOUS
  <2> QED
    BY <1>7, <2>1 DEF LockBuild, FoundUnderLock, StoreBox, Go, GoWith, At, Call, MutexHeld
<1>8. ASSUME NEW c \in Caller, Check(c) \/ Switch(c) \/ Dispatch(c) \/ ExternalFails(c) \/ Decide(c)
      PROVE  MutexHeld'
  BY <1>8 DEF Check, Switch, Dispatch, ExternalFails, Decide, Go, At, Call, MutexHeld
<1>9. ASSUME NEW c \in Caller, SetMemory(c) \/ WritePlugin(c) \/ WriteStatus(c)
      PROVE  MutexHeld'
  BY <1>9 DEF SetMemory, WritePlugin, WriteStatus, Go, At, Call, MutexHeld
<1>10. ASSUME NEW c \in Caller, RowMissing(c)
      PROVE  MutexHeld'
  BY <1>10, FreshAndIdle DEF RowMissing, Return, At, MutexHeld
<1>11. ASSUME NEW c \in Caller,
              \/ CreateFails(c) \/ Refuse(c) \/ HandlerFails(c) \/ NoMove(c)
              \/ WriteFails(c) \/ Finish(c)
      PROVE  MutexHeld'
  <2>1. call' = [call EXCEPT ![c] = Idle] /\ building' = building
          /\ call[c].pc \notin {"lock", "rebuild", "store"}
    BY <1>11 DEF CreateFails, Refuse, HandlerFails, NoMove, WriteFails, Finish, Return, At
  <2> QED
    BY <2>1, <1>3, FreshAndIdle
<1> QED
  BY <1>1, <1>2, <1>4, <1>5, <1>6, <1>7, <1>8, <1>9, <1>10, <1>11 DEF Next, Step

(* The build mutex is never left locked and never held by two calls,       *)
(* whatever overlaps, fails or crashes.                                    *)
THEOREM MutexIsReleased == Spec => []MutexHeld
<1>1. Init => MutexHeld
  BY FreshAndIdle, TaskAssumption DEF Init, MutexHeld
<1> QED
  BY <1>1, TypeInit, TypeStep, MutexStep, PTL DEF Spec
=============================================================================
