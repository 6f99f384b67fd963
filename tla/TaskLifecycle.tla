---------------------------- MODULE TaskLifecycle ----------------------------
(***************************************************************************)
(* One task in the task manager: its row in task_infos, the container      *)
(* objects that hold its state in memory, the LRU cache that shares them   *)
(* between calls, InitTask (called by the workflow runtime, and again      *)
(* after an error), ExecuteTask and the lazy timeout of GetRenderInfo.     *)
(* Calls interleave between any two accesses to the cache, the container   *)
(* or the store.                                                           *)
(*                                                                         *)
(* Other tasks appear as the evictions they cause.  The local store is not *)
(* kept: it guards no transition.  Where notifications of updates go is    *)
(* not modelled: the Temporal runtime registers the done callback only.    *)
(***************************************************************************)
EXTENDS PluginTables, Naturals, FiniteSets

CONSTANTS Type,       \* the task types considered
          Caller,     \* goroutines inside the task manager
          Box,        \* container objects
          Overlap,    \* for each type, how many calls may be in progress at once
          Nobody, NoBox, NoRow

Plugin == UNION {PluginStates(t) : t \in DOMAIN Table}
State == [plugin : Plugin, task : TaskState]

ASSUME TaskAssumption ==
  /\ Type \subseteq DOMAIN Table
  /\ Overlap \in [Type -> Nat \ {0}]
  /\ Nobody \notin Caller
  /\ NoBox \notin Box
  /\ NoRow \notin State
  /\ IsFiniteSet(Box) /\ IsFiniteSet(Caller) /\ Cardinality(Box) > Cardinality(Caller)

VARIABLES
  type,      \* the task's type
  row,       \* the row: plugin_state and state, or NoRow
  mem,       \* what each container object holds
  cached,    \* the object containerCache has for the task
  building,  \* who holds containerBuildMu
  call,      \* the calls in progress
  started,   \* InitTask has returned success
  reports,   \* calls of the done callback; 2 stands for two or more
  behind,    \* history: objects whose last write did not reach the row
  misread    \* history: a container was built after a failed query

vars == <<type, row, mem, cached, building, call, started, reports, behind, misread>>

Fresh == [plugin |-> NotStarted, task |-> Initialized]

(* A call: where it is, the action it runs, its container, the plugin      *)
(* state it began with, the edge it applies, and whether it ends in an     *)
(* error although it applies one.                                          *)
NoEdge == [from |-> NotStarted, act |-> "", to |-> NotStarted, task |-> Keep]
Idle == [pc |-> "idle", act |-> "", box |-> NoBox, prev |-> NotStarted,
         edge |-> NoEdge, failed |-> FALSE]
Locations == {"idle", "new", "create", "cache", "lookup", "lock", "rebuild", "store",
              "check", "dispatch", "decide", "set", "plugin", "status", "finish"}
Acts == {"", "START", "START_FAILED", "SUBMIT_FORM_FAILED"}
          \cup UNION {Actions(t) : t \in DOMAIN Table}
Call == [pc : Locations, act : Acts, box : Box \cup {NoBox}, prev : Plugin,
         edge : {NoEdge} \cup UNION {Table[t] : t \in DOMAIN Table}, failed : BOOLEAN]

TypeOK ==
  /\ type \in Type
  /\ row \in State \cup {NoRow}
  /\ mem \in [Box -> State]
  /\ cached \in Box \cup {NoBox}
  /\ building \in Caller \cup {Nobody}
  /\ call \in [Caller -> Call]
  /\ started \in BOOLEAN
  /\ reports \in 0..2
  /\ behind \subseteq Box
  /\ misread \in BOOLEAN

Init ==
  /\ type \in Type
  /\ row = NoRow
  /\ mem = [b \in Box |-> Fresh]
  /\ cached = NoBox
  /\ building = Nobody
  /\ call = [c \in Caller |-> Idle]
  /\ started = FALSE
  /\ reports = 0
  /\ behind = {}
  /\ misread = FALSE

At(c, pc) == call[c].pc = pc
InFlight == {c \in Caller : ~At(c, "idle")}
InUse == {cached} \cup {call[c].box : c \in Caller}
Go(c, pc) == call' = [call EXCEPT ![c].pc = pc]
GoWith(c, pc, b) == call' = [call EXCEPT ![c].pc = pc, ![c].box = b]
Return(c) == call' = [call EXCEPT ![c] = Idle]
history == <<reports, misread>>

----------------------------------------------------------------------------
(* InitTask *)

BeginInit(c) ==
  /\ At(c, "idle") /\ Cardinality(InFlight) < Overlap[type]
  /\ ~started
  /\ call' = [call EXCEPT ![c] = [Idle EXCEPT !.act = "START", !.box = cached,
                 !.pc = IF cached # NoBox THEN "check" ELSE "new"]]
  /\ UNCHANGED <<type, row, mem, cached, building, started, history, behind>>

(* NewContainer: the task state is given, the plugin state is read from    *)
(* the row if there is one.                                                *)
NewBox(c) ==
  /\ At(c, "new")
  /\ \E b \in Box \ InUse :
       /\ mem' = [mem EXCEPT ![b] =
                    [Fresh EXCEPT !.plugin = IF row = NoRow THEN NotStarted ELSE row.plugin]]
       /\ behind' = behind \ {b}
       /\ GoWith(c, "create", b)
  /\ UNCHANGED <<type, row, cached, building, started, history>>

(* store.Create fails on the primary key when the row exists.              *)
CreateRow(c) ==
  /\ At(c, "create")
  /\ row = NoRow
  /\ row' = Fresh
  /\ Go(c, "cache")
  /\ UNCHANGED <<type, mem, cached, building, started, history, behind>>

CreateFails(c) ==
  /\ At(c, "create")
  /\ Return(c)
  /\ UNCHANGED <<type, row, mem, cached, building, started, history, behind>>

(* containerCache.Set: in place of what the cache has for the task, if     *)
(* another call was there first; another task may lose its entry for it.   *)
Put(b) == cached' = b

CacheNew(c) ==
  /\ At(c, "cache")
  /\ Put(call[c].box)
  /\ Go(c, "check")
  /\ UNCHANGED <<type, row, mem, building, started, history, behind>>

----------------------------------------------------------------------------
(* getTask *)

BeginExecute(c, act) ==
  /\ At(c, "idle") /\ Cardinality(InFlight) < Overlap[type]
  /\ call' = [call EXCEPT ![c] = [Idle EXCEPT !.act = act, !.box = cached,
                 !.pc = IF cached # NoBox THEN "check" ELSE "lookup"]]
  /\ UNCHANGED <<type, row, mem, cached, building, started, history, behind>>

LockBuild(c) ==
  /\ At(c, "lookup")
  /\ building = Nobody
  /\ building' = c
  /\ Go(c, "lock")
  /\ UNCHANGED <<type, row, mem, cached, started, history, behind>>

(* The second check of the cache, under the lock.                          *)
FoundUnderLock(c) ==
  /\ At(c, "lock")
  /\ cached # NoBox
  /\ building' = Nobody
  /\ GoWith(c, "check", cached)
  /\ UNCHANGED <<type, row, mem, cached, started, history, behind>>

(* Mutant: the row is found without looking for its state. *)
ReadRowAsNew(c) ==
  /\ At(c, "lock")
  /\ cached = NoBox /\ row # NoRow
  /\ \E b \in Box \ InUse :
       /\ mem' = [mem EXCEPT ![b] = Fresh]
       /\ behind' = behind \ {b}
       /\ GoWith(c, "rebuild", b)
  /\ UNCHANGED <<type, row, cached, building, started, history>>

ReadRow(c) ==
  /\ At(c, "lock")
  /\ cached = NoBox /\ row # NoRow
  /\ \E b \in Box \ InUse :
       /\ mem' = [mem EXCEPT ![b] = [Fresh EXCEPT !.task = row.task]]
       /\ behind' = behind \ {b}
       /\ GoWith(c, "rebuild", b)
  /\ UNCHANGED <<type, row, cached, building, started, history>>

(* Mutant: the mutex is not released on the error path. *)
RowMissingKeepsLock(c) ==
  /\ At(c, "lock")
  /\ cached = NoBox
  /\ Return(c)
  /\ UNCHANGED <<type, row, mem, cached, building, started, history, behind>>

(* There is no row yet, or reading it fails.                               *)
RowMissing(c) ==
  /\ At(c, "lock")
  /\ cached = NoBox
  /\ building' = Nobody
  /\ Return(c)
  /\ UNCHANGED <<type, row, mem, cached, started, history, behind>>

(* NewContainer reads the plugin state by a query of its own.              *)
ReadPlugin(c) ==
  /\ At(c, "rebuild")
  /\ mem' = [mem EXCEPT ![call[c].box].plugin = row.plugin]
  /\ Go(c, "store")
  /\ UNCHANGED <<type, row, cached, building, started, history, behind>>

(* That query fails: the error is ignored, the plugin state stays empty.   *)
MisreadPlugin(c) ==
  /\ At(c, "rebuild")
  /\ behind' = behind \cup {call[c].box}
  /\ misread' = TRUE
  /\ Go(c, "store")
  /\ UNCHANGED <<type, row, mem, cached, building, started, reports>>

StoreBox(c) ==
  /\ At(c, "store")
  /\ Put(call[c].box)
  /\ building' = Nobody
  /\ Go(c, "check")
  /\ UNCHANGED <<type, row, mem, started, history, behind>>

----------------------------------------------------------------------------
(* Container.Start and Container.Execute: the plugin tests the transition, *)
(* does its work, and applies the transition.                              *)

Starts(act) == act \in {"START", "START_FAILED"}

Check(c) ==
  LET s == mem[call[c].box].plugin
  IN  /\ At(c, "check")
      /\ Moves(type, s, call[c].act) # {}
      /\ call' = [call EXCEPT ![c].prev = s, ![c].pc = "dispatch"]
      /\ UNCHANGED <<type, row, mem, cached, building, started, history, behind>>

(* An illegal action is refused; a second START is a success.              *)
Refuse(c) ==
  /\ At(c, "check")
  /\ Moves(type, mem[call[c].box].plugin, call[c].act) = {}
  /\ started' = (started \/ Starts(call[c].act))
  /\ Return(c)
  /\ UNCHANGED <<type, row, mem, cached, building, history, behind>>

(* initiateHandler in a payment that is in progress: the method is         *)
(* switched, and no transition is applied though there is one.             *)
Switches(c) == call[c].act = "INITIATE_PAYMENT" /\ mem[call[c].box].plugin = "PAYING"

Switch(c) ==
  /\ At(c, "dispatch") /\ Switches(c)
  /\ call' = [call EXCEPT ![c].pc = "finish", ![c].edge = NoEdge]
  /\ UNCHANGED <<type, row, mem, cached, building, started, history, behind>>

Dispatch(c) ==
  /\ At(c, "dispatch") /\ ~Switches(c)
  /\ Go(c, "decide")
  /\ UNCHANGED <<type, row, mem, cached, building, started, history, behind>>

(* The external call fails.  A form submission ends in an error after its  *)
(* failure transition, a start in a success.                               *)
ExternalFails(c) ==
  LET act == call[c].act
  IN  /\ At(c, "dispatch")
      /\ act \in DOMAIN OnFailure
      /\ \E e \in Table[type] : e.act = OnFailure[act]
      /\ call' = [call EXCEPT ![c].pc = "decide", ![c].act = OnFailure[act],
                              ![c].failed = ~Starts(act)]
      /\ UNCHANGED <<type, row, mem, cached, building, started, history, behind>>

(* Anything else that fails before the transition.                         *)
HandlerFails(c) ==
  /\ At(c, "dispatch")
  /\ Return(c)
  /\ UNCHANGED <<type, row, mem, cached, building, started, history, behind>>

(* Transition: the state is read and looked up without the lock that       *)
(* protects the assignment.                                                *)
Decide(c) ==
  /\ At(c, "decide")
  /\ \E e \in Moves(type, mem[call[c].box].plugin, call[c].act) :
       call' = [call EXCEPT ![c].pc = "set", ![c].edge = e]
  /\ UNCHANGED <<type, row, mem, cached, building, started, history, behind>>

NoMove(c) ==
  /\ At(c, "decide")
  /\ Moves(type, mem[call[c].box].plugin, call[c].act) = {}
  /\ Return(c)
  /\ UNCHANGED <<type, row, mem, cached, building, started, history, behind>>

(* Mutant: an empty NextTaskState is stored like any other. *)
AfterAny(s, e) == [plugin |-> e.to, task |-> e.task]

After(s, e) == [plugin |-> e.to, task |-> IF e.task = Keep THEN s.task ELSE e.task]

SetMemory(c) ==
  LET e == call[c].edge
      b == call[c].box
  IN  /\ At(c, "set")
      /\ mem' = [mem EXCEPT ![b] = After(@, e)]
      /\ Go(c, "plugin")
      /\ UNCHANGED <<type, row, cached, building, started, history, behind>>

WritePlugin(c) ==
  LET e == call[c].edge
  IN  /\ At(c, "plugin")
      /\ row' = [row EXCEPT !.plugin = e.to]
      /\ Go(c, IF e.task = Keep THEN "finish" ELSE "status")
      /\ UNCHANGED <<type, mem, cached, building, started, history, behind>>

WriteStatus(c) ==
  LET e == call[c].edge
  IN  /\ At(c, "status")
      /\ row' = [row EXCEPT !.task = e.task]
      /\ Go(c, "finish")
      /\ UNCHANGED <<type, mem, cached, building, started, history, behind>>

(* Mutant: the error of the store is logged and the call goes on. *)
WriteFailsQuietly(c) ==
  /\ At(c, "plugin") \/ At(c, "status")
  /\ behind' = behind \cup {call[c].box}
  /\ Go(c, "finish")
  /\ UNCHANGED <<type, row, mem, cached, building, started, history>>

(* The container stays ahead of the row.                                   *)
WriteFails(c) ==
  /\ At(c, "plugin") \/ At(c, "status")
  /\ behind' = behind \cup {call[c].box}
  /\ Return(c)
  /\ UNCHANGED <<type, row, mem, cached, building, started, history>>

(* NewState is the container's state when the plugin returns, set when the *)
(* plugin state is not the one the call began with.  Only Execute reports  *)
(* to the done callback; GetRenderInfo, which times out, does not.         *)
Ends(c) ==
  /\ ~call[c].failed
  /\ ~Starts(call[c].act) /\ call[c].act # "PAYMENT_TIMEOUT"
  /\ mem[call[c].box].plugin # call[c].prev
  /\ mem[call[c].box].task \in Final

Finish(c) ==
  /\ At(c, "finish")
  /\ reports' = IF Ends(c) /\ reports < 2 THEN reports + 1 ELSE reports
  /\ started' = (started \/ Starts(call[c].act))
  /\ Return(c)
  /\ UNCHANGED <<type, row, mem, cached, building, behind, misread>>

----------------------------------------------------------------------------
(* Another task takes the cache entry; the process dies.                   *)

Evict ==
  /\ cached # NoBox
  /\ cached' = NoBox
  /\ UNCHANGED <<type, row, mem, building, call, started, history, behind>>

Crash ==
  /\ cached' = NoBox
  /\ building' = Nobody
  /\ call' = [c \in Caller |-> Idle]
  /\ UNCHANGED <<type, row, mem, started, history, behind>>

Step(c) ==
  \/ NewBox(c) \/ CreateRow(c) \/ CreateFails(c) \/ CacheNew(c)
  \/ LockBuild(c) \/ FoundUnderLock(c) \/ ReadRow(c) \/ RowMissing(c)
  \/ ReadPlugin(c) \/ MisreadPlugin(c) \/ StoreBox(c)
  \/ Check(c) \/ Refuse(c) \/ Switch(c) \/ Dispatch(c) \/ ExternalFails(c) \/ HandlerFails(c)
  \/ Decide(c) \/ NoMove(c) \/ SetMemory(c)
  \/ WritePlugin(c) \/ WriteStatus(c) \/ WriteFails(c) \/ Finish(c)

Next ==
  \/ Evict \/ Crash
  \/ \E c \in Caller :
       \/ BeginInit(c)
       \/ \E act \in Actions(type) : BeginExecute(c, act)
       \/ Step(c)

(* A call that has begun runs: its goroutine is scheduled until it         *)
(* returns, and the mutex is handed on (Go's mutexes are starvation free). *)
Fairness == \A c \in Caller : WF_vars(Step(c)) /\ SF_vars(LockBuild(c))

Spec == Init /\ [][Next]_vars /\ Fairness

----------------------------------------------------------------------------
(* Properties *)

(* Where the calls of a task come one at a time.                           *)
OneAtATime == Overlap[type] = 1

(* Between calls that come one at a time, the cached container and the row *)
(* agree, unless the container missed a write or was misread: the          *)
(* memory-first order of Transition and the rebuild from two queries leave *)
(* no other gap.                                                           *)
StoreAgrees ==
  OneAtATime /\ InFlight = {} /\ cached # NoBox /\ cached \notin behind =>
    mem[cached] = row

(* The workflow hears that the task is done only after both columns of the *)
(* row are final, so no restart and no rebuild forgets a reported end; and *)
(* it hears so once.  Calls that overlap, or a container misread from the  *)
(* store, void this.                                                       *)
ReportFollowsStore ==
  OneAtATime /\ reports > 0 /\ ~misread =>
    /\ reports = 1
    /\ row.task \in Final
    /\ \A act \in Actions(type) : Moves(type, row.plugin, act) = {}

(* Every call returns and the build mutex is never left locked, whichever  *)
(* path of getTask is taken.                                               *)
CallsReturn == \A c \in Caller : ~At(c, "idle") ~> At(c, "idle")

(* task/manager/manager.go:84: containerBuildMu "Protects container        *)
(* creation to prevent duplicates": two calls never work on different      *)
(* containers of the task.                                                 *)
Working == {"check", "dispatch", "decide", "set", "plugin", "status", "finish"}
OneContainer ==
  \A c, d \in Caller :
    call[c].pc \in Working /\ call[d].pc \in Working => call[c].box = call[d].box
=============================================================================
