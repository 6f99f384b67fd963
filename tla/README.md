# A verification development of NSW

NSW (National Single Window) lets a trader take a consignment through the
agencies that have to agree to it. A consignment starts a workflow; the nodes
of the workflow are tasks (a form, a payment, a wait for an external event);
some forms are verified by an officer of another government agency (OGA) in a
service of its own. The code is a Go backend (`backend/`), a Go service per
agency (`oga/`), two portals in TypeScript (`portals/`) and deployment files.

This directory holds TLA+ models of the parts in which the state of the system
changes, configurations with which TLC checks them on small instances, and
proofs, checked by TLAPS, of what can be proved for all instances. Lines such as
`manager.go:265` refer to the sources at the commit beside this directory.
`PROJECT.json` lists every component, the hazards the properties are for, every
run, and the lines each definition models.

## Inventory

| Component | State | Operations | Talks to |
|---|---|---|---|
| Workflow engine, `backend/internal/workflow/manager`, `workflow/service/workflow_node_service.go` | `workflows`, `workflow_nodes` rows; `handlerMap` (memory) | `StartWorkflowInstance`, `HandleTaskUpdate`, registration of READY nodes | called inside its domain's transaction; calls `InitTask`; is called back by the task manager; calls `OnWorkflowStatusChanged` |
| Unlock rules, `workflow/model/unlock_config.go` | none | validate, resolve template ids to node ids, evaluate | engine |
| Task manager, `task/manager` | LRU `containerCache`, `containerBuildMu`, callbacks | `InitTask`, `ExecuteTask`, `GetTaskRenderInfo`, `getTask` | containers, task store, runtime |
| Container and row, `task/container`, `task/persistence` | plugin state, task state, local store; `task_infos` rows | `Transition`, `Start`, `Execute` | plugins |
| Plugins, `task/plugin` | keys of the local store | the handlers of SIMPLE_FORM, WAIT_FOR_EVENT, PAYMENT | payment service, remote services |
| Payment service, `payments` | `payment_transactions` rows | create a checkout, process a webhook, validate a reference | gateway |
| OGA service, `oga/internal` | `ApplicationRecord` | inject, review, feedback, lists | task API of the backend (callback) |
| HTTP clients, `backend/pkg/remote`, `oga/pkg/httpclient` | the clients by service, the access token of each (memory) | retries with backoff, timeouts, authentication | network, token server |
| Temporal runtime, `workflow/runtime` | none of its own | activation, task completion, workflow completion | an external workflow library, task manager, consignment service |
| Consignments, `workflow/service` | `consignments` rows | create, initialise, complete, list | runtime |
| Pre-consignments, `workflow/service` | `pre_consignments` rows | list with computed states, start with a check of dependencies, complete | engine; user records for the trader's id; the trader portal |
| Users and authentication, `auth`, `profile/user` | the cache of signing keys (memory); `users` rows | judge a token, fetch keys, find or make the person's record | identity provider; every service that asks for a user id |
| Uploads, `uploads` | files with their `.meta` (disk) | sign links, PUT, GET, DELETE | file system, or S3 |
| The rest (master data, notification, payments v2, portals, deployment) | see `PROJECT.json` | | |

What is wired (`backend/internal/app/bootstrap/app.go`): the consignment service
runs its workflows on the Temporal runtime, which activates tasks of the task
manager and hears of their end through the done callback. The engine of
`workflow/manager` serves the pre-consignments, whose wiring is disabled "until
it is migrated to Temporal"; it is still the part of the repository with the
richest logic of its own, complete with tests. Both halves share the task
manager and the plugins.

What is hard in this code, and what makes it right:

* **Engine.** Notifications of several tasks are processed at once in READ
  COMMITTED transactions that read without locks; READY nodes are registered
  after the commit, outside of it; a failure stops the registration half way; a
  restart forgets the handlers. It is right when a node is opened exactly when
  its rule is fulfilled, once, its task is created once, and the workflow is
  reported complete exactly when it is.
* **Task manager and containers.** Calls for one task overlap; memory changes
  before two separate writes; the cache may drop a container in use; containers
  are rebuilt from the row after a restart. It is right when memory and row
  agree, when a reported end is durable and reported once, and when no call
  hangs.
* **Payments.** Two clocks (session and threshold), a lazy timeout that only a
  reader triggers, a session and a history in one column, a gateway that repeats
  and reorders. It is right when no payment is in progress without a checkout,
  no attempt is forgotten, and a success stays one.
* **Agency verification.** Two databases joined by HTTP calls that are retried
  in one direction and not in the other; each side writes before or after its
  call, and callbacks for one task take their steps without a lock. It is right when both sides tell the same story about a task.
* **Consignments.** The state is tested before the transaction that changes it;
  the workflow is started before that transaction commits; the completion handler
  saves the whole row as it read it, and may be tried several times. It is right
  when the code of a consignment is the one whose workflow runs, and when
  FINISHED is true, final, and reached.
* **Pre-consignments and users.** A person's first requests make the record all
  later ones depend on, without a transaction; the portal offers a start from a
  listing that may be old, of rows in no order; the server counts rows where it
  means templates. It is right when a person has one identity, a pre-consignment
  has the dependencies that were checked, and what is offered is not refused for
  them.
* **Keys and tokens.** Keys rotate while a cache is trusted and other requests
  fetch; an access token ages while callers wait for a lock, a token server and
  a network. It is right when no withdrawn key is honoured for longer than the
  cache lives, no published key is missed, and no token is sent that has ended.
* **Uploads.** The file, its content and its type are written one after the
  other, nothing separates two requests for one key, and the process may stop in
  between. It is right when what was acknowledged is what is served.

## Modules

| Module | Models | Extends |
|---|---|---|
| `WorkflowGraph` | nodes, dependencies, unlock rules, completion test | |
| `DependencyOrder` | abstract: what a workflow promises its domain | `WorkflowGraph` |
| `WorkflowEngine` | the engine; a notification is one step, registrations interleave | `WorkflowGraph` |
| `WorkflowTx` | the same notification statement by statement, with row locks | `WorkflowGraph` |
| `PluginTables` | the transition tables of the three plugins | |
| `TaskLifecycle` | task manager, container, cache, row; call by call, access by access | `PluginTables` |
| `PaymentSession` | payment plugin, local store, payment service, webhooks | `PluginTables` |
| `OgaReview` | a form verified by an agency: plugin, network, OGA service | `PluginTables` |
| `ConsignmentFlow` | one consignment, its initialisation and completion, the Temporal runtime's handlers | |
| `Clock` | time, for modules with time limits | |
| `UserRecords` | the record of the person a request belongs to | |
| `PreConsignment` | pre-consignments: listing, start, completion, and what the portal offers | `UserRecords` |
| `KeyCache` | the verdict on a token and the cache of signing keys | `Clock` |
| `RemoteToken` | calls to a remote service: shared access token, retries, timeouts | `Clock` |
| `LocalFiles` | one uploaded file: PUT, GET, DELETE, signed links | `Clock` |
| `WorkflowEngineProofs`, `TaskLifecycleProofs`, `PaymentSessionProofs`, `OgaReviewProofs`, `ConsignmentFlowProofs`, `PreConsignmentProofs`, `WorkflowTxProofs` | the proofs | the module named |
| `ServiceProofs` | the proofs about `KeyCache`, `RemoteToken` and `LocalFiles`, and about all four services together | `PreConsignmentProofs`, `MCServices` |
| `MC...` | instances for TLC | the module named |

### WorkflowGraph, DependencyOrder, WorkflowEngine

The graph is a constant: `InitializeNodesFromTemplates` resolves templates once
and nothing changes the rules afterwards. A rule is a set of groups, a group a
set of conditions, which is the legacy format as it is and the disjunctive
normal form of the recursive one. `Valid` is `Validate` and `Resolved` what
`ResolveToInstanceIDs` makes of valid rules; `GraphAssumption` says that the
rules are resolved ones, and states two restrictions: no rule asks for LOCKED or
READY, and nothing waits for the end node.

`BeginStart`, `CommitStart` and `AbortStart` are `StartWorkflowInstance` in its
caller's transaction (`phase`); `Register` and `RegisterFails` are the loop of
`registerNodesWithTaskManager`; `UpdateInProgress`, `UpdateFailed` and
`UpdateCompleted` are `HandleTaskUpdate` with the three transitions of the state
machine, the unlock pass, the end node and the workflow's own status; `Crash`
empties `handlerMap` and the calls in progress. The rows (`nodeState`,
`outcome`, `wfStatus`) survive a crash, `handler` and `pending` do not.

`DependencyOrder` says the same without transactions, handlers or tasks: nodes
open when their rule is fulfilled, finished nodes and outcomes are final,
completion is told when it is there. `WorkflowEngine` implements it, and so does
`WorkflowTx` as long as notifications are orderly (`KeepsPromise`).

### WorkflowTx

One notification is a transaction of several steps: read the workflow, save the
context if the notification appends to it, read the node, read the siblings and
compute everything, write the changed rows in the order of their ids, save the
workflow row, commit. Reads see what is committed; writes lock a row until the
end and store values computed from the earlier read; any step may fail and roll
back. `OnePerTask` restricts a task to one notification in flight, which is what
the task manager sends. `missed` is a history variable: some commit left a LOCKED
node whose rule is fulfilled (what `tx_join` shows).

The safety properties are about the time while notifications are `Orderly`: one
in flight per task, no rule with an alternative or on anything but completed
nodes (`Conjunctive`), no join missed so far. Outside it they are false of the
code. A join that was missed is found by the next completions of other nodes;
two of them that overlap both open it, its task is initialised twice, and the
later commit takes back the progress of the first. Two completions that each
fulfil an alternative of one rule do the same. Then the plans of two
transactions have rows in common, and two transactions can also wait for each
other's locks.

### TaskLifecycle

The state is the row, what each container object holds, which object the cache
has, who holds `containerBuildMu`, and where each call is. `InitTask` is
`new`, `create`, `cache`; `getTask` is `lookup`, `lock`, `rebuild`, `store`; then
every call goes through `check` (CanTransition), `dispatch` (the handler runs,
and may call out), `decide` (which edge), `set` (memory), `plugin` and `status`
(the two writes), `finish` (the new state is read and reported). `Switch` is
INITIATE_PAYMENT in IN_PROGRESS, which applies no transition. `Put` is
`containerCache.Set`. Evictions may happen at any time, and so may a crash.
`behind` and `misread` are
history variables: containers whose last write failed, and a container built
after a query failed and its error was ignored (`container.go:160`).

### PaymentSession

The plugin's session (reference, time generated, time initiated) and history
live in a local store with a copy in memory and one in the database; a write
changes the copy first and may fail (`Store`). `Render` is `GetRenderInfo` with
its lazy timeout and its rotation; `Initiate`, `Checkout` and `Stamp` are the
steps of INITIATE_PAYMENT; `Succeed` and `Fail` the callbacks; `Record` and
`Renew` the end of an attempt; `Move` the transition at the end. `HookRead` and
`HookWrite` are the two statements of `ProcessWebhook`. Time is a counter.

### OgaReview

`task`, `form`, `verdict` and `notes` are the plugin's state and its local store
in the backend, `post` is the trader's submission in progress with the retries
left, `app` is the agency's record, `officer` the requests of officers in
progress, `wire` the HTTP requests under way. A request carries who waits for
it; when the sender times out or dies it carries `Nobody` and may still be
carried out. An inject is two steps at the agency (`InjectRead`, `InjectWrite`:
the status is read, then the record is reset or saved as a whole).

At the backend nothing makes the executions of one task wait for each other, so
a callback is the steps of `SimpleForm.Execute`: the check (`Checked`), the
store of a verdict (`VerdictStored`), or the read and the write of the feedback
history (`FeedbackRead`, `FeedbackStored`), then the two halves of
`Container.Transition`, which reads the state under one lock and assigns the next
under another (`StateRead`, `Moved`); with no edge it is `Refused`, at the check
or, its body stored, at the transition. The trader's transition has the same two
halves (`TraderReads`, `TraderMoves`). `AtWork` says that somebody is between
them; `overlap` is a history variable: two executions were at work at once.

`InjectAnswered` is what an inject's sender hears, `Taken` when the agency's
handler lets a review or feedback begin. An officer's request is the callback
(`Decide`, with one of the `Messages` the agency can send), its answer
(`Answer`), and the record it writes afterwards (`RecordReview`; `ReadHistory`
and `AppendFeedback`, a read and a write of one transaction). `AttemptFails` is
one turn of `executeWithRetry`.

### ConsignmentFlow

`row` is the committed consignment. A request goes through `ReadInitialized` (the
test of the state, outside the transaction), `SaveInProgress` (the row's lock is
taken), `StartWorkflow` (or `StartUnanswered`: it began, but the caller sees an
error) and `Commit` or `Rollback`. `run`, `runCode` and `node` belong to the
workflow library: they survive a crash of the backend. `Activate` is the
activation handler with `InitTask`; if its answer is lost the node waits for ever,
because every further attempt hits the task's primary key. Which nodes begin is
the workflow's choice: an exclusive split takes one branch, and the workflow of
migration `015_fcau_workflow_seed.up.sql` (47-50, 71-79, 127-160) has two of them
and an END behind each, so that some nodes never begin. A `Route` is the set of
nodes on a way from START to an END; `CompleteWorkflow` asks that the nodes
`Begun` are a route and done. `TaskDone` is
`taskDoneWrapper`, whose errors are logged and dropped. `FinishRead` and
`FinishSave` are the two statements of `markConsignmentAsFinished`, for several
attempts at once. `early` is a history variable: the workflow was over before the
row had its code. Of the library it is assumed that an id is started once. With
one that answers a second StartWorkflow with success, `ItemIsRun` fails: a
request that read INITIALIZED long ago stores its own code over the one whose
workflow runs (this is the mutant of `ItemIsRun`). Nothing in the service itself
prevents it.

### UserRecords, PreConsignment

A request is a tab of a trader's browser (`whose` never changes). The middleware
runs before every service: `Lookup`, `Insert` (ON CONFLICT DO NOTHING) and
`Again` are the three statements of `GetOrCreateUser`; a failure lets the request
go on without an id, which the services then refuse or answer with nothing. The
listing (`List`) reads the trader's rows in no order, lets the last row of a
template stand for it and computes READY or LOCKED for the others; a tab shows
it (`seen`) until the next one. `AskStart` is the route, which takes a start of any
template whatever the screen shows; `offered` notes whether the dependencies were
shown as completed, which is what the portal's button asks (it also wants the
template itself to be READY). `direct` is a history variable: the traders and
templates of which a row was started without. `CheckDependencies` is the count of
completed rows (`Refuse` when it is too small), `Create` the transaction
with row and workflow, `OnWorkflowCompleted` the engine's notice. Rows of one
trader and template differ in their state only, so `held` counts them.

### KeyCache

`Arrive` is the middleware with what is refused before a key is needed. A
request then reads the clock (`Stamp`), the cache under the read lock
(`ReadCache`), the cache again under the write lock (`LockCache`), and fetches
with the lock held (`Respond` is the moment the provider composes its answer,
`Install` the moment it is stored, `FetchFails`). A key that is missing leads to
a second, forced round (`Use`). The lock is Go's: readers that wait go before
the next writer (`ReadersWait`). `Rotate` is the provider. `lacked` is a history
variable: the request's key was unpublished at some time of it.

### RemoteToken

`Apply` is `getToken` under its mutex: the cached token if it lasts another
minute, else a refresh, with the lock held (`Issue` at the server, `Refreshed` at
the client, which counts the lifetime from later than the server does).
`AttemptFails`, `AfterBackoff`, `Answered` and `Cancelled` are the turns of
`executeWithRetry`. The clock passes only while somebody waits for the network
or for a lock, and no wait for the network is longer than its timeout.

### LocalFiles

A PUT is `CreateFile`, two writes of content, `OpenMeta` and `WriteMeta`; an
error removes the file by its path, whoever's it is by then (`SaveFails`). A GET
opens, reads the type and streams in two parts from the inode it has opened. A
DELETE removes the description first. `Stop` ends every request where it stands.
`kept` is a history variable: the acknowledged PUT, as long as nothing has
touched its key since.

`MCServices` puts these four parts into one instance. They share nothing but the
time, so a behaviour moves one of them, chosen at its beginning; mixing their
steps would multiply the states and add no behaviour of any part.

## Runs

| Run | Shows | Bounds |
|---|---|---|
| `engine` | atomic notifications (overlapping ones are in `tx`): nodes open exactly when their rule is fulfilled, one task each, truthful status, registrations arrive; implements `DependencyOrder` | 6 nodes with a join, an alternative on an outcome or a state, a node the end node does not wait for, an end node; 2 calls |
| `tx` | two transactions interleaved: while they are `Orderly`, nothing taken back, opened early or twice; nobody waits for a lock whose holder waits | 6 nodes: two roots, their join, a successor of each root alone, and an end node behind the join; 2 calls; ids in an order that crosses the graph's |
| `tx_join` | violation: both dependencies of a join complete at once and the join stays LOCKED | 3 nodes, 2 calls |
| `task` | evictions, crashes and failed writes: calls return, also when they compete for a container; when they come one at a time, memory and row agree and a reported end is durable and reported once | the three types, 2 callers, 3 containers; calls of WAIT_FOR_EVENT overlap while they get or make a container (`OneAtWork`), those of the others come one at a time |
| `task_duplicate` | violation: `InitTask` and `getTask` build a container each | WAIT_FOR_EVENT, 3 containers |
| `payment` | checkout first, history only grows, success final while webhooks come one at a time | 3 references, TTL and threshold 1, time to 3 |
| `payment_window` | violation: the rotation takes the session of a payment in progress | 2 references, time to 4 |
| `payment_webhook` | violation: two webhooks at once overwrite a success | 2 references, 2 webhooks, time to 4 |
| `oga` | the agency has what the task waits for, a decision nobody is at work on stands; verdicts and feedback agree while no executions of the task have overlapped | 2 submissions, 2 notes, 2 officers, 2 callbacks at once, 1 retry, 1 request whose sender is gone |
| `oga_waiting` | violation: a task waits for a review, its application for the trader | 1 note, 1 retry |
| `consignment` | the code in progress is the one whose workflow runs, FINISHED is true and final, a completed workflow finishes its consignment | 3 codes, one without a template; 2 requests, 2 attempts, 1 crash; 3 nodes, with an END after the first, after the second and after all |
| `services` | one identity per person; pre-consignments, offered or not, have as many completed dependencies as the server counts, each of them if they were offered, and what was offered is not refused; key rotation; no ended token is sent; an acknowledged file is served | traders: 2 tabs of 1 or 2 persons, 3 templates, 4 rows. keys: 2 requests, 2 keys, 2 rotations, time to 4. remote: 3 callers, 1 retry, time to 7. files: 2 PUTs, 1 GET, 2 inodes, time to 2 |

Why the bounds are enough. Every transition of the engine concerns one node, its
direct neighbours and the end node; the graph has a node in each role, and the
proofs remove the bound. Two calls suffice for every race found, all of which
are between two; `NoDeadlock` says, while notifications are `Orderly`, that
nobody waits for somebody who waits. In `tx` the join is missed and then found
by two completions at once, so `Orderly` is needed in the instance and not only
stated. Three references allow two rotations or renewals after the first
session, so an old session, its successor and an entry of the history coexist;
times to 3 or 4 with TTL and threshold of 1 reach the window in which the
session has expired and the payment has not. Two submissions tell the last from
an older one, two officers race a verdict against a verdict or a feedback and
interleave the steps of their callbacks, one retry repeats what may have been
carried out, one stray request is enough to overtake a newer one. Three nodes
make a branch that ends early, one that skips a node and one that takes all.
Four rows are a completed row of each of two dependencies, one more of either,
and one that depends on both, which is what a count can get wrong. Two keys and
two rotations let a key be withdrawn and published again while the cache lives
(2 units) or a fetch (1) is under way. Three callers are one that refreshes, one
that waits for it and one that uses the token at its end; time to 7 outlives the
longest token (4) and a refresh of the next. Two PUTs are a retry and the
attempt it repeats; a file is emptied, replaced or removed with two inodes. Sets
that are permuted in a configuration (`SYMMETRY`) are only compared for
equality, and no run that uses symmetry checks liveness; the templates
`registration` and `licence`, which `permit` depends on, are permuted too. In
`services` the tab `t1` belongs to the person `p1`: another choice only renames
the persons. `VIEW` in the task runs tells containers apart by what they hold
and who refers to them, which is all that any formula or fairness condition
looks at, and drops those nobody refers to; in `oga` it drops what no guard
reads and no property compares any more (data after an inject was carried out
late, what the agency records after an overlap, a verdict that is overwritten
before a review), and in `services` what a listing shows beyond the completed
dependencies. `OneAtWork` leaves out calls that work on a container at the same
time; `task_duplicate` has calls that work on two containers, and `oga`
executions that work on one state.

`CHECK_DEADLOCK FALSE` is used for the engine, the consignment and the services
only: the services stop where time is up or all PUTs and GETs were made; after an
aborted start, or a restart, which empties `handlerMap`, nothing moves in the
real engine either, and a consignment stops when it is finished or when a
completion report was dropped.

Fairness. `WorkflowEngine` assumes weak fairness of `Register`: a goroutine in
the registration loop runs until it returns. Notifications are not fair, because
a user decides when a task reports. `TaskLifecycle` assumes weak fairness of the
steps of a call that has begun, and strong fairness of taking
`containerBuildMu`, because Go's mutex hands itself to a waiter that starves.
`ConsignmentFlow` assumes weak fairness of a request that has begun, and of the
library's next attempt of the completion handler, and strong fairness of its save,
which competes with requests for the row's lock; crashes are bounded
(`MaxCrashes`), since a backend that dies for ever finishes nothing. The
other modules state safety only and assume none.

## What the violations say

1. `tx_join`: siblings are read without a lock (state_machine.go:74). Two
   completions that together fulfil a join do not see each other. If two later
   completions overlap, both open the join that was missed (see `WorkflowTx`).
2. `task_duplicate`: `InitTask` does not take `containerBuildMu`
   (manager.go:222), which manager.go:84 says prevents duplicates. A container
   with an empty plugin state may stay cached.
3. `payment_window`: `GetRenderInfo` rotates an old session whatever the state
   (payment.go:249), although payment.go:248 speaks of IDLE; `InitiatedAt` goes
   with it and the payment in progress never times out.
4. `payment_webhook`: `ProcessWebhook` tests the status and saves the row in two
   statements (payments/service.go:100 and :114).
5. `oga_waiting`: `FeedbackApplication` records feedback after the task has
   taken it (oga service.go:325), and overwrites the PENDING of a resubmission
   that came in between. The portal then offers no review.

Disagreements and losses that were read or seen in a model and have no run of
their own:

* `TransitionToFailed` (state_machine.go:114) never runs an unlock pass: a node
  with a rule on FAILED, such as unlock_config_test.go:500 evaluates, is opened
  only if some other node completes afterwards.
* A consignment whose StartWorkflow succeeded but whose request failed stays
  INITIALIZED, every further request is refused by the library, and the workflow
  finally makes it FINISHED without a code. The same happens to a code that is
  committed between the read and the save of a completion attempt
  (consignment_service.go:385-396), which only a workflow that ended before its
  initialisation was committed leaves room for (`early`).
* Two callbacks for one task both pass the check of `SimpleForm.Execute`
  (simple_form.go:279) before either reaches its transition (295). Both bodies are
  stored, the later one stays; the one whose transition comes too late is refused,
  so that the officer who was told an error may have left his verdict and the
  other has the success. If both read the state before either assigns it
  (container.go:49 and 53-58), both succeed. `VerdictAgrees` is about the time
  before any executions overlapped.
* A transition of the trader's that has read its edge (container.go:49) assigns it
  over a decision made since: the task waits for an agency that has decided.
  `DecisionStands` is about decisions nobody is at work on.
* Two feedbacks at once: the form reads the history and writes it back without a
  lock (simple_form.go:648 and 660), and one entry is lost although both officers
  are told success.
* `Container.Execute` reports the state the container has after the plugin has
  returned (container.go:91-108): a call that overlaps another may report the end
  the other reached.
* The dependency check of a pre-consignment (pre_consignment_service.go:193)
  counts completed rows, so one dependency completed twice passes for two, and
  the route (pre_consignment_router.go:61-79) takes a start nothing offered.
  `DependenciesMet` therefore states the number for every row, and each
  dependency only where all starts were offered by a listing.
* A PUT that fails removes whatever the path names by then (local_fs.go:103):
  the first attempt of a retried upload, ending late, removes the file its retry
  has had acknowledged. `AcknowledgedServed` is therefore about a file nothing
  has touched since.
* An answer of 401 does not make the OAuth2 client drop its cached token: a token
  the server has revoked is used until it expires.
* A read of the feedback history that fails makes the form start it afresh
  (simple_form.go:651): older feedback is gone.
* INITIATE_PAYMENT in IN_PROGRESS ("to support method switching",
  payment.go:131) repeats the session's reference, which is unique: it always
  fails. A crash between checkout and stamp has the same effect until the TTL is
  over.
* Two completions that each fulfil an alternative of one rule open its node
  twice (state_machine.go:265), without any join being missed.
* The comment on the payment table promises edges (payment.go:141-142) that
  differ from the table's own (149-150).
* `CreateApplication` saves a whole record over one that is PENDING or reviewed,
  so a retried or late inject empties the feedback history, or a review. The
  history the backend sends along (`OGAFeedbackHistory`) is not stored.
* A review whose answer is lost leaves the application PENDING for ever: the
  task refuses every later review. `VerdictAgrees` therefore has one direction.
* oga/docs/architecture.md shows the status updated before the callback; the code
  does it after.
* oga/docs/task-configs.md:43 maps `needs_more_info` to FEEDBACK_REQUESTED; the
  review is sent as OGA_VERIFICATION all the same, a rejection by default.
* A retry of `InitTask` after a crash between the insert and START fails on the
  primary key (manager.go:217).

## What is proved

TLAPS proves, for every graph, number of calls, containers, references,
officers, retries and so on, under the named assumptions of the modules
(`GraphAssumption`, `TaskAssumption`, `PaymentAssumption`, `SessionAssumption`,
`OgaAssumption`, `AppAssumption`, `ConsignmentAssumption`, `UserAssumption`,
`PreAssumption`, `KeyAssumption`, `RemoteAssumption`, `FileAssumption`,
`TxAssumption`, `HorizonAssumption`:
constants have the shapes the code gives them and sentinels differ from real
values; `TimeoutAssumption`, which only `RemoteToken` needs, relates the
timeouts of `oauth2.go` and of `services.json` to the minute by which a token is
given up early):

* **WorkflowEngineProofs.** Type correctness, `UnlockJustified`,
  `NoMissedUnlock`, `StatusTruthful`, `TaskOncePerNode`, `OpenNodesAccounted`,
  and that the engine implements `DependencyOrder`. `Inv` adds to the properties
  that outcomes belong to completed nodes, that before the start nothing but the
  roots is open, and who has which node to register. `TaskOncePerNode` says that
  no two registration passes share a node, whatever else goes on between their
  steps; the notifications that make the passes come one after the other.
  `NoMissedUnlock` is
  inductive because a completion is the only step that can fulfil a rule on
  completions and is followed by the pass in the same step; it is this atomicity
  that `tx_join` shows the code does not have.
* **WorkflowTxProofs.** Type correctness, `OpenedOnce`, `NoDeadlock` and, as the
  refinement of `DependencyOrder`, `KeepsPromise`, for any number of overlapping
  transactions. `Inv` says of every transaction what its plan was made of: its
  node is open and not finished, what it will open was LOCKED with a rule that
  its own completion fulfilled, and the plans of two transactions have no row in
  common. The last point is the argument: in a conjunctive rule a node waits for
  all its dependencies, so that two completions can open the same node only if
  neither is needed for it or each sees the other (`Pivot`), and a node that
  needed neither would have been overlooked before. Since nobody else writes the
  rows of a plan, the stale values in it are still current when they are
  committed, and a transaction waits for nothing but the workflow row.
* **TaskLifecycleProofs.** Type correctness, with `Placed` (where each call is
  tells what exists already), and `MutexHeld`: the build mutex belongs
  to the call that is between its lock and its unlock, and to nobody otherwise,
  which is the safety part of `CallsReturn`. These for any number of overlapping
  calls. For calls one at a time, `StoreAgrees` and `ReportFollowsStore`, by
  `OneCallInv`: at most one call is in progress (`Alone`); `Fits` says for each
  of its locations how far container and row have come; `Sound` says that no edge
  leaves the plugin state that goes with a final task state, in the row and in
  every container in use, even one that a failed write has left ahead of the
  row. Without the last a container ahead of its row could report an end that
  the row does not have.
* **PaymentSessionProofs.** Type correctness (`Sessions`: outside the beginning
  both copies of the store have a session), `CheckoutFirst` (`CheckoutInv`: a
  call about to stamp or to move has its row), `HistoryAppendOnly` (`HistoryInv`:
  the copy in memory is never behind the saved one) and `SuccessIsFinal` under
  the hypothesis that webhooks are handled one at a time, without which
  `payment_webhook` refutes it (`HookInv`: a request about to write read a row
  that is still no success).
* **OgaReviewProofs.** All six properties of the `oga` run, for any number of
  callbacks at once. `Calls` ties each
  request to the one who waits for it, `Working` says where a callback and a
  transition of the trader's lead, `Heard` ties what an officer was told to
  what the task stored, `Posted` says that a task with a submission in progress
  does not wait for a review, and `Resets` that a reset found a record. The
  properties that hold with overlaps (`AgencyHasApplication`,
  `AgencyHoldsSubmission`, `DecisionStands`) rest on these and on the table: no edge
  leaves OGA_REVIEWED, so that only a transition read before a decision can undo
  it, and such a transition is at work. For `VerdictAgrees` and
  `FeedbackReachedTrader`, `Alone` says what an execution that is the only one at
  work finds at each of its steps: the verdict or the entry it stored is still
  there, and the task is not yet reviewed. A second execution that gets past its
  check, or past the reading of its edge, while the first is at work sets
  `overlap`, and nothing is claimed of what the two leave.
* **ConsignmentFlowProofs.** Type correctness, `ItemIsRun`, `FinishedTruthful` and
  `FinishedIsFinal`. `Ownership` says that the row's lock and the phase of a
  request agree and that who started the workflow chose its code; `StartedFirst`
  that the committed row is still INITIALIZED until that request ends, which is
  why a commit never overwrites FINISHED; `Attempts` that an attempt of the
  completion handler works for a workflow that is over, on a row `Written` says
  what of: it has the code of the run, or was read when none was there and the
  workflow had outrun the commit (`early`). `Execution` says that when a workflow
  is over no task of it is open, for any set of routes.
* **PreConsignmentProofs.** Type correctness, `OneIdentity`, `DependenciesMet` and
  `ReadyStarts`, for any number of persons, tabs and templates. `SeenCompleted`
  is the core: whatever a tab shows as completed is completed for its person,
  which lasts because identities and completed rows do; a start that was
  offered therefore stays justified until it is carried out, however old the
  listing. The second half of `DependenciesMet`, each dependency for rows all of
  whose starts were offered, rests on it. The first half, the number for every
  row, rests on the server's check: a start that has passed it has `Enough`
  completed rows, and keeps them, because no count falls (`CountGrows`). For
  `ReadyStarts` both are needed: the count is at least the number of dependencies
  because each has a completed row of its own to be counted (`OneRowOfEach`).
* **ServiceProofs.** Of `KeyCache`: type correctness, `RecentlyServed` and
  `KnownKeyFound`. The cache holds only keys that were published or withdrawn not
  before the fetch that filled it (`Fresh`); a reader's stamp bounds how long it
  may have waited (`Waiting`, `Holds`). Of `RemoteToken`: type correctness and
  `UsableToken`: the client's idea of the expiry is at most one token timeout
  later than the server's, which together with one call timeout is within the
  buffer. Of `LocalFiles`: type correctness and `AcknowledgedServed`. `InUse` says
  which inodes requests still refer to, `Undisturbed` how much of its file a PUT
  that nobody has disturbed has written, `KeptWhole` that the acknowledged file
  is whole under its key, and `ReadsKept` what a GET that began since has of it.
  Of `MCServices`, the specification the run checks: its types and all its state
  invariants (`ServicesAreSafe`).

Only model-checked: the liveness properties (`ReadyRegistered`, `CallsReturn`,
`CompletionArrives`; liveness under fairness and ENABLED are out of the prover's
reach). Every other property of a run that passes is a theorem. Nothing here
rests on induction over data, and no module declares RECURSIVE operators. The
one induction used is over the ranks of nodes (`WellFoundedInduction`), to show
that a transaction has a next row to write.

## Not modelled, and why

* Contents: context values, form data, schemas, amounts, response mappings,
  emissions, configuration of agencies. No guard of the modelled code reads them
  except the plugins' rules, which appear as a choice of edge.
* Two calls of one payment task, or two submissions of one form, at once:
  `TaskLifecycle` has the overlap of calls in general.
* In `OgaReview`, failures of the backend's writes and of single statements at
  the agency before they change anything (they are losses of the request).
* The library behind the Temporal runtime, the payment gateway, the identity
  provider, the portals: other programs.
* The S3 driver of the uploads (it hands everything to the object storage), the
  signatures of links and tokens (a flag of the token, or left out), the
  authenticators without state, and the search for a service by URL, which takes
  the first of nested base URLs in the random order of a map (manager.go:112).
* Master data, listings, notification, payments v2: they change no state that
  others depend on, are I/O, or are not wired.

## Plan

1. The composition of `ConsignmentFlow` with an abstract promise of
   `TaskLifecycle` (a task reports its end once, after it is durable), so that a
   task's end reaches the consignment.
2. `PreConsignment` on top of `DependencyOrder`'s promise, in place of its step
   `OnWorkflowCompleted`.
3. Pure algorithms, checked against reference definitions on bounded inputs:
   evaluation of the recursive rule format against its normal form, transition
   rules and emissions, the LRU list of `containerCache`.
4. Proofs: the promise of a task as an abstract specification with
   `TaskLifecycle` shown to implement it; the safety parts of the two other
   liveness properties (that nobody waits for a registration or a row lock that
   no step can give up); `WorkflowTx` for rules with alternatives, where a node
   may be opened twice but never early.
