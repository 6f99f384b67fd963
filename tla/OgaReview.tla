------------------------------ MODULE OgaReview ------------------------------
(***************************************************************************)
(* One SIMPLE_FORM task that an agency verifies, on both sides of the      *)
(* network: the plugin in the NSW backend and the application record in    *)
(* the agency's OGA service.  The backend injects the trader's submission  *)
(* and retries; the OGA service sends the officer's verdict or feedback to *)
(* the task API and records it only when the answer is a success.          *)
(* Requests and answers are lost, time out, and arrive after their sender  *)
(* gave up; both processes crash.                                          *)
(*                                                                         *)
(* Nothing makes the plugin's executions of one task wait for each other:  *)
(* a callback checks the state, stores its body, reads the state for the   *)
(* transition and assigns the next one in steps of its own, while other    *)
(* callbacks and the trader's transitions take theirs.                     *)
(*                                                                         *)
(* The trader has one request at a time; a transition's assignment and its *)
(* row are one step (TaskLifecycle takes them apart).  Forms, schemas, the *)
(* mapping of outcomes to status names and the portal's display are left   *)
(* out.                                                                    *)
(***************************************************************************)
EXTENDS PluginTables, Naturals, FiniteSets

CONSTANTS Data,     \* contents of a submission
          Note,     \* feedback messages
          Officer,  \* officers' requests the OGA service handles at once
          Retries,  \* MaxRetries of the backend's client
          Strays,   \* bound: requests under way whose sender is gone
          Callbacks, \* bound: callbacks under way at once
          Trader, Nobody, NoData, NoApp, NoVerdict

Verdict == {"APPROVED", "REJECTED"}

ASSUME OgaAssumption ==
  /\ Retries \in Nat /\ Strays \in Nat /\ Callbacks \in Nat
  /\ Trader # Nobody /\ {Trader, Nobody} \cap Officer = {}
  /\ Note \cap Verdict = {} /\ IsFiniteSet(Note)
  /\ NoData \notin Data /\ NoVerdict \notin Verdict

VARIABLES
  task,      \* plugin state of the task
  form,      \* local store of the task: trader:form
  verdict,   \* ogaResponse
  notes,     \* ogaFeedback
  post,      \* the trader's request in progress
  wire,      \* requests sent and not yet dealt with
  app,       \* the agency's application record
  officer,   \* the officers' requests in progress
  straggler, \* history: an inject was carried out after its sender gave up
  overlap    \* history: two executions were at work on the task's state at once

vars == <<task, form, verdict, notes, post, wire, app, officer, straggler, overlap>>
plugin == <<task, form, verdict, notes>>

Inject == [to : {"oga"}, step : {"arrive", "reset", "save"}, data : Data, from : {Trader, Nobody}]
Callback == [to : {"nsw"}, step : {"arrive", "checked", "read", "stored", "moving"},
             body : Verdict \cup Note, from : Officer \cup {Nobody},
             seen : SUBSET Note, dest : PluginStates("SIMPLE_FORM")]
App == [status : {"PENDING", "FEEDBACK_REQUESTED", "REVIEWED"}, data : Data,
        verdict : Verdict \cup {NoVerdict}, history : SUBSET Note]

ASSUME AppAssumption == NoApp \notin App

NoPost == [pc |-> "idle", left |-> 0, dest |-> NotStarted]
Post == [pc : {"idle", "sent", "answered", "failed", "drafted", "moving"}, left : 0..Retries,
         dest : PluginStates("SIMPLE_FORM")]
NoCall == [pc |-> "idle", body |-> NoVerdict, seen |-> {}]
OfficerCall == [pc : {"idle", "sent", "accepted", "append"},
                body : Verdict \cup Note \cup {NoVerdict}, seen : SUBSET Note]

TypeOK ==
  /\ task \in PluginStates("SIMPLE_FORM")
  /\ form \in Data \cup {NoData}
  /\ verdict \in Verdict \cup {NoVerdict}
  /\ notes \subseteq Note
  /\ post \in Post
  /\ wire \subseteq Inject \cup Callback
  /\ app \in App \cup {NoApp}
  /\ officer \in [Officer -> OfficerCall]
  /\ straggler \in BOOLEAN
  /\ overlap \in BOOLEAN

Init ==
  /\ task = "FORM_INITIALIZED"
  /\ form = NoData
  /\ verdict = NoVerdict
  /\ notes = {}
  /\ post = NoPost
  /\ wire = {}
  /\ app = NoApp
  /\ officer = [o \in Officer |-> NoCall]
  /\ straggler = FALSE
  /\ overlap = FALSE

Orphan(r) == [r EXCEPT !.from = Nobody]
Orphans == {r \in wire : r.from = Nobody}
Edge(act) == Moves("SIMPLE_FORM", task, act)

(* Executions at work on the task's state: a callback between its check    *)
(* and its assignment, a transition of the trader's between its read and   *)
(* its assignment.                                                         *)
Reviewing == {r \in wire : r.to = "nsw" /\ r.step # "arrive"}
AtWork == Reviewing # {} \/ post.pc = "moving"

----------------------------------------------------------------------------
(* The trader's side of the backend *)

SaveAsDraft ==
  /\ post.pc = "idle"
  /\ Edge("SAVE_AS_DRAFT") # {}
  /\ form' \in Data
  /\ post' = [NoPost EXCEPT !.pc = "drafted"]
  /\ UNCHANGED <<task, verdict, notes, wire, app, officer, straggler, overlap>>

(* submitHandler stores the form and posts it; the state is checked first  *)
(* and moved only at the end.                                              *)
Request(d) == [to |-> "oga", step |-> "arrive", data |-> d, from |-> Trader]

Submit ==
  /\ post.pc = "idle"
  /\ Edge("SUBMIT_FORM_AWAIT_OGA") # {}
  /\ \E d \in Data : form' = d /\ wire' = wire \cup {Request(d)}
  /\ post' = [NoPost EXCEPT !.pc = "sent", !.left = Retries]
  /\ UNCHANGED <<task, verdict, notes, app, officer, straggler, overlap>>

(* An attempt ended without a success; rest is what is left on the wire.   *)
(* Errors and some statuses are retried; the call fails with the last      *)
(* attempt, on any other status, on an answer it cannot decode, and when   *)
(* the trader's own request is gone.                                       *)
AttemptFails(rest) ==
  \/ /\ post.left > 0
     /\ wire' = rest \cup {Request(form)}
     /\ post' = [post EXCEPT !.left = @ - 1]
  \/ /\ wire' = rest
     /\ post' = [NoPost EXCEPT !.pc = "failed"]

(* Mutant: a submission that failed is taken for one that was sent. *)
SentOrNot == [drafted |-> "SAVE_AS_DRAFT", answered |-> "SUBMIT_FORM_AWAIT_OGA",
              failed |-> "SUBMIT_FORM_AWAIT_OGA"]

(* The transition a request ends in.                                       *)
TraderAct == [drafted |-> "SAVE_AS_DRAFT", answered |-> "SUBMIT_FORM_AWAIT_OGA",
              failed |-> "SUBMIT_FORM_FAILED"]

(* Mutant: the edge is the one of the check before the submission.         *)
TraderReadsNothing ==
  /\ post.pc = "answered"
  /\ post' = [NoPost EXCEPT !.pc = "moving", !.dest = "OGA_ACKNOWLEDGED"]
  /\ overlap' = (overlap \/ AtWork)
  /\ UNCHANGED <<plugin, wire, app, officer, straggler>>

(* Transition looks the edge up in the state the task has by now; the call *)
(* fails when there is none.                                               *)
TraderReads ==
  /\ post.pc \in DOMAIN TraderAct
  /\ LET edge == Edge(TraderAct[post.pc])
     IN  \/ \E e \in edge : post' = [NoPost EXCEPT !.pc = "moving", !.dest = e.to]
         \/ edge = {} /\ post' = NoPost
  /\ overlap' = (overlap \/ (post' # NoPost /\ AtWork))
  /\ UNCHANGED <<plugin, wire, app, officer, straggler>>

(* ... and assigns where that edge leads, whatever the state is then.      *)
TraderMoves ==
  /\ post.pc = "moving"
  /\ task' = post.dest
  /\ post' = NoPost
  /\ UNCHANGED <<form, verdict, notes, wire, app, officer, straggler, overlap>>

----------------------------------------------------------------------------
(* The agency's side *)

(* CreateApplication reads the record, then either resets one that waits   *)
(* for a resubmission or saves a whole new record over what is there.      *)
InjectRead(r) ==
  /\ r.to = "oga" /\ r.step = "arrive"
  /\ LET step == IF app # NoApp /\ app.status = "FEEDBACK_REQUESTED" THEN "reset" ELSE "save"
     IN  wire' = (wire \ {r}) \cup {[r EXCEPT !.step = step]}
  /\ UNCHANGED <<plugin, post, app, officer, straggler, overlap>>

(* Mutant: a reset changes the status and leaves the data. *)
InjectedStatusOnly(r) ==
  IF r.step = "reset"
    THEN [app EXCEPT !.status = "PENDING"]
    ELSE [status |-> "PENDING", data |-> r.data, verdict |-> NoVerdict, history |-> {}]

Injected(r) ==
  IF r.step = "reset"
    THEN [app EXCEPT !.status = "PENDING", !.data = r.data]
    ELSE [status |-> "PENDING", data |-> r.data, verdict |-> NoVerdict, history |-> {}]

(* HandleInjectData answers 201.  The answer reaches the backend, or it    *)
(* does not, or nobody waits for it.                                       *)
InjectAnswered(r) ==
  \/ /\ r.from = Trader
     /\ wire' = wire \ {r}
     /\ post' = [NoPost EXCEPT !.pc = "answered"]
  \/ r.from = Trader /\ AttemptFails(wire \ {r})
  \/ r.from = Nobody /\ wire' = wire \ {r} /\ post' = post

InjectWrite(r) ==
  /\ r.to = "oga" /\ r.step # "arrive"
  /\ app' = Injected(r)
  /\ straggler' = (straggler \/ r.from = Nobody)
  /\ InjectAnswered(r)
  /\ UNCHANGED <<plugin, officer, overlap>>

(* HandleReviewApplication: a request that cannot be read, or is for an    *)
(* application there is not, changes nothing.                              *)
Taken(o) == officer[o] = NoCall /\ app # NoApp

SentNotes == {r.body : r \in {x \in wire : x.to = "nsw"}} \cup {officer[o].body : o \in Officer}

(* HandleFeedback refuses an empty message; each message is sent once, to  *)
(* tell the entries of the history apart.                                  *)
Messages == Note \ (notes \cup SentNotes)

(* ReviewApplication and FeedbackApplication read the record and post the *)
(* callback; neither looks at the status.                                  *)
Decide(o) ==
  /\ Taken(o) /\ Cardinality({r \in wire : r.to = "nsw"}) < Callbacks
  /\ \E b \in Verdict \cup Messages :
       /\ officer' = [officer EXCEPT ![o] = [NoCall EXCEPT !.pc = "sent", !.body = b]]
       /\ wire' = wire \cup {[to |-> "nsw", step |-> "arrive", body |-> b, from |-> o,
                              seen |-> {}, dest |-> NotStarted]}
  /\ UNCHANGED <<plugin, post, app, straggler, overlap>>

(* The task API's answer to officer o, if there is still one to hear it:   *)
(* a success is heard or lost, a refusal and a lost answer are both errors.*)
Answer(o, ok) ==
  IF o = Nobody THEN officer' = officer
  ELSE \/ ok /\ officer' = [officer EXCEPT ![o].pc = "accepted"]
       \/ officer' = [officer EXCEPT ![o] = NoCall]

ActOf(b) == CASE b = "APPROVED" -> "OGA_VERIFICATION_APPROVED"
              [] b = "REJECTED" -> "OGA_VERIFICATION_REJECTED"
              [] OTHER -> "OGA_VERIFICATION_FEEDBACK"

(* Mutant: the task API answers 200 with the error in the body. *)
RefusedWithSuccess(r) ==
  /\ r.to = "nsw" /\ r.step \in {"arrive", "stored"}
  /\ Edge(ActOf(r.body)) = {}
  /\ wire' = wire \ {r}
  /\ Answer(r.from, TRUE)
  /\ UNCHANGED <<plugin, post, app, straggler, overlap>>

(* No edge for the callback in the plugin's state: at the check, which     *)
(* Execute begins with, or at the transition it ends with, when the body   *)
(* is stored already.                                                      *)
Refused(r) ==
  /\ r.to = "nsw" /\ r.step \in {"arrive", "stored"}
  /\ Edge(ActOf(r.body)) = {}
  /\ wire' = wire \ {r}
  /\ Answer(r.from, FALSE)
  /\ UNCHANGED <<plugin, post, app, straggler, overlap>>

Become(r, s) == wire' = (wire \ {r}) \cup {s}

Checked(r) ==
  /\ r.to = "nsw" /\ r.step = "arrive"
  /\ Edge(ActOf(r.body)) # {}
  /\ Become(r, [r EXCEPT !.step = "checked"])
  /\ overlap' = (overlap \/ AtWork)
  /\ UNCHANGED <<plugin, post, app, officer, straggler>>

(* Mutant: the history cannot be read and is started afresh. *)
FeedbackStartedAfresh(r) ==
  /\ r.to = "nsw" /\ r.step = "checked" /\ r.body \in Note
  /\ Become(r, [r EXCEPT !.step = "read"])
  /\ UNCHANGED <<plugin, post, app, officer, straggler, overlap>>

(* ogaFeedbackHandler reads the history ...                                *)
FeedbackRead(r) ==
  /\ r.to = "nsw" /\ r.step = "checked" /\ r.body \in Note
  /\ Become(r, [r EXCEPT !.step = "read", !.seen = notes])
  /\ UNCHANGED <<plugin, post, app, officer, straggler, overlap>>

(* ... and writes it with the new entry.                                   *)
FeedbackStored(r) ==
  /\ r.to = "nsw" /\ r.step = "read"
  /\ notes' = r.seen \cup {r.body}
  /\ Become(r, [r EXCEPT !.step = "stored", !.seen = {}])
  /\ UNCHANGED <<task, form, verdict, post, app, officer, straggler, overlap>>

(* ogaApprovedHandler, ogaRejectedHandler: the response is stored.  When a *)
(* mapped key collides with the emission's, only the body of the answer    *)
(* says so; the agency goes by its status, which is a success.             *)
VerdictStored(r) ==
  /\ r.to = "nsw" /\ r.step = "checked" /\ r.body \in Verdict
  /\ verdict' = r.body
  /\ Become(r, [r EXCEPT !.step = "stored"])
  /\ UNCHANGED <<task, form, notes, post, app, officer, straggler, overlap>>

(* Transition reads the state and looks up the edge ...                    *)
StateRead(r) ==
  /\ r.to = "nsw" /\ r.step = "stored"
  /\ \E e \in Edge(ActOf(r.body)) : Become(r, [r EXCEPT !.step = "moving", !.dest = e.to])
  /\ UNCHANGED <<plugin, post, app, officer, straggler, overlap>>

(* ... assigns where it leads, and the task API answers.                   *)
Moved(r) ==
  /\ r.to = "nsw" /\ r.step = "moving"
  /\ task' = r.dest
  /\ wire' = wire \ {r}
  /\ Answer(r.from, TRUE)
  /\ UNCHANGED <<form, verdict, notes, post, app, straggler, overlap>>

(* Mutant: the outcome is stored where its status belongs. *)
RecordOutcome(o) ==
  /\ officer[o].pc = "accepted" /\ officer[o].body \in Verdict
  /\ app' = [app EXCEPT !.status = officer[o].body, !.verdict = officer[o].body]
  /\ officer' = [officer EXCEPT ![o] = NoCall]
  /\ UNCHANGED <<plugin, post, wire, straggler, overlap>>

(* UpdateStatus, with a status that tells the application is reviewed.     *)
RecordReview(o) ==
  /\ officer[o].pc = "accepted" /\ officer[o].body \in Verdict
  /\ app' = [app EXCEPT !.status = "REVIEWED", !.verdict = officer[o].body]
  /\ officer' = [officer EXCEPT ![o] = NoCall]
  /\ UNCHANGED <<plugin, post, wire, straggler, overlap>>

(* AppendFeedback: a transaction that reads the history and writes it.     *)
ReadHistory(o) ==
  /\ officer[o].pc = "accepted" /\ officer[o].body \in Note
  /\ officer' = [officer EXCEPT ![o].pc = "append", ![o].seen = app.history]
  /\ UNCHANGED <<plugin, post, wire, app, straggler, overlap>>

AppendFeedback(o) ==
  /\ officer[o].pc = "append"
  /\ app' = [app EXCEPT !.status = "FEEDBACK_REQUESTED",
                        !.history = officer[o].seen \cup {officer[o].body}]
  /\ officer' = [officer EXCEPT ![o] = NoCall]
  /\ UNCHANGED <<plugin, post, wire, straggler, overlap>>

RecordFails(o) ==
  /\ officer[o].pc \in {"accepted", "append"}
  /\ officer' = [officer EXCEPT ![o] = NoCall]
  /\ UNCHANGED <<plugin, post, wire, app, straggler, overlap>>

----------------------------------------------------------------------------
(* The network and the processes *)

(* A request does not arrive, or its handler fails before it writes.       *)
Lose(r) ==
  /\ r.to = "nsw" => r.step \in {"arrive", "checked", "read"}
  /\ \/ r.from = Trader /\ AttemptFails(wire \ {r}) /\ officer' = officer
     \/ r.from = Nobody /\ wire' = wire \ {r} /\ UNCHANGED <<post, officer>>
     \/ /\ r.from \in Officer
        /\ wire' = wire \ {r} /\ post' = post
        /\ officer' = [officer EXCEPT ![r.from] = NoCall]
  /\ UNCHANGED <<plugin, app, straggler, overlap>>

(* The sender's timeout: the request is still on its way or being handled. *)
TimeOut(r) ==
  /\ r.from # Nobody /\ Cardinality(Orphans) < Strays
  /\ LET rest == (wire \ {r}) \cup {Orphan(r)}
     IN  \/ r.from = Trader /\ AttemptFails(rest) /\ officer' = officer
         \/ /\ r.from \in Officer
            /\ wire' = rest /\ post' = post
            /\ officer' = [officer EXCEPT ![r.from] = NoCall]
  /\ UNCHANGED <<plugin, app, straggler, overlap>>

(* Requests of a dead process may still arrive, and those that have are    *)
(* carried out.                                                            *)
Survive(mine) ==
  \E keep \in SUBSET mine :
    /\ mine \cap Reviewing \subseteq keep
    /\ wire' = (wire \ mine) \cup {Orphan(r) : r \in keep}
    /\ Cardinality(keep) + Cardinality(Orphans) <= Strays

(* The trader's request ends with the backend, and so do the callbacks it  *)
(* had begun: their officers get an error.                                 *)
CrashBackend ==
  /\ post.pc # "idle" \/ Reviewing # {}
  /\ post' = NoPost
  /\ \E keep \in SUBSET {r \in wire : r.from = Trader} :
       /\ wire' = {r \in wire \ Reviewing : r.from # Trader} \cup {Orphan(r) : r \in keep}
       /\ Cardinality(keep) + Cardinality(Orphans \ Reviewing) <= Strays
  /\ officer' = [o \in Officer |-> IF \E r \in Reviewing : r.from = o THEN NoCall ELSE officer[o]]
  /\ UNCHANGED <<plugin, app, straggler, overlap>>

(* Calls of officers end with the OGA service; the requests it handles are *)
(* lost first.                                                             *)
CrashAgency ==
  /\ \E o \in Officer : officer[o] # NoCall
  /\ \A r \in wire : r.to = "oga" => r.step = "arrive"
  /\ officer' = [o \in Officer |-> NoCall]
  /\ Survive({r \in wire : r.from \in Officer})
  /\ UNCHANGED <<plugin, post, app, straggler, overlap>>

Next ==
  \/ SaveAsDraft \/ Submit \/ TraderReads \/ TraderMoves
  \/ CrashBackend \/ CrashAgency
  \/ \E r \in wire :
       \/ InjectRead(r) \/ InjectWrite(r) \/ Lose(r) \/ TimeOut(r)
       \/ Refused(r) \/ Checked(r) \/ FeedbackRead(r) \/ FeedbackStored(r)
       \/ VerdictStored(r) \/ StateRead(r) \/ Moved(r)
  \/ \E o \in Officer :
       Decide(o) \/ RecordReview(o) \/ ReadHistory(o) \/ AppendFeedback(o) \/ RecordFails(o)

Spec == Init /\ [][Next]_vars

----------------------------------------------------------------------------
(* Properties *)

(* ReviewApplication (oga/internal/service.go) records a review only after *)
(* the callback: an application shown as reviewed belongs to a task that   *)
(* ended with the same verdict, whoever else reviewed, timed out, or was   *)
(* heard late.  Execute takes no lock (simple_form.go:279, 282, 295), so   *)
(* that is so only while no executions overlapped.                         *)
VerdictAgrees ==
  app # NoApp /\ app.status = "REVIEWED" /\ ~overlap =>
    task = "OGA_REVIEWED" /\ app.verdict = verdict

(* submitHandler moves the task only after the inject was answered: a task *)
(* never waits for an agency that has no application for it.               *)
AgencyHasApplication ==
  task \in {"OGA_ACKNOWLEDGED", "OGA_FEEDBACK_PROVIDED", "OGA_REVIEWED"} => app # NoApp

(* Retries and resubmissions reach the same record: while the task waits   *)
(* for a review the agency holds what the trader submitted last, unless an *)
(* inject that had been given up was carried out.                          *)
AgencyHoldsSubmission ==
  task = "OGA_ACKNOWLEDGED" /\ ~straggler => app.data = form

(* FeedbackApplication appends to the agency's history only feedback the   *)
(* task has stored for the trader, and the task still has it.  That is so  *)
(* while no executions overlapped: ogaFeedbackHandler reads the history    *)
(* and writes it back (simple_form.go:648, 660), and two lose an entry.    *)
FeedbackReachedTrader == app # NoApp /\ ~overlap => app.history \subseteq notes

(* A decision that no execution is at work on is final, with its verdict,  *)
(* even if executions crossed before: submissions still on their way,      *)
(* late callbacks and second decisions all fail at their check or at their *)
(* transition.                                                             *)
Settled == task = "OGA_REVIEWED" /\ ~AtWork
DecisionStands == [][Settled => Settled' /\ verdict' = verdict]_vars

(* oga/docs/task-configs.md:118: PENDING is "Awaiting officer review (set  *)
(* at injection)."  Once nothing is under way, a task that waits for its   *)
(* review has an application the portal lets an officer review.            *)
Quiet == post.pc = "idle" /\ wire = {} /\ \A o \in Officer : officer[o] = NoCall
WaitingIsPending == Quiet /\ task = "OGA_ACKNOWLEDGED" => app.status = "PENDING"
=============================================================================
