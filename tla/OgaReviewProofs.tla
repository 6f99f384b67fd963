--------------------------- MODULE OgaReviewProofs ---------------------------
(***************************************************************************)
(* Proofs about OgaReview, for every set of submissions, feedback messages *)
(* and officers, every number of retries, of callbacks under way and of    *)
(* requests whose sender is gone.                                          *)
(***************************************************************************)
EXTENDS OgaReview, TLAPS

LEMMA EdgesTo ==
  ASSUME NEW F, NEW act, NEW to, NEW t, NEW e \in Edges(F, act, to, t)
  PROVE  e.from \in F /\ e.act = act /\ e.to = to
BY DEF Edges

(* The SMT backend cannot read the empty string.                           *)
LEMMA NotStartedApart ==
  NotStarted \notin Editable \cup AtOga \cup {"SUBMITTED", "OGA_REVIEWED"}
BY Zenon DEF NotStarted, Editable, AtOga

OgaActs == {"SAVE_AS_DRAFT", "SUBMIT_FORM_AWAIT_OGA", "SUBMIT_FORM_FAILED",
            "OGA_VERIFICATION_APPROVED", "OGA_VERIFICATION_REJECTED",
            "OGA_VERIFICATION_FEEDBACK"}

(* The table of a form, for the actions of a form that an agency verifies: *)
(* nothing leaves OGA_REVIEWED, only a verdict leads there, and feedback   *)
(* is taken from one state only.                                           *)
LEMMA FormMoves ==
  ASSUME NEW s, NEW act \in OgaActs, NEW e \in Moves("SIMPLE_FORM", s, act)
  PROVE  /\ e.to \in PluginStates("SIMPLE_FORM")
         /\ s # "OGA_REVIEWED"
         /\ act = "SAVE_AS_DRAFT" => s # "OGA_ACKNOWLEDGED" /\ e.to = "DRAFT"
         /\ act = "SUBMIT_FORM_AWAIT_OGA" => s # "OGA_ACKNOWLEDGED" /\ e.to = "OGA_ACKNOWLEDGED"
         /\ act = "SUBMIT_FORM_FAILED" => e.to = "SUBMISSION_FAILED"
         /\ act \in {"OGA_VERIFICATION_APPROVED", "OGA_VERIFICATION_REJECTED"} =>
              s \in AtOga /\ e.to = "OGA_REVIEWED"
         /\ act = "OGA_VERIFICATION_FEEDBACK" =>
              s = "OGA_ACKNOWLEDGED" /\ e.to = "OGA_FEEDBACK_PROVIDED"
<1>1. e \in SimpleFormFSM /\ e.from = s /\ e.act = act
  BY DEF Moves, Table
<1>2. e.to \in PluginStates("SIMPLE_FORM")
  BY <1>1 DEF PluginStates, Table
<1>3. PICK F, a, to, t :
        /\ e \in Edges(F, a, to, t)
        /\ \/ a \in {"START", "SUBMIT_FORM_COMPLETE"}
           \/ F = Editable /\ a = "SAVE_AS_DRAFT" /\ to = "DRAFT"
           \/ /\ F = Editable \cup {"OGA_FEEDBACK_PROVIDED"}
              /\ a = "SUBMIT_FORM_AWAIT_OGA" /\ to = "OGA_ACKNOWLEDGED"
           \/ /\ F = {"FORM_INITIALIZED", "DRAFT", "OGA_FEEDBACK_PROVIDED"}
              /\ a = "SUBMIT_FORM_FAILED" /\ to = "SUBMISSION_FAILED"
           \/ /\ F = AtOga /\ to = "OGA_REVIEWED"
              /\ a \in {"OGA_VERIFICATION_APPROVED", "OGA_VERIFICATION_REJECTED"}
           \/ /\ F = {"OGA_ACKNOWLEDGED"}
              /\ a = "OGA_VERIFICATION_FEEDBACK" /\ to = "OGA_FEEDBACK_PROVIDED"
  BY <1>1 DEF SimpleFormFSM
<1>4. e.from \in F /\ e.act = a /\ e.to = to
  BY <1>3, EdgesTo
<1> QED
  BY <1>1, <1>2, <1>3, <1>4 DEF OgaActs, Editable, AtOga

(* A request belongs to who waits for it, who sent no other: the trader's  *)
(* to the submission in progress, with what was submitted, an officer's to *)
(* his call.                                                               *)
Calls ==
  /\ \A r \in wire : r.from = Trader => r.to = "oga" /\ post.pc = "sent" /\ r.data = form
  /\ \A r, s \in wire : r.from # Nobody /\ s.from = r.from => r = s
  /\ \A r \in wire : r.from \in Officer =>
       r.to = "nsw" /\ officer[r.from].pc = "sent" /\ officer[r.from].body = r.body

(* Officers call about an application.  A callback leads where its body    *)
(* says, and the trader's transitions never to a review.                   *)
Working ==
  /\ \A r \in wire : r.to = "nsw" => app # NoApp
  /\ \A r \in wire : r.to = "nsw" /\ r.step = "read" => r.body \in Note
  /\ \A r \in wire : r.to = "nsw" /\ r.step = "moving" =>
       r.dest = IF r.body \in Verdict THEN "OGA_REVIEWED" ELSE "OGA_FEEDBACK_PROVIDED"
  /\ post.pc = "moving" => post.dest \in {"DRAFT", "OGA_ACKNOWLEDGED", "SUBMISSION_FAILED"}

(* An execution that is alone at work finds the task as it left it.        *)
Alone ==
  ~overlap =>
    /\ \A r, s \in Reviewing : r = s
    /\ post.pc = "moving" => Reviewing = {} /\ task # "OGA_REVIEWED"
    /\ \A r \in Reviewing :
         /\ task # "OGA_REVIEWED"
         /\ r.step = "read" => r.seen = notes
         /\ r.step \in {"stored", "moving"} /\ r.body \in Verdict => verdict = r.body
         /\ r.step \in {"stored", "moving"} /\ r.body \in Note => r.body \in notes

(* What was accepted is in the task, if no executions overlapped.          *)
Heard ==
  \A o \in Officer :
    /\ officer[o].pc # "idle" => app # NoApp
    /\ officer[o].pc = "append" => officer[o].body \in Note
    /\ ~overlap /\ officer[o].pc = "accepted" /\ officer[o].body \in Verdict =>
         task = "OGA_REVIEWED" /\ verdict = officer[o].body
    /\ ~overlap /\ officer[o].pc = "accepted" /\ officer[o].body \in Note =>
         officer[o].body \in notes
    /\ ~overlap /\ officer[o].pc = "append" =>
         {officer[o].body} \cup officer[o].seen \subseteq notes

(* A request of the trader's in progress has a task that does not wait for *)
(* a review; once a submission is answered the agency has it.              *)
Submitted == app # NoApp /\ (~straggler => app.data = form)
Posted ==
  /\ post.pc # "idle" => task # "OGA_ACKNOWLEDGED"
  /\ post.pc = "answered" => Submitted
  /\ post.pc = "moving" /\ post.dest = "OGA_ACKNOWLEDGED" => Submitted

Inv == /\ TypeOK /\ Calls /\ Working /\ Alone /\ Heard /\ Posted
       /\ VerdictAgrees /\ AgencyHasApplication /\ AgencyHoldsSubmission
       /\ FeedbackReachedTrader

(* Steps that leave the task alone and begin no callback, whatever they    *)
(* take off the wire or leave there for nobody.                            *)
LEMMA NothingBegun ==
  ASSUME TypeOK, Working, Alone, UNCHANGED <<task, verdict, notes, overlap>>,
         app # NoApp => app' # NoApp,
         post'.pc = "moving" => post' = post,
         \A q \in wire' : q.to = "nsw" =>
           \/ q \in wire
           \/ \E r \in wire \ wire' : r \in Callback /\ q = Orphan(r)
  PROVE  Working' /\ Alone'
<1>1. \A q \in wire' : q.to = "nsw" =>
        \E r \in wire : /\ r.to = "nsw" /\ r.step = q.step /\ r.body = q.body
                        /\ r.seen = q.seen /\ r.dest = q.dest
                        /\ q = r \/ r \notin wire'
  BY DEF Orphan, Callback
<1>2. Working'
  BY <1>1 DEF Working
<1>3. ASSUME ~overlap', NEW q \in Reviewing', NEW t \in Reviewing' PROVE q = t
  <2>1. PICK r \in Reviewing : q = r \/ (r \notin wire' /\ q = Orphan(r))
    BY <1>3 DEF Reviewing, Orphan, Callback
  <2>2. PICK u \in Reviewing : t = u \/ (u \notin wire' /\ t = Orphan(u))
    BY <1>3 DEF Reviewing, Orphan, Callback
  <2>3. r = u
    BY <1>3, <2>1, <2>2 DEF Alone
  <2>4. q \in wire' /\ t \in wire'
    BY <1>3 DEF Reviewing
  <2> QED
    BY <2>1, <2>2, <2>3, <2>4
<1>4. \A q \in Reviewing' : \E r \in Reviewing :
        r.step = q.step /\ r.body = q.body /\ r.seen = q.seen
  BY <1>1 DEF Reviewing
<1>5. Alone'
  BY <1>3, <1>4 DEF Alone
<1> QED
  BY <1>2, <1>5

----------------------------------------------------------------------------
(* The initial state *)

LEMMA NoCallTyped == NoCall \in OfficerCall
BY DEF NoCall, OfficerCall

LEMMA NoPostTyped == NoPost \in Post /\ NoPost.pc = "idle"
<1>1. NotStarted \in PluginStates("SIMPLE_FORM")
  BY DEF PluginStates
<1> QED
  BY <1>1, OgaAssumption DEF NoPost, Post

LEMMA InitInv == Init => Inv
<1> SUFFICES ASSUME Init PROVE Inv
  OBVIOUS
<1>1. task \in PluginStates("SIMPLE_FORM")
  <2> DEFINE e == [from |-> NotStarted, act |-> "START", to |-> "FORM_INITIALIZED", task |-> Keep]
  <2>1. e \in Edges({NotStarted}, "START", "FORM_INITIALIZED", Keep)
    BY DEF Edges
  <2>2. e \in SimpleFormFSM /\ e.to = "FORM_INITIALIZED"
    BY <2>1 DEF SimpleFormFSM
  <2> QED
    BY <2>2 DEF Init, PluginStates, Table
<1>2. TypeOK
  <2> QED
    BY <1>1, NoPostTyped, NoCallTyped DEF Init, TypeOK
<1> QED
  BY <1>2 DEF Inv, Init, Calls, Working, Alone, Reviewing, Heard, Posted, NoPost, NoCall,
     VerdictAgrees, AgencyHasApplication, AgencyHoldsSubmission, FeedbackReachedTrader
----------------------------------------------------------------------------
(* The trader's steps *)

LEMMA SaveAsDraftStep == ASSUME Inv, SaveAsDraft PROVE Inv'
<1>1. task # "OGA_ACKNOWLEDGED"
  <2>1. PICK e \in Edge("SAVE_AS_DRAFT") : TRUE
    BY DEF SaveAsDraft
  <2> QED
    BY <2>1, FormMoves DEF Edge, OgaActs
<1>2. post' \in Post /\ post'.pc = "drafted" /\ form' \in Data /\ post.pc = "idle"
  BY NoPostTyped DEF SaveAsDraft, Post
<1>3. UNCHANGED <<task, verdict, notes, wire, app, officer, straggler, overlap>>
  BY DEF SaveAsDraft
<1>4. TypeOK' /\ Calls'
  BY <1>2, <1>3 DEF Inv, TypeOK, Calls
<1>5. Working' /\ Alone'
  BY <1>2, <1>3, NothingBegun DEF Inv
<1>6. Heard' /\ VerdictAgrees' /\ AgencyHasApplication' /\ FeedbackReachedTrader'
  BY <1>3 DEF Inv, Heard, VerdictAgrees, AgencyHasApplication, FeedbackReachedTrader
<1>7. Posted' /\ AgencyHoldsSubmission'
  BY <1>1, <1>2, <1>3 DEF Posted, AgencyHoldsSubmission
<1> QED
  BY <1>4, <1>5, <1>6, <1>7 DEF Inv

LEMMA SubmitStep == ASSUME Inv, Submit PROVE Inv'
<1>1. PICK d \in Data : form' = d /\ wire' = wire \cup {Request(d)}
  BY DEF Submit
<1>2. task # "OGA_ACKNOWLEDGED"
  <2>1. PICK e \in Edge("SUBMIT_FORM_AWAIT_OGA") : TRUE
    BY DEF Submit
  <2> QED
    BY <2>1, FormMoves DEF Edge, OgaActs
<1>3. post' \in Post /\ post'.pc = "sent" /\ post.pc = "idle"
  <2>1. Retries \in 0..Retries /\ post' = [NoPost EXCEPT !.pc = "sent", !.left = Retries]
    BY OgaAssumption DEF Submit
  <2> QED
    BY <2>1, NoPostTyped DEF Submit, Post
<1>4. UNCHANGED <<task, verdict, notes, app, officer, straggler, overlap>>
  BY DEF Submit
<1>5. TypeOK'
  BY <1>1, <1>3, <1>4 DEF Inv, TypeOK, Request, Inject
<1>6. Calls'
  BY <1>1, <1>3, <1>4, OgaAssumption DEF Inv, Calls, Request
<1>7. Working' /\ Alone'
  BY <1>1, <1>3, <1>4, NothingBegun DEF Inv, Request
<1>8. Heard' /\ VerdictAgrees' /\ AgencyHasApplication' /\ FeedbackReachedTrader'
  BY <1>4 DEF Inv, Heard, VerdictAgrees, AgencyHasApplication, FeedbackReachedTrader
<1>9. Posted' /\ AgencyHoldsSubmission'
  BY <1>2, <1>3, <1>4 DEF Posted, AgencyHoldsSubmission
<1> QED
  BY <1>5, <1>6, <1>7, <1>8, <1>9 DEF Inv

LEMMA TraderReadsStep == ASSUME Inv, TraderReads PROVE Inv'
<1> DEFINE act == TraderAct[post.pc]
<1>1. /\ post.pc \in {"drafted", "answered", "failed"} /\ act \in OgaActs
      /\ act = "SUBMIT_FORM_AWAIT_OGA" => post.pc = "answered"
      /\ act \in {"SAVE_AS_DRAFT", "SUBMIT_FORM_AWAIT_OGA", "SUBMIT_FORM_FAILED"}
  <2>1. /\ DOMAIN TraderAct = {"drafted", "answered", "failed"}
        /\ TraderAct["drafted"] = "SAVE_AS_DRAFT"
        /\ TraderAct["answered"] = "SUBMIT_FORM_AWAIT_OGA"
        /\ TraderAct["failed"] = "SUBMIT_FORM_FAILED"
    BY DEF TraderAct
  <2>2. post.pc \in DOMAIN TraderAct
    BY DEF TraderReads
  <2> QED
    BY <2>1, <2>2 DEF OgaActs
<1>2. UNCHANGED <<plugin, wire, app, officer, straggler>>
  BY DEF TraderReads
<1>3. overlap' \in BOOLEAN /\ (~overlap' => ~overlap)
  BY DEF TraderReads, Inv, TypeOK
<1>4. \/ post' = NoPost
      \/ /\ post' \in Post /\ post'.pc = "moving" /\ task # "OGA_REVIEWED"
         /\ post'.dest \in {"DRAFT", "OGA_ACKNOWLEDGED", "SUBMISSION_FAILED"}
         /\ post'.dest = "OGA_ACKNOWLEDGED" => post.pc = "answered"
         /\ overlap' = (overlap \/ AtWork)
  <2>1. CASE post' = NoPost
    BY <2>1
  <2>2. CASE \E e \in Edge(act) : post' = [NoPost EXCEPT !.pc = "moving", !.dest = e.to]
    <3>1. PICK e \in Moves("SIMPLE_FORM", task, act) :
            post' = [NoPost EXCEPT !.pc = "moving", !.dest = e.to]
      BY <2>2 DEF Edge
    <3>2. /\ e.to \in PluginStates("SIMPLE_FORM") /\ task # "OGA_REVIEWED"
          /\ act = "SAVE_AS_DRAFT" => e.to = "DRAFT"
          /\ act = "SUBMIT_FORM_AWAIT_OGA" => e.to = "OGA_ACKNOWLEDGED"
          /\ act = "SUBMIT_FORM_FAILED" => e.to = "SUBMISSION_FAILED"
      BY <1>1, FormMoves
    <3>3. post' \in Post /\ post'.pc = "moving" /\ post'.dest = e.to
      BY <3>1, <3>2, NoPostTyped DEF Post
    <3>4. overlap' = (overlap \/ AtWork)
      BY <3>3, NoPostTyped DEF TraderReads
    <3> QED
      BY <1>1, <3>2, <3>3, <3>4
  <2> QED
    BY <2>1, <2>2 DEF TraderReads
<1>5. TypeOK'
  BY <1>2, <1>3, <1>4, NoPostTyped DEF Inv, TypeOK, plugin
<1>6. Calls'
  BY <1>1, <1>2 DEF Inv, Calls, plugin
<1>7. Working'
  BY <1>2, <1>4, NoPostTyped DEF Inv, Working, plugin
<1>8. Alone'
  BY <1>2, <1>3, <1>4, NoPostTyped DEF Inv, Alone, Reviewing, AtWork, plugin
<1>9. Heard' /\ VerdictAgrees' /\ AgencyHasApplication' /\ FeedbackReachedTrader'
  BY <1>2, <1>3 DEF Inv, Heard, VerdictAgrees, AgencyHasApplication, FeedbackReachedTrader, plugin
<1>10. Posted' /\ AgencyHoldsSubmission'
  BY <1>1, <1>2, <1>4, NoPostTyped DEF Inv, Posted, Submitted, AgencyHoldsSubmission, plugin
<1> QED
  BY <1>5, <1>6, <1>7, <1>8, <1>9, <1>10 DEF Inv

LEMMA TraderMovesStep == ASSUME Inv, TraderMoves PROVE Inv'
<1>1. /\ post.pc = "moving" /\ task' = post.dest /\ post' = NoPost
      /\ UNCHANGED <<form, verdict, notes, wire, app, officer, straggler, overlap>>
  BY DEF TraderMoves
<1>2. post.dest \in PluginStates("SIMPLE_FORM")
  BY DEF Inv, TypeOK, Post
<1>3. task' \in {"DRAFT", "OGA_ACKNOWLEDGED", "SUBMISSION_FAILED"}
  BY <1>1 DEF Inv, Working
<1>4. ~overlap => task # "OGA_REVIEWED" /\ Reviewing = {}
  BY <1>1 DEF Inv, Alone
<1>5. TypeOK'
  BY <1>1, <1>2, NoPostTyped DEF Inv, TypeOK
<1>6. Calls'
  BY <1>1 DEF Inv, Calls
<1>7. Working' /\ Alone'
  BY <1>1, <1>4, NoPostTyped DEF Inv, Working, Alone, Reviewing
<1>8. Heard' /\ VerdictAgrees' /\ FeedbackReachedTrader'
  BY <1>1, <1>4 DEF Inv, Heard, VerdictAgrees, FeedbackReachedTrader
<1>9. Posted' /\ AgencyHasApplication' /\ AgencyHoldsSubmission'
  BY <1>1, <1>3, NoPostTyped DEF Inv, Posted, Submitted, AgencyHasApplication, AgencyHoldsSubmission
<1> QED
  BY <1>5, <1>6, <1>7, <1>8, <1>9 DEF Inv

----------------------------------------------------------------------------
(* The network and the processes *)

(* A failed attempt of which nothing but rest is left on the wire.         *)
LEMMA AttemptFailsStep ==
  ASSUME Inv, post.pc = "sent", form \in Data, NEW rest, AttemptFails(rest),
         rest \subseteq Inject \cup Callback,
         \A r \in rest : r.from # Trader,
         UNCHANGED form
  PROVE  /\ post' \in Post
         /\ wire' \subseteq Inject \cup Callback
         /\ \A r \in wire' : r.from = Trader => r = Request(form') /\ post'.pc = "sent"
         /\ \A r \in wire' : r.from # Trader => r \in rest
         /\ \A r \in wire' : r.to = "nsw" => r \in rest
         /\ post'.pc \in {"sent", "failed"}
<1>1. post \in Post
  BY DEF Inv, TypeOK
<1>2. CASE /\ post.left > 0
           /\ wire' = rest \cup {Request(form)}
           /\ post' = [post EXCEPT !.left = @ - 1]
  <2>1. post.left - 1 \in 0..Retries
    BY <1>1, <1>2, OgaAssumption DEF Post
  <2>2. Request(form) \in Inject /\ Request(form).from = Trader /\ Request(form).to = "oga"
    BY DEF Request, Inject
  <2>3. post' \in Post /\ post'.pc = "sent"
    BY <1>1, <1>2, <2>1 DEF Post
  <2> QED
    BY <1>2, <2>2, <2>3
<1>3. CASE wire' = rest /\ post' = [NoPost EXCEPT !.pc = "failed"]
  BY <1>3, NoPostTyped DEF Post
<1> QED
  BY <1>2, <1>3 DEF AttemptFails

(* The trader's request, taken off the wire or left there for nobody.      *)
LEMMA TradersRequest ==
  ASSUME Inv, NEW r \in wire, r.from = Trader
  PROVE  /\ r \in Inject /\ post.pc = "sent" /\ form \in Data
         /\ \A s \in wire \ {r} : s.from # Trader
         /\ Orphan(r) \in Inject /\ Orphan(r).from = Nobody
<1>1. r \in Inject /\ r.data = form /\ post.pc = "sent"
  <2>1. r \in Inject \cup Callback /\ r.to = "oga"
    BY DEF Inv, TypeOK, Calls
  <2> QED
    BY <2>1 DEF Inv, Calls, Callback
<1>2. \A s \in wire \ {r} : s.from # Trader
  BY OgaAssumption DEF Inv, Calls
<1>3. Orphan(r) \in Inject /\ Orphan(r).from = Nobody
  BY <1>1 DEF Orphan, Inject
<1> QED
  BY <1>1, <1>2, <1>3 DEF Inject

LEMMA OfficersRequest ==
  ASSUME Inv, NEW r \in wire, r.from \in Officer
  PROVE  /\ r \in Callback
         /\ officer[r.from].pc = "sent" /\ officer[r.from].body = r.body
         /\ \A s \in wire \ {r} : s.from # r.from
         /\ Orphan(r) \in Callback /\ Orphan(r).from = Nobody /\ Orphan(r).to = "nsw"
<1>1. wire \subseteq Inject \cup Callback
  BY DEF Inv, TypeOK
<1>2. \A s \in wire : s.from \in Officer =>
        s \in Callback /\ officer[s.from].pc = "sent" /\ officer[s.from].body = s.body
  BY <1>1 DEF Inv, Calls, Inject
<1>3. ASSUME NEW s \in wire, s.from = r.from PROVE s = r
  BY <1>3, OgaAssumption DEF Inv, Calls
<1>4. Orphan(r) \in Callback /\ Orphan(r).from = Nobody /\ Orphan(r).to = "nsw"
  BY <1>2 DEF Orphan, Callback
<1> QED
  BY <1>2, <1>3, <1>4

(* A step that ends an attempt, or takes a request off the wire, and       *)
(* leaves the task and the application alone.                              *)
LEMMA LoseStep == ASSUME Inv, NEW r \in wire, Lose(r) PROVE Inv'
<1>1. UNCHANGED <<plugin, app, straggler, overlap>>
  BY DEF Lose
<1>2. CASE r.from = Trader /\ AttemptFails(wire \ {r}) /\ officer' = officer
  <2>1. wire \ {r} \subseteq Inject \cup Callback
    BY DEF Inv, TypeOK
  <2>2. /\ post' \in Post /\ wire' \subseteq Inject \cup Callback
        /\ \A s \in wire' : s.from = Trader => s = Request(form') /\ post'.pc = "sent"
        /\ \A s \in wire' : s.from # Trader => s \in wire \ {r}
        /\ \A s \in wire' : s.to = "nsw" => s \in wire \ {r}
        /\ post'.pc \in {"sent", "failed"}
    BY <1>1, <1>2, <2>1, TradersRequest, AttemptFailsStep DEF plugin
  <2>3. TypeOK'
    BY <1>1, <1>2, <2>2 DEF Inv, TypeOK, plugin
  <2>4. Calls'
    BY <1>1, <1>2, <2>2, OgaAssumption DEF Inv, Calls, Request, plugin
  <2>5. Working' /\ Alone'
    BY <1>1, <2>2, NothingBegun DEF Inv, plugin
  <2>6. Heard' /\ VerdictAgrees' /\ AgencyHasApplication' /\ FeedbackReachedTrader'
    BY <1>1, <1>2 DEF Inv, Heard, VerdictAgrees, AgencyHasApplication, FeedbackReachedTrader, plugin
  <2>7. Posted' /\ AgencyHoldsSubmission'
    BY <1>1, <1>2, <2>2, TradersRequest DEF Inv, Posted, AgencyHoldsSubmission, plugin
  <2> QED
    BY <2>3, <2>4, <2>5, <2>6, <2>7 DEF Inv
<1>3. CASE r.from = Nobody /\ wire' = wire \ {r} /\ UNCHANGED <<post, officer>>
  <2>1. Working' /\ Alone'
    BY <1>1, <1>3, NothingBegun DEF Inv, plugin
  <2> QED
    BY <1>1, <1>3, <2>1 DEF Inv, TypeOK, Calls, Heard, Posted, Submitted, VerdictAgrees,
       AgencyHasApplication, AgencyHoldsSubmission, FeedbackReachedTrader, plugin
<1>4. CASE /\ r.from \in Officer
           /\ wire' = wire \ {r} /\ post' = post
           /\ officer' = [officer EXCEPT ![r.from] = NoCall]
  <2>1. TypeOK'
    BY <1>1, <1>4, NoCallTyped DEF Inv, TypeOK, plugin
  <2>2. Calls'
    BY <1>1, <1>4, OfficersRequest DEF Inv, TypeOK, Calls, plugin
  <2>3. Working' /\ Alone'
    BY <1>1, <1>4, NothingBegun DEF Inv, plugin
  <2>4. Heard'
    BY <1>1, <1>4 DEF Inv, TypeOK, Heard, NoCall, plugin
  <2>5. Posted' /\ VerdictAgrees' /\ AgencyHasApplication' /\ AgencyHoldsSubmission'
    BY <1>1, <1>4 DEF Inv, Posted, Submitted, VerdictAgrees, AgencyHasApplication,
       AgencyHoldsSubmission, plugin
  <2>6. FeedbackReachedTrader'
    BY <1>1, <1>4 DEF Inv, FeedbackReachedTrader, plugin
  <2> QED
    BY <2>1, <2>2, <2>3, <2>4, <2>5, <2>6 DEF Inv
<1> QED
  BY <1>2, <1>3, <1>4 DEF Lose

LEMMA TimeOutStep == ASSUME Inv, NEW r \in wire, TimeOut(r) PROVE Inv'
<1> DEFINE rest == (wire \ {r}) \cup {Orphan(r)}
<1>1. UNCHANGED <<plugin, app, straggler, overlap>>
  BY DEF TimeOut
<1>2. CASE r.from = Trader /\ AttemptFails(rest) /\ officer' = officer
  <2>1. /\ rest \subseteq Inject \cup Callback /\ \A s \in rest : s.from # Trader
        /\ Orphan(r).to = "oga"
    BY <1>2, TradersRequest, OgaAssumption DEF Inv, TypeOK, Inject
  <2>2. /\ post' \in Post /\ wire' \subseteq Inject \cup Callback
        /\ \A s \in wire' : s.from = Trader => s = Request(form') /\ post'.pc = "sent"
        /\ \A s \in wire' : s.from # Trader => s \in rest
        /\ \A s \in wire' : s.to = "nsw" => s \in rest
        /\ post'.pc \in {"sent", "failed"}
    BY <1>1, <1>2, <2>1, TradersRequest, AttemptFailsStep DEF plugin
  <2>3. TypeOK'
    BY <1>1, <1>2, <2>2 DEF Inv, TypeOK, plugin
  <2>4. Calls'
    BY <1>1, <1>2, <2>2, TradersRequest, OgaAssumption DEF Inv, Calls, Request, plugin
  <2>5. Working' /\ Alone'
    BY <1>1, <2>1, <2>2, NothingBegun DEF Inv, plugin
  <2>6. Heard' /\ VerdictAgrees' /\ AgencyHasApplication' /\ FeedbackReachedTrader'
    BY <1>1, <1>2 DEF Inv, Heard, VerdictAgrees, AgencyHasApplication, FeedbackReachedTrader, plugin
  <2>7. Posted' /\ AgencyHoldsSubmission'
    BY <1>1, <1>2, <2>2, TradersRequest DEF Inv, Posted, AgencyHoldsSubmission, plugin
  <2> QED
    BY <2>3, <2>4, <2>5, <2>6, <2>7 DEF Inv
<1>3. CASE /\ r.from \in Officer
           /\ wire' = rest /\ post' = post
           /\ officer' = [officer EXCEPT ![r.from] = NoCall]
  <2>1. TypeOK'
    BY <1>1, <1>3, NoCallTyped, OfficersRequest DEF Inv, TypeOK, plugin
  <2>2. Calls'
    BY <1>1, <1>3, OfficersRequest, OgaAssumption DEF Inv, TypeOK, Calls, plugin
  <2>3. Heard'
    BY <1>1, <1>3 DEF Inv, TypeOK, Heard, NoCall, plugin
  <2>4. r \in Callback /\ r \notin wire'
    BY <1>3, OfficersRequest, OgaAssumption
  <2>5. Working' /\ Alone'
    BY <1>1, <1>3, <2>4, NothingBegun DEF Inv, plugin
  <2>6. Posted' /\ VerdictAgrees' /\ AgencyHasApplication' /\ AgencyHoldsSubmission'
    BY <1>1, <1>3 DEF Inv, Posted, Submitted, VerdictAgrees, AgencyHasApplication,
       AgencyHoldsSubmission, plugin
  <2>7. FeedbackReachedTrader'
    BY <1>1, <1>3 DEF Inv, FeedbackReachedTrader, plugin
  <2> QED
    BY <2>1, <2>2, <2>3, <2>5, <2>6, <2>7 DEF Inv
<1> QED
  BY <1>2, <1>3 DEF TimeOut

LEMMA CrashBackendStep == ASSUME Inv, CrashBackend PROVE Inv'
<1> DEFINE mine == {r \in wire : r.from = Trader}
           others == {r \in wire \ Reviewing : r.from # Trader}
<1>1. post' = NoPost /\ UNCHANGED <<plugin, app, straggler, overlap>>
  BY DEF CrashBackend
<1>2. PICK keep \in SUBSET mine : wire' = others \cup {Orphan(r) : r \in keep}
  BY DEF CrashBackend
<1>3. officer' = [o \in Officer |-> IF \E r \in Reviewing : r.from = o THEN NoCall ELSE officer[o]]
  BY DEF CrashBackend
<1>4. \A r \in mine : Orphan(r) \in Inject /\ Orphan(r).from = Nobody /\ Orphan(r).to = "oga"
  BY TradersRequest DEF Inject
<1>5. wire' \subseteq Inject \cup Callback
  BY <1>2, <1>4 DEF Inv, TypeOK
<1>6. /\ \A r \in wire' : r.from # Trader /\ (r.from # Nobody => r \in others)
      /\ \A r \in wire' : r.to = "nsw" => r \in wire
  BY <1>2, <1>4, OgaAssumption
<1>7. TypeOK'
  BY <1>1, <1>3, <1>5, NoPostTyped, NoCallTyped DEF Inv, TypeOK, plugin
<1>8. Calls'
  <2>1. ASSUME NEW r \in wire', r.from \in Officer PROVE officer'[r.from] = officer[r.from]
    <3>1. r \in wire /\ r \notin Reviewing
      BY <1>6, <2>1, OgaAssumption
    <3>2. \A s \in Reviewing : s.from # r.from
      BY <2>1, <3>1, OfficersRequest DEF Reviewing
    <3> QED
      BY <1>3, <2>1, <3>2
  <2> QED
    BY <1>1, <1>6, <2>1, OgaAssumption DEF Inv, Calls
<1>9. Working' /\ Alone'
  BY <1>1, <1>6, NoPostTyped, NothingBegun DEF Inv, plugin
<1>10. Heard'
  BY <1>1, <1>3 DEF Inv, Heard, NoCall, plugin
<1>11. VerdictAgrees' /\ AgencyHasApplication' /\ FeedbackReachedTrader'
  BY <1>1 DEF Inv, VerdictAgrees, AgencyHasApplication, FeedbackReachedTrader, plugin
<1>12. Posted' /\ AgencyHoldsSubmission'
  BY <1>1, NoPostTyped DEF Inv, Posted, AgencyHoldsSubmission, plugin
<1> QED
  BY <1>7, <1>8, <1>9, <1>10, <1>11, <1>12 DEF Inv

LEMMA CrashAgencyStep == ASSUME Inv, CrashAgency PROVE Inv'
<1> DEFINE mine == {r \in wire : r.from \in Officer}
<1>1. officer' = [o \in Officer |-> NoCall] /\ UNCHANGED <<plugin, post, app, straggler, overlap>>
  BY DEF CrashAgency
<1>2. PICK keep \in SUBSET mine : wire' = (wire \ mine) \cup {Orphan(r) : r \in keep}
  BY DEF CrashAgency, Survive
<1>3. \A r \in mine : r \in Callback /\ Orphan(r) \in Callback /\ Orphan(r).from = Nobody
  BY OfficersRequest
<1>4. wire' \subseteq Inject \cup Callback
  BY <1>2, <1>3 DEF Inv, TypeOK
<1>5. \A r \in wire' : r.from \notin Officer /\ (r.from # Nobody => r \in wire)
  BY <1>2, <1>3, OgaAssumption
<1>6. TypeOK'
  BY <1>1, <1>4, NoCallTyped DEF Inv, TypeOK, plugin
<1>7. Calls'
  BY <1>1, <1>5, OgaAssumption DEF Inv, Calls, plugin
<1>8. Heard'
  BY <1>1 DEF Heard, NoCall
<1>9. Working' /\ Alone'
  <2>1. \A r \in keep : r \in wire \ wire' /\ r \in Callback
    BY <1>3, <1>5
  <2> QED
    BY <1>1, <1>2, <2>1, NothingBegun DEF Inv, plugin
<1>10. VerdictAgrees' /\ AgencyHasApplication' /\ FeedbackReachedTrader' /\ Posted' /\ AgencyHoldsSubmission'
  BY <1>1 DEF Inv, VerdictAgrees, AgencyHasApplication, FeedbackReachedTrader, Posted, Submitted,
     AgencyHoldsSubmission, plugin
<1> QED
  BY <1>6, <1>7, <1>8, <1>9, <1>10 DEF Inv

----------------------------------------------------------------------------
(* Injects at the agency *)

LEMMA InjectReadStep == ASSUME Inv, NEW r \in wire, InjectRead(r) PROVE Inv'
<1>1. r.to = "oga" /\ UNCHANGED <<plugin, post, app, officer, straggler, overlap>>
  BY DEF InjectRead
<1>2. r \in Inject
  BY <1>1 DEF Inv, TypeOK, Callback
<1>3. PICK step \in {"reset", "save"} : wire' = (wire \ {r}) \cup {[r EXCEPT !.step = step]}
  BY DEF InjectRead
<1> DEFINE q == [r EXCEPT !.step = step]
<1>4. q \in Inject /\ q.from = r.from /\ q.to = "oga" /\ q.data = r.data
  BY <1>1, <1>2 DEF Inject
<1>5. TypeOK'
  BY <1>1, <1>3, <1>4 DEF Inv, TypeOK, plugin
<1>6. Calls'
  BY <1>1, <1>3, <1>4, OgaAssumption DEF Inv, Calls, Inject, plugin
<1>7. Working' /\ Alone'
  BY <1>1, <1>3, <1>4, NothingBegun DEF Inv, plugin
<1>8. Heard' /\ Posted' /\ VerdictAgrees' /\ AgencyHasApplication' /\ AgencyHoldsSubmission'
  BY <1>1 DEF Inv, Heard, Posted, Submitted, VerdictAgrees, AgencyHasApplication,
     AgencyHoldsSubmission, plugin
<1>9. FeedbackReachedTrader'
  BY <1>1 DEF Inv, FeedbackReachedTrader, plugin
<1> QED
  BY <1>5, <1>6, <1>7, <1>8, <1>9 DEF Inv

(* The record an inject leaves: a new one, or the one that waits for a     *)
(* resubmission; a reset never finds the record missing.                   *)
LEMMA InjectedRecord ==
  ASSUME Inv, NEW r \in Inject, r.step = "reset" => app # NoApp
  PROVE  /\ Injected(r) \in App
         /\ Injected(r).status = "PENDING" /\ Injected(r).data = r.data
         /\ ~overlap => Injected(r).history \subseteq notes
<1>1. CASE r.step = "reset"
  BY <1>1 DEF Inv, TypeOK, App, Injected, Inject, FeedbackReachedTrader
<1>2. CASE r.step # "reset"
  BY <1>2 DEF App, Injected, Inject
<1> QED
  BY <1>1, <1>2
(* A callback that goes one step further is the same request.              *)
LEMMA CallbackKept ==
  ASSUME Inv, NEW r \in wire, NEW q \in Callback, r \in Callback,
         q.from = r.from, q.body = r.body, q.to = r.to,
         wire' = (wire \ {r}) \cup {q}, UNCHANGED <<form, post, officer>>
  PROVE  wire' \subseteq Inject \cup Callback /\ Calls'
<1>1. wire' \subseteq Inject \cup Callback
  BY DEF Inv, TypeOK
<1>2. r.from # Trader /\ q.from # Trader
  BY OgaAssumption DEF Callback
<1>3. Calls'
  BY <1>2 DEF Inv, Calls
<1> QED
  BY <1>1, <1>3

LEMMA BecomesCallback ==
  ASSUME Inv, NEW r \in wire,
         Checked(r) \/ FeedbackRead(r) \/ FeedbackStored(r) \/ VerdictStored(r) \/ StateRead(r)
  PROVE  r.to = "nsw" /\ \E q : q.to = "nsw" /\ Become(r, q)
<1>1. r.to = "nsw"
  BY DEF Checked, FeedbackRead, FeedbackStored, VerdictStored, StateRead
<1>2. r \in Callback
  BY <1>1 DEF Inv, TypeOK, Inject
<1>3. CASE Checked(r)
  BY <1>1, <1>2, <1>3 DEF Checked, Callback
<1>4. CASE FeedbackRead(r)
  BY <1>1, <1>2, <1>4 DEF FeedbackRead, Callback
<1>5. CASE FeedbackStored(r)
  BY <1>1, <1>2, <1>5 DEF FeedbackStored, Callback
<1>6. CASE VerdictStored(r)
  BY <1>1, <1>2, <1>6 DEF VerdictStored, Callback
<1>7. CASE StateRead(r)
  BY <1>1, <1>2, <1>7 DEF StateRead, Callback
<1> QED
  BY <1>1, <1>3, <1>4, <1>5, <1>6, <1>7

(* An inject that was read for a reset found a record.                     *)
Resets == \A r \in wire : r.to = "oga" /\ r.step = "reset" => app # NoApp

(* The record is never deleted.                                            *)
LEMMA AppStays == ASSUME Inv, Next, app # NoApp PROVE app' # NoApp
<1>1. app \in App
  BY DEF Inv, TypeOK
<1>2. CASE UNCHANGED app
  BY <1>2
<1>3. ASSUME NEW r \in wire, InjectWrite(r) PROVE app' # NoApp
  <2>1. r \in Inject
    BY <1>3 DEF InjectWrite, Inv, TypeOK, Callback
  <2>2. Injected(r) \in App
    BY <1>1, <2>1 DEF Injected, Inject, App
  <2> QED
    BY <1>3, <2>2, AppAssumption DEF InjectWrite
<1>4. ASSUME NEW o \in Officer, RecordReview(o) PROVE app' # NoApp
  <2>1. app' \in App
    BY <1>1, <1>4 DEF RecordReview, App
  <2> QED
    BY <2>1, AppAssumption
<1>5. ASSUME NEW o \in Officer, AppendFeedback(o) PROVE app' # NoApp
  <2>1. app' = [app EXCEPT !.status = "FEEDBACK_REQUESTED",
                           !.history = officer[o].seen \cup {officer[o].body}]
    BY <1>5 DEF AppendFeedback
  <2>2. officer[o].seen \subseteq Note /\ officer[o].body \in Note
    BY <1>5 DEF AppendFeedback, Inv, TypeOK, OfficerCall, Heard
  <2>3. app' \in App
    BY <1>1, <2>1, <2>2 DEF App
  <2> QED
    BY <2>3, AppAssumption
<1> QED
  BY <1>2, <1>3, <1>4, <1>5 DEF Next, SaveAsDraft, Submit, TraderReads, TraderMoves,
     CrashBackend, CrashAgency, InjectRead, Refused, Checked, FeedbackRead, FeedbackStored,
     VerdictStored, StateRead, Moved, Lose, TimeOut, Decide, ReadHistory, RecordFails

(* No step makes a reset of anything else than a request or a reset.       *)
LEMMA ResetsStep == ASSUME Inv, Resets, Next PROVE Resets'
<1> SUFFICES ASSUME NEW q \in wire', q.to = "oga", q.step = "reset" PROVE app # NoApp
  BY AppStays DEF Resets
<1>1. CASE wire' \subseteq wire
  BY <1>1 DEF Resets
<1>2. \A r \in wire :
        Orphan(r).to = "oga" /\ Orphan(r).step = "reset" => r.to = "oga" /\ r.step = "reset"
  <2> SUFFICES ASSUME NEW r \in wire, Orphan(r).to = "oga", Orphan(r).step = "reset"
               PROVE  r.to = "oga" /\ r.step = "reset"
    OBVIOUS
  <2> QED
    BY DEF Inv, TypeOK, Orphan, Inject, Callback
<1>3. ASSUME NEW mine \in SUBSET wire, Survive(mine) PROVE app # NoApp
  BY <1>2, <1>3 DEF Survive, Resets
<1>4. CASE Submit
  BY <1>4 DEF Submit, Request, Resets
<1>5. ASSUME NEW r \in wire, InjectRead(r) PROVE app # NoApp
  BY <1>5 DEF InjectRead, Resets, Inv, TypeOK, Inject, Callback
<1>6. ASSUME NEW r \in wire, InjectWrite(r) PROVE app # NoApp
  BY <1>6 DEF InjectWrite, InjectAnswered, AttemptFails, Request, Resets
<1>7. ASSUME NEW o \in Officer, Decide(o) PROVE app # NoApp
  BY <1>7 DEF Decide, Taken
<1>8. ASSUME NEW r \in wire, Lose(r) PROVE app # NoApp
  BY <1>8 DEF Lose, AttemptFails, Request, Resets
<1>9. ASSUME NEW r \in wire, TimeOut(r) PROVE app # NoApp
  BY <1>2, <1>9 DEF TimeOut, AttemptFails, Request, Resets
<1>10. CASE CrashBackend
  BY <1>2, <1>10 DEF CrashBackend, Resets
<1>11. CASE CrashAgency
  BY <1>3, <1>11 DEF CrashAgency
<1>12. CASE SaveAsDraft \/ TraderReads \/ TraderMoves
  BY <1>1, <1>12 DEF SaveAsDraft, TraderReads, TraderMoves
<1>13. ASSUME NEW r \in wire, Refused(r) \/ Moved(r) PROVE app # NoApp
  BY <1>1, <1>13 DEF Refused, Moved
<1>14. ASSUME NEW r \in wire,
              Checked(r) \/ FeedbackRead(r) \/ FeedbackStored(r) \/ VerdictStored(r) \/ StateRead(r)
       PROVE  app # NoApp
  <2>1. r.to = "nsw" /\ \E t : t.to = "nsw" /\ Become(r, t)
    BY <1>14, BecomesCallback
  <2> QED
    BY <2>1 DEF Become, Resets
<1>15. ASSUME NEW o \in Officer,
              RecordReview(o) \/ ReadHistory(o) \/ AppendFeedback(o) \/ RecordFails(o)
       PROVE  app # NoApp
  BY <1>1, <1>15 DEF RecordReview, ReadHistory, AppendFeedback, RecordFails
<1> QED
  BY <1>4, <1>5, <1>6, <1>7, <1>8, <1>9, <1>10, <1>11, <1>12, <1>13, <1>14,
     <1>15 DEF Next
LEMMA InjectWriteStep == ASSUME Inv, Resets, NEW r \in wire, InjectWrite(r) PROVE Inv'
<1>1. r \in Inject
  BY DEF InjectWrite, Inv, TypeOK, Callback
<1>2. /\ app' = Injected(r)
      /\ app' \in App /\ app' # NoApp /\ app'.status = "PENDING" /\ app'.data = r.data
      /\ ~overlap => app'.history \subseteq notes
  BY <1>1, InjectedRecord, AppAssumption DEF InjectWrite, Resets
<1>3. UNCHANGED <<plugin, officer, overlap>> /\ straggler' = (straggler \/ r.from = Nobody)
  BY DEF InjectWrite, InjectAnswered
<1>4. straggler' \in BOOLEAN /\ (~straggler' => ~straggler /\ r.from = Trader)
  BY <1>1, <1>3 DEF Inv, TypeOK, Inject
<1>5. wire \ {r} \subseteq Inject \cup Callback
  BY DEF Inv, TypeOK
<1>6. /\ post' \in Post
      /\ post'.pc = "moving" => post' = post
      /\ wire' \subseteq Inject \cup Callback
      /\ post'.pc # "idle" => post.pc # "idle"
      /\ post'.pc = "answered" /\ ~straggler' => app'.data = form
      /\ post'.pc = "moving" => straggler'
      /\ \A q \in wire' : q.to = "nsw" => q \in wire
  <2>1. CASE r.from = Trader /\ AttemptFails(wire \ {r})
    BY <1>3, <1>5, <2>1, TradersRequest, AttemptFailsStep DEF plugin
  <2>2. CASE r.from = Trader /\ wire' = wire \ {r} /\ post' = [NoPost EXCEPT !.pc = "answered"]
    <3>1. post' \in Post /\ post'.pc = "answered"
      BY <2>2, NoPostTyped DEF Post
    <3> QED
      BY <1>2, <1>5, <2>2, <3>1, TradersRequest DEF Inv, Calls
  <2>3. CASE r.from = Nobody /\ wire' = wire \ {r} /\ post' = post
    BY <1>3, <1>5, <2>3, OgaAssumption DEF Inv, TypeOK
  <2> QED
    BY <2>1, <2>2, <2>3 DEF InjectWrite, InjectAnswered
<1>7. TypeOK'
  BY <1>2, <1>3, <1>4, <1>6 DEF Inv, TypeOK, plugin
<1>8. Calls'
  <2>1. CASE r.from = Trader /\ AttemptFails(wire \ {r})
    <3>1. /\ \A q \in wire' : q.from = Trader => q = Request(form') /\ post'.pc = "sent"
          /\ \A q \in wire' : q.from # Trader => q \in wire \ {r}
      BY <1>3, <1>5, <2>1, TradersRequest, AttemptFailsStep DEF plugin
    <3> QED
      BY <1>3, <3>1, OgaAssumption DEF Inv, Calls, Request, plugin
  <2>2. CASE r.from = Trader /\ wire' = wire \ {r} /\ post' = [NoPost EXCEPT !.pc = "answered"]
    BY <1>3, <2>2, TradersRequest DEF Inv, Calls, plugin
  <2>3. CASE r.from = Nobody /\ wire' = wire \ {r} /\ post' = post
    BY <1>3, <2>3 DEF Inv, Calls, plugin
  <2> QED
    BY <2>1, <2>2, <2>3 DEF InjectWrite, InjectAnswered
<1>9. Heard'
  BY <1>2, <1>3 DEF Inv, Heard, plugin
<1>10. VerdictAgrees' /\ AgencyHasApplication' /\ FeedbackReachedTrader'
  BY <1>2, <1>3 DEF VerdictAgrees, AgencyHasApplication, FeedbackReachedTrader, plugin
<1>11. Posted'
  BY <1>2, <1>3, <1>4, <1>6 DEF Inv, Posted, Submitted, plugin
<1>12. Working' /\ Alone'
  BY <1>2, <1>3, <1>6, NothingBegun DEF Inv, plugin
<1>13. AgencyHoldsSubmission'
  BY <1>3, <1>4, TradersRequest DEF Inv, Posted, AgencyHoldsSubmission, plugin
<1> QED
  BY <1>7, <1>8, <1>9, <1>10, <1>11, <1>12, <1>13 DEF Inv

----------------------------------------------------------------------------
(* Officers and their callbacks *)

LEMMA DecideStep == ASSUME Inv, NEW o \in Officer, Decide(o) PROVE Inv'
<1> DEFINE call(b) == [NoCall EXCEPT !.pc = "sent", !.body = b]
           request(b) == [to |-> "nsw", step |-> "arrive", body |-> b, from |-> o,
                          seen |-> {}, dest |-> NotStarted]
<1>1. PICK b \in Verdict \cup Note :
        officer' = [officer EXCEPT ![o] = call(b)] /\ wire' = wire \cup {request(b)}
  BY DEF Decide, Messages
<1>2. UNCHANGED <<plugin, post, app, straggler, overlap>> /\ officer[o] = NoCall /\ app # NoApp
  BY DEF Decide, Taken
<1>3. call(b) \in OfficerCall /\ call(b).pc = "sent" /\ call(b).body = b
  BY DEF NoCall, OfficerCall
<1>4. /\ request(b) \in Callback /\ request(b).from = o /\ request(b).body = b
      /\ request(b).to = "nsw" /\ request(b).step = "arrive"
  BY DEF Callback, PluginStates
<1> HIDE DEF call, request
<1>5. \A r \in wire : r.from # o
  BY <1>2, OfficersRequest DEF NoCall
<1>6. TypeOK'
  BY <1>1, <1>2, <1>3, <1>4 DEF Inv, TypeOK, plugin
<1>7. Calls'
  BY <1>1, <1>2, <1>3, <1>4, <1>5, OgaAssumption DEF Inv, TypeOK, Calls, plugin
<1>8. Working' /\ Alone'
  BY <1>1, <1>2, <1>4 DEF Inv, Working, Alone, Reviewing, plugin
<1>9. Heard'
  BY <1>1, <1>2, <1>3 DEF Inv, TypeOK, Heard, plugin
<1>10. VerdictAgrees' /\ AgencyHasApplication' /\ FeedbackReachedTrader' /\ Posted' /\ AgencyHoldsSubmission'
  BY <1>2 DEF Inv, VerdictAgrees, AgencyHasApplication, FeedbackReachedTrader, Posted, Submitted,
     AgencyHoldsSubmission, plugin
<1> QED
  BY <1>6, <1>7, <1>8, <1>9, <1>10 DEF Inv

(* What the answer, and whether it is heard, changes in the calls.         *)
LEMMA AnswerStep ==
  ASSUME Inv, NEW r \in wire, NEW ok \in BOOLEAN, Answer(r.from, ok), wire' = wire \ {r}, post' = post,
         form' = form
  PROVE  /\ officer' \in [Officer -> OfficerCall]
         /\ Calls'
         /\ \A o \in Officer :
              \/ officer'[o] = officer[o]
              \/ officer'[o] = NoCall
              \/ /\ ok /\ r.from = o /\ officer[o].pc = "sent" /\ officer[o].body = r.body
                 /\ officer'[o].pc = "accepted" /\ officer'[o].body = r.body
<1>1. officer \in [Officer -> OfficerCall]
  BY DEF Inv, TypeOK
<1>2. CASE r.from = Nobody
  <2>1. officer' = officer
    BY <1>2 DEF Answer
  <2> QED
    BY <1>1, <2>1 DEF Inv, Calls
<1>3. CASE r.from # Nobody /\ ok /\ officer' = [officer EXCEPT ![r.from].pc = "accepted"]
  <2>1. CASE r.from \in Officer
    <3>1. /\ r.from \in Officer /\ officer[r.from].pc = "sent" /\ officer[r.from].body = r.body
          /\ \A q \in wire \ {r} : q.from # r.from
      BY <2>1, OfficersRequest
    <3>2. /\ officer'[r.from] \in OfficerCall
          /\ officer'[r.from].pc = "accepted" /\ officer'[r.from].body = r.body
          /\ \A o \in Officer \ {r.from} : officer'[o] = officer[o]
      BY <1>1, <1>3, <3>1 DEF OfficerCall
    <3> QED
      BY <1>1, <1>3, <3>1, <3>2 DEF Inv, Calls
  <2>2. CASE r.from \notin Officer
    <3>1. officer' = officer
      BY <1>1, <1>3, <2>2
    <3> QED
      BY <1>1, <3>1 DEF Inv, Calls
  <2> QED
    BY <2>1, <2>2
<1>4. CASE r.from # Nobody /\ officer' = [officer EXCEPT ![r.from] = NoCall]
  BY <1>1, <1>4, NoCallTyped, OfficersRequest DEF Inv, Calls
<1> QED
  BY <1>2, <1>3, <1>4 DEF Answer

LEMMA RefusedStep == ASSUME Inv, NEW r \in wire, Refused(r) PROVE Inv'
<1>1. Answer(r.from, FALSE) /\ wire' = wire \ {r} /\ UNCHANGED <<plugin, post, app, straggler, overlap>>
  BY DEF Refused
<1>2. /\ officer' \in [Officer -> OfficerCall]
      /\ Calls'
      /\ \A o \in Officer : officer'[o] = officer[o] \/ officer'[o] = NoCall
  BY <1>1, AnswerStep DEF plugin
<1>3. TypeOK'
  BY <1>1, <1>2 DEF Inv, TypeOK, plugin
<1>4. Working' /\ Alone'
  BY <1>1, NothingBegun DEF Inv, plugin
<1>5. Heard'
  BY <1>1, <1>2 DEF Inv, Heard, NoCall, plugin
<1>6. VerdictAgrees' /\ AgencyHasApplication' /\ FeedbackReachedTrader' /\ Posted' /\ AgencyHoldsSubmission'
  BY <1>1 DEF Inv, VerdictAgrees, AgencyHasApplication, FeedbackReachedTrader, Posted, Submitted,
     AgencyHoldsSubmission, plugin
<1> QED
  BY <1>2, <1>3, <1>4, <1>5, <1>6 DEF Inv

LEMMA CheckedStep == ASSUME Inv, NEW r \in wire, Checked(r) PROVE Inv'
<1> DEFINE q == [r EXCEPT !.step = "checked"]
<1>1. /\ r.to = "nsw" /\ wire' = (wire \ {r}) \cup {q} /\ overlap' = (overlap \/ AtWork)
      /\ UNCHANGED <<plugin, post, app, officer, straggler>>
  BY DEF Checked, Become
<1>2. r \in Callback
  BY <1>1 DEF Inv, TypeOK, Inject
<1>3. q \in Callback /\ q.to = "nsw" /\ q.from = r.from /\ q.body = r.body /\ q.step = "checked"
  BY <1>2 DEF Callback
<1>4. task # "OGA_REVIEWED"
  <2>1. ActOf(r.body) \in OgaActs /\ \E e \in Moves("SIMPLE_FORM", task, ActOf(r.body)) : TRUE
    BY DEF Checked, Edge, ActOf, OgaActs
  <2> QED
    BY <2>1, FormMoves
<1>5. overlap' \in BOOLEAN /\ (~overlap' => ~overlap /\ Reviewing = {} /\ post.pc # "moving")
  BY <1>1 DEF Inv, TypeOK, AtWork
<1> HIDE DEF q
<1>6. TypeOK' /\ Calls'
  BY <1>1, <1>2, <1>3, <1>5, CallbackKept DEF Inv, TypeOK, plugin
<1>7. Working'
  BY <1>1, <1>3 DEF Inv, Working, plugin
<1>8. Alone'
  BY <1>1, <1>3, <1>4, <1>5 DEF Alone, Reviewing, plugin
<1>9. Heard' /\ VerdictAgrees' /\ FeedbackReachedTrader'
  BY <1>1, <1>5 DEF Inv, Heard, VerdictAgrees, FeedbackReachedTrader, plugin
<1>10. AgencyHasApplication' /\ Posted' /\ AgencyHoldsSubmission'
  BY <1>1 DEF Inv, AgencyHasApplication, Posted, Submitted, AgencyHoldsSubmission, plugin
<1> QED
  BY <1>6, <1>7, <1>8, <1>9, <1>10 DEF Inv

LEMMA FeedbackReadStep == ASSUME Inv, NEW r \in wire, FeedbackRead(r) PROVE Inv'
<1> DEFINE q == [r EXCEPT !.step = "read", !.seen = notes]
<1>1. /\ r.to = "nsw" /\ r.step = "checked" /\ r.body \in Note
      /\ wire' = (wire \ {r}) \cup {q}
      /\ UNCHANGED <<plugin, post, app, officer, straggler, overlap>>
  BY DEF FeedbackRead, Become
<1>2. r \in Callback
  BY <1>1 DEF Inv, TypeOK, Inject
<1>3. /\ q \in Callback /\ q.to = "nsw" /\ q.from = r.from /\ q.body = r.body
      /\ q.step = "read" /\ q.seen = notes
  BY <1>2 DEF Callback, Inv, TypeOK
<1> HIDE DEF q
<1>4. TypeOK' /\ Calls'
  BY <1>1, <1>2, <1>3, CallbackKept DEF Inv, TypeOK, plugin
<1>5. Working'
  BY <1>1, <1>3 DEF Inv, Working, plugin
<1>6. Alone'
  BY <1>1, <1>3 DEF Inv, Alone, Reviewing, plugin
<1>7. Heard' /\ VerdictAgrees' /\ FeedbackReachedTrader'
  BY <1>1 DEF Inv, Heard, VerdictAgrees, FeedbackReachedTrader, plugin
<1>8. AgencyHasApplication' /\ Posted' /\ AgencyHoldsSubmission'
  BY <1>1 DEF Inv, AgencyHasApplication, Posted, Submitted, AgencyHoldsSubmission, plugin
<1> QED
  BY <1>4, <1>5, <1>6, <1>7, <1>8 DEF Inv

LEMMA FeedbackStoredStep == ASSUME Inv, NEW r \in wire, FeedbackStored(r) PROVE Inv'
<1> DEFINE q == [r EXCEPT !.step = "stored", !.seen = {}]
<1>1. /\ r.to = "nsw" /\ r.step = "read" /\ notes' = r.seen \cup {r.body}
      /\ wire' = (wire \ {r}) \cup {q}
      /\ UNCHANGED <<task, form, verdict, post, app, officer, straggler, overlap>>
  BY DEF FeedbackStored, Become
<1>2. r \in Callback
  BY <1>1 DEF Inv, TypeOK, Inject
<1>3. /\ q \in Callback /\ q.to = "nsw" /\ q.from = r.from /\ q.body = r.body /\ q.step = "stored"
  BY <1>2 DEF Callback
<1>4. r.body \in Note /\ r.body \notin Verdict /\ r.seen \subseteq Note
  BY <1>1, <1>2, OgaAssumption DEF Inv, Working, Callback
<1>5. ~overlap => notes \subseteq notes' /\ r.body \in notes'
  BY <1>1 DEF Inv, Alone, Reviewing
<1> HIDE DEF q
<1>6. TypeOK' /\ Calls'
  BY <1>1, <1>2, <1>3, <1>4, CallbackKept DEF Inv, TypeOK
<1>7. Working'
  BY <1>1, <1>3 DEF Inv, Working
<1>8. Alone'
  BY <1>1, <1>3, <1>4, <1>5 DEF Inv, Alone, Reviewing
<1>9. Heard' /\ VerdictAgrees' /\ FeedbackReachedTrader'
  BY <1>1, <1>5 DEF Inv, Heard, VerdictAgrees, FeedbackReachedTrader
<1>10. AgencyHasApplication' /\ Posted' /\ AgencyHoldsSubmission'
  BY <1>1 DEF Inv, AgencyHasApplication, Posted, Submitted, AgencyHoldsSubmission
<1> QED
  BY <1>6, <1>7, <1>8, <1>9, <1>10 DEF Inv

LEMMA VerdictStoredStep == ASSUME Inv, NEW r \in wire, VerdictStored(r) PROVE Inv'
<1> DEFINE q == [r EXCEPT !.step = "stored"]
<1>1. /\ r.to = "nsw" /\ r.step = "checked" /\ r.body \in Verdict /\ verdict' = r.body
      /\ wire' = (wire \ {r}) \cup {q}
      /\ UNCHANGED <<task, form, notes, post, app, officer, straggler, overlap>>
  BY DEF VerdictStored, Become
<1>2. r \in Callback
  BY <1>1 DEF Inv, TypeOK, Inject
<1>3. /\ q \in Callback /\ q.to = "nsw" /\ q.from = r.from /\ q.body = r.body /\ q.step = "stored"
  BY <1>2 DEF Callback
<1>4. r.body \notin Note
  BY <1>1, OgaAssumption
<1>5. ~overlap => task # "OGA_REVIEWED"
  BY <1>1 DEF Inv, Alone, Reviewing
<1> HIDE DEF q
<1>6. TypeOK' /\ Calls'
  BY <1>1, <1>2, <1>3, CallbackKept DEF Inv, TypeOK
<1>7. Working'
  BY <1>1, <1>3 DEF Inv, Working
<1>8. Alone'
  BY <1>1, <1>3, <1>4 DEF Inv, Alone, Reviewing
<1>9. Heard' /\ VerdictAgrees' /\ FeedbackReachedTrader'
  BY <1>1, <1>5 DEF Inv, Heard, VerdictAgrees, FeedbackReachedTrader
<1>10. AgencyHasApplication' /\ Posted' /\ AgencyHoldsSubmission'
  BY <1>1 DEF Inv, AgencyHasApplication, Posted, Submitted, AgencyHoldsSubmission
<1> QED
  BY <1>6, <1>7, <1>8, <1>9, <1>10 DEF Inv

LEMMA StateReadStep == ASSUME Inv, NEW r \in wire, StateRead(r) PROVE Inv'
<1>1. /\ r.to = "nsw" /\ r.step = "stored"
      /\ UNCHANGED <<plugin, post, app, officer, straggler, overlap>>
  BY DEF StateRead
<1>2. PICK e \in Moves("SIMPLE_FORM", task, ActOf(r.body)) :
        wire' = (wire \ {r}) \cup {[r EXCEPT !.step = "moving", !.dest = e.to]}
  BY DEF StateRead, Become, Edge
<1> DEFINE q == [r EXCEPT !.step = "moving", !.dest = e.to]
<1>2a. wire' = (wire \ {r}) \cup {q}
  BY <1>2
<1>3. r \in Callback
  BY <1>1 DEF Inv, TypeOK, Inject
<1>4. /\ e.to \in PluginStates("SIMPLE_FORM")
      /\ e.to = IF r.body \in Verdict THEN "OGA_REVIEWED" ELSE "OGA_FEEDBACK_PROVIDED"
  <2>1. /\ ActOf(r.body) \in OgaActs
        /\ r.body \in Verdict =>
             ActOf(r.body) \in {"OGA_VERIFICATION_APPROVED", "OGA_VERIFICATION_REJECTED"}
        /\ r.body \notin Verdict => ActOf(r.body) = "OGA_VERIFICATION_FEEDBACK"
    BY DEF ActOf, OgaActs, Verdict
  <2> QED
    BY <1>2, <2>1, FormMoves
<1>5. /\ q \in Callback /\ q.to = "nsw" /\ q.from = r.from /\ q.body = r.body
      /\ q.step = "moving" /\ q.dest = e.to
  BY <1>3, <1>4 DEF Callback
<1> HIDE DEF q
<1>6. TypeOK' /\ Calls'
  BY <1>1, <1>2a, <1>3, <1>5, CallbackKept DEF Inv, TypeOK, plugin
<1>7. Working'
  BY <1>1, <1>2a, <1>4, <1>5 DEF Inv, Working, plugin
<1>8. Alone'
  BY <1>1, <1>2a, <1>5 DEF Inv, Alone, Reviewing, plugin
<1>9. Heard' /\ VerdictAgrees' /\ FeedbackReachedTrader'
  BY <1>1 DEF Inv, Heard, VerdictAgrees, FeedbackReachedTrader, plugin
<1>10. AgencyHasApplication' /\ Posted' /\ AgencyHoldsSubmission'
  BY <1>1 DEF Inv, AgencyHasApplication, Posted, Submitted, AgencyHoldsSubmission, plugin
<1> QED
  BY <1>6, <1>7, <1>8, <1>9, <1>10 DEF Inv

LEMMA MovedStep == ASSUME Inv, NEW r \in wire, Moved(r) PROVE Inv'
<1>1. /\ r.to = "nsw" /\ r.step = "moving" /\ task' = r.dest /\ wire' = wire \ {r}
      /\ Answer(r.from, TRUE)
      /\ UNCHANGED <<form, verdict, notes, post, app, straggler, overlap>>
  BY DEF Moved
<1>2. r \in Callback
  BY <1>1 DEF Inv, TypeOK, Inject
<1>3. /\ r.body \in Verdict \cup Note /\ Note \cap Verdict = {}
      /\ r.dest \in PluginStates("SIMPLE_FORM")
  BY <1>2, OgaAssumption DEF Callback
<1>4. /\ app # NoApp
      /\ task' = IF r.body \in Verdict THEN "OGA_REVIEWED" ELSE "OGA_FEEDBACK_PROVIDED"
  BY <1>1 DEF Inv, Working
<1>5. ~overlap =>
        /\ task # "OGA_REVIEWED" /\ post.pc # "moving" /\ Reviewing = {r}
        /\ r.body \in Verdict => verdict = r.body
        /\ r.body \in Note => r.body \in notes
  BY <1>1 DEF Inv, Alone, Reviewing
<1>6. /\ officer' \in [Officer -> OfficerCall]
      /\ Calls'
      /\ \A o \in Officer :
           \/ officer'[o] = officer[o]
           \/ officer'[o] = NoCall
           \/ /\ officer[o].pc = "sent" /\ officer[o].body = r.body
              /\ officer'[o].pc = "accepted" /\ officer'[o].body = r.body
  BY <1>1, AnswerStep
<1>7. TypeOK'
  BY <1>1, <1>3, <1>6 DEF Inv, TypeOK
<1>8. Working' /\ Alone'
  BY <1>1, <1>5 DEF Inv, Working, Alone, Reviewing
<1>9. Heard'
  BY <1>1, <1>3, <1>4, <1>5, <1>6 DEF Inv, Heard, NoCall
<1>10. VerdictAgrees' /\ FeedbackReachedTrader'
  BY <1>1, <1>5 DEF Inv, VerdictAgrees, FeedbackReachedTrader
<1>11. AgencyHasApplication' /\ AgencyHoldsSubmission' /\ Posted'
  BY <1>1, <1>4 DEF Inv, AgencyHasApplication, AgencyHoldsSubmission, Posted, Submitted
<1> QED
  BY <1>6, <1>7, <1>8, <1>9, <1>10, <1>11 DEF Inv

LEMMA RecordReviewStep == ASSUME Inv, NEW o \in Officer, RecordReview(o) PROVE Inv'
<1>1. /\ officer[o].pc = "accepted" /\ officer[o].body \in Verdict
      /\ app' = [app EXCEPT !.status = "REVIEWED", !.verdict = officer[o].body]
      /\ officer' = [officer EXCEPT ![o] = NoCall]
      /\ UNCHANGED <<plugin, post, wire, straggler, overlap>>
  BY DEF RecordReview
<1>2. app \in App /\ (~overlap => officer[o].body = verdict /\ task = "OGA_REVIEWED")
  BY <1>1 DEF Inv, TypeOK, Heard
<1>3. /\ app' \in App /\ app' # NoApp
      /\ app'.verdict = officer[o].body /\ app'.data = app.data /\ app'.history = app.history
  BY <1>1, <1>2, AppAssumption DEF App
<1>4. TypeOK'
  BY <1>1, <1>3, NoCallTyped DEF Inv, TypeOK, plugin
<1>5. Calls'
  BY <1>1, OfficersRequest DEF Inv, TypeOK, Calls, plugin
<1>6. Working' /\ Alone'
  BY <1>1, <1>3, NothingBegun DEF Inv, plugin
<1>7. Heard'
  BY <1>1, <1>3 DEF Inv, TypeOK, Heard, NoCall, plugin
<1>8. VerdictAgrees' /\ AgencyHasApplication' /\ Posted' /\ AgencyHoldsSubmission'
  BY <1>1, <1>2, <1>3 DEF Inv, VerdictAgrees, AgencyHasApplication, Posted, Submitted,
     AgencyHoldsSubmission, plugin
<1>9. FeedbackReachedTrader'
  BY <1>1, <1>2, <1>3, AppAssumption DEF Inv, FeedbackReachedTrader, plugin
<1> QED
  BY <1>4, <1>5, <1>6, <1>7, <1>8, <1>9 DEF Inv

LEMMA ReadHistoryStep == ASSUME Inv, NEW o \in Officer, ReadHistory(o) PROVE Inv'
<1>1. /\ officer[o].pc = "accepted" /\ officer[o].body \in Note
      /\ officer' = [officer EXCEPT ![o].pc = "append", ![o].seen = app.history]
      /\ UNCHANGED <<plugin, post, wire, app, straggler, overlap>>
  BY DEF ReadHistory
<1>2. /\ app # NoApp /\ app \in App
      /\ ~overlap => app.history \subseteq notes /\ officer[o].body \in notes
  BY <1>1 DEF Inv, TypeOK, Heard, FeedbackReachedTrader
<1>3. /\ officer'[o] \in OfficerCall
      /\ officer'[o].pc = "append" /\ officer'[o].body = officer[o].body
      /\ officer'[o].seen = app.history
  BY <1>1, <1>2 DEF Inv, TypeOK, OfficerCall, App
<1>4. TypeOK'
  BY <1>1, <1>3 DEF Inv, TypeOK, plugin
<1>5. Calls'
  BY <1>1, OfficersRequest DEF Inv, TypeOK, Calls, plugin
<1>6. Working' /\ Alone'
  BY <1>1, NothingBegun DEF Inv, plugin
<1>7. Heard'
  BY <1>1, <1>2, <1>3 DEF Inv, TypeOK, Heard, plugin
<1>8. VerdictAgrees' /\ AgencyHasApplication' /\ FeedbackReachedTrader' /\ Posted' /\ AgencyHoldsSubmission'
  BY <1>1 DEF Inv, VerdictAgrees, AgencyHasApplication, FeedbackReachedTrader, Posted, Submitted,
     AgencyHoldsSubmission, plugin
<1> QED
  BY <1>4, <1>5, <1>6, <1>7, <1>8 DEF Inv

LEMMA AppendFeedbackStep == ASSUME Inv, NEW o \in Officer, AppendFeedback(o) PROVE Inv'
<1> DEFINE history == officer[o].seen \cup {officer[o].body}
<1>1. /\ officer[o].pc = "append"
      /\ app' = [app EXCEPT !.status = "FEEDBACK_REQUESTED", !.history = history]
      /\ officer' = [officer EXCEPT ![o] = NoCall]
      /\ UNCHANGED <<plugin, post, wire, straggler, overlap>>
  BY DEF AppendFeedback
<1>2. app \in App /\ history \subseteq Note /\ (~overlap => history \subseteq notes)
  BY <1>1 DEF Inv, TypeOK, OfficerCall, Heard
<1> HIDE DEF history
<1>3. /\ app' \in App /\ app' # NoApp
      /\ app'.status = "FEEDBACK_REQUESTED" /\ app'.data = app.data /\ app'.history = history
  BY <1>1, <1>2, AppAssumption DEF App
<1>4. TypeOK'
  BY <1>1, <1>3, NoCallTyped DEF Inv, TypeOK, plugin
<1>5. Calls'
  BY <1>1, OfficersRequest DEF Inv, TypeOK, Calls, plugin
<1>6. Working' /\ Alone'
  BY <1>1, <1>3, NothingBegun DEF Inv, plugin
<1>7. Heard'
  BY <1>1, <1>3 DEF Inv, TypeOK, Heard, NoCall, plugin
<1>8. VerdictAgrees' /\ AgencyHasApplication' /\ Posted' /\ AgencyHoldsSubmission'
  BY <1>1, <1>3 DEF Inv, VerdictAgrees, AgencyHasApplication, Posted, Submitted,
     AgencyHoldsSubmission, plugin
<1>9. FeedbackReachedTrader'
  BY <1>1, <1>2, <1>3 DEF FeedbackReachedTrader, plugin
<1> QED
  BY <1>4, <1>5, <1>6, <1>7, <1>8, <1>9 DEF Inv

LEMMA RecordFailsStep == ASSUME Inv, NEW o \in Officer, RecordFails(o) PROVE Inv'
<1>1. /\ officer[o].pc # "sent" /\ officer' = [officer EXCEPT ![o] = NoCall]
      /\ UNCHANGED <<plugin, post, wire, app, straggler, overlap>>
  BY DEF RecordFails
<1>2. TypeOK'
  BY <1>1, NoCallTyped DEF Inv, TypeOK, plugin
<1>3. Calls'
  BY <1>1, OfficersRequest DEF Inv, TypeOK, Calls, plugin
<1>4. Working' /\ Alone'
  BY <1>1, NothingBegun DEF Inv, plugin
<1>5. Heard'
  BY <1>1 DEF Inv, TypeOK, Heard, NoCall, plugin
<1>6. VerdictAgrees' /\ AgencyHasApplication' /\ FeedbackReachedTrader' /\ Posted' /\ AgencyHoldsSubmission'
  BY <1>1 DEF Inv, VerdictAgrees, AgencyHasApplication, FeedbackReachedTrader, Posted, Submitted,
     AgencyHoldsSubmission, plugin
<1> QED
  BY <1>2, <1>3, <1>4, <1>5, <1>6 DEF Inv

----------------------------------------------------------------------------
(* The theorems *)

LEMMA Invariance == Spec => [](Inv /\ Resets)
<1>1. Init => Inv /\ Resets
  BY InitInv DEF Init, Resets
<1>2. Inv /\ Resets /\ [Next]_vars => (Inv /\ Resets)'
  <2> SUFFICES ASSUME Inv, Resets, [Next]_vars PROVE Inv' /\ Resets'
    OBVIOUS
  <2>1. CASE UNCHANGED vars
    BY <2>1 DEF Inv, TypeOK, Calls, Working, Alone, Reviewing, Heard, Posted, Submitted,
       VerdictAgrees, AgencyHasApplication, AgencyHoldsSubmission, FeedbackReachedTrader,
       Resets, vars
  <2>2. CASE Next
    BY <2>2, ResetsStep, SaveAsDraftStep, SubmitStep, TraderReadsStep, TraderMovesStep,
       CrashBackendStep, CrashAgencyStep, InjectReadStep, InjectWriteStep, RefusedStep,
       CheckedStep, FeedbackReadStep, FeedbackStoredStep, VerdictStoredStep, StateReadStep,
       MovedStep, LoseStep, TimeOutStep, DecideStep, RecordReviewStep, ReadHistoryStep,
       AppendFeedbackStep, RecordFailsStep DEF Next
  <2> QED
    BY <2>1, <2>2
<1> QED
  BY <1>1, <1>2, PTL DEF Spec

(* The task, the requests between the two services and the application     *)
(* record keep their types.                                                *)
THEOREM OgaTypeCorrect == Spec => []TypeOK
<1>1. Inv => TypeOK
  BY DEF Inv
<1> QED
  BY <1>1, Invariance, PTL

(* ReviewApplication records a verdict only after the task took it: as     *)
(* long as no executions overlapped on the task, an application shown as   *)
(* reviewed has a task that ended with that verdict, whatever is lost,     *)
(* late or decided twice.                                                  *)
THEOREM ReviewsAgree == Spec => []VerdictAgrees
<1>1. Inv => VerdictAgrees
  BY DEF Inv
<1> QED
  BY <1>1, Invariance, PTL

(* submitHandler moves the task behind the answer only: a task that waits  *)
(* for an agency, or has heard from one, has an application there, also    *)
(* when executions overlapped.                                             *)
THEOREM AgencyIsAsked == Spec => []AgencyHasApplication
<1>1. Inv => AgencyHasApplication
  BY DEF Inv
<1> QED
  BY <1>1, Invariance, PTL

(* While the task waits the agency holds the last submission, unless an    *)
(* inject that had been given up was carried out; any number of retries.   *)
THEOREM AgencyIsCurrent == Spec => []AgencyHoldsSubmission
<1>1. Inv => AgencyHoldsSubmission
  BY DEF Inv
<1> QED
  BY <1>1, Invariance, PTL

(* The agency's history holds only feedback that the task stored and still *)
(* has, as long as no executions overlapped on the task.                   *)
THEOREM FeedbackArrives == Spec => []FeedbackReachedTrader
<1>1. Inv => FeedbackReachedTrader
  BY DEF Inv
<1> QED
  BY <1>1, Invariance, PTL

(* A decision that no execution is at work on is final, with its verdict:  *)
(* neither the transition of a submission under way nor a later decision   *)
(* undoes it, for any number of officers and whatever overlapped before.   *)
THEOREM DecisionsStand == Spec => DecisionStands
<1>1. ASSUME Inv, Settled, [Next]_vars PROVE Settled' /\ verdict' = verdict
  <2> DEFINE Arriving(S) == \A r \in S : r.to = "nsw" => r.step = "arrive"
  <2>1. \A act \in OgaActs : Edge(act) = {}
    BY <1>1, FormMoves DEF Edge, Settled
  <2>2. \A b : ActOf(b) \in OgaActs
    BY DEF ActOf, OgaActs
  <2>3. task = "OGA_REVIEWED" /\ post.pc # "moving" /\ Arriving(wire)
    BY <1>1 DEF Settled, AtWork, Reviewing
  <2>4. \A r \in wire : Arriving({Orphan(r)})
    BY <1>1, <2>3 DEF Inv, TypeOK, Orphan, Inject, Callback
  <2>5. SUFFICES UNCHANGED plugin /\ post'.pc # "moving" /\ Arriving(wire')
    BY <2>3 DEF Settled, AtWork, Reviewing, plugin
  <2>6. CASE UNCHANGED <<plugin, post, wire>>
    BY <2>3, <2>6
  <2>7. CASE SaveAsDraft \/ Submit \/ TraderMoves
    BY <2>1, <2>3, <2>7 DEF SaveAsDraft, Submit, TraderMoves, OgaActs
  <2>8. CASE TraderReads
    <3>1. TraderAct[post.pc] \in OgaActs
      <4>1. /\ DOMAIN TraderAct = {"drafted", "answered", "failed"}
            /\ TraderAct["drafted"] = "SAVE_AS_DRAFT"
            /\ TraderAct["answered"] = "SUBMIT_FORM_AWAIT_OGA"
            /\ TraderAct["failed"] = "SUBMIT_FORM_FAILED"
        BY DEF TraderAct
      <4>2. post.pc \in DOMAIN TraderAct
        BY <2>8 DEF TraderReads
      <4> QED
        BY <4>1, <4>2 DEF OgaActs
    <3>2. post' = NoPost /\ UNCHANGED <<plugin, wire>>
      BY <2>1, <2>8, <3>1 DEF TraderReads
    <3> QED
      BY <2>3, <3>2, NoPostTyped
  <2>9. ASSUME NEW r \in wire,
               \/ Checked(r) \/ FeedbackRead(r) \/ FeedbackStored(r)
               \/ VerdictStored(r) \/ StateRead(r) \/ Moved(r)
        PROVE  FALSE
    BY <2>1, <2>2, <2>3, <2>9 DEF Checked, FeedbackRead, FeedbackStored, VerdictStored, StateRead, Moved
  <2>10. ASSUME NEW rest, Arriving(rest), AttemptFails(rest)
         PROVE  post'.pc # "moving" /\ Arriving(wire')
    BY <1>1, <2>3, <2>10, NoPostTyped DEF AttemptFails, Request, Inv, TypeOK, Post
  <2>11. ASSUME NEW r \in wire, Refused(r) \/ InjectRead(r) PROVE UNCHANGED <<plugin, post>> /\ Arriving(wire')
    BY <1>1, <2>3, <2>11 DEF Refused, InjectRead, Inv, TypeOK, Inject, Callback
  <2>12. ASSUME NEW r \in wire, InjectWrite(r) PROVE UNCHANGED plugin /\ post'.pc # "moving" /\ Arriving(wire')
    <3>1. Arriving(wire \ {r})
      BY <2>3
    <3>2. CASE /\ wire' = wire \ {r}
               /\ post' = [NoPost EXCEPT !.pc = "answered"] \/ post' = post
      BY <2>3, <2>12, <3>1, <3>2, NoPostTyped DEF InjectWrite, Post
    <3>3. CASE AttemptFails(wire \ {r})
      BY <2>10, <2>12, <3>1, <3>3 DEF InjectWrite
    <3> QED
      BY <2>12, <3>2, <3>3 DEF InjectWrite, InjectAnswered
  <2>13. ASSUME NEW r \in wire, Lose(r) PROVE UNCHANGED plugin /\ post'.pc # "moving" /\ Arriving(wire')
    BY <2>3, <2>10, <2>13 DEF Lose
  <2>14. ASSUME NEW r \in wire, TimeOut(r) PROVE UNCHANGED plugin /\ post'.pc # "moving" /\ Arriving(wire')
    BY <2>3, <2>4, <2>10, <2>14 DEF TimeOut
  <2>15. CASE CrashBackend
    BY <2>3, <2>4, <2>15, NoPostTyped DEF CrashBackend
  <2>16. CASE CrashAgency
    BY <2>3, <2>4, <2>16 DEF CrashAgency, Survive
  <2>17. ASSUME NEW o \in Officer, Decide(o) PROVE UNCHANGED <<plugin, post>> /\ Arriving(wire')
    BY <2>3, <2>17 DEF Decide
  <2>18. ASSUME NEW o \in Officer,
                RecordReview(o) \/ ReadHistory(o) \/ AppendFeedback(o) \/ RecordFails(o)
         PROVE  UNCHANGED <<plugin, post, wire>>
    BY <2>18 DEF RecordReview, ReadHistory, AppendFeedback, RecordFails
  <2> HIDE DEF Arriving
  <2> QED
    BY <1>1, <2>3, <2>6, <2>7, <2>8, <2>9, <2>11, <2>12, <2>13, <2>14, <2>15, <2>16, <2>17, <2>18
       DEF Next, vars, plugin
<1> QED
  BY <1>1, Invariance, PTL DEF Spec, DecisionStands
=============================================================================
