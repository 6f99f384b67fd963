----------------------------- MODULE MCOgaReview -----------------------------
(***************************************************************************)
(* Submissions, feedback messages and officers are interchangeable.        *)
(*                                                                         *)
(* The view leaves out what no guard reads and no property tells apart any *)
(* more: the task's verdict while it is bound to be overwritten before a   *)
(* review; a verdict in an application that is not reviewed; the data,     *)
(* which are compared only until an inject was carried out late; the       *)
(* agency's verdict and history, and what an officer is about to record,   *)
(* which are compared with the task's only until executions overlapped.    *)
(***************************************************************************)
EXTENDS OgaReview, TLC

Interchangeable == Permutations(Data) \cup Permutations(Note) \cup Permutations(Officer)

Compared(data) == IF straggler THEN NoData ELSE data

WireView == {IF r.to = "oga" THEN [r EXCEPT !.data = Compared(r.data)] ELSE r : r \in wire}

(* A task becomes reviewed only by a callback that has stored its verdict. *)
VerdictInUse ==
  \/ task = "OGA_REVIEWED"
  \/ \E r \in Reviewing : r.step \in {"stored", "moving"} /\ r.body \in Verdict

AnyVerdict == CHOOSE v \in Verdict : TRUE

OfficerView ==
  [o \in Officer |->
     IF ~overlap THEN officer[o]
     ELSE [officer[o] EXCEPT !.seen = {},
             !.body = IF officer[o].pc = "accepted" /\ @ \in Verdict THEN AnyVerdict ELSE @]]

AppView ==
  IF app = NoApp THEN NoApp
  ELSE [app EXCEPT !.data = Compared(@),
                   !.verdict = IF app.status = "REVIEWED" /\ ~overlap THEN @ ELSE NoVerdict,
                   !.history = IF overlap THEN {} ELSE @]

View == <<task, Compared(form), IF VerdictInUse THEN verdict ELSE NoVerdict, notes, post,
          WireView, AppView, OfficerView, straggler, overlap>>
=============================================================================
