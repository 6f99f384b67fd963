----------------------------- MODULE PluginTables -----------------------------
(***************************************************************************)
(* The transition tables of the three task plugins, as sets of edges.  An  *)
(* edge with task = Keep leaves the task state alone (NextTaskState "").   *)
(***************************************************************************)

NotStarted == ""
Keep == ""
Initialized == "INITIALIZED"
InProgress == "IN_PROGRESS"
Completed == "COMPLETED"
Failed == "FAILED"

TaskState == {Initialized, InProgress, Completed, Failed}
Final == {Completed, Failed}

(* One edge for every state in F.                                          *)
Edges(F, act, to, task) == {[from |-> f, act |-> act, to |-> to, task |-> task] : f \in F}

Editable == {"FORM_INITIALIZED", "DRAFT", "SUBMISSION_FAILED"}
AtOga == {"OGA_ACKNOWLEDGED", "OGA_FEEDBACK_PROVIDED"}

(* NewSimpleFormFSM *)
SimpleFormFSM ==
  Edges({NotStarted}, "START", "FORM_INITIALIZED", Keep)
    \cup Edges(Editable, "SAVE_AS_DRAFT", "DRAFT", InProgress)
    \cup Edges(Editable, "SUBMIT_FORM_COMPLETE", "SUBMITTED", Completed)
    \cup Edges(Editable \cup {"OGA_FEEDBACK_PROVIDED"}, "SUBMIT_FORM_AWAIT_OGA",
               "OGA_ACKNOWLEDGED", InProgress)
    \cup Edges({"FORM_INITIALIZED", "DRAFT", "OGA_FEEDBACK_PROVIDED"}, "SUBMIT_FORM_FAILED",
               "SUBMISSION_FAILED", InProgress)
    \cup Edges(AtOga, "OGA_VERIFICATION_APPROVED", "OGA_REVIEWED", Completed)
    \cup Edges(AtOga, "OGA_VERIFICATION_REJECTED", "OGA_REVIEWED", Failed)
    \cup Edges({"OGA_ACKNOWLEDGED"}, "OGA_VERIFICATION_FEEDBACK",
               "OGA_FEEDBACK_PROVIDED", InProgress)

(* NewWaitForEventFSM *)
WaitForEventFSM ==
  Edges({NotStarted}, "START", "NOTIFIED_SERVICE", InProgress)
    \cup Edges({NotStarted}, "START_FAILED", "NOTIFY_FAILED", InProgress)
    \cup Edges({"NOTIFY_FAILED"}, "RETRY", "NOTIFIED_SERVICE", InProgress)
    \cup Edges({"NOTIFIED_SERVICE"}, "OGA_VERIFICATION", "RECEIVED_CALLBACK", Completed)

(* NewPaymentFSM *)
PaymentFSM ==
  Edges({NotStarted}, "START", "IDLE", Keep)
    \cup Edges({"IDLE", "PAYING"}, "INITIATE_PAYMENT", "PAYING", InProgress)
    \cup Edges({"PAYING"}, "PAYMENT_SUCCESS", "PAID", Completed)
    \cup Edges({"PAYING"}, "PAYMENT_FAILED", "IDLE", Initialized)
    \cup Edges({"PAYING"}, "PAYMENT_TIMEOUT", "IDLE", Initialized)

Table == [SIMPLE_FORM |-> SimpleFormFSM, WAIT_FOR_EVENT |-> WaitForEventFSM, PAYMENT |-> PaymentFSM]

(* The action a plugin applies when its external call fails, where it      *)
(* applies one: Execute of SimpleForm and Start of WaitForEvent.           *)
OnFailure == [SUBMIT_FORM_COMPLETE |-> "SUBMIT_FORM_FAILED",
              SUBMIT_FORM_AWAIT_OGA |-> "SUBMIT_FORM_FAILED",
              START |-> "START_FAILED"]

(* The actions of one type; START comes from InitTask, the failure actions *)
(* only from the plugin itself.                                            *)
Actions(type) == {e.act : e \in Table[type]} \ {"START", "START_FAILED", "SUBMIT_FORM_FAILED"}
PluginStates(type) == {NotStarted} \cup {e.to : e \in Table[type]}

(* The edges CanTransition and Transition find for an action in a state.   *)
Moves(type, state, act) == {e \in Table[type] : e.from = state /\ e.act = act}
=============================================================================
