---------------------------- MODULE PreConsignment ----------------------------
(***************************************************************************)
(* Pre-consignments: the listing a trader sees, the start of one, the      *)
(* dependency check of the server and the completion of its workflow, for  *)
(* tabs of several traders.  Each request first passes the middleware of   *)
(* UserRecords.                                                            *)
(*                                                                         *)
(* The trader portal shows a listing until the next one arrives and offers *)
(* Start by what the listing says; the route itself takes a start of any   *)
(* template.  The rows of one trader and template differ in their state    *)
(* only, so they are counted.                                              *)
(***************************************************************************)
EXTENDS UserRecords, FiniteSets

CONSTANTS
  Template,   \* pre-consignment templates; all are on one page
  DependsOn,  \* their dependencies, without repetition
  MaxRows     \* bound: rows ever created

Listing == "listing"
Nothing == "nothing"

ASSUME PreAssumption ==
  /\ Listing \notin Template /\ Nothing \notin Template
  /\ DependsOn \in [Template -> SUBSET Template]
  /\ IsFiniteSet(Template)
  /\ MaxRows \in Nat

VARIABLES
  held,    \* pre_consignments: rows of each trader and template
  created, \* how many rows there are
  ask,     \* what each tab asks for, the listing or the start of a template,
           \* and whether its listing offered that start
  seen,    \* the listing each tab shows
  reply,   \* whether the server refused, for the dependencies, the start a tab
           \* was offered; nothing else in an answer changes what a tab shows
  direct   \* history: the traders and templates of which a row was started that
           \* no listing had offered

preVars == <<whose, users, login, held, created, ask, seen, reply, direct>>

States == {"LOCKED", "READY", "IN_PROGRESS", "COMPLETED"}

PreTypeOK ==
  /\ UserTypeOK
  /\ held \in [UserId -> [Template -> [open : 0..MaxRows, done : 0..MaxRows]]]
  /\ created \in 0..MaxRows
  /\ ask \in [Request -> [what : Template \cup {Listing, Nothing}, checked : BOOLEAN,
                       offered : BOOLEAN]]
  /\ seen \in [Request -> [Template -> States]]
  /\ reply \in [Request -> {"none", "refused"}]
  /\ direct \subseteq UserId \X Template

NotAsking == [what |-> Nothing, checked |-> FALSE, offered |-> FALSE]

PreInit ==
  /\ UserInit
  /\ held = [i \in UserId |-> [m \in Template |-> [open |-> 0, done |-> 0]]]
  /\ created = 0
  /\ ask = [r \in Request |-> NotAsking]
  /\ seen = [r \in Request |-> [m \in Template |-> "LOCKED"]]
  /\ reply = [r \in Request |-> "none"]
  /\ direct = {}

----------------------------------------------------------------------------
(* The listing                                                             *)

SetRow(i, m, row) == held' = [held EXCEPT ![i] = [@ EXCEPT ![m] = row]]

NoRows == [m \in Template |-> [open |-> 0, done |-> 0]]

RowsOf(id) == IF id = NoId THEN NoRows ELSE held[id]

\* the states a row of the template may show: the last one of a query that
\* has no order stands for the template
Shown(rows, m) == {s \in {"IN_PROGRESS", "COMPLETED"} :
                     \/ s = "IN_PROGRESS" /\ rows[m].open > 0
                     \/ s = "COMPLETED" /\ rows[m].done > 0}

\* one choice of a row for every template that has any
Representatives(rows) == {f \in [Template -> {"none", "IN_PROGRESS", "COMPLETED"}] :
                    \A m \in Template : IF Shown(rows, m) = {} THEN f[m] = "none"
                                        ELSE f[m] \in Shown(rows, m)}

Computed(f) == [m \in Template |->
                  IF f[m] # "none" THEN f[m]
                  ELSE IF \A d \in DependsOn[m] : f[d] = "COMPLETED" THEN "READY"
                  ELSE "LOCKED"]

Done(r, answer) ==
  /\ Leave(r)
  /\ ask' = [ask EXCEPT ![r] = NotAsking]
  /\ reply' = [reply EXCEPT ![r] = answer]

\* the query on trader_id left out
ListOfAll(r) ==
  /\ At(r, "in") /\ ask[r].what = Listing
  /\ \E f \in Representatives([m \in Template |->
               [open |-> IF \E i \in UserId : held[i][m].open > 0 THEN 1 ELSE 0,
                done |-> IF \E i \in UserId : held[i][m].done > 0 THEN 1 ELSE 0]]) :
       seen' = [seen EXCEPT ![r] = Computed(f)]
  /\ Done(r, "none")
  /\ UNCHANGED <<whose, users, held, created, direct>>

List(r) ==
  /\ At(r, "in") /\ ask[r].what = Listing
  /\ \E f \in Representatives(RowsOf(login[r].id)) :
       seen' = [seen EXCEPT ![r] = Computed(f)]
  /\ Done(r, "none")
  /\ UNCHANGED <<whose, users, held, created, direct>>

----------------------------------------------------------------------------
(* The start of a pre-consignment                                          *)

\* COUNT(*) of the completed rows of the templates in M
Completed(rows, M) ==
  Cardinality({p \in M \X (1..MaxRows) : p[2] <= rows[p[1]].done})

Pass(r) == /\ ask' = [ask EXCEPT ![r] = [@ EXCEPT !.checked = TRUE]]
           /\ UNCHANGED <<login, reply>>

Refuse(r) == Done(r, IF ask[r].offered THEN "refused" ELSE "none")

\* the query on the state left out: any row of a dependency counts
CheckDependenciesBegun(r) ==
  /\ At(r, "in") /\ ask[r].what \in Template /\ ~ask[r].checked
  /\ login[r].id # NoId
  /\ IF \E d \in DependsOn[ask[r].what] :
          RowsOf(login[r].id)[d].open + RowsOf(login[r].id)[d].done = 0
       THEN Refuse(r) ELSE Pass(r)
  /\ UNCHANGED <<whose, users, held, created, seen, direct>>

CheckDependencies(r) ==
  /\ At(r, "in") /\ ask[r].what \in Template /\ ~ask[r].checked
  /\ login[r].id # NoId
  /\ LET deps == DependsOn[ask[r].what] IN
       IF Completed(RowsOf(login[r].id), deps) < Cardinality(deps)
         THEN Refuse(r) ELSE Pass(r)
  /\ UNCHANGED <<whose, users, held, created, seen, direct>>

\* row, workflow and nodes in one transaction
Create(r) ==
  /\ ask[r].checked
  /\ created < MaxRows
  /\ created' = created + 1
  /\ LET row == held[login[r].id][ask[r].what] IN
       SetRow(login[r].id, ask[r].what, [row EXCEPT !.open = @ + 1])
  /\ direct' = IF ask[r].offered THEN direct
               ELSE direct \cup {<<login[r].id, ask[r].what>>}
  /\ Done(r, "none")   \* also when it is there but reading it back fails
  /\ UNCHANGED <<whose, users, seen>>

\* no internal id, a query that fails, a transaction that does not commit
RequestFails(r) ==
  /\ At(r, "in")
  /\ Done(r, "none")
  /\ UNCHANGED <<whose, users, held, created, seen, direct>>

----------------------------------------------------------------------------
(* The workflow and the portal                                             *)

\* a workflow that has completed before completes its row again
OnWorkflowCompletedAgain(i, m) ==
  /\ held[i][m].open + held[i][m].done > 0
  /\ SetRow(i, m, [open |-> held[i][m].open - 1, done |-> held[i][m].done + 1])
  /\ UNCHANGED <<whose, users, login, created, ask, seen, reply, direct>>

\* OnWorkflowStatusChanged leaves the row alone for every other status
OnWorkflowCompleted(i, m) ==
  /\ held[i][m].open > 0
  /\ SetRow(i, m, [open |-> held[i][m].open - 1, done |-> held[i][m].done + 1])
  /\ UNCHANGED <<whose, users, login, created, ask, seen, reply, direct>>

\* the screen of a tab loads, or is loaded again
AskListing(r) ==
  /\ Enter(r)
  /\ ask' = [ask EXCEPT ![r] = [NotAsking EXCEPT !.what = Listing]]
  /\ reply' = [reply EXCEPT ![r] = "none"]
  /\ UNCHANGED <<held, created, seen, direct>>

\* the button's condition on the dependencies; it also wants the template itself
\* to be READY, so more starts than it offers count as offered
Offered(r, m) == \A d \in DependsOn[m] : seen[r][d] = "COMPLETED"

\* POST /pre-consignments takes any template, whether the button is there or not
AskStart(r, m) ==
  /\ Enter(r)
  /\ ask' = [ask EXCEPT ![r] = [what |-> m, checked |-> FALSE, offered |-> Offered(r, m)]]
  /\ reply' = [reply EXCEPT ![r] = "none"]
  /\ UNCHANGED <<held, created, seen, direct>>

Middleware(r) == Identify(r) /\ UNCHANGED <<held, created, ask, seen, reply, direct>>

PreNext ==
  \/ \E r \in Request :
       \/ AskListing(r) \/ \E m \in Template : AskStart(r, m)
       \/ Middleware(r)
       \/ List(r) \/ CheckDependencies(r) \/ Create(r) \/ RequestFails(r)
  \/ \E i \in UserId, m \in Template : OnWorkflowCompleted(i, m)

PreSpec == PreInit /\ [][PreNext]_preVars

----------------------------------------------------------------------------
(* Properties                                                              *)

(* A start that the listing offers is never refused for its dependencies:  *)
(* what was completed stays so, the trader keeps the identity, and several *)
(* rows of one template cannot make the server's count too small.          *)
ReadyStarts == \A r \in Request : reply[r] # "refused"

(* Whatever is asked for, no pre-consignment exists unless its trader has  *)
(* at least as many completed rows of its dependencies as it has           *)
(* dependencies.  That is all the server's count ensures: two rows of one  *)
(* dependency weigh as much as one row of each.  Where every start was one *)
(* that the listing offered, each dependency is completed by the trader,   *)
(* although the listing may be long out of date and the start may race     *)
(* with other tabs.                                                        *)
DependenciesMet ==
  \A i \in UserId, m \in Template :
    held[i][m].open + held[i][m].done > 0 =>
      /\ Completed(held[i], DependsOn[m]) >= Cardinality(DependsOn[m])
      /\ <<i, m>> \notin direct => \A d \in DependsOn[m] : held[i][d].done > 0

=============================================================================
