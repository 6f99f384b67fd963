----------------------------- MODULE UserRecords -----------------------------
(***************************************************************************)
(* Who a request belongs to: the middleware asks for the user record of    *)
(* the person the token names and makes it when there is none.  There is   *)
(* no transaction around the steps of GetOrCreateUser; idp_user_id is      *)
(* UNIQUE and an insert that meets a record does nothing.  A failure is    *)
(* logged and the request goes on without an internal id.                  *)
(***************************************************************************)
EXTENDS Naturals

CONSTANTS
  Person,    \* ids of the identity provider
  Request,   \* requests that can overlap, e.g. the tabs of a browser
  UserId,    \* what uuid.New may return
  NoId       \* User.ID left empty

ASSUME UserAssumption == NoId \notin UserId

VARIABLES
  whose,     \* the person whose token a request carries; never changes
  users,     \* the users table: the internal id of each person
  login      \* the requests: how far the middleware is, and the id it has

userVars == <<whose, users, login>>

Out == [pc |-> "out", id |-> NoId]

UserTypeOK ==
  /\ whose \in [Request -> Person]
  /\ users \in [Person -> UserId \cup {NoId}]
  /\ login \in [Request -> [pc : {"out", "lookup", "insert", "again", "in"},
                            id : UserId \cup {NoId}]]

UserInit ==
  /\ whose \in [Request -> Person]
  /\ users = [p \in Person |-> NoId]
  /\ login = [r \in Request |-> Out]

Recorded(r) == users[whose[r]]

At(r, pc) == login[r].pc = pc

Go(r, pc, id) == login' = [login EXCEPT ![r] = [pc |-> pc, id |-> id]]

\* a verified user token; any other request never gets here
Enter(r) ==
  /\ At(r, "out")
  /\ Go(r, "lookup", NoId)
  /\ UNCHANGED <<whose, users>>

Leave(r) == Go(r, "out", NoId)

Lookup(r) ==
  /\ At(r, "lookup")
  /\ IF Recorded(r) = NoId
       THEN Go(r, "insert", NoId)
       ELSE Go(r, "in", Recorded(r))
  /\ UNCHANGED <<whose, users>>

Unused(id) == \A p \in Person : users[p] # id

\* a record met by the insert is taken for one's own
InsertBlindly(r) ==
  /\ At(r, "insert")
  /\ \E id \in UserId :
       /\ Unused(id)
       /\ users' = [users EXCEPT ![whose[r]] = IF @ = NoId THEN id ELSE @]
       /\ Go(r, "in", id)
  /\ UNCHANGED whose

Insert(r) ==
  /\ At(r, "insert")
  /\ IF Recorded(r) = NoId
       THEN \E id \in UserId :
              /\ Unused(id)
              /\ users' = [users EXCEPT ![whose[r]] = id]
              /\ Go(r, "in", id)
       ELSE Go(r, "again", NoId) /\ UNCHANGED users
  /\ UNCHANGED whose

Again(r) ==
  /\ At(r, "again")
  /\ Go(r, "in", Recorded(r))
  /\ UNCHANGED <<whose, users>>

\* the statement fails, or it was carried out and its answer is lost
StatementFails(r) ==
  /\ login[r].pc \in {"lookup", "insert", "again"}
  /\ \/ UNCHANGED users
     \/ /\ At(r, "insert") /\ Recorded(r) = NoId
        /\ \E id \in UserId : /\ Unused(id)
                              /\ users' = [users EXCEPT ![whose[r]] = id]
  /\ Go(r, "in", NoId)
  /\ UNCHANGED whose

Identify(r) == Lookup(r) \/ Insert(r) \/ Again(r) \/ StatementFails(r)

(* However the first requests of a person overlap and fail, all of them    *)
(* that get an internal id get the one that stays on record, and no two    *)
(* persons share one (GetOrCreateUser: "Should be idempotent", manager.go).*)
OneIdentity ==
  /\ \A r \in Request : login[r].id \in {NoId, Recorded(r)}
  /\ \A p, q \in Person : users[p] = users[q] => p = q \/ users[p] = NoId

=============================================================================
