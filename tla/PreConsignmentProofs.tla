------------------------- MODULE PreConsignmentProofs -------------------------
(***************************************************************************)
(* Proofs about PreConsignment and the UserRecords below it, for all       *)
(* persons, tabs, templates and dependencies.                              *)
(***************************************************************************)
EXTENDS PreConsignment, TLAPS, FiniteSetTheorems

Rows == [open : 0..MaxRows, done : 0..MaxRows]
Asks == [what : Template \cup {Listing, Nothing}, checked : BOOLEAN, offered : BOOLEAN]
Logins == [pc : {"out", "lookup", "insert", "again", "in"}, id : UserId \cup {NoId}]

(* Every row was created.                                                  *)
Counted == \A i \in UserId, m \in Template : held[i][m].open + held[i][m].done <= created

(* What a tab shows as completed is completed for the person it belongs to.*)
SeenCompleted ==
  \A r \in Request, m \in Template :
    seen[r][m] = "COMPLETED" => Recorded(r) \in UserId /\ held[Recorded(r)][m].done > 0

(* What the server's count says of a trader's rows.                        *)
Enough(rows, m) == Completed(rows, DependsOn[m]) >= Cardinality(DependsOn[m])

(* An offered start was offered by what the tab still shows.  One that has *)
(* passed the check has an internal id, and what was counted is still so.  *)
AskedFor ==
  \A r \in Request :
    /\ ask[r].offered => ask[r].what \in Template
                          /\ \A d \in DependsOn[ask[r].what] : seen[r][d] = "COMPLETED"
    /\ ask[r].checked =>
         /\ ask[r].what \in Template /\ login[r].pc = "in" /\ login[r].id \in UserId
         /\ Enough(held[login[r].id], ask[r].what)

Inv == /\ PreTypeOK /\ OneIdentity /\ Counted
       /\ SeenCompleted /\ AskedFor /\ DependenciesMet /\ ReadyStarts

LEMMA InitInv == PreInit => Inv
<1> SUFFICES ASSUME PreInit PROVE Inv
  OBVIOUS
<1> USE UserAssumption, PreAssumption
<1>1. UserTypeOK
  BY DEF PreInit, UserInit, UserTypeOK, Out
<1>2. [open |-> 0, done |-> 0] \in Rows /\ NotAsking \in Asks
  BY DEF Rows, Asks, NotAsking
<1>3. PreTypeOK
  BY <1>1, <1>2 DEF PreInit, PreTypeOK, Rows, Asks, States
<1>4. OneIdentity
  BY DEF PreInit, UserInit, OneIdentity, Out, Recorded
<1>5. Counted /\ DependenciesMet
  BY DEF PreInit, Counted, DependenciesMet
<1>6. SeenCompleted /\ AskedFor /\ ReadyStarts
  BY DEF PreInit, SeenCompleted, AskedFor, NotAsking, ReadyStarts
<1> QED
  BY <1>3, <1>4, <1>5, <1>6 DEF Inv

(* The rest of Inv, when no row is created or completed.                   *)
LEMMA RowsKept ==
  ASSUME Inv, UNCHANGED <<held, created, direct>>, UserTypeOK', OneIdentity', SeenCompleted', AskedFor',
         ask' \in [Request -> Asks], seen' \in [Request -> [Template -> States]],
         reply' \in [Request -> {"none", "refused"}], ReadyStarts'
  PROVE  Inv'
BY DEF Inv, PreTypeOK, Counted, DependenciesMet, Asks

LEMMA CountsAreNumbers ==
  ASSUME NEW rows, NEW M \in SUBSET Template
  PROVE  /\ Cardinality(M) \in Nat /\ Completed(rows, M) \in Nat
         /\ IsFiniteSet({p \in M \X (1..MaxRows) : p[2] <= rows[p[1]].done})
<1> DEFINE T == {p \in M \X (1..MaxRows) : p[2] <= rows[p[1]].done}
<1>1. IsFiniteSet(M) /\ IsFiniteSet(1..MaxRows) /\ MaxRows \in Nat
  BY PreAssumption, FS_Subset, FS_Interval
<1>2. IsFiniteSet(M \X (1..MaxRows))
  BY <1>1, FS_Product
<1>3. IsFiniteSet(T)
  BY <1>2, FS_Subset
<1> QED
  BY <1>1, <1>3, FS_CardinalityType DEF Completed

(* The count is at least the number of templates with a completed row: one *)
(* row of each is counted.                                                 *)
LEMMA OneRowOfEach ==
  ASSUME NEW rows \in [Template -> Rows], NEW M \in SUBSET Template,
         \A m \in M : rows[m].done > 0
  PROVE  Cardinality(M) <= Completed(rows, M)
<1> DEFINE T == {p \in M \X (1..MaxRows) : p[2] <= rows[p[1]].done}
           first == [m \in M |-> <<m, 1>>]
<1>1. IsFiniteSet(T)
  BY CountsAreNumbers
<1>2. ASSUME NEW m \in M PROVE <<m, 1>> \in T
  <2>1. rows[m].done \in 0..MaxRows /\ rows[m].done > 0
    BY DEF Rows
  <2> QED
    BY PreAssumption, <2>1
<1>3. first \in Injection(M, T)
  <2> HIDE DEF T
  <2> QED
    BY <1>2 DEF Injection, IsInjective
<1> HIDE DEF T, first
<1>4. Cardinality(M) <= Cardinality(T)
  BY <1>1, <1>3, FS_Injection
<1> QED
  BY <1>4 DEF Completed, T

(* No count falls while no completed row is lost.                          *)
LEMMA CountGrows ==
  ASSUME NEW old \in [Template -> Rows], NEW rows \in [Template -> Rows],
         \A m \in Template : rows[m].done >= old[m].done,
         NEW m \in Template, Enough(old, m)
  PROVE  Enough(rows, m)
<1> DEFINE M == DependsOn[m]
           S == {p \in M \X (1..MaxRows) : p[2] <= old[p[1]].done}
           T == {p \in M \X (1..MaxRows) : p[2] <= rows[p[1]].done}
<1>1. M \in SUBSET Template
  BY PreAssumption
<1>2. S \subseteq T
  <2> SUFFICES ASSUME NEW p \in S PROVE p[2] <= rows[p[1]].done
    OBVIOUS
  <2>1. p[1] \in Template /\ p[2] \in 1..MaxRows /\ p[2] <= old[p[1]].done
    BY <1>1
  <2>2. old[p[1]].done \in 0..MaxRows /\ rows[p[1]].done \in 0..MaxRows
    BY <2>1 DEF Rows
  <2> QED
    BY PreAssumption, <2>1, <2>2
<1>3. IsFiniteSet(T) /\ Completed(old, M) \in Nat /\ Completed(rows, M) \in Nat
      /\ Cardinality(M) \in Nat
  BY <1>1, CountsAreNumbers
<1> HIDE DEF S, T
<1>4. Cardinality(S) <= Cardinality(T)
  BY <1>2, <1>3, FS_Subset
<1>5. Completed(old, M) = Cardinality(S) /\ Completed(rows, M) = Cardinality(T)
  BY DEF Completed, S, T
<1> QED
  BY <1>3, <1>4, <1>5 DEF Enough

LEMMA GoTyped ==
  ASSUME Inv, NEW r \in Request, NEW pc, NEW id, Go(r, pc, id), UNCHANGED whose,
         pc \in {"out", "lookup", "insert", "again", "in"}, id \in UserId \cup {NoId},
         users' \in [Person -> UserId \cup {NoId}]
  PROVE  /\ UserTypeOK'
         /\ login'[r].id = id
         /\ \A q \in Request : q # r => login'[q] = login[q]
BY DEF Inv, PreTypeOK, UserTypeOK, Go

----------------------------------------------------------------------------
(* The middleware *)

(* A step that gives a request the id on record, or none.                  *)
LEMMA Known ==
  ASSUME Inv, NEW r \in Request, NEW pc, NEW id, Go(r, pc, id),
         pc \in {"out", "lookup", "insert", "again", "in"}, id \in {NoId, Recorded(r)},
         ~ask[r].checked, UNCHANGED <<whose, users, held, created, ask, seen, reply, direct>>
  PROVE  Inv'
<1> USE UserAssumption
<1>1. id \in UserId \cup {NoId} /\ users' \in [Person -> UserId \cup {NoId}]
  BY DEF Inv, PreTypeOK, UserTypeOK, Recorded
<1>2. /\ UserTypeOK' /\ login'[r].id = id
      /\ \A q \in Request : q # r => login'[q] = login[q]
  BY <1>1, GoTyped
<1>3. OneIdentity'
  BY <1>2 DEF Inv, OneIdentity, Recorded
<1>4. SeenCompleted'
  BY DEF Inv, SeenCompleted, Recorded
<1>5. AskedFor'
  BY <1>2 DEF Inv, AskedFor
<1> QED
  BY <1>2, <1>3, <1>4, <1>5, RowsKept DEF Inv, PreTypeOK, Asks, ReadyStarts

(* A step that puts a person without a record on record.                   *)
LEMMA Registered ==
  ASSUME Inv, NEW r \in Request, NEW new \in UserId, NEW id \in {NoId, new},
         Recorded(r) = NoId, Unused(new), users' = [users EXCEPT ![whose[r]] = new],
         Go(r, "in", id), UNCHANGED <<whose, held, created, ask, seen, reply, direct>>
  PROVE  Inv'
<1> USE UserAssumption
<1>1. /\ users \in [Person -> UserId \cup {NoId}] /\ whose \in [Request -> Person]
      /\ login \in [Request -> Logins]
  BY DEF Inv, PreTypeOK, UserTypeOK, Logins
<1>2. /\ users' \in [Person -> UserId \cup {NoId}] /\ users'[whose[r]] = new
      /\ \A p \in Person : p # whose[r] => users'[p] = users[p]
  BY <1>1
<1>3. /\ UserTypeOK' /\ login'[r].id = id
      /\ \A q \in Request : q # r => login'[q] = login[q]
  BY <1>2, GoTyped
<1>4. \A q \in Request : whose[q] = whose[r] => login[q].id = NoId /\ Recorded(q) = NoId
  BY DEF Inv, OneIdentity, Recorded
<1>5. OneIdentity'
  <2>1. ASSUME NEW q \in Request PROVE login'[q].id \in {NoId, users'[whose[q]]}
    <3>1. CASE q = r
      BY <1>2, <1>3, <3>1
    <3>2. CASE q # r /\ whose[q] = whose[r]
      BY <1>3, <1>4, <3>2
    <3>3. CASE q # r /\ whose[q] # whose[r]
      BY <1>1, <1>2, <1>3, <3>3 DEF Inv, OneIdentity, Recorded
    <3> QED
      BY <3>1, <3>2, <3>3
  <2>2. ASSUME NEW p \in Person, NEW q \in Person, users'[p] = users'[q]
        PROVE  p = q \/ users'[p] = NoId
    BY <1>1, <1>2, <2>2 DEF Inv, OneIdentity, Unused
  <2> QED
    BY <2>1, <2>2 DEF OneIdentity, Recorded
<1>6. SeenCompleted'
  <2> SUFFICES ASSUME NEW q \in Request, NEW m \in Template, seen[q][m] = "COMPLETED"
               PROVE  users'[whose[q]] \in UserId /\ held[users'[whose[q]]][m].done > 0
    BY DEF SeenCompleted, Recorded
  <2>1. Recorded(q) \in UserId /\ held[Recorded(q)][m].done > 0
    BY DEF Inv, SeenCompleted
  <2>2. whose[q] # whose[r]
    BY <1>4, <2>1
  <2> QED
    BY <1>1, <1>2, <2>1, <2>2 DEF Recorded
<1>7. AskedFor'
  <2>1. ~ask[r].checked
    BY <1>4 DEF Inv, AskedFor
  <2> QED
    BY <1>3, <2>1 DEF Inv, AskedFor
<1> QED
  BY <1>3, <1>5, <1>6, <1>7, RowsKept DEF Inv, PreTypeOK, Asks, ReadyStarts

LEMMA MiddlewareStep == ASSUME Inv, NEW r \in Request, Middleware(r) PROVE Inv'
<1> USE UserAssumption
<1>1. Recorded(r) \in UserId \cup {NoId} /\ users \in [Person -> UserId \cup {NoId}]
  BY DEF Inv, PreTypeOK, UserTypeOK, Recorded
<1>2. login[r].pc \in {"lookup", "insert", "again"} /\ ~ask[r].checked
  BY DEF Inv, AskedFor, Middleware, Identify, Lookup, Insert, Again, StatementFails, At
<1>3. UNCHANGED <<whose, held, created, ask, seen, reply, direct>>
  BY DEF Middleware, Identify, Lookup, Insert, Again, StatementFails
<1>4. CASE Lookup(r)
  BY <1>2, <1>3, <1>4, Known DEF Lookup
<1>5. CASE Insert(r)
  <2>1. CASE Recorded(r) = NoId
    <3>1. PICK id \in UserId : /\ Unused(id) /\ Go(r, "in", id)
                               /\ users' = [users EXCEPT ![whose[r]] = id]
      BY <1>5, <2>1 DEF Insert
    <3> QED
      BY <1>3, <2>1, <3>1, Registered
  <2>2. CASE Recorded(r) # NoId
    BY <1>2, <1>3, <1>5, <2>2, Known DEF Insert
  <2> QED
    BY <2>1, <2>2
<1>6. CASE Again(r)
  BY <1>2, <1>3, <1>6, Known DEF Again
<1>7. CASE StatementFails(r)
  <2>1. CASE UNCHANGED users
    BY <1>2, <1>3, <1>7, <2>1, Known DEF StatementFails
  <2>2. CASE users' # users
    <3>1. PICK id \in UserId : /\ Unused(id) /\ Recorded(r) = NoId
                               /\ users' = [users EXCEPT ![whose[r]] = id]
      BY <1>7, <2>2 DEF StatementFails
    <3> QED
      BY <1>3, <1>7, <3>1, Registered DEF StatementFails
  <2> QED
    BY <2>1, <2>2
<1> QED
  BY <1>4, <1>5, <1>6, <1>7 DEF Middleware, Identify

----------------------------------------------------------------------------
(* The handlers *)

(* What every answer has in common.                                        *)
LEMMA AnswerKept ==
  ASSUME Inv, NEW r \in Request, Done(r, "none"), UNCHANGED <<whose, users>>
  PROVE  /\ UserTypeOK' /\ OneIdentity'
         /\ ask' \in [Request -> Asks] /\ reply' \in [Request -> {"none", "refused"}]
         /\ ReadyStarts' /\ ask'[r] = NotAsking
         /\ \A q \in Request : q # r => ask'[q] = ask[q] /\ login'[q] = login[q]
<1>1. NotAsking \in Asks
  BY DEF NotAsking, Asks
<1>2. Go(r, "out", NoId) /\ users' \in [Person -> UserId \cup {NoId}]
  BY DEF Done, Leave, Inv, PreTypeOK, UserTypeOK
<1>3. /\ UserTypeOK' /\ login'[r].id = NoId
      /\ \A q \in Request : q # r => login'[q] = login[q]
  BY <1>2, GoTyped
<1>4. OneIdentity'
  BY <1>3 DEF Inv, OneIdentity, Recorded
<1>5. ask \in [Request -> Asks] /\ reply \in [Request -> {"none", "refused"}]
  BY DEF Inv, PreTypeOK, Asks
<1> QED
  BY <1>1, <1>3, <1>4, <1>5 DEF Done, Inv, ReadyStarts

LEMMA AnsweredAsked ==
  ASSUME Inv, NEW r \in Request, ask'[r] = NotAsking,
         \A q \in Request : q # r => ask'[q] = ask[q] /\ login'[q] = login[q] /\ seen'[q] = seen[q],
         held' \in [UserId -> [Template -> Rows]],
         \A i \in UserId, m \in Template : held'[i][m].done >= held[i][m].done
  PROVE  AskedFor'
<1> SUFFICES ASSUME NEW q \in Request, q # r
             PROVE  /\ ask[q].offered => ask[q].what \in Template
                          /\ \A d \in DependsOn[ask[q].what] : seen[q][d] = "COMPLETED"
                    /\ ask[q].checked =>
                         /\ ask[q].what \in Template /\ login[q].pc = "in" /\ login[q].id \in UserId
                         /\ Enough(held'[login[q].id], ask[q].what)
  BY DEF AskedFor, NotAsking
<1>1. ASSUME ask[q].checked PROVE Enough(held'[login[q].id], ask[q].what)
  <2>1. /\ ask[q].what \in Template /\ login[q].id \in UserId
        /\ Enough(held[login[q].id], ask[q].what)
    BY <1>1 DEF Inv, AskedFor
  <2>2. held \in [UserId -> [Template -> Rows]]
    BY DEF Inv, PreTypeOK, Rows
  <2> DEFINE i == login[q].id
             m == ask[q].what
  <2>3. /\ held[i] \in [Template -> Rows] /\ held'[i] \in [Template -> Rows]
        /\ \A n \in Template : held'[i][n].done >= held[i][n].done
        /\ m \in Template /\ Enough(held[i], m)
    BY <2>1, <2>2
  <2> HIDE DEF i, m
  <2>4. Enough(held'[i], m)
    BY <2>3, CountGrows
  <2> QED
    BY <2>4 DEF i, m
<1> QED
  BY <1>1 DEF Inv, AskedFor

(* An answer that leaves the rows alone.                                   *)
LEMMA AnsweredKept ==
  ASSUME Inv, NEW r \in Request, ask'[r] = NotAsking, held' = held,
         \A q \in Request : q # r => ask'[q] = ask[q] /\ login'[q] = login[q] /\ seen'[q] = seen[q]
  PROVE  AskedFor'
<1>1. held' \in [UserId -> [Template -> Rows]]
      /\ \A i \in UserId, m \in Template : held'[i][m].done >= held[i][m].done
  BY DEF Inv, PreTypeOK, Rows
<1> QED
  BY <1>1, AnsweredAsked

LEMMA ListStep == ASSUME Inv, NEW r \in Request, List(r) PROVE Inv'
<1> USE UserAssumption
<1> DEFINE id == login[r].id
<1>1. PICK f \in Representatives(RowsOf(id)) : seen' = [seen EXCEPT ![r] = Computed(f)]
  BY DEF List
<1>2. UNCHANGED <<whose, users, held, created, direct>> /\ Done(r, "none")
  BY DEF List
<1>3. /\ UserTypeOK' /\ OneIdentity'
      /\ ask' \in [Request -> Asks] /\ reply' \in [Request -> {"none", "refused"}]
      /\ ReadyStarts' /\ ask'[r] = NotAsking
      /\ \A q \in Request : q # r => ask'[q] = ask[q] /\ login'[q] = login[q]
  BY <1>2, AnswerKept
<1>4. f \in [Template -> {"none", "IN_PROGRESS", "COMPLETED"}]
  BY DEF Representatives
<1>5. Computed(f) \in [Template -> States]
  BY <1>4 DEF Computed, States
<1>6. seen \in [Request -> [Template -> States]]
  BY DEF Inv, PreTypeOK
<1>7. ASSUME NEW m \in Template, Computed(f)[m] = "COMPLETED"
      PROVE  Recorded(r) \in UserId /\ held[Recorded(r)][m].done > 0
  <2>1. f[m] = "COMPLETED"
    BY <1>4, <1>7 DEF Computed
  <2>2. "COMPLETED" \in Shown(RowsOf(id), m)
    BY <2>1 DEF Representatives
  <2>3. RowsOf(id)[m].done > 0
    BY <2>2 DEF Shown
  <2>4. id # NoId
    BY <2>3 DEF RowsOf, NoRows
  <2>5. id = Recorded(r) /\ id \in UserId
    BY <2>4 DEF Inv, OneIdentity, PreTypeOK, UserTypeOK
  <2> QED
    BY <2>3, <2>4, <2>5 DEF RowsOf
<1>8. SeenCompleted'
  <2> SUFFICES ASSUME NEW q \in Request, NEW m \in Template, seen'[q][m] = "COMPLETED"
               PROVE  Recorded(q) \in UserId /\ held[Recorded(q)][m].done > 0
    BY <1>2 DEF SeenCompleted, Recorded
  <2>1. CASE q = r
    BY <1>1, <1>6, <1>7, <2>1
  <2>2. CASE q # r
    BY <1>1, <1>6, <2>2 DEF Inv, SeenCompleted
  <2> QED
    BY <2>1, <2>2
<1>9. seen' \in [Request -> [Template -> States]]
      /\ \A q \in Request : q # r => seen'[q] = seen[q]
  BY <1>1, <1>5, <1>6
<1>10. AskedFor'
  BY <1>2, <1>3, <1>9, AnsweredKept
<1> QED
  BY <1>2, <1>3, <1>8, <1>9, <1>10, RowsKept

LEMMA RequestFailsStep ==
  ASSUME Inv, NEW r \in Request, Done(r, "none"),
         UNCHANGED <<whose, users, held, created, seen, direct>>
  PROVE  Inv'
<1>1. /\ UserTypeOK' /\ OneIdentity'
      /\ ask' \in [Request -> Asks] /\ reply' \in [Request -> {"none", "refused"}]
      /\ ReadyStarts' /\ ask'[r] = NotAsking
      /\ \A q \in Request : q # r => ask'[q] = ask[q] /\ login'[q] = login[q]
  BY AnswerKept
<1>2. SeenCompleted' /\ seen' \in [Request -> [Template -> States]]
  BY DEF Inv, SeenCompleted, Recorded, PreTypeOK
<1>3. AskedFor'
  BY <1>1, AnsweredKept
<1> QED
  BY <1>1, <1>2, <1>3, RowsKept

LEMMA CheckStep == ASSUME Inv, NEW r \in Request, CheckDependencies(r) PROVE Inv'
<1> USE UserAssumption
<1> DEFINE m == ask[r].what
           id == login[r].id
<1>1. UNCHANGED <<whose, users, held, created, seen, direct>> /\ m \in Template
      /\ login[r].pc = "in" /\ id # NoId
  BY DEF CheckDependencies, At
<1>2. /\ id \in UserId /\ id = Recorded(r) /\ RowsOf(id) = held[id]
      /\ held[id] \in [Template -> Rows] /\ DependsOn[m] \in SUBSET Template
  BY <1>1, PreAssumption DEF Inv, PreTypeOK, UserTypeOK, OneIdentity, RowsOf, Rows
<1>3. /\ Cardinality(DependsOn[m]) \in Nat /\ Completed(held[id], DependsOn[m]) \in Nat
  BY <1>2, CountsAreNumbers
<1>4. ask[r].offered => Enough(held[id], m)
  <2> SUFFICES ASSUME ask[r].offered PROVE Enough(held[id], m)
    OBVIOUS
  <2>1. \A d \in DependsOn[m] : held[id][d].done > 0
    BY <1>2 DEF Inv, AskedFor, SeenCompleted
  <2>2. Cardinality(DependsOn[m]) <= Completed(held[id], DependsOn[m])
    BY <1>2, <2>1, OneRowOfEach
  <2> QED
    BY <1>3, <2>2 DEF Enough
<1>5. IF ~Enough(held[id], m) THEN Refuse(r) ELSE Pass(r)
  BY <1>2, <1>3 DEF CheckDependencies, Enough
<1>6. CASE ~Enough(held[id], m)
  <2>1. Done(r, "none")
    BY <1>4, <1>5, <1>6 DEF Refuse
  <2> QED
    BY <1>1, <2>1, RequestFailsStep
<1>7. CASE Enough(held[id], m)
  <2>1. UNCHANGED <<login, reply>> /\ ask' = [ask EXCEPT ![r] = [@ EXCEPT !.checked = TRUE]]
    BY <1>5, <1>7 DEF Pass
  <2>2. ask \in [Request -> Asks]
    BY DEF Inv, PreTypeOK, Asks
  <2> DEFINE marked == [ask[r] EXCEPT !.checked = TRUE]
  <2>3. marked \in Asks /\ marked.what = m /\ marked.offered = ask[r].offered
    BY <2>2 DEF Asks
  <2>4. /\ ask' \in [Request -> Asks] /\ ask'[r].what = m /\ ask'[r].offered = ask[r].offered
        /\ \A q \in Request : q # r => ask'[q] = ask[q]
    BY <2>1, <2>2, <2>3
  <2>5. AskedFor'
    <3> SUFFICES ASSUME NEW q \in Request
                 PROVE  /\ ask'[q].offered => ask'[q].what \in Template
                              /\ \A d \in DependsOn[ask'[q].what] : seen[q][d] = "COMPLETED"
                        /\ ask'[q].checked =>
                             /\ ask'[q].what \in Template /\ login[q].pc = "in"
                             /\ login[q].id \in UserId
                             /\ Enough(held[login[q].id], ask'[q].what)
      BY <1>1, <2>1 DEF AskedFor
    <3>1. CASE q = r
      BY <1>1, <1>2, <1>7, <2>4, <3>1 DEF Inv, AskedFor
    <3>2. CASE q # r
      BY <2>4, <3>2 DEF Inv, AskedFor
    <3> QED
      BY <3>1, <3>2
  <2>6. UserTypeOK' /\ OneIdentity' /\ SeenCompleted'
    BY <1>1, <2>1 DEF Inv, PreTypeOK, UserTypeOK, OneIdentity, SeenCompleted, Recorded
  <2> QED
    BY <1>1, <2>1, <2>4, <2>5, <2>6, RowsKept DEF Inv, PreTypeOK, ReadyStarts
<1> QED
  BY <1>6, <1>7

LEMMA AskStep ==
  ASSUME Inv, NEW r \in Request, NEW w \in Template \cup {Listing}, NEW o \in BOOLEAN, Enter(r),
         ask' = [ask EXCEPT ![r] = [what |-> w, checked |-> FALSE, offered |-> o]],
         reply' = [reply EXCEPT ![r] = "none"], UNCHANGED <<held, created, seen, direct>>,
         o => w \in Template /\ Offered(r, w)
  PROVE  Inv'
<1> USE UserAssumption
<1>1. UNCHANGED <<whose, users>> /\ Go(r, "lookup", NoId) /\ users' \in [Person -> UserId \cup {NoId}]
  BY DEF Enter, Inv, PreTypeOK, UserTypeOK
<1>2. /\ UserTypeOK' /\ login'[r].id = NoId
      /\ \A q \in Request : q # r => login'[q] = login[q]
  BY <1>1, GoTyped
<1>3. OneIdentity' /\ SeenCompleted'
  BY <1>1, <1>2 DEF Inv, OneIdentity, SeenCompleted, Recorded
<1>4. ask \in [Request -> Asks] /\ reply \in [Request -> {"none", "refused"}]
  BY DEF Inv, PreTypeOK, Asks
<1>5. [what |-> w, checked |-> FALSE, offered |-> o] \in Asks
  BY DEF Asks
<1>6. /\ ask' \in [Request -> Asks] /\ reply' \in [Request -> {"none", "refused"}]
      /\ ask'[r].what = w /\ ask'[r].checked = FALSE /\ ask'[r].offered = o
      /\ \A q \in Request : q # r => ask'[q] = ask[q]
  BY <1>4, <1>5
<1>7. AskedFor'
  BY <1>2, <1>6 DEF Inv, AskedFor, Offered
<1> QED
  BY <1>2, <1>3, <1>6, <1>7, RowsKept DEF Inv, PreTypeOK, ReadyStarts

----------------------------------------------------------------------------
(* The rows *)

(* Rows change their counts, and nothing that was completed is lost.       *)
LEMMA RowsStep ==
  ASSUME Inv, NEW i \in UserId, NEW m \in Template, NEW row \in Rows,
         SetRow(i, m, row),
         created' \in 0..MaxRows, created <= created',
         row.open + row.done <= created', row.done >= held[i][m].done,
         direct \subseteq direct',
         row.open + row.done > held[i][m].open + held[i][m].done =>
           /\ Enough(held[i], m)
           /\ <<i, m>> \notin direct' => \A d \in DependsOn[m] : held[i][d].done > 0,
         UNCHANGED <<whose, users, seen>>
  PROVE  /\ held' \in [UserId -> [Template -> Rows]]
         /\ \A j \in UserId, n \in Template : held'[j][n].done >= held[j][n].done
         /\ Counted' /\ DependenciesMet' /\ SeenCompleted'
<1> USE PreAssumption
<1>1. held \in [UserId -> [Template -> Rows]] /\ created \in 0..MaxRows
  BY DEF Inv, PreTypeOK, Rows
<1>2. held' \in [UserId -> [Template -> Rows]]
  BY <1>1 DEF SetRow
<1>3. /\ held'[i][m] = row
      /\ \A j \in UserId, n \in Template : j # i \/ n # m => held'[j][n] = held[j][n]
  BY <1>1 DEF SetRow
<1>4. \A j \in UserId, n \in Template : held'[j][n].done >= held[j][n].done
  BY <1>1, <1>3 DEF Rows
<1>5. Counted'
  <2> SUFFICES ASSUME NEW j \in UserId, NEW n \in Template
               PROVE  held'[j][n].open + held'[j][n].done <= created'
    BY DEF Counted
  <2>1. held[j][n] \in Rows /\ held[j][n].open + held[j][n].done <= created
    BY <1>1 DEF Inv, Counted
  <2> QED
    BY <1>1, <1>3, <2>1 DEF Rows
<1>6. DependenciesMet'
  <2> SUFFICES ASSUME NEW j \in UserId, NEW n \in Template,
                      held'[j][n].open + held'[j][n].done > 0
               PROVE  /\ Enough(held'[j], n)
                      /\ <<j, n>> \notin direct' => \A d \in DependsOn[n] : held'[j][d].done > 0
    BY DEF DependenciesMet, Enough
  <2>1. held[j] \in [Template -> Rows] /\ held'[j] \in [Template -> Rows]
        /\ held[j][n] \in Rows /\ DependsOn[n] \in SUBSET Template
    BY <1>1, <1>2
  <2>2. /\ Enough(held[j], n)
        /\ <<j, n>> \notin direct' => \A d \in DependsOn[n] : held[j][d].done > 0
    <3>1. CASE held[j][n].open + held[j][n].done > 0
      BY <3>1 DEF Inv, DependenciesMet, Enough
    <3>2. CASE ~(held[j][n].open + held[j][n].done > 0)
      <4>1. j = i /\ n = m
        BY <1>3, <3>2
      <4>2. row.open + row.done > held[i][m].open + held[i][m].done
        BY <1>3, <2>1, <3>2, <4>1 DEF Rows
      <4> QED
        BY <4>1, <4>2
    <3> QED
      BY <3>1, <3>2
  <2>3. Enough(held'[j], n)
    BY <1>4, <2>1, <2>2, CountGrows
  <2>4. ASSUME NEW d \in DependsOn[n], <<j, n>> \notin direct' PROVE held'[j][d].done > 0
    <3>1. held[j][d].done > 0 /\ held[j][d] \in Rows /\ held'[j][d] \in Rows /\ d \in Template
      BY <2>1, <2>2, <2>4
    <3> QED
      BY <1>4, <3>1 DEF Rows
  <2> QED
    BY <2>3, <2>4
<1>7. SeenCompleted'
  <2> SUFFICES ASSUME NEW q \in Request, NEW n \in Template, seen[q][n] = "COMPLETED"
               PROVE  Recorded(q) \in UserId /\ held'[Recorded(q)][n].done > 0
    BY DEF SeenCompleted, Recorded
  <2>1. Recorded(q) \in UserId /\ held[Recorded(q)][n].done > 0
    BY DEF Inv, SeenCompleted
  <2>2. held[Recorded(q)][n] \in Rows /\ held'[Recorded(q)][n] \in Rows
    BY <1>1, <1>2, <2>1
  <2> QED
    BY <1>4, <2>1, <2>2 DEF Rows
<1> QED
  BY <1>2, <1>4, <1>5, <1>6, <1>7

LEMMA CreateStep == ASSUME Inv, NEW r \in Request, Create(r) PROVE Inv'
<1> USE UserAssumption, PreAssumption
<1> DEFINE i == login[r].id
           m == ask[r].what
           row == [held[i][m] EXCEPT !.open = @ + 1]
<1>1. i \in UserId /\ m \in Template /\ i = Recorded(r) /\ Enough(held[i], m)
  BY DEF Inv, AskedFor, Create, OneIdentity
<1>2. held[i][m] \in Rows /\ created \in 0..MaxRows /\ created < MaxRows /\ created' = created + 1
      /\ held[i][m].open + held[i][m].done <= created
  BY <1>1 DEF Inv, PreTypeOK, Rows, Create, Counted
<1>3. row \in Rows /\ row.open = held[i][m].open + 1 /\ row.done = held[i][m].done
  <2>1. held[i][m].open + 1 \in 0..MaxRows
    BY <1>2 DEF Rows
  <2> QED
    BY <1>2, <2>1 DEF Rows
<1>4. ASSUME <<i, m>> \notin direct', NEW d \in DependsOn[m] PROVE held[i][d].done > 0
  <2>1. ask[r].offered
    BY <1>4 DEF Create
  <2>2. d \in Template /\ seen[r][d] = "COMPLETED"
    BY <1>1, <2>1 DEF Inv, AskedFor
  <2> QED
    BY <1>1, <2>2 DEF Inv, SeenCompleted
<1>4b. direct \subseteq direct' /\ direct' \subseteq UserId \X Template
  BY <1>1 DEF Create, Inv, PreTypeOK
<1>5. SetRow(i, m, row)
  BY DEF Create
<1>5b. UNCHANGED <<whose, users, seen>> /\ Done(r, "none")
  BY DEF Create
<1>6. /\ row.open + row.done <= created' /\ row.done >= held[i][m].done
      /\ created <= created' /\ created' \in 0..MaxRows
  BY <1>2, <1>3 DEF Rows
<1> HIDE DEF i, m, row
<1>7. /\ held' \in [UserId -> [Template -> Rows]]
      /\ \A j \in UserId, n \in Template : held'[j][n].done >= held[j][n].done
      /\ Counted' /\ DependenciesMet' /\ SeenCompleted'
  BY <1>1, <1>3, <1>4, <1>4b, <1>5, <1>5b, <1>6, RowsStep
<1>8. /\ UserTypeOK' /\ OneIdentity'
      /\ ask' \in [Request -> Asks] /\ reply' \in [Request -> {"none", "refused"}]
      /\ ReadyStarts' /\ ask'[r] = NotAsking
      /\ \A q \in Request : q # r => ask'[q] = ask[q] /\ login'[q] = login[q]
  BY <1>5b, AnswerKept
<1>9. AskedFor'
  BY <1>5b, <1>7, <1>8, AnsweredAsked
<1> QED
  BY <1>4b, <1>5b, <1>6, <1>7, <1>8, <1>9 DEF Inv, PreTypeOK, Rows, Asks

LEMMA CompleteStep ==
  ASSUME Inv, NEW i \in UserId, NEW m \in Template, OnWorkflowCompleted(i, m) PROVE Inv'
<1> USE PreAssumption
<1> DEFINE row == [open |-> held[i][m].open - 1, done |-> held[i][m].done + 1]
<1>1. held \in [UserId -> [Template -> Rows]] /\ created \in 0..MaxRows
      /\ held[i][m].open + held[i][m].done <= created /\ held[i][m].open > 0
  BY DEF Inv, PreTypeOK, Rows, Counted, OnWorkflowCompleted
<1>2. held[i][m] \in Rows
  BY <1>1
<1>3. row \in Rows /\ row.open + row.done = held[i][m].open + held[i][m].done
      /\ row.done >= held[i][m].done
  BY <1>1, <1>2 DEF Rows
<1>4. SetRow(i, m, row)
  BY DEF OnWorkflowCompleted
<1>4b. UNCHANGED <<whose, users, login, created, ask, seen, reply, direct>>
  BY DEF OnWorkflowCompleted
<1>5. /\ created' \in 0..MaxRows /\ created <= created' /\ row.open + row.done <= created'
      /\ ~(row.open + row.done > held[i][m].open + held[i][m].done)
  BY <1>1, <1>2, <1>3, <1>4b DEF Rows
<1> HIDE DEF row
<1>6. /\ held' \in [UserId -> [Template -> Rows]]
      /\ \A j \in UserId, n \in Template : held'[j][n].done >= held[j][n].done
      /\ Counted' /\ DependenciesMet' /\ SeenCompleted'
  BY <1>3, <1>4, <1>4b, <1>5, RowsStep
<1>7. AskedFor'
  <2> SUFFICES ASSUME NEW q \in Request, ask[q].checked
               PROVE  Enough(held'[login[q].id], ask[q].what)
    BY <1>4b DEF Inv, AskedFor
  <2>1. ask[q].what \in Template /\ login[q].id \in UserId
        /\ Enough(held[login[q].id], ask[q].what)
    BY DEF Inv, AskedFor
  <2> QED
    BY <1>1, <1>6, <2>1, CountGrows
<1>8. UserTypeOK' /\ OneIdentity'
  BY <1>4b DEF Inv, PreTypeOK, UserTypeOK, OneIdentity, Recorded
<1> QED
  BY <1>4b, <1>5, <1>6, <1>7, <1>8 DEF Inv, PreTypeOK, Rows, ReadyStarts

----------------------------------------------------------------------------

LEMMA NextInv == Inv /\ [PreNext]_preVars => Inv'
<1> SUFFICES ASSUME Inv, [PreNext]_preVars PROVE Inv'
  OBVIOUS
<1>1. CASE UNCHANGED preVars
  BY <1>1 DEF preVars, Inv, PreTypeOK, UserTypeOK, OneIdentity, Counted, SeenCompleted,
     AskedFor, DependenciesMet, Recorded, ReadyStarts
<1>2. ASSUME NEW i \in UserId, NEW m \in Template, OnWorkflowCompleted(i, m) PROVE Inv'
  BY <1>2, CompleteStep
<1>3. ASSUME NEW r \in Request, AskListing(r) PROVE Inv'
  <2>1. [NotAsking EXCEPT !.what = Listing] = [what |-> Listing, checked |-> FALSE, offered |-> FALSE]
    BY DEF NotAsking
  <2> QED
    BY <1>3, <2>1, AskStep, PreAssumption DEF AskListing
<1>4. ASSUME NEW r \in Request, NEW m \in Template, AskStart(r, m) PROVE Inv'
  <2>1. Offered(r, m) \in BOOLEAN
    BY DEF Offered
  <2> QED
    BY <1>4, <2>1, AskStep DEF AskStart
<1>5. ASSUME NEW r \in Request, Middleware(r) \/ List(r) \/ CheckDependencies(r) \/ Create(r)
      PROVE  Inv'
  BY <1>5, MiddlewareStep, ListStep, CheckStep, CreateStep
<1>6. ASSUME NEW r \in Request, RequestFails(r) PROVE Inv'
  BY <1>6, RequestFailsStep DEF RequestFails
<1> QED
  BY <1>1, <1>2, <1>3, <1>4, <1>5, <1>6 DEF PreNext

THEOREM Invariance == PreSpec => []Inv
<1> QED
  BY InitInv, NextInv, PTL DEF PreSpec

(* One person, one internal id, however many requests make the record at   *)
(* the same time and whatever statement of theirs fails.                   *)
THEOREM IdentityIsOne == PreSpec => []OneIdentity
<1>1. Inv => OneIdentity
  BY DEF Inv
<1> QED
  BY Invariance, <1>1, PTL

(* What the listing offers is not refused for its dependencies, whatever   *)
(* was completed or started since the listing was computed.                *)
THEOREM OfferedStartsPass == PreSpec => []ReadyStarts
<1>1. Inv => ReadyStarts
  BY DEF Inv
<1> QED
  BY Invariance, <1>1, PTL

(* DependenciesMet, for starts of any template, offered or not, any number *)
(* of tabs and every order of their steps: the server's count admits no    *)
(* row whose trader has fewer completed rows of its dependencies than it   *)
(* has dependencies, and with the portal's listing in front of it each     *)
(* dependency is completed.                                                *)
THEOREM DependenciesAreMet == PreSpec => []DependenciesMet
<1>1. Inv => DependenciesMet
  BY DEF Inv
<1> QED
  BY Invariance, <1>1, PTL
=============================================================================
