----------------------------- MODULE ServiceProofs -----------------------------
(***************************************************************************)
(* Proofs about the services with clocks and files: KeyCache, for every    *)
(* set of requests, tokens and keys and any number of key changes;         *)
(* RemoteToken, for every set of callers and all timeouts that satisfy     *)
(* TimeoutAssumption; LocalFiles, for any number of PUT and GET requests.  *)
(* A theorem speaks of one module's specification, the variables of the    *)
(* others are left free by it; the last one is about all services side by  *)
(* side, with those of PreConsignmentProofs.                               *)
(***************************************************************************)
EXTENDS PreConsignmentProofs, MCServices

----------------------------------------------------------------------------
(* KeyCache                                                                *)

Steps == {"idle", "stamp", "read", "lock", "fetch", "answer"}
Checks == [pc : Steps, token : Token \cup {NoToken}, force : BOOLEAN,
           stamp : 0..Horizon, keys : SUBSET Kid]

(* What a set of keys read at time t may still hold.                       *)
Fresh(keys, t) == \A k \in keys : k \in served \/ t <= withdrawn[k]

(* A request that waits for the lock or the network has not waited longer  *)
(* than one fetch; what it fetched is as fresh as the beginning of that.   *)
Waiting(v) ==
  LET c == check[v] IN
  /\ c.pc \in {"fetch", "answer"} => writer = v
  /\ c.pc \in {"read", "fetch", "answer"} =>
       c.stamp <= now /\ now <= c.stamp + FetchTime
  /\ c.pc = "answer" => Fresh(c.keys, c.stamp)

(* A request whose key is missing anywhere has been without it at its      *)
(* provider.                                                               *)
Missing(v) ==
  LET c == check[v] IN
  /\ c.pc # "idle" => lacked[v] \/ c.token.kid \in served
  /\ c.pc = "answer" => lacked[v] \/ c.token.kid \in c.keys
  /\ verdict[v] = "unknown key" => lacked[v]

(* Readers that wait behind a fetch came after it began.                   *)
Holds ==
  writer # Unlocked =>
    /\ check[writer].pc \in {"fetch", "answer"}
    /\ \A u \in Verifier : check[u].pc = "read" => check[writer].stamp <= check[u].stamp

KeyInv == /\ KeyTypeOK
       /\ fetched <= now /\ Fresh(cache, fetched)
       /\ Holds
       /\ \A v \in Verifier : Waiting(v) /\ Missing(v)

LEMMA KeyTyping ==
  KeyTypeOK => /\ check \in [Verifier -> Checks] /\ now \in Nat /\ fetched \in Nat
               /\ \A k \in Kid : withdrawn[k] \in Nat
BY HorizonAssumption DEF KeyTypeOK, Checks, Steps

LEMMA IdleTyped == Idle \in Checks
BY HorizonAssumption DEF Idle, Checks, Steps

LEMMA KeyInitInv == KeyInit => KeyInv
<1> SUFFICES ASSUME KeyInit PROVE KeyInv
  OBVIOUS
<1> USE HorizonAssumption, KeyAssumption
<1>1. KeyTypeOK
  <2>1. check \in [Verifier -> Checks]
    BY IdleTyped DEF KeyInit
  <2>2. verdict \in [Verifier -> Verdicts] /\ lacked \in [Verifier -> BOOLEAN]
    BY DEF KeyInit, Verdicts
  <2> QED
    BY <2>1, <2>2 DEF KeyInit, KeyTypeOK, Checks, Steps
<1>2. ASSUME NEW v \in Verifier PROVE Waiting(v) /\ Missing(v)
  BY DEF KeyInit, Waiting, Missing, Idle
<1> QED
  BY <1>1, <1>2 DEF KeyInit, KeyInv, Fresh, Holds

(* A step of one request.                                                  *)
LEMMA RequestStep ==
  ASSUME KeyInv, NEW v \in Verifier, UNCHANGED <<now, served, rotations, withdrawn>>,
         check' \in [Verifier -> Checks], verdict' \in [Verifier -> Verdicts],
         lacked' \in [Verifier -> BOOLEAN],
         \A u \in Verifier : u # v =>
           check'[u] = check[u] /\ verdict'[u] = verdict[u] /\ lacked'[u] = lacked[u],
         cache' \in SUBSET Kid, fetched' \in 0..Horizon, fetched' <= now,
         \A k \in cache' : k \in served \/ fetched' <= withdrawn[k],
         writer' \in Verifier \cup {Unlocked}, writer \in {v, Unlocked} \/ UNCHANGED writer,
         Holds', Waiting(v)', Missing(v)'
  PROVE  KeyInv'
<1>1. KeyTypeOK'
  BY DEF KeyInv, KeyTypeOK, Checks, Steps
<1>2. ASSUME NEW u \in Verifier, u # v PROVE Waiting(u)' /\ Missing(u)'
  <2>1. Waiting(u) /\ Missing(u) /\ check'[u] = check[u]
    BY <1>2 DEF KeyInv
  <2>2. Missing(u)'
    BY <1>2, <2>1 DEF Missing
  <2>3. check[u].pc \in {"fetch", "answer"} => writer' = u
    BY <1>2, <2>1, KeyAssumption DEF Waiting
  <2>4. Waiting(u)'
    BY <2>1, <2>3 DEF Waiting, Fresh
  <2> QED
    BY <2>2, <2>4
<1> QED
  BY <1>1, <1>2 DEF KeyInv, Fresh

(* The update of one request.                                              *)
LEMMA Updated ==
  ASSUME KeyInv, NEW v \in Verifier, NEW k \in Checks, NEW w \in Verdicts,
         check' = [check EXCEPT ![v] = k],
         verdict' = [verdict EXCEPT ![v] = w] \/ (UNCHANGED verdict /\ w = verdict[v])
  PROVE  /\ check' \in [Verifier -> Checks] /\ verdict' \in [Verifier -> Verdicts]
         /\ check'[v] = k /\ verdict'[v] = w
         /\ \A u \in Verifier : u # v => check'[u] = check[u] /\ verdict'[u] = verdict[u]
BY KeyTyping DEF KeyInv, KeyTypeOK

(* A request ends or goes on without the lock, after it looked for its key *)
(* in a set of keys.                                                       *)
LEMMA UseStep ==
  ASSUME KeyInv, NEW v \in Verifier, NEW keys \in SUBSET Kid, Use(v, keys),
         check[v].pc # "idle",
         check[v].force => lacked[v] \/ check[v].token.kid \in keys,
         UNCHANGED <<now, served, rotations, withdrawn, lacked>>,
         cache' \in SUBSET Kid, fetched' \in 0..Horizon, fetched' <= now,
         \A k \in cache' : k \in served \/ fetched' <= withdrawn[k],
         \/ writer = v /\ writer' = Unlocked
         \/ writer = Unlocked /\ UNCHANGED writer
  PROVE  KeyInv'
<1> USE KeyAssumption
<1>1. check[v] \in Checks /\ verdict[v] \in Verdicts /\ lacked \in [Verifier -> BOOLEAN]
  BY KeyTyping DEF KeyInv, KeyTypeOK
<1>2. PICK k \in Checks, w \in Verdicts :
        /\ check' = [check EXCEPT ![v] = k]
        /\ verdict' = [verdict EXCEPT ![v] = w] \/ (UNCHANGED verdict /\ w = verdict[v])
        /\ k.pc \in {"idle", "stamp"}
        /\ k.pc # "idle" => k.token = check[v].token
        /\ w = "unknown key" => lacked[v]
  <2>1. CASE check[v].token.kid \in keys
    <3> DEFINE w == Judged(check[v].token)
    <3>1. w \in {"unauthorized", "user", "client"}
      BY DEF Judged
    <3> QED
      BY <2>1, <3>1, IdleTyped DEF Use, Answer, Verdicts, Idle
  <2>2. CASE check[v].token.kid \notin keys /\ check[v].force
    BY <2>2, IdleTyped DEF Use, Answer, Verdicts, Idle
  <2>3. CASE check[v].token.kid \notin keys /\ ~check[v].force
    <3> DEFINE k == [check[v] EXCEPT !.pc = "stamp", !.force = TRUE, !.keys = {}]
    <3>1. k \in Checks /\ k.pc = "stamp" /\ k.token = check[v].token
      BY <1>1 DEF Checks, Steps
    <3>2. check' = [check EXCEPT ![v] = k] /\ UNCHANGED verdict
      BY <2>3 DEF Use
    <3>3. verdict[v] = "unknown key" => lacked[v]
      BY DEF KeyInv, Missing
    <3> HIDE DEF k
    <3> QED
      BY <1>1, <3>1, <3>2, <3>3
  <2> QED
    BY <2>1, <2>2, <2>3
<1>3. /\ check' \in [Verifier -> Checks] /\ verdict' \in [Verifier -> Verdicts]
      /\ check'[v] = k /\ verdict'[v] = w
      /\ \A u \in Verifier : u # v => check'[u] = check[u] /\ verdict'[u] = verdict[u]
  BY <1>2, Updated
<1>4. Holds' /\ Waiting(v)' /\ writer' \in Verifier \cup {Unlocked}
  BY <1>2, <1>3 DEF Holds, Waiting
<1>5. Missing(v)'
  BY <1>2, <1>3 DEF KeyInv, Missing
<1>6. writer \in {v, Unlocked} \/ UNCHANGED writer
  OBVIOUS
<1> QED
  BY <1>1, <1>3, <1>4, <1>5, <1>6, RequestStep

----------------------------------------------------------------------------
(* The steps of a request *)

LEMMA ArriveStep == ASSUME KeyInv, NEW v \in Verifier, NEW t \in Token, Arrive(v, t) PROVE KeyInv'
<1> USE KeyAssumption, HorizonAssumption
<1>1. UNCHANGED <<now, served, rotations, withdrawn, cache, fetched, writer>>
      /\ check[v].pc = "idle" /\ lacked' = [lacked EXCEPT ![v] = t.kid \notin served]
  BY DEF Arrive
<1>2. PICK k \in Checks, w \in Verdicts :
        /\ check' = [check EXCEPT ![v] = k] /\ verdict' = [verdict EXCEPT ![v] = w]
        /\ k.pc \in {"idle", "stamp"} /\ w # "unknown key"
        /\ k.pc # "idle" => k.token = t
  <2>1. CASE Malformed(t)
    BY <2>1, IdleTyped DEF Arrive, Answer, Verdicts, Idle
  <2>2. CASE ~Malformed(t)
    <3> DEFINE k == [Idle EXCEPT !.pc = "stamp", !.token = t]
    <3>1. k \in Checks /\ k.pc = "stamp" /\ k.token = t
      BY IdleTyped DEF Checks, Steps
    <3> QED
      BY <2>2, <3>1 DEF Arrive, Verdicts
  <2> QED
    BY <2>1, <2>2
<1>3. /\ check' \in [Verifier -> Checks] /\ verdict' \in [Verifier -> Verdicts]
      /\ check'[v] = k /\ verdict'[v] = w
      /\ \A u \in Verifier : u # v => check'[u] = check[u] /\ verdict'[u] = verdict[u]
  BY <1>2, Updated
<1>4. lacked \in [Verifier -> BOOLEAN]
  BY DEF KeyInv, KeyTypeOK
<1>5. lacked' \in [Verifier -> BOOLEAN] /\ lacked'[v] = (t.kid \notin served)
      /\ \A u \in Verifier : u # v => lacked'[u] = lacked[u]
  BY <1>1, <1>4, Zenon
<1>6. Holds'
  <2>1. k.pc # "read"
    BY <1>2
  <2>2. CASE writer = Unlocked
    <3>1. writer' = Unlocked
      BY <1>1, <2>2
    <3> QED
      BY <3>1 DEF Holds
  <2>3. CASE writer # Unlocked
    <3>1. writer \in Verifier /\ check[writer].pc \in {"fetch", "answer"} /\ writer # v
          /\ writer' = writer
      BY <1>1, <2>3 DEF KeyInv, KeyTypeOK, Holds
    <3>2. check'[writer] = check[writer]
      BY <1>3, <3>1
    <3>3. ASSUME NEW u \in Verifier, check'[u].pc = "read"
          PROVE  check[writer].stamp <= check'[u].stamp
      <4>1. u # v /\ check'[u] = check[u]
        BY <1>3, <2>1, <3>3
      <4> QED
        BY <2>3, <3>3, <4>1 DEF KeyInv, Holds
    <3> QED
      BY <3>1, <3>2, <3>3 DEF Holds
  <2> QED
    BY <2>2, <2>3
<1>10. Waiting(v)'
  <2>1. k.pc \notin {"read", "fetch", "answer"}
    BY <1>2
  <2> QED
    BY <1>3, <2>1 DEF Waiting
<1>7. Missing(v)'
  BY <1>1, <1>2, <1>3, <1>5 DEF Missing
<1>8. /\ cache' \in SUBSET Kid /\ fetched' \in 0..Horizon /\ fetched' <= now
      /\ \A i \in cache' : i \in served \/ fetched' <= withdrawn[i]
      /\ writer' \in Verifier \cup {Unlocked}
  BY <1>1 DEF KeyInv, KeyTypeOK, Fresh
<1> QED
  BY <1>1, <1>3, <1>5, <1>6, <1>7, <1>8, <1>10, RequestStep

(* A step after which the request goes on with its token and the cache and *)
(* the verdicts are as they were.                                          *)
LEMMA GoesOn ==
  ASSUME KeyInv, NEW v \in Verifier, NEW k \in Checks, check' = [check EXCEPT ![v] = k],
         check[v].pc # "idle", k.token = check[v].token,
         UNCHANGED <<now, served, rotations, withdrawn, cache, fetched, verdict, lacked>>,
         writer' \in Verifier \cup {Unlocked}, writer \in {v, Unlocked} \/ UNCHANGED writer,
         Holds', Waiting(v)', k.pc = "answer" => k.keys = served
  PROVE  KeyInv'
<1>1. verdict[v] \in Verdicts
  BY DEF KeyInv, KeyTypeOK
<1>2. /\ check' \in [Verifier -> Checks] /\ verdict' \in [Verifier -> Verdicts]
      /\ check'[v] = k /\ verdict'[v] = verdict[v]
      /\ \A u \in Verifier : u # v => check'[u] = check[u] /\ verdict'[u] = verdict[u]
  BY <1>1, Updated
<1>3. Missing(v)'
  BY <1>2 DEF KeyInv, Missing
<1>4. /\ cache' \in SUBSET Kid /\ fetched' \in 0..Horizon /\ fetched' <= now
      /\ \A i \in cache' : i \in served \/ fetched' <= withdrawn[i]
      /\ lacked' \in [Verifier -> BOOLEAN]
      /\ \A u \in Verifier : lacked'[u] = lacked[u]
  BY DEF KeyInv, KeyTypeOK, Fresh
<1> QED
  BY <1>2, <1>3, <1>4, RequestStep

LEMMA StampStep == ASSUME KeyInv, NEW v \in Verifier, Stamp(v) PROVE KeyInv'
<1> USE KeyAssumption, HorizonAssumption
<1> DEFINE k == [check[v] EXCEPT !.pc = "read", !.stamp = now]
<1>1. check[v] \in Checks /\ now \in 0..Horizon /\ check \in [Verifier -> Checks]
  BY KeyTyping DEF KeyInv, KeyTypeOK
<1>2. k \in Checks /\ k.pc = "read" /\ k.stamp = now /\ k.token = check[v].token
  BY <1>1 DEF Checks, Steps
<1>3. check' = [check EXCEPT ![v] = k] /\ check[v].pc = "stamp"
      /\ UNCHANGED <<now, served, rotations, withdrawn, cache, fetched, writer, verdict, lacked>>
  BY DEF Stamp
<1> HIDE DEF k
<1>4. check'[v] = k /\ \A u \in Verifier : u # v => check'[u] = check[u]
  BY <1>1, <1>3
<1>5. Waiting(v)'
  BY <1>1, <1>2, <1>3, <1>4 DEF Waiting
<1>6. Holds'
  <2> SUFFICES ASSUME writer # Unlocked
               PROVE  /\ check'[writer].pc \in {"fetch", "answer"}
                      /\ \A u \in Verifier : check'[u].pc = "read" =>
                           check'[writer].stamp <= check'[u].stamp
    BY <1>3 DEF Holds
  <2>1. writer \in Verifier /\ check[writer].pc \in {"fetch", "answer"} /\ writer # v
    BY <1>3 DEF KeyInv, KeyTypeOK, Holds
  <2>2. check[writer].stamp <= now
    BY <2>1 DEF KeyInv, Waiting
  <2> QED
    BY <1>2, <1>4, <2>1, <2>2 DEF KeyInv, Holds
<1> QED
  BY <1>2, <1>3, <1>5, <1>6, GoesOn DEF KeyInv, KeyTypeOK

LEMMA ToLock ==
  ASSUME KeyInv, NEW v \in Verifier, To(v, "lock"), check[v].pc = "read",
         UNCHANGED <<now, served, rotations, withdrawn, cache, fetched, writer, lacked>>
  PROVE  KeyInv'
<1> DEFINE k == [check[v] EXCEPT !.pc = "lock"]
<1>1. check[v] \in Checks /\ check \in [Verifier -> Checks]
  BY KeyTyping DEF KeyInv
<1>2. k \in Checks /\ k.pc = "lock" /\ k.token = check[v].token
  BY <1>1 DEF Checks, Steps
<1>3. check' = [check EXCEPT ![v] = k] /\ UNCHANGED verdict
  BY DEF To
<1> HIDE DEF k
<1>4. check'[v] = k /\ \A u \in Verifier : u # v => check'[u] = check[u]
  BY <1>1, <1>3
<1>5. Waiting(v)'
  BY <1>2, <1>4 DEF Waiting
<1>6. Holds'
  BY <1>2, <1>4 DEF KeyInv, KeyTypeOK, Holds
<1> QED
  BY <1>2, <1>3, <1>5, <1>6, GoesOn DEF KeyInv, KeyTypeOK

LEMMA ReadStep == ASSUME KeyInv, NEW v \in Verifier, ReadCache(v) PROVE KeyInv'
<1>1. UNCHANGED <<now, served, rotations, withdrawn, cache, fetched, writer, lacked>>
      /\ check[v].pc = "read" /\ writer = Unlocked
  BY DEF ReadCache
<1>2. /\ cache \in SUBSET Kid /\ fetched' \in 0..Horizon /\ fetched' <= now
      /\ \A k \in cache' : k \in served \/ fetched' <= withdrawn[k]
  BY <1>1 DEF KeyInv, KeyTypeOK, Fresh
<1>3. CASE Use(v, cache) /\ ~check[v].force
  BY <1>1, <1>2, <1>3, UseStep
<1>4. CASE To(v, "lock")
  BY <1>1, <1>4, ToLock
<1> QED
  BY <1>3, <1>4 DEF ReadCache

LEMMA LockStep == ASSUME KeyInv, NEW v \in Verifier, LockCache(v) PROVE KeyInv'
<1> USE KeyAssumption, HorizonAssumption
<1>1. UNCHANGED <<now, served, rotations, withdrawn, cache, fetched, lacked>>
      /\ check[v].pc = "lock" /\ writer = Unlocked /\ ~ReadersWait
  BY DEF LockCache
<1>2. CASE ~check[v].force /\ Valid(now)
  <2>1. /\ cache \in SUBSET Kid /\ fetched' \in 0..Horizon /\ fetched' <= now
        /\ \A k \in cache' : k \in served \/ fetched' <= withdrawn[k]
    BY <1>1 DEF KeyInv, KeyTypeOK, Fresh
  <2>2. Use(v, cache) /\ UNCHANGED writer
    BY <1>2 DEF LockCache
  <2> QED
    BY <1>1, <1>2, <2>1, <2>2, UseStep
<1>3. CASE ~(~check[v].force /\ Valid(now))
  <2> DEFINE k == [check[v] EXCEPT !.pc = "fetch", !.stamp = now]
  <2>1. check[v] \in Checks /\ now \in 0..Horizon /\ check \in [Verifier -> Checks]
    BY KeyTyping DEF KeyInv, KeyTypeOK
  <2>2. k \in Checks /\ k.pc = "fetch" /\ k.stamp = now /\ k.token = check[v].token
    BY <2>1 DEF Checks, Steps
  <2>3. check' = [check EXCEPT ![v] = k] /\ writer' = v /\ UNCHANGED verdict
    BY <1>3 DEF LockCache
  <2> HIDE DEF k
  <2>4. check'[v] = k /\ \A u \in Verifier : u # v => check'[u] = check[u]
    BY <2>1, <2>3
  <2>5. Waiting(v)'
    BY <1>1, <2>1, <2>2, <2>3, <2>4 DEF Waiting
  <2>6. Holds'
    <3>1. ASSUME NEW u \in Verifier, check'[u].pc = "read"
          PROVE  check'[v].stamp <= check'[u].stamp
      <4>1. u # v /\ check[u].pc = "read" /\ check[u] \in Checks
        BY <2>1, <2>2, <2>4, <3>1
      <4>2. ~(check[u].stamp < now)
        BY <1>1, <4>1 DEF ReadersWait
      <4> QED
        BY <2>1, <2>2, <2>4, <4>1, <4>2 DEF Checks
    <3> QED
      BY <2>2, <2>3, <2>4, <3>1 DEF Holds
  <2> QED
    BY <1>1, <2>2, <2>3, <2>5, <2>6, GoesOn
<1> QED
  BY <1>2, <1>3

LEMMA RespondStep == ASSUME KeyInv, NEW v \in Verifier, Respond(v) PROVE KeyInv'
<1> USE KeyAssumption, HorizonAssumption
<1> DEFINE k == [check[v] EXCEPT !.pc = "answer", !.keys = served]
<1>1. check[v] \in Checks /\ served \in SUBSET Kid /\ check \in [Verifier -> Checks]
  BY KeyTyping DEF KeyInv, KeyTypeOK
<1>2. k \in Checks /\ k.pc = "answer" /\ k.stamp = check[v].stamp /\ k.keys = served
      /\ k.token = check[v].token
  BY <1>1 DEF Checks, Steps
<1>3. check' = [check EXCEPT ![v] = k] /\ check[v].pc = "fetch"
      /\ UNCHANGED <<now, served, rotations, withdrawn, cache, fetched, writer, verdict, lacked>>
  BY DEF Respond
<1> HIDE DEF k
<1>4. check'[v] = k /\ \A u \in Verifier : u # v => check'[u] = check[u]
  BY <1>1, <1>3
<1>5. Waiting(v)'
  BY <1>2, <1>3, <1>4 DEF KeyInv, Waiting, Fresh
<1>6. Holds'
  BY <1>2, <1>3, <1>4 DEF KeyInv, KeyTypeOK, Holds
<1> QED
  BY <1>2, <1>3, <1>5, <1>6, GoesOn DEF KeyInv, KeyTypeOK

LEMMA InstallStep == ASSUME KeyInv, NEW v \in Verifier, Install(v) PROVE KeyInv'
<1> USE HorizonAssumption
<1>1. UNCHANGED <<now, served, rotations, withdrawn, lacked>> /\ check[v].pc = "answer"
      /\ cache' = check[v].keys /\ fetched' = check[v].stamp /\ writer' = Unlocked
      /\ Use(v, check[v].keys)
  BY DEF Install
<1>2. check[v] \in Checks
  BY KeyTyping DEF KeyInv
<1>3. /\ check[v].keys \in SUBSET Kid /\ check[v].stamp \in 0..Horizon
      /\ check[v].stamp <= now /\ writer = v
      /\ \A k \in check[v].keys : k \in served \/ check[v].stamp <= withdrawn[k]
      /\ lacked[v] \/ check[v].token.kid \in check[v].keys
  BY <1>1, <1>2 DEF KeyInv, Waiting, Missing, Fresh, Checks
<1> QED
  BY <1>1, <1>3, UseStep

LEMMA FailsStep == ASSUME KeyInv, NEW v \in Verifier, FetchFails(v) PROVE KeyInv'
<1> USE KeyAssumption, HorizonAssumption
<1>1. UNCHANGED <<now, served, rotations, withdrawn, cache, fetched, lacked>>
      /\ check' = [check EXCEPT ![v] = Idle] /\ verdict' = [verdict EXCEPT ![v] = "no keys"]
      /\ writer = v /\ writer' = Unlocked
  BY DEF KeyInv, Waiting, FetchFails, Answer
<1>2. "no keys" \in Verdicts
  BY DEF Verdicts
<1>3. /\ check' \in [Verifier -> Checks] /\ verdict' \in [Verifier -> Verdicts]
      /\ check'[v] = Idle /\ verdict'[v] = "no keys"
      /\ \A u \in Verifier : u # v => check'[u] = check[u] /\ verdict'[u] = verdict[u]
  BY <1>1, <1>2, IdleTyped, Updated
<1>4. Holds' /\ Waiting(v)' /\ Missing(v)'
  BY <1>1, <1>3 DEF Holds, Waiting, Missing, Idle
<1>5. /\ cache' \in SUBSET Kid /\ fetched' \in 0..Horizon /\ fetched' <= now
      /\ \A i \in cache' : i \in served \/ fetched' <= withdrawn[i]
      /\ lacked' \in [Verifier -> BOOLEAN]
  BY <1>1 DEF KeyInv, KeyTypeOK, Fresh
<1> QED
  BY <1>1, <1>3, <1>4, <1>5, RequestStep

----------------------------------------------------------------------------
(* The provider and time *)

LEMMA RotateStep == ASSUME KeyInv, NEW S \in SUBSET Kid, Rotate(S) PROVE KeyInv'
<1> USE KeyAssumption, HorizonAssumption
<1>1. /\ served' = S /\ rotations < MaxRotations /\ rotations' = rotations + 1
      /\ withdrawn' = [k \in Kid |-> IF k \in served \ S THEN now ELSE withdrawn[k]]
      /\ UNCHANGED <<now, cache, fetched, writer, check, verdict>>
  BY DEF Rotate
<1>2. lacked' = [v \in Verifier |->
        lacked[v] \/ (check[v].pc # "idle" /\ check[v].token.kid \notin S)]
  BY DEF Rotate
<1>3. lacked \in [Verifier -> BOOLEAN]
  BY DEF KeyInv, KeyTypeOK
<1>4. lacked' \in [Verifier -> BOOLEAN]
  BY <1>2, <1>3, Zenon
<1>5. \A v \in Verifier : lacked'[v] <=>
        lacked[v] \/ (check[v].pc # "idle" /\ check[v].token.kid \notin S)
  BY <1>2, Zenon
<1>6. KeyTypeOK'
  BY <1>1, <1>4 DEF KeyInv, KeyTypeOK
<1>7. ASSUME NEW keys \in SUBSET Kid, NEW t \in Nat, t <= now, Fresh(keys, t)
      PROVE  Fresh(keys, t)'
  BY <1>1, <1>7 DEF Fresh
<1>8. Fresh(cache, fetched)'
  BY <1>1, <1>7, KeyTyping DEF KeyInv, KeyTypeOK, Fresh
<1>9. ASSUME NEW v \in Verifier PROVE Waiting(v)' /\ Missing(v)'
  <2>1. check[v] \in Checks /\ Waiting(v) /\ Missing(v)
    BY KeyTyping DEF KeyInv
  <2>2. CASE check[v].pc = "answer"
    <3>1. /\ check[v].keys \in SUBSET Kid /\ check[v].stamp \in Nat
          /\ check[v].stamp <= now /\ Fresh(check[v].keys, check[v].stamp)
      BY <2>1, <2>2 DEF Waiting, Checks
    <3>2. Fresh(check[v].keys, check[v].stamp)'
      BY <1>1, <1>7, <3>1 DEF Fresh
    <3> QED
      BY <1>1, <1>5, <2>1, <3>2 DEF Waiting, Missing
  <2>3. CASE check[v].pc # "answer"
    BY <1>1, <1>5, <2>1, <2>3 DEF Waiting, Missing
  <2> QED
    BY <2>2, <2>3
<1>10. Holds'
  BY <1>1 DEF KeyInv, Holds
<1> QED
  BY <1>1, <1>6, <1>8, <1>9, <1>10 DEF KeyInv

LEMMA KeyTickStep == ASSUME KeyInv, KeyTick PROVE KeyInv'
<1> USE KeyAssumption, HorizonAssumption
<1>1. now' = now + 1 /\ now \in Nat /\ now < Horizon /\ KeysMayWait
      /\ UNCHANGED <<served, rotations, withdrawn, cache, fetched, writer, check, verdict, lacked>>
  BY KeyTyping DEF KeyInv, KeyTick, Passes
<1>2. KeyTypeOK' /\ Holds' /\ Fresh(cache, fetched)' /\ (fetched <= now)'
  BY <1>1, KeyTyping DEF KeyInv, KeyTypeOK, Holds, Fresh
<1>3. ASSUME NEW v \in Verifier PROVE Waiting(v)'
  <2>1. check[v] \in Checks /\ Waiting(v) /\ check[v].stamp \in Nat
    BY KeyTyping DEF KeyInv, Checks
  <2>2. CASE check[v].pc = "read"
    <3>1. writer \in Verifier /\ writer # Unlocked
      BY <1>1, <2>2 DEF KeysMayWait, KeyInv, KeyTypeOK
    <3>2. check[writer].pc \in {"fetch", "answer"} /\ check[writer].stamp <= check[v].stamp
      BY <2>2, <3>1 DEF KeyInv, Holds
    <3>3. check[writer].stamp \in Nat /\ now < check[writer].stamp + FetchTime
      BY <1>1, <3>1, <3>2, KeyTyping DEF KeysMayWait, KeyInv, Checks
    <3>4. now + 1 <= check[v].stamp + FetchTime /\ check[v].stamp <= now + 1
      BY <1>1, <2>1, <2>2, <3>2, <3>3 DEF Waiting
    <3> QED
      BY <1>1, <2>2, <3>4 DEF Waiting
  <2>3. CASE check[v].pc \in {"fetch", "answer"}
    <3>1. now < check[v].stamp + FetchTime
      BY <1>1, <2>3 DEF KeysMayWait
    <3> QED
      BY <1>1, <2>1, <2>3, <3>1 DEF Waiting, Fresh
  <2>4. CASE check[v].pc \notin {"read", "fetch", "answer"}
    BY <1>1, <2>4 DEF Waiting
  <2> QED
    BY <2>2, <2>3, <2>4
<1>4. \A v \in Verifier : Missing(v)'
  BY <1>1 DEF KeyInv, Missing
<1> QED
  BY <1>2, <1>3, <1>4 DEF KeyInv

----------------------------------------------------------------------------

LEMMA KeyNextInv == KeyInv /\ [KeyNext]_keyVars => KeyInv'
<1> SUFFICES ASSUME KeyInv, [KeyNext]_keyVars PROVE KeyInv'
  OBVIOUS
<1>1. CASE UNCHANGED keyVars
  BY <1>1 DEF keyVars, KeyInv, KeyTypeOK, Fresh, Holds, Waiting, Missing
<1>2. ASSUME NEW v \in Verifier,
             \/ \E t \in Token : Arrive(v, t)
             \/ Stamp(v) \/ ReadCache(v) \/ LockCache(v)
             \/ Respond(v) \/ Install(v) \/ FetchFails(v)
      PROVE  KeyInv'
  BY <1>2, ArriveStep, StampStep, ReadStep, LockStep, RespondStep, InstallStep, FailsStep
<1>3. CASE \E S \in SUBSET Kid : Rotate(S)
  BY <1>3, RotateStep
<1>4. CASE KeyTick
  BY <1>4, KeyTickStep
<1> QED
  BY <1>1, <1>2, <1>3, <1>4 DEF KeyNext

THEOREM KeyInvariance == KeySpec => []KeyInv
<1> QED
  BY KeyInitInv, KeyNextInv, PTL DEF KeySpec

(* Nobody is told that a key is unknown which the provider published all   *)
(* the time the request was under way.                                     *)
THEOREM KnownKeysAreFound == KeySpec => []KnownKeyFound
<1>1. KeyInv => KnownKeyFound
  BY DEF KeyInv, Missing, KnownKeyFound
<1> QED
  BY KeyInvariance, <1>1, PTL

(* What was looked up in a set of keys read at t, with t and the present   *)
(* less than a lifetime and a fetch apart.                                 *)
LEMMA Recent ==
  ASSUME KeyInv, NEW keys \in SUBSET Kid, NEW t \in Nat, Fresh(keys, t),
         now < t + TTL + FetchTime, NEW k \in keys
  PROVE  k \in served \/ now < withdrawn[k] + TTL + FetchTime
BY KeyTyping, KeyAssumption DEF KeyInv, Fresh

(* A token is accepted on a key withdrawn at most a lifetime and one fetch *)
(* ago: for all lifetimes and timeouts, and any number of requests.        *)
THEOREM KeysWereServedRecently == KeySpec => RecentlyServed
<1> DEFINE Recently == \A v \in Verifier : Accepts(v) =>
             LET k == check[v].token.kid IN
             k \in served \/ now < withdrawn[k] + TTL + FetchTime
<1>1. KeyInv /\ [KeyNext]_keyVars => [Recently]_keyVars
  <2> SUFFICES ASSUME KeyInv, KeyNext, NEW v \in Verifier, Accepts(v)
               PROVE  LET k == check[v].token.kid IN
                      k \in served \/ now < withdrawn[k] + TTL + FetchTime
    OBVIOUS
  <2> USE KeyAssumption
  <2> DEFINE k == check[v].token.kid
  <2>1. /\ check[v].pc # "idle" /\ check'[v].pc = "idle" /\ verdict'[v] \in {"user", "client"}
        /\ check \in [Verifier -> Checks] /\ verdict \in [Verifier -> Verdicts]
    BY KeyTyping DEF Accepts, KeyInv, KeyTypeOK
  <2>2. ASSUME NEW u \in Verifier,
               \/ \E t \in Token : Arrive(u, t)
               \/ Stamp(u) \/ ReadCache(u) \/ LockCache(u)
               \/ Respond(u) \/ Install(u) \/ FetchFails(u)
        PROVE  u = v
    <3>1. \A x \in Verifier : x # u => check'[x] = check[x]
      BY <2>1, <2>2 DEF Arrive, Stamp, ReadCache, LockCache, Respond, Install, FetchFails,
         Use, To, Answer
    <3> QED
      BY <2>1, <3>1
  <2>3. ASSUME NEW keys, Use(v, keys) PROVE k \in keys
    <3>1. CASE k \notin keys /\ check[v].force
      BY <2>1, <2>3, <3>1 DEF Use, Answer
    <3>2. CASE k \notin keys /\ ~check[v].force
      <4> DEFINE next == [check[v] EXCEPT !.pc = "stamp", !.force = TRUE, !.keys = {}]
      <4>1. check' = [check EXCEPT ![v] = next]
        BY <2>3, <3>2 DEF Use
      <4>2. next.pc = "stamp"
        BY <2>1 DEF Checks
      <4> HIDE DEF next
      <4> QED
        BY <2>1, <4>1, <4>2
    <3> QED
      BY <3>1, <3>2
  <2>4. CASE ReadCache(v)
    <3>1. check[v].pc = "read" /\ check[v].stamp \in Nat /\ now <= check[v].stamp + FetchTime
      BY <2>1, <2>4 DEF ReadCache, KeyInv, Waiting, Checks
    <3>2. Use(v, cache) /\ Valid(check[v].stamp)
      <4> DEFINE next == [check[v] EXCEPT !.pc = "lock"]
      <4>1. To(v, "lock") => check' = [check EXCEPT ![v] = next]
        BY DEF To
      <4>2. next.pc = "lock"
        BY <2>1 DEF Checks
      <4> HIDE DEF next
      <4>3. ~To(v, "lock")
        BY <2>1, <4>1, <4>2
      <4> QED
        BY <2>4, <4>3 DEF ReadCache
    <3>3. now < fetched + TTL + FetchTime /\ fetched \in Nat /\ cache \in SUBSET Kid
      BY <3>1, <3>2, KeyTyping DEF Valid, KeyInv, KeyTypeOK
    <3> QED
      BY <2>3, <3>2, <3>3, Recent DEF KeyInv
  <2>5. CASE LockCache(v)
    <3>1. Use(v, cache) /\ Valid(now)
      <4> DEFINE next == [check[v] EXCEPT !.pc = "fetch", !.stamp = now]
      <4>1. next.pc = "fetch"
        BY <2>1 DEF Checks
      <4>2. \/ Use(v, cache) /\ Valid(now)
            \/ check' = [check EXCEPT ![v] = next]
        BY <2>5 DEF LockCache
      <4> HIDE DEF next
      <4> QED
        BY <2>1, <4>1, <4>2
    <3>2. now < fetched + TTL + FetchTime /\ fetched \in Nat /\ cache \in SUBSET Kid
      BY <3>1, KeyTyping DEF Valid, KeyInv, KeyTypeOK
    <3> QED
      BY <2>3, <3>1, <3>2, Recent DEF KeyInv
  <2>6. CASE Install(v)
    <3>1. /\ Use(v, check[v].keys) /\ check[v].keys \in SUBSET Kid /\ check[v].stamp \in Nat
          /\ Fresh(check[v].keys, check[v].stamp) /\ now <= check[v].stamp + FetchTime
      BY <2>1, <2>6 DEF Install, KeyInv, Waiting, Checks
    <3>2. now < check[v].stamp + TTL + FetchTime
      BY <3>1, KeyTyping DEF KeyInv
    <3> QED
      BY <2>3, <3>1, <3>2, Recent
  <2>7. ~(\E t \in Token : Arrive(v, t))
    BY <2>1 DEF Arrive
  <2>8. ~Stamp(v)
    <3> DEFINE next == [check[v] EXCEPT !.pc = "read", !.stamp = now]
    <3>1. next.pc = "read"
      BY <2>1 DEF Checks
    <3>2. Stamp(v) => check' = [check EXCEPT ![v] = next]
      BY DEF Stamp
    <3> HIDE DEF next
    <3> QED
      BY <2>1, <3>1, <3>2
  <2>9. ~Respond(v)
    <3> DEFINE next == [check[v] EXCEPT !.pc = "answer", !.keys = served]
    <3>1. next.pc = "answer"
      BY <2>1 DEF Checks
    <3>2. Respond(v) => check' = [check EXCEPT ![v] = next]
      BY DEF Respond
    <3> HIDE DEF next
    <3> QED
      BY <2>1, <3>1, <3>2
  <2>10. ~FetchFails(v)
    BY <2>1 DEF FetchFails, Answer
  <2>11. ~(\E S \in SUBSET Kid : Rotate(S)) /\ ~KeyTick
    BY <2>1 DEF Rotate, KeyTick
  <2> QED
    BY <2>2, <2>4, <2>5, <2>6, <2>7, <2>8, <2>9, <2>10, <2>11 DEF KeyNext
<1> QED
  BY KeyInvariance, <1>1, PTL DEF KeySpec, RecentlyServed

----------------------------------------------------------------------------
(* RemoteToken                                                             *)

CallStates == [pc : {"none", "apply", "refresh", "issued", "send", "backoff"},
               attempt : 0..MaxRetries, since : 0..Horizon,
               ends : Nat, life : Lifetimes \cup {0}]

(* What a call has, and how long it can have had it.                       *)
Timely(k) ==
  /\ k.pc \in {"refresh", "issued"} => k.since <= now /\ now <= k.since + TokenTimeout
  /\ k.pc = "issued" => k.life \in Lifetimes /\ k.since + k.life <= k.ends
  /\ k.pc = "send" => /\ k.since <= now /\ now <= k.since + CallTimeout
                      /\ k.since + CallTimeout < k.ends

(* The client is late by at most one token request.                        *)
Cached == token.expiry <= token.ends + TokenTimeout

RemoteInv == RemoteTypeOK /\ Cached /\ \A c \in Caller : Timely(call[c])

LEMMA RemoteTyping == RemoteTypeOK => now \in Nat /\ \A c \in Caller : call[c] \in CallStates
BY HorizonAssumption DEF RemoteTypeOK, CallStates

LEMMA NoCallTyped == NoCall \in CallStates
BY RemoteAssumption, HorizonAssumption DEF NoCall, CallStates

LEMMA RemoteInitInv == RemoteInit => RemoteInv
<1> SUFFICES ASSUME RemoteInit PROVE RemoteInv
  OBVIOUS
<1>1. RemoteTypeOK
  BY NoCallTyped, HorizonAssumption DEF RemoteInit, RemoteTypeOK, CallStates
<1> QED
  BY <1>1, RemoteAssumption DEF RemoteInit, RemoteInv, Cached, Timely, NoCall

(* A step of one caller that leaves the time alone.                        *)
LEMMA CallerStep ==
  ASSUME RemoteInv, UNCHANGED now, NEW c \in Caller, NEW k \in CallStates, Set(c, k),
         Timely(k), token'.ends \in Nat, token'.expiry \in Nat,
         token'.expiry <= token'.ends + TokenTimeout,
         holder' \in Caller \cup {Free}
  PROVE  RemoteInv'
<1>1. RemoteTypeOK'
  BY DEF RemoteInv, RemoteTypeOK, Set, CallStates
<1>2. ASSUME NEW d \in Caller PROVE Timely(call[d])'
  BY DEF RemoteInv, RemoteTypeOK, Set, Timely
<1> QED
  BY <1>1, <1>2 DEF RemoteInv, Cached

LEMMA Ended == ASSUME RemoteInv PROVE Timely(NoCall)
BY DEF Timely, NoCall

LEMMA ApplyStep == ASSUME RemoteInv, NEW c \in Caller, Apply(c) PROVE RemoteInv'
<1> USE HorizonAssumption, RemoteAssumption
<1>1. call[c] \in CallStates /\ now \in Nat /\ token.ends \in Nat /\ token.expiry \in Nat
  BY RemoteTyping DEF RemoteInv, RemoteTypeOK
<1>2. CASE now + Buffer < token.expiry
  <2> DEFINE k == [call[c] EXCEPT !.pc = "send", !.since = now, !.ends = token.ends, !.life = 0]
  <2>1. k \in CallStates
    BY <1>1 DEF CallStates, RemoteInv, RemoteTypeOK
  <2>2. now + CallTimeout < token.ends
    BY <1>1, <1>2, TimeoutAssumption DEF RemoteInv, Cached
  <2>3. k.pc = "send" /\ k.since = now /\ k.ends = token.ends
    BY <1>1 DEF CallStates
  <2>4. Timely(k)
    BY <1>1, <2>2, <2>3 DEF Timely
  <2> QED
    BY <1>2, <2>1, <2>4, CallerStep, <1>1 DEF Apply, Send, RemoteInv, Cached, RemoteTypeOK
<1>3. CASE ~(now + Buffer < token.expiry)
  <2> DEFINE k == [call[c] EXCEPT !.pc = "refresh", !.since = now]
  <2>1. k \in CallStates
    BY <1>1 DEF CallStates, RemoteInv, RemoteTypeOK
  <2>3. k.pc = "refresh" /\ k.since = now
    BY <1>1 DEF CallStates
  <2>4. Timely(k)
    BY <1>1, <2>3 DEF Timely
  <2> QED
    BY <1>3, <2>1, <2>4, CallerStep, <1>1 DEF Apply, RemoteInv, Cached, RemoteTypeOK
<1> QED
  BY <1>2, <1>3

LEMMA IssueStep ==
  ASSUME RemoteInv, NEW c \in Caller, NEW life \in Lifetimes, Issue(c, life) PROVE RemoteInv'
<1> USE HorizonAssumption, RemoteAssumption
<1>1. call[c] \in CallStates /\ now \in Nat /\ token.ends \in Nat /\ token.expiry \in Nat
  BY RemoteTyping DEF RemoteInv, RemoteTypeOK
<1> DEFINE k == [call[c] EXCEPT !.pc = "issued", !.ends = now + life, !.life = life]
<1>2. k \in CallStates
  <2>1. now + life \in Nat /\ life \in Lifetimes \cup {0}
    BY <1>1
  <2> QED
    BY <1>1, <2>1 DEF CallStates
<1>3. k.pc = "issued" /\ k.ends = now + life /\ k.life = life /\ k.since = call[c].since
  BY <1>1 DEF CallStates
<1>4. call[c].since <= now /\ now <= call[c].since + TokenTimeout /\ call[c].since \in Nat
  BY <1>1 DEF RemoteInv, Timely, Issue, CallStates
<1>5. Timely(k)
  BY <1>1, <1>3, <1>4 DEF Timely
<1> QED
  BY <1>1, <1>2, <1>5, CallerStep DEF Issue, RemoteInv, Cached, RemoteTypeOK

LEMMA RefreshedStep == ASSUME RemoteInv, NEW c \in Caller, Refreshed(c) PROVE RemoteInv'
<1> USE HorizonAssumption, RemoteAssumption
<1>1. call[c] \in CallStates /\ now \in Nat
  BY RemoteTyping DEF RemoteInv
<1> DEFINE k == [call[c] EXCEPT !.pc = "send", !.since = now, !.ends = call[c].ends, !.life = 0]
<1>2. k \in CallStates
  BY <1>1 DEF CallStates, RemoteInv, RemoteTypeOK
<1>3. k.pc = "send" /\ k.since = now /\ k.ends = call[c].ends
  BY <1>1 DEF CallStates
<1>4. /\ call[c].since \in Nat /\ call[c].ends \in Nat /\ call[c].life \in Lifetimes
      /\ now <= call[c].since + TokenTimeout
      /\ call[c].since + call[c].life <= call[c].ends
  BY <1>1 DEF RemoteInv, Timely, Refreshed, CallStates
<1>5. now + CallTimeout < call[c].ends
  <2>1. TokenTimeout + CallTimeout < call[c].life /\ call[c].life \in Nat
    BY <1>4, TimeoutAssumption
  <2> QED
    BY <1>1, <1>4, <2>1
<1>6. Timely(k)
  BY <1>1, <1>3, <1>5 DEF Timely
<1>7. now + call[c].life \in Nat /\ now + call[c].life <= call[c].ends + TokenTimeout
  <2>1. call[c].life \in Nat
    BY <1>4
  <2> QED
    BY <1>1, <1>4, <2>1
<1>8. token'.ends = call[c].ends /\ token'.expiry = now + call[c].life
  BY DEF Refreshed
<1> QED
  BY <1>2, <1>4, <1>6, <1>7, <1>8, CallerStep DEF Refreshed, Send

(* Whatever makes a call end or be tried again: no token is in its hands.  *)
LEMMA TryAgainTimely ==
  ASSUME RemoteInv, NEW c \in Caller, TryAgain(c)
  PROVE  \E k \in CallStates : Set(c, k) /\ Timely(k)
<1> USE HorizonAssumption, RemoteAssumption
<1>1. call[c] \in CallStates /\ now \in 0..Horizon
  BY RemoteTyping DEF RemoteInv, RemoteTypeOK
<1>2. CASE call[c].attempt < MaxRetries
  <2> DEFINE k == [call[c] EXCEPT !.pc = "backoff", !.attempt = @ + 1, !.since = now,
                                  !.ends = 0, !.life = 0]
  <2>1. k \in CallStates /\ k.pc = "backoff"
    <3>1. call[c].attempt + 1 \in 0..MaxRetries
      BY <1>1, <1>2 DEF CallStates
    <3> QED
      BY <1>1, <3>1 DEF CallStates
  <2>2. Set(c, k)
    BY <1>2 DEF TryAgain
  <2>3. Timely(k)
    BY <2>1 DEF Timely
  <2> HIDE DEF k
  <2> QED
    BY <2>1, <2>2, <2>3
<1>3. CASE ~(call[c].attempt < MaxRetries)
  BY <1>3, NoCallTyped, Ended DEF TryAgain, End
<1> QED
  BY <1>2, <1>3

LEMMA OtherSteps ==
  ASSUME RemoteInv, NEW c \in Caller,
         \/ GetClient(c) \/ AttemptFails(c) \/ Answered(c)
         \/ AfterBackoff(c) \/ Cancelled(c)
  PROVE  RemoteInv'
<1> USE HorizonAssumption, RemoteAssumption
<1>1. /\ call[c] \in CallStates /\ token.ends \in Nat /\ token.expiry \in Nat
      /\ token.expiry <= token.ends + TokenTimeout /\ holder \in Caller \cup {Free}
  BY RemoteTyping DEF RemoteInv, RemoteTypeOK, Cached
<1>2. UNCHANGED now /\ UNCHANGED token /\ holder' \in Caller \cup {Free}
  BY <1>1 DEF GetClient, AttemptFails, Answered, AfterBackoff, Cancelled, Release
<1>3. \E k \in CallStates : Set(c, k) /\ Timely(k)
  <2>1. CASE GetClient(c)
    <3> DEFINE k == [NoCall EXCEPT !.pc = "apply"]
    <3>1. k \in CallStates /\ k.pc = "apply"
      BY NoCallTyped DEF CallStates
    <3>2. Timely(k)
      BY <3>1 DEF Timely
    <3> QED
      BY <2>1, <3>1, <3>2 DEF GetClient
  <2>2. CASE AfterBackoff(c)
    <3> DEFINE k == [call[c] EXCEPT !.pc = "apply", !.since = 0]
    <3>1. k \in CallStates /\ k.pc = "apply"
      <4>1. 0 \in 0..Horizon
        OBVIOUS
      <4> QED
        BY <1>1, <4>1 DEF CallStates
    <3>2. Timely(k)
      BY <3>1 DEF Timely
    <3> QED
      BY <2>2, <3>1, <3>2 DEF AfterBackoff
  <2>3. CASE AttemptFails(c)
    BY <2>3, TryAgainTimely DEF AttemptFails
  <2>4. CASE Answered(c) \/ Cancelled(c)
    BY <2>4, NoCallTyped, Ended DEF Answered, Cancelled, End
  <2> QED
    BY <2>1, <2>2, <2>3, <2>4
<1> QED
  BY <1>1, <1>2, <1>3, CallerStep

LEMMA RemoteTickStep == ASSUME RemoteInv, RemoteTick PROVE RemoteInv'
<1> USE HorizonAssumption, RemoteAssumption
<1>1. RemoteTypeOK'
  BY DEF RemoteInv, RemoteTypeOK, RemoteTick, Passes
<1>2. ASSUME NEW c \in Caller PROVE Timely(call[c])'
  <2>1. call[c] \in CallStates /\ now \in Nat /\ now' = now + 1 /\ call' = call
    BY RemoteTyping DEF RemoteInv, RemoteTick, Passes
  <2>2. Timely(call[c])
    BY DEF RemoteInv
  <2> QED
    BY <2>1, <2>2 DEF RemoteTick, CallsMayWait, Timely, CallStates
<1> QED
  BY <1>1, <1>2 DEF RemoteInv, Cached, RemoteTick

LEMMA RemoteNextInv == RemoteInv /\ [RemoteNext]_remoteVars => RemoteInv'
<1> SUFFICES ASSUME RemoteInv, [RemoteNext]_remoteVars PROVE RemoteInv'
  OBVIOUS
<1>1. CASE UNCHANGED remoteVars
  BY <1>1 DEF remoteVars, RemoteInv, RemoteTypeOK, Cached, Timely
<1>2. CASE RemoteTick
  BY <1>2, RemoteTickStep
<1>3. ASSUME NEW c \in Caller,
             \/ GetClient(c) \/ Apply(c) \/ \E life \in Lifetimes : Issue(c, life)
             \/ Refreshed(c) \/ AttemptFails(c) \/ Answered(c)
             \/ AfterBackoff(c) \/ Cancelled(c)
      PROVE  RemoteInv'
  BY <1>3, ApplyStep, IssueStep, RefreshedStep, OtherSteps
<1> QED
  BY <1>1, <1>2, <1>3 DEF RemoteNext

THEOREM RemoteInvariance == RemoteSpec => []RemoteInv
<1> QED
  BY RemoteInitInv, RemoteNextInv, PTL DEF RemoteSpec

(* The types of the client of a remote service, for any number of callers. *)
THEOREM RemoteTypes == RemoteSpec => []RemoteTypeOK
<1>1. RemoteInv => RemoteTypeOK
  BY DEF RemoteInv
<1> QED
  BY RemoteInvariance, <1>1, PTL

LEMMA InvUsable == RemoteInv => UsableToken
<1> SUFFICES ASSUME RemoteInv, NEW c \in Caller, call[c].pc = "send" PROVE now < call[c].ends
  BY DEF UsableToken
<1>1. call[c] \in CallStates /\ now \in Nat /\ Timely(call[c])
  BY RemoteTyping DEF RemoteInv
<1> QED
  BY <1>1, RemoteAssumption, HorizonAssumption DEF Timely, CallStates

(* A request never carries a token that may have ended: for every timeout, *)
(* lifetime and number of callers the assumptions allow.                   *)
THEOREM TokenIsUsable == RemoteSpec => []UsableToken
<1> QED
  BY RemoteInvariance, InvUsable, PTL

----------------------------------------------------------------------------
(* LocalFiles                                                              *)

Data == [Half -> Put \cup {Zero}]
PutStates == [pc : PutSteps, file : Inode \cup {NoFile}, alone : BOOLEAN, named : BOOLEAN]
GetStates == [pc : GetSteps, ends : 0..(Horizon + PresignTTL), file : Inode \cup {NoFile},
              type : {"default", "empty", "type"}, read : Data, of : Put \cup {Zero}]

Reading(g) == get[g].pc \in {"opened", "stream1", "stream2"}

(* Every inode that is named or open was created.                          *)
InUse ==
  /\ name # NoFile => content[name] \in Data
  /\ \A p \in Put : Running(p) => put[p].file \in Inode /\ content[put[p].file] \in Data
  /\ \A g \in Get : Reading(g) => get[g].file \in Inode /\ content[get[g].file] \in Data

(* A PUT that had the key to itself so far has written the named file.     *)
Undisturbed(p) ==
  put[p].alone =>
    /\ Running(p) /\ ~deleting /\ put[p].file = name
    /\ \A q \in Put \ {p} : ~Running(q)
    /\ put[p].pc # "fill1" => content[name][1] = p
    /\ put[p].pc \in {"describe", "type"} => content[name][2] = p
    /\ put[p].pc = "type" => put[p].named

(* What is kept is whole, described, and nobody is about to touch it.      *)
KeptWhole ==
  kept # Zero =>
    /\ put[kept].pc = "acknowledged"
    /\ ~deleting /\ \A q \in Put : ~Running(q)
    /\ name # NoFile /\ content[name] = [h \in Half |-> kept] /\ meta = "type"

(* A GET that began with it, while it is still kept, has read no other.    *)
ReadsKept(g) ==
  get[g].of # Zero =>
    /\ put[get[g].of].pc = "acknowledged"
    /\ get[g].of = kept =>
         /\ get[g].pc \in {"opened", "stream1", "stream2", "delivered"}
         /\ get[g].pc # "delivered" => get[g].file = name
         /\ get[g].pc # "opened" => get[g].type = "type"
         /\ get[g].pc \in {"stream2", "delivered"} => get[g].read[1] = kept
         /\ get[g].pc = "delivered" => get[g].read[2] = kept

FileInv ==
  /\ FileTypeOK /\ InUse
  /\ \A p \in Put : Undisturbed(p)
  /\ KeptWhole
  /\ \A g \in Get : ReadsKept(g)

LEMMA FileTyping ==
  FileTypeOK <=>
    /\ now \in 0..Horizon
    /\ linkEnds \in 0..(Horizon + PresignTTL)
    /\ name \in Inode \cup {NoFile}
    /\ content \in [Inode -> Data \cup {NoFile}]
    /\ meta \in {"missing", "empty", "type"}
    /\ put \in [Put -> PutStates]
    /\ get \in [Get -> GetStates]
    /\ deleting \in BOOLEAN
    /\ kept \in Put \cup {Zero}
BY DEF FileTypeOK, Data, PutStates, GetStates

LEMMA FileInitInv == FileInit => FileInv
<1> SUFFICES ASSUME FileInit PROVE FileInv
  OBVIOUS
<1> USE FileAssumption, HorizonAssumption
<1>1. NoPut \in PutStates /\ NoPut.pc = "none" /\ ~NoPut.alone
  BY DEF NoPut, PutStates, PutSteps
<1>2. Empty \in Data
  BY DEF Empty, Data
<1>3. NoGet \in GetStates /\ NoGet.pc = "none" /\ NoGet.of = Zero
  BY <1>2 DEF NoGet, GetStates, GetSteps
<1>4. FileTypeOK
  <2>1. now \in 0..Horizon /\ linkEnds \in 0..(Horizon + PresignTTL)
    BY DEF FileInit
  <2>2. content \in [Inode -> Data \cup {NoFile}]
    BY DEF FileInit
  <2>3. put \in [Put -> PutStates] /\ get \in [Get -> GetStates]
    BY <1>1, <1>3 DEF FileInit
  <2> QED
    BY <2>1, <2>2, <2>3, FileTyping DEF FileInit
<1> QED
  BY <1>1, <1>3, <1>4 DEF FileInit, FileInv, InUse, Running, Reading, Undisturbed, KeptWhole,
                         ReadsKept

(* How the steps of a PUT change the requests.                             *)
LEMMA StepTyped ==
  ASSUME FileTypeOK, NEW p \in Put, NEW pc \in PutSteps, Step(p, pc)
  PROVE  /\ put' \in [Put -> PutStates]
         /\ put'[p].pc = pc /\ put'[p].file = put[p].file
         /\ put'[p].alone = put[p].alone /\ put'[p].named = put[p].named
         /\ \A q \in Put \ {p} : put'[q] = put[q]
<1>1. put \in [Put -> PutStates]
  BY FileTyping
<1>2. [put[p] EXCEPT !.pc = pc] \in PutStates
  BY <1>1 DEF PutStates
<1> QED
  BY <1>1, <1>2 DEF Step, PutStates

LEMMA PutToTyped ==
  ASSUME FileTypeOK, NEW p \in Put, NEW s \in PutStates, PutTo(p, s)
  PROVE  /\ put' \in [Put -> PutStates] /\ put'[p] = s
         /\ \A q \in Put \ {p} : /\ ~put'[q].alone /\ put'[q].pc = put[q].pc
                                 /\ put'[q].file = put[q].file /\ put'[q].named = put[q].named
<1>1. put \in [Put -> PutStates]
  BY FileTyping
<1>2. \A q \in Put : [put[q] EXCEPT !.alone = FALSE] \in PutStates
  BY <1>1 DEF PutStates
<1> QED
  BY <1>1, <1>2 DEF PutTo, PutStates

LEMMA RejectedStep == ASSUME FileInv, NEW p \in Put, Rejected(p) PROVE FileInv'
<1>1. put[p].pc = "none" /\ Step(p, "failed") /\ FileTypeOK
  BY DEF Rejected, FileInv
<1>2. /\ put' \in [Put -> PutStates]
      /\ put'[p].pc = "failed" /\ put'[p].file = put[p].file
      /\ put'[p].alone = put[p].alone /\ put'[p].named = put[p].named
      /\ \A q \in Put \ {p} : put'[q] = put[q]
  BY <1>1, StepTyped DEF PutSteps
<1>3. UNCHANGED <<now, linkEnds, name, content, meta, get, deleting, kept>>
  BY DEF Rejected
<1>4. FileTypeOK'
  BY <1>1, <1>2, <1>3, FileTyping DEF FileTypeOK, PutStates
<1>5. \A q \in Put : /\ Running(q)' <=> Running(q)
                     /\ put[q].pc = "acknowledged" => put'[q] = put[q]
  BY <1>1, <1>2 DEF Running
<1>6. InUse'
  BY <1>2, <1>3, <1>5 DEF FileInv, InUse, Reading
<1>7. ASSUME NEW q \in Put PROVE Undisturbed(q)'
  <2>1. Undisturbed(q) /\ Undisturbed(p) /\ ~Running(p)
    BY <1>1 DEF FileInv, Running
  <2>2. ~put'[p].alone
    BY <1>2, <2>1 DEF Undisturbed
  <2>3. CASE q = p
    BY <2>2, <2>3 DEF Undisturbed
  <2>4. CASE q # p
    BY <1>2, <1>3, <1>5, <2>1, <2>4 DEF Undisturbed
  <2> QED
    BY <2>3, <2>4
<1>8. KeptWhole' /\ \A g \in Get : ReadsKept(g)'
  BY <1>1, <1>3, <1>5 DEF FileInv, KeptWhole, ReadsKept, FileTypeOK
<1> QED
  BY <1>4, <1>6, <1>7, <1>8 DEF FileInv

LEMMA CreateFileStep == ASSUME FileInv, NEW p \in Put, CreateFile(p) PROVE FileInv'
<1> USE FileAssumption
<1> DEFINE s(i) == [NoPut EXCEPT !.pc = "fill1", !.file = i, !.alone = ~Disturbed /\ ~deleting]
<1>1. PICK i \in Inode :
        /\ IF name = NoFile THEN content[i] = NoFile ELSE i = name
        /\ name' = i /\ content' = [content EXCEPT ![i] = Empty] /\ PutTo(p, s(i))
  BY DEF CreateFile
<1>2. /\ put[p].pc = "none" /\ kept' = Zero /\ FileTypeOK
      /\ UNCHANGED <<now, linkEnds, meta, get, deleting>>
  BY DEF CreateFile, FileInv
<1>3. /\ s(i) \in PutStates /\ s(i).pc = "fill1" /\ s(i).file = i
      /\ s(i).alone = (~Disturbed /\ ~deleting)
  <2>1. (~Disturbed /\ ~deleting) \in BOOLEAN
    OBVIOUS
  <2> QED
    BY <2>1 DEF NoPut, PutStates, PutSteps
<1> HIDE DEF s
<1>4. /\ put' \in [Put -> PutStates] /\ put'[p] = s(i)
      /\ \A q \in Put \ {p} : /\ ~put'[q].alone /\ put'[q].pc = put[q].pc
                              /\ put'[q].file = put[q].file /\ put'[q].named = put[q].named
  BY <1>1, <1>2, <1>3, PutToTyped
<1>5. Empty \in Data /\ content \in [Inode -> Data \cup {NoFile}]
  BY <1>2, FileTyping DEF Empty, Data
<1>6. /\ content' \in [Inode -> Data \cup {NoFile}] /\ content'[i] \in Data
      /\ \A j \in Inode : content[j] \in Data => content'[j] \in Data
  BY <1>1, <1>5
<1>7. FileTypeOK'
  BY <1>1, <1>2, <1>4, <1>6 DEF FileTypeOK, Data, PutStates
<1>8. InUse'
  <2>1. \A q \in Put : Running(q)' => q = p \/ Running(q)
    BY <1>4 DEF Running
  <2> QED
    BY <1>1, <1>2, <1>3, <1>4, <1>6, <2>1 DEF FileInv, InUse, Reading
<1>9. ASSUME NEW q \in Put PROVE Undisturbed(q)'
  <2>1. CASE q # p
    BY <1>4, <2>1 DEF Undisturbed
  <2>2. CASE q = p /\ put'[p].alone
    <3>1. ~Disturbed /\ ~deleting
      BY <1>3, <1>4, <2>2
    <3>2. \A q2 \in Put \ {p} : ~Running(q2)'
      BY <1>4, <3>1 DEF Disturbed, Running
    <3>3. Running(p)'
      BY <1>3, <1>4 DEF Running
    <3> QED
      BY <1>1, <1>2, <1>3, <1>4, <2>2, <3>1, <3>2, <3>3 DEF Undisturbed
  <2> QED
    BY <2>1, <2>2 DEF Undisturbed
<1>10. KeptWhole' /\ \A g \in Get : ReadsKept(g)'
  <2>1. ASSUME NEW g \in Get, get[g].of # Zero
        PROVE  put'[get[g].of].pc = "acknowledged"
    <3>1. put[get[g].of].pc = "acknowledged" /\ get[g].of \in Put
      BY <1>2, <2>1 DEF FileInv, ReadsKept, FileTypeOK
    <3> QED
      BY <1>2, <1>4, <3>1
  <2> QED
    BY <1>2, <2>1 DEF KeptWhole, ReadsKept
<1> QED
  BY <1>7, <1>8, <1>9, <1>10 DEF FileInv

LEMMA FillStep ==
  ASSUME FileInv, NEW p \in Put,
         NEW h \in Half, NEW next \in {"fill2", "describe"}, Fill(p, h, next),
         \/ put[p].pc = "fill1" /\ h = 1 /\ next = "fill2"
         \/ put[p].pc = "fill2" /\ h = 2 /\ next = "describe"
  PROVE  FileInv'
<1> USE FileAssumption
<1> DEFINE f == put[p].file
<1>1. /\ content' = [content EXCEPT ![f] = [@ EXCEPT ![h] = p]] /\ Step(p, next)
      /\ UNCHANGED <<now, linkEnds, name, meta, get, deleting, kept>>
      /\ FileTypeOK /\ Running(p)
  BY DEF Fill, FileInv, Running
<1>2. /\ put' \in [Put -> PutStates] /\ put'[p].pc = next /\ put'[p].file = f
      /\ put'[p].alone = put[p].alone /\ put'[p].named = put[p].named
      /\ \A q \in Put \ {p} : put'[q] = put[q]
  BY <1>1, StepTyped DEF PutSteps
<1>3. f \in Inode /\ content[f] \in Data /\ content \in [Inode -> Data \cup {NoFile}]
  BY <1>1, FileTyping DEF FileInv, InUse
<1> DEFINE written == [content[f] EXCEPT ![h] = p]
<1>4. /\ written \in Data /\ written[h] = p
      /\ h = 2 => written[1] = content[f][1]
  <2>1. content[f] \in [Half -> Put \cup {Zero}]
    BY <1>3 DEF Data
  <2>2. written \in [Half -> Put \cup {Zero}] /\ written[h] = p
    BY <2>1
  <2>3. \A k \in Half : k # h => written[k] = content[f][k]
    BY <2>1
  <2> QED
    BY <2>2, <2>3 DEF Data, Half
<1> HIDE DEF written
<1>5. /\ content' \in [Inode -> Data \cup {NoFile}]
      /\ content'[f] = written
      /\ \A j \in Inode \ {f} : content'[j] = content[j]
  BY <1>1, <1>3, <1>4 DEF written
<1>6. FileTypeOK'
  BY <1>1, <1>2, <1>5 DEF FileTypeOK, Data, PutStates
<1>7. \A q \in Put : Running(q)' <=> Running(q)
  BY <1>1, <1>2 DEF Running
<1>8. \A j \in Inode : content[j] \in Data => content'[j] \in Data
  BY <1>4, <1>5
<1>8a. name # NoFile => name \in Inode
  BY <1>1 DEF FileTypeOK
<1>9. InUse'
  BY <1>1, <1>2, <1>7, <1>8, <1>8a DEF FileInv, InUse, Reading
<1>10. ASSUME NEW q \in Put PROVE Undisturbed(q)'
  <2>1. CASE q = p
    <3>1. Undisturbed(p)
      BY DEF FileInv
    <3> SUFFICES ASSUME put[p].alone PROVE Undisturbed(p)'
      BY <1>2, <2>1 DEF Undisturbed
    <3>2. /\ Running(p) /\ ~deleting /\ f = name /\ (\A r \in Put \ {p} : ~Running(r))
          /\ (put[p].pc = "fill2" => content[f][1] = p)
      BY <3>1 DEF Undisturbed
    <3>3. content'[f][h] = p /\ (h = 2 => content'[f][1] = content[f][1])
      BY <1>4, <1>5
    <3>4. content'[name][1] = p /\ (next = "describe" => content'[name][2] = p)
      BY <3>2, <3>3
    <3> QED
      BY <1>1, <1>2, <1>7, <3>2, <3>4 DEF Undisturbed
  <2>2. CASE q # p
    <3>1. ~put[q].alone
      BY <1>1, <2>2 DEF FileInv, Undisturbed
    <3> QED
      BY <1>2, <2>2, <3>1 DEF Undisturbed
  <2> QED
    BY <2>1, <2>2
<1>11. kept = Zero
  BY <1>1 DEF FileInv, KeptWhole
<1>12. KeptWhole' /\ \A g \in Get : ReadsKept(g)'
  <2>1. ASSUME NEW g \in Get, get[g].of # Zero
        PROVE  put'[get[g].of].pc = "acknowledged"
    <3>1. put[get[g].of].pc = "acknowledged" /\ get[g].of \in Put
      BY <1>1, <2>1 DEF FileInv, ReadsKept, FileTypeOK
    <3> QED
      BY <1>2, <3>1
  <2> QED
    BY <1>1, <1>11, <2>1 DEF KeptWhole, ReadsKept
<1> QED
  BY <1>6, <1>9, <1>10, <1>12 DEF FileInv

LEMMA SaveFailsStep == ASSUME FileInv, NEW p \in Put, SaveFails(p) PROVE FileInv'
<1> USE FileAssumption
<1> DEFINE s == [NoPut EXCEPT !.pc = "failed"]
<1>1. /\ Running(p) /\ name' = NoFile /\ kept' = Zero /\ PutTo(p, s) /\ FileTypeOK
      /\ UNCHANGED <<now, linkEnds, content, meta, get, deleting>>
  BY DEF SaveFails, FileInv
<1>2. s \in PutStates /\ s.pc = "failed" /\ ~s.alone
  BY DEF NoPut, PutStates, PutSteps
<1> HIDE DEF s
<1>3. /\ put' \in [Put -> PutStates] /\ put'[p] = s
      /\ \A q \in Put \ {p} : /\ ~put'[q].alone /\ put'[q].pc = put[q].pc
                              /\ put'[q].file = put[q].file /\ put'[q].named = put[q].named
  BY <1>1, <1>2, PutToTyped
<1>4. FileTypeOK'
  BY <1>1, <1>3 DEF FileTypeOK, PutStates
<1>5. InUse'
  <2>1. \A q \in Put : Running(q)' => q # p /\ Running(q)
    BY <1>2, <1>3 DEF Running
  <2> QED
    BY <1>1, <1>3, <2>1 DEF FileInv, InUse, Reading
<1>6. \A q \in Put : Undisturbed(q)'
  BY <1>2, <1>3 DEF Undisturbed
<1>7. KeptWhole' /\ \A g \in Get : ReadsKept(g)'
  <2>1. ASSUME NEW g \in Get, get[g].of # Zero
        PROVE  put'[get[g].of].pc = "acknowledged"
    <3>1. put[get[g].of].pc = "acknowledged" /\ get[g].of \in Put
      BY <1>1, <2>1 DEF FileInv, ReadsKept, FileTypeOK
    <3> QED
      BY <1>1, <1>3, <3>1 DEF Running
  <2> QED
    BY <1>1, <2>1 DEF KeptWhole, ReadsKept
<1> QED
  BY <1>4, <1>5, <1>6, <1>7 DEF FileInv

(* The requests that began with what is kept are not affected by a step of *)
(* a PUT as long as the file, its description and what is kept stay.       *)
LEMMA ReadsKeptStay ==
  ASSUME FileInv, UNCHANGED <<name, get>>, kept' \in {kept, Zero} \/ put[kept'].pc = "type",
         \A q \in Put : put[q].pc = "acknowledged" => put'[q].pc = "acknowledged"
  PROVE  \A g \in Get : ReadsKept(g)'
<1> SUFFICES ASSUME NEW g \in Get, get[g].of # Zero PROVE ReadsKept(g)'
  BY DEF ReadsKept
<1>1. ReadsKept(g) /\ get[g].of \in Put
  BY DEF FileInv, FileTypeOK
<1>2. put[get[g].of].pc = "acknowledged"
  BY <1>1 DEF ReadsKept
<1>3. get[g].of = kept' => kept' = kept
  BY <1>2
<1> QED
  BY <1>1, <1>2, <1>3 DEF ReadsKept

LEMMA OpenMetaStep == ASSUME FileInv, NEW p \in Put, OpenMeta(p) PROVE FileInv'
<1> USE FileAssumption
<1>1. /\ put[p].pc = "describe" /\ meta' = "empty" /\ FileTypeOK
      /\ put' = [put EXCEPT ![p] = [@ EXCEPT !.pc = "type", !.named = TRUE]]
      /\ UNCHANGED <<now, linkEnds, name, content, get, deleting, kept>>
  BY DEF OpenMeta, FileInv
<1>2. put \in [Put -> PutStates]
  BY <1>1, FileTyping
<1>3. [put[p] EXCEPT !.pc = "type", !.named = TRUE] \in PutStates
  BY <1>2 DEF PutStates, PutSteps
<1>4. /\ put' \in [Put -> PutStates] /\ put'[p].pc = "type" /\ put'[p].named
      /\ put'[p].file = put[p].file /\ put'[p].alone = put[p].alone
      /\ \A q \in Put \ {p} : put'[q] = put[q]
  BY <1>1, <1>2, <1>3 DEF PutStates
<1>5. FileTypeOK'
  BY <1>1, <1>4 DEF FileTypeOK, PutStates
<1>6. \A q \in Put : Running(q)' <=> Running(q)
  BY <1>1, <1>4 DEF Running
<1>7. InUse'
  BY <1>1, <1>4, <1>6 DEF FileInv, InUse, Reading
<1>8. ASSUME NEW q \in Put PROVE Undisturbed(q)'
  <2>1. Undisturbed(q)
    BY DEF FileInv
  <2> QED
    BY <1>1, <1>4, <1>6, <2>1 DEF Undisturbed
<1>9. Running(p) /\ kept = Zero
  BY <1>1 DEF FileInv, KeptWhole, Running
<1>10. KeptWhole' /\ \A g \in Get : ReadsKept(g)'
  BY <1>1, <1>4, <1>9, ReadsKeptStay DEF KeptWhole
<1> QED
  BY <1>5, <1>7, <1>8, <1>10 DEF FileInv

LEMMA WriteMetaStep == ASSUME FileInv, NEW p \in Put, WriteMeta(p) PROVE FileInv'
<1> USE FileAssumption
<1> DEFINE s == [NoPut EXCEPT !.pc = "acknowledged"]
<1>1. /\ put[p].pc = "type" /\ meta' = (IF put[p].named THEN "type" ELSE meta) /\ FileTypeOK
      /\ put' = [put EXCEPT ![p] = s] /\ kept' = (IF put[p].alone THEN p ELSE Zero)
      /\ UNCHANGED <<now, linkEnds, name, content, get, deleting>>
  BY DEF WriteMeta, Acknowledge, FileInv
<1>2. put \in [Put -> PutStates]
  BY <1>1, FileTyping
<1>3. s \in PutStates /\ s.pc = "acknowledged" /\ ~s.alone
  BY DEF NoPut, PutStates, PutSteps
<1> HIDE DEF s
<1>4. /\ put' \in [Put -> PutStates] /\ put'[p] = s
      /\ \A q \in Put \ {p} : put'[q] = put[q]
  BY <1>1, <1>2, <1>3
<1>5. FileTypeOK'
  BY <1>1, <1>4 DEF FileTypeOK, PutStates
<1>6. \A q \in Put : Running(q)' <=> q # p /\ Running(q)
  BY <1>1, <1>3, <1>4 DEF Running
<1>7. InUse'
  BY <1>1, <1>4, <1>6 DEF FileInv, InUse, Reading
<1>8. ASSUME NEW q \in Put PROVE Undisturbed(q)'
  <2>1. Undisturbed(q)
    BY DEF FileInv
  <2> QED
    BY <1>1, <1>3, <1>4, <1>6, <2>1 DEF Undisturbed
<1>9. KeptWhole'
  <2> SUFFICES ASSUME put[p].alone PROVE KeptWhole'
    BY <1>1 DEF KeptWhole
  <2>1. /\ ~deleting /\ put[p].file = name /\ Running(p) /\ put[p].named
        /\ (\A q \in Put \ {p} : ~Running(q))
        /\ content[name][1] = p /\ content[name][2] = p
    BY <1>1 DEF FileInv, Undisturbed
  <2>2. name \in Inode /\ content[name] \in Data
    BY <2>1 DEF FileInv, InUse
  <2>3. content[name] = [h \in Half |-> p]
    BY <2>1, <2>2 DEF Data, Half
  <2> QED
    BY <1>1, <1>3, <1>4, <1>6, <2>1, <2>2, <2>3 DEF KeptWhole
<1>10. \A g \in Get : ReadsKept(g)'
  BY <1>1, <1>3, <1>4, ReadsKeptStay
<1> QED
  BY <1>5, <1>7, <1>8, <1>9, <1>10 DEF FileInv

(* A step of a GET changes nothing else.                                   *)
LEMMA GetStep ==
  ASSUME FileInv, NEW g \in Get, NEW s \in GetStates, get' = [get EXCEPT ![g] = s],
         UNCHANGED <<now, linkEnds, name, content, meta, put, deleting, kept>>,
         s.pc \in {"opened", "stream1", "stream2"} =>
           s.file \in Inode /\ content[s.file] \in Data,
         ReadsKept(g)'
  PROVE  FileInv'
<1>1. get \in [Get -> GetStates] /\ FileTypeOK
  BY FileTyping DEF FileInv
<1>2. get' \in [Get -> GetStates] /\ get'[g] = s /\ \A q \in Get \ {g} : get'[q] = get[q]
  BY <1>1
<1>3. FileTypeOK'
  BY <1>1, <1>2 DEF FileTypeOK, GetStates, Data
<1>4. InUse'
  BY <1>2 DEF FileInv, InUse, Reading, Running
<1>5. (\A p \in Put : Undisturbed(p)') /\ KeptWhole'
  BY DEF FileInv, Undisturbed, KeptWhole, Running
<1>6. \A q \in Get : ReadsKept(q)'
  <2>1. ASSUME NEW q \in Get \ {g} PROVE ReadsKept(q)'
    BY <1>2 DEF FileInv, ReadsKept
  <2> QED
    BY <2>1
<1> QED
  BY <1>3, <1>4, <1>5, <1>6 DEF FileInv

LEMMA DownloadStep ==
  ASSUME FileInv, NEW g \in Get, GetDownloadURL(g) \/ OpenFile(g) PROVE FileInv'
<1> USE FileAssumption, HorizonAssumption
<1>0. FileTypeOK /\ get \in [Get -> GetStates] /\ get[g] \in GetStates
  BY FileTyping DEF FileInv
<1>1. CASE GetDownloadURL(g)
  <2> DEFINE s == [NoGet EXCEPT !.pc = "linked", !.ends = LinkEnd]
  <2>1. LinkEnd \in 0..(Horizon + PresignTTL)
    BY <1>0 DEF LinkEnd, FileTypeOK
  <2>2. NoGet \in GetStates /\ NoGet.of = Zero
    BY DEF NoGet, GetStates, GetSteps, Empty, Data
  <2>3. s \in GetStates /\ s.pc = "linked" /\ s.of = Zero
    BY <2>1, <2>2 DEF GetStates, GetSteps
  <2>4. get' = [get EXCEPT ![g] = s]
        /\ UNCHANGED <<now, linkEnds, name, content, meta, put, deleting, kept>>
    BY <1>1 DEF GetDownloadURL, GetTo
  <2> HIDE DEF s
  <2>5. ReadsKept(g)'
    BY <1>0, <2>3, <2>4 DEF ReadsKept
  <2> QED
    BY <2>3, <2>4, <2>5, GetStep
<1>2. CASE OpenFile(g)
  <2>1. UNCHANGED <<now, linkEnds, name, content, meta, put, deleting, kept>>
    BY <1>2 DEF OpenFile
  <2>2. kept # Zero => name # NoFile /\ put[kept].pc = "acknowledged"
    BY DEF FileInv, KeptWhole
  <2>3. CASE now <= get[g].ends /\ name # NoFile
    <3> DEFINE s == [get[g] EXCEPT !.pc = "opened", !.file = name, !.of = kept]
    <3>1. s \in GetStates /\ s.pc = "opened" /\ s.file = name /\ s.of = kept
      BY <1>0 DEF GetStates, GetSteps, FileTypeOK
    <3>2. get' = [get EXCEPT ![g] = s]
      BY <1>2, <2>3 DEF OpenFile, GetTo
    <3> HIDE DEF s
    <3>3. ReadsKept(g)'
      BY <1>0, <2>1, <2>2, <3>1, <3>2 DEF ReadsKept
    <3>4. name \in Inode /\ content[name] \in Data
      BY <1>0, <2>3 DEF FileInv, InUse, FileTypeOK
    <3> QED
      BY <2>1, <3>1, <3>2, <3>3, <3>4, GetStep
  <2>4. CASE ~(now <= get[g].ends /\ name # NoFile)
    <3> DEFINE s == [get[g] EXCEPT !.pc = "failed",
                                   !.of = IF now <= get[g].ends THEN kept ELSE Zero]
    <3>1. s \in GetStates /\ s.pc = "failed" /\ s.of = Zero
      BY <1>0, <2>2, <2>4 DEF GetStates, GetSteps, FileTypeOK
    <3>2. get' = [get EXCEPT ![g] = s]
      BY <1>2, <2>4 DEF OpenFile, GetTo
    <3> HIDE DEF s
    <3>3. ReadsKept(g)'
      BY <1>0, <3>1, <3>2 DEF ReadsKept
    <3> QED
      BY <2>1, <3>1, <3>2, <3>3, GetStep
  <2> QED
    BY <2>3, <2>4
<1> QED
  BY <1>1, <1>2

LEMMA ReadMetaStep == ASSUME FileInv, NEW g \in Get, ReadMeta(g) PROVE FileInv'
<1> USE FileAssumption
<1> DEFINE s == [get[g] EXCEPT !.pc = "stream1",
                               !.type = IF meta = "missing" THEN "default" ELSE meta]
<1>1. /\ get[g].pc = "opened" /\ get' = [get EXCEPT ![g] = s]
      /\ UNCHANGED <<now, linkEnds, name, content, meta, put, deleting, kept>>
  BY DEF ReadMeta, GetTo
<1>2. FileTypeOK /\ get \in [Get -> GetStates] /\ get[g] \in GetStates
  BY FileTyping DEF FileInv
<1>3. (IF meta = "missing" THEN "default" ELSE meta) \in {"default", "empty", "type"}
  BY <1>2 DEF FileTypeOK
<1>4. /\ s \in GetStates /\ s.pc = "stream1" /\ s.file = get[g].file /\ s.of = get[g].of
      /\ s.type = IF meta = "missing" THEN "default" ELSE meta
  BY <1>2, <1>3 DEF GetStates, GetSteps
<1> HIDE DEF s
<1>5. ReadsKept(g) /\ (kept # Zero => meta = "type")
  BY DEF FileInv, KeptWhole
<1>6. ReadsKept(g)'
  BY <1>1, <1>2, <1>4, <1>5 DEF ReadsKept
<1>7. s.file \in Inode /\ content[s.file] \in Data
  BY <1>1, <1>4 DEF FileInv, InUse, Reading
<1> QED
  BY <1>1, <1>4, <1>6, <1>7, GetStep

LEMMA StreamStep ==
  ASSUME FileInv, NEW g \in Get,
         NEW h \in Half, NEW next \in {"stream2", "delivered"}, Stream(g, h, next),
         \/ get[g].pc = "stream1" /\ h = 1 /\ next = "stream2"
         \/ get[g].pc = "stream2" /\ h = 2 /\ next = "delivered"
  PROVE  FileInv'
<1> USE FileAssumption
<1> DEFINE read == [get[g].read EXCEPT ![h] = content[get[g].file][h]]
           s == [get[g] EXCEPT !.pc = next, !.read = read]
<1>1. /\ get' = [get EXCEPT ![g] = s]
      /\ UNCHANGED <<now, linkEnds, name, content, meta, put, deleting, kept>>
  BY DEF Stream, GetTo
<1>2. FileTypeOK /\ get \in [Get -> GetStates] /\ get[g] \in GetStates /\ Reading(g)
  BY FileTyping DEF FileInv, Reading
<1>3. get[g].file \in Inode /\ content[get[g].file] \in Data
  BY <1>2 DEF FileInv, InUse
<1>4. /\ read \in Data /\ read[h] = content[get[g].file][h]
      /\ h = 2 => read[1] = get[g].read[1]
  <2>1. get[g].read \in [Half -> Put \cup {Zero}] /\ content[get[g].file][h] \in Put \cup {Zero}
    BY <1>2, <1>3 DEF Data, GetStates
  <2>2. read \in [Half -> Put \cup {Zero}] /\ read[h] = content[get[g].file][h]
    BY <2>1
  <2>3. \A k \in Half : k # h => read[k] = get[g].read[k]
    BY <2>1
  <2> QED
    BY <2>2, <2>3 DEF Data, Half
<1> HIDE DEF read
<1>5. /\ s \in GetStates /\ s.pc = next /\ s.file = get[g].file /\ s.of = get[g].of
      /\ s.type = get[g].type /\ s.read = read
  BY <1>2, <1>4 DEF GetStates, GetSteps
<1> HIDE DEF s
<1>6. ReadsKept(g)'
  <2> SUFFICES ASSUME get[g].of # Zero PROVE ReadsKept(g)'
    BY <1>1, <1>2, <1>5 DEF ReadsKept
  <2>1. get'[g] = s
    BY <1>1, <1>2
  <2>2. ReadsKept(g)
    BY DEF FileInv
  <2>3. ASSUME get[g].of = kept
        PROVE  /\ get[g].file = name /\ get[g].type = "type" /\ read[h] = kept
               /\ h = 2 => read[1] = kept
    <3>1. kept # Zero /\ get[g].file = name /\ get[g].type = "type"
          /\ (get[g].pc = "stream2" => get[g].read[1] = kept)
      BY <2>2, <2>3 DEF ReadsKept
    <3>2. content[name] = [k \in Half |-> kept]
      BY <3>1 DEF FileInv, KeptWhole
    <3> QED
      BY <1>4, <3>1, <3>2
  <2>4. put[get[g].of].pc = "acknowledged"
    BY <2>2 DEF ReadsKept
  <2>5. CASE get[g].of # kept
    BY <1>1, <1>5, <2>1, <2>4, <2>5 DEF ReadsKept
  <2>6. CASE get[g].of = kept /\ h = 1 /\ next = "stream2"
    BY <1>1, <1>5, <2>1, <2>3, <2>4, <2>6 DEF ReadsKept
  <2>7. CASE get[g].of = kept /\ h = 2 /\ next = "delivered"
    BY <1>1, <1>5, <2>1, <2>3, <2>4, <2>7 DEF ReadsKept
  <2> QED
    BY <2>5, <2>6, <2>7
<1>7. s.file \in Inode /\ content[s.file] \in Data
  BY <1>3, <1>5
<1> QED
  BY <1>1, <1>5, <1>6, <1>7, GetStep

(* A step of a DELETE leaves no PUT alone with its key.                    *)
LEMMA DeleteStep ==
  ASSUME FileInv, DeleteMeta \/ DeleteFile
  PROVE  FileInv'
<1> USE FileAssumption
<1>1. FileTypeOK /\ put \in [Put -> PutStates]
  BY FileTyping DEF FileInv
<1>2. /\ put' \in [Put -> PutStates]
      /\ \A p \in Put : ~put'[p].alone /\ put'[p].pc = put[p].pc /\ put'[p].file = put[p].file
  <2>1. \A p \in Put : /\ [put[p] EXCEPT !.alone = FALSE, !.named = FALSE] \in PutStates
                       /\ [put[p] EXCEPT !.alone = FALSE] \in PutStates
    BY <1>1 DEF PutStates
  <2>2. CASE DeleteMeta
    BY <1>1, <2>1, <2>2 DEF DeleteMeta, PutStates
  <2>3. CASE DeleteFile
    BY <1>1, <2>1, <2>3 DEF DeleteFile, PutStates
  <2> QED
    BY <2>2, <2>3
<1>3. /\ kept' = Zero /\ name' \in {name, NoFile} /\ meta' \in {meta, "missing"}
      /\ deleting' \in BOOLEAN /\ UNCHANGED <<now, linkEnds, content, get>>
  BY DEF DeleteMeta, DeleteFile
<1>4. FileTypeOK'
  BY <1>1, <1>2, <1>3 DEF FileTypeOK, PutStates
<1>5. InUse'
  <2>1. \A p \in Put : Running(p)' <=> Running(p)
    BY <1>2 DEF Running
  <2> QED
    BY <1>2, <1>3, <2>1 DEF FileInv, InUse, Reading
<1>6. (\A p \in Put : Undisturbed(p)') /\ KeptWhole'
  BY <1>2, <1>3 DEF Undisturbed, KeptWhole
<1>7. ASSUME NEW g \in Get PROVE ReadsKept(g)'
  <2>1. ReadsKept(g) /\ get[g].of \in Put \cup {Zero}
    BY <1>1 DEF FileInv, FileTypeOK
  <2> QED
    BY <1>2, <1>3, <2>1 DEF ReadsKept
<1> QED
  BY <1>4, <1>5, <1>6, <1>7 DEF FileInv

LEMMA StopStep == ASSUME FileInv, Stop PROVE FileInv'
<1> USE FileAssumption
<1> DEFINE failed == [NoPut EXCEPT !.pc = "failed"]
<1>1. /\ put' = [p \in Put |-> IF Running(p) THEN failed ELSE put[p]]
      /\ get' = [g \in Get |-> NoGet] /\ deleting' = FALSE
      /\ UNCHANGED <<now, linkEnds, name, content, meta, kept>>
  BY DEF Stop
<1>2. FileTypeOK /\ put \in [Put -> PutStates]
  BY FileTyping DEF FileInv
<1>3. failed \in PutStates /\ failed.pc = "failed" /\ ~failed.alone
  BY DEF NoPut, PutStates, PutSteps
<1>4. NoGet \in GetStates /\ NoGet.of = Zero /\ NoGet.pc = "none"
  <2>1. Empty \in Data
    BY DEF Empty, Data
  <2>2. 0 \in 0..(Horizon + PresignTTL)
    BY HorizonAssumption
  <2> QED
    BY <2>1, <2>2 DEF NoGet, GetStates, GetSteps
<1> HIDE DEF failed
<1>5. /\ put' \in [Put -> PutStates] /\ get' \in [Get -> GetStates]
      /\ \A p \in Put : put'[p] = IF Running(p) THEN failed ELSE put[p]
      /\ \A g \in Get : get'[g] = NoGet
  BY <1>1, <1>2, <1>3, <1>4
<1>6. FileTypeOK'
  BY <1>1, <1>2, <1>5 DEF FileTypeOK, PutStates, GetStates, Data
<1>7. \A p \in Put : ~Running(p)' /\ ~put'[p].alone
  <2>1. \A p \in Put : Running(p) \/ ~put[p].alone
    BY DEF FileInv, Undisturbed
  <2> QED
    BY <1>3, <1>5, <2>1 DEF Running
<1>8. InUse'
  BY <1>1, <1>4, <1>5, <1>7 DEF FileInv, InUse, Reading
<1>9. KeptWhole'
  <2>1. kept # Zero => kept \in Put /\ ~Running(kept)
    BY <1>2 DEF FileInv, KeptWhole, FileTypeOK
  <2> QED
    BY <1>1, <1>5, <1>7, <2>1 DEF FileInv, KeptWhole
<1>10. (\A p \in Put : Undisturbed(p)') /\ \A g \in Get : ReadsKept(g)'
  BY <1>4, <1>5, <1>7 DEF Undisturbed, ReadsKept
<1> QED
  BY <1>6, <1>8, <1>9, <1>10 DEF FileInv

LEMMA FileTickStep == ASSUME FileInv, FileTick PROVE FileInv'
<1>1. FileTypeOK'
  BY HorizonAssumption DEF FileInv, FileTypeOK, FileTick, Passes
<1> QED
  BY <1>1 DEF FileInv, FileTick, InUse, Running, Reading, Undisturbed, KeptWhole, ReadsKept

LEMMA FileNextInv == FileInv /\ [FileNext]_fileVars => FileInv'
<1> SUFFICES ASSUME FileInv, [FileNext]_fileVars PROVE FileInv'
  OBVIOUS
<1>1. CASE UNCHANGED fileVars
  BY <1>1 DEF fileVars, FileInv, FileTypeOK, InUse, Running, Reading, Undisturbed, KeptWhole,
              ReadsKept
<1>2. ASSUME NEW p \in Put, FillFirst(p) \/ FillSecond(p) PROVE FileInv'
  <2>1. 1 \in Half /\ 2 \in Half
    BY DEF Half
  <2> QED
    BY <1>2, <2>1, FillStep DEF FillFirst, FillSecond
<1>3. ASSUME NEW p \in Put,
             \/ Rejected(p) \/ CreateFile(p) \/ OpenMeta(p) \/ WriteMeta(p) \/ SaveFails(p)
      PROVE  FileInv'
  BY <1>3, RejectedStep, CreateFileStep, OpenMetaStep, WriteMetaStep, SaveFailsStep
<1>4. ASSUME NEW g \in Get, GetDownloadURL(g) \/ OpenFile(g) \/ ReadMeta(g) PROVE FileInv'
  BY <1>4, DownloadStep, ReadMetaStep
<1>5. ASSUME NEW g \in Get, StreamFirst(g) \/ StreamSecond(g) PROVE FileInv'
  <2>1. 1 \in Half /\ 2 \in Half
    BY DEF Half
  <2> QED
    BY <1>5, <2>1, StreamStep DEF StreamFirst, StreamSecond
<1>6. CASE DeleteMeta \/ DeleteFile \/ Stop \/ FileTick
  BY <1>6, DeleteStep, StopStep, FileTickStep
<1> QED
  BY <1>1, <1>2, <1>3, <1>4, <1>5, <1>6 DEF FileNext

THEOREM FileInvariance == FileSpec => []FileInv
<1> QED
  BY FileInitInv, FileNextInv, PTL DEF FileSpec

LEMMA InvServed == FileInv => AcknowledgedServed
<1> SUFFICES ASSUME FileInv, NEW g \in Get, get[g].of # Zero, get[g].of = kept
             PROVE  /\ get[g].pc # "failed"
                    /\ get[g].pc = "delivered" =>
                         get[g].type = "type" /\ get[g].read = [h \in Half |-> get[g].of]
  BY DEF AcknowledgedServed
<1>1. ReadsKept(g)
  BY DEF FileInv
<1>2. get[g].read \in [Half -> Put \cup {Zero}]
  BY DEF FileInv, FileTypeOK
<1>3. ASSUME get[g].pc = "delivered" PROVE get[g].read = [h \in Half |-> get[g].of]
  <2>1. get[g].read[1] = get[g].of /\ get[g].read[2] = get[g].of
    BY <1>1, <1>3 DEF ReadsKept
  <2> QED
    BY <1>2, <2>1 DEF Half
<1> QED
  BY <1>1, <1>3 DEF ReadsKept

(* What was acknowledged and left alone since is served whole and with its *)
(* type, for any number of PUT and GET requests for the key, a DELETE, and *)
(* stops of the process between any two of their steps.                    *)
THEOREM AcknowledgedIsServed == FileSpec => []AcknowledgedServed
<1> QED
  BY InvServed, FileInvariance, PTL

----------------------------------------------------------------------------
(* The services side by side, as the run has them: the part that moves     *)
(* keeps its own invariant, and what the others promise outlives the time  *)
(* that passes meanwhile.                                                  *)
Apart ==
  /\ TypeOK /\ Inv
  /\ part = "keys" => KeyInv
  /\ part = "remote" => RemoteInv
  /\ part = "files" => FileInv
  /\ KnownKeyFound /\ AcknowledgedServed
  /\ part # "remote" => \A c \in Caller : call[c].pc = "none"

LEMMA ApartInit == Init => Apart
<1> SUFFICES ASSUME Init PROVE Apart
  OBVIOUS
<1>1. Inv /\ KeyInv /\ RemoteInv /\ FileInv
  BY InitInv, KeyInitInv, RemoteInitInv, FileInitInv DEF Init
<1>2. TypeOK
  BY <1>1 DEF TypeOK, Inv, KeyInv, RemoteInv, FileInv
<1>3. KnownKeyFound /\ AcknowledgedServed
  BY <1>1, InvServed DEF KeyInv, Missing, KnownKeyFound
<1>4. \A c \in Caller : call[c].pc = "none"
  BY DEF Init, RemoteInit, NoCall
<1> QED
  BY <1>1, <1>2, <1>3, <1>4 DEF Apart

LEMMA ApartStep == Apart /\ [Next]_<<part, preVars, keyVars, remoteRest, fileRest>> => Apart'
<1> SUFFICES ASSUME Apart, [Next]_<<part, preVars, keyVars, remoteRest, fileRest>>
             PROVE  Apart'
  OBVIOUS
<1> USE DEF Apart, TypeOK
<1>1. ASSUME UNCHANGED preVars PROVE Inv' /\ PreTypeOK'
  BY <1>1, NextInv DEF Inv
<1>2. ASSUME UNCHANGED keyRest, now' \in 0..Horizon PROVE KeyTypeOK' /\ KnownKeyFound'
  BY <1>2 DEF keyRest, KeyTypeOK, KnownKeyFound
<1>3. ASSUME UNCHANGED remoteRest, now' \in 0..Horizon
      PROVE  RemoteTypeOK' /\ ((\A c \in Caller : call[c].pc = "none")
                                => \A c \in Caller : call'[c].pc = "none")
  BY <1>3 DEF remoteRest, RemoteTypeOK
<1>4. ASSUME UNCHANGED fileRest, now' \in 0..Horizon PROVE FileTypeOK' /\ AcknowledgedServed'
  BY <1>4 DEF fileRest, FileTypeOK, AcknowledgedServed
<1>5. CASE UNCHANGED <<part, preVars, keyVars, remoteRest, fileRest>>
  <2>1. /\ UNCHANGED keyRest /\ UNCHANGED preVars /\ now' = now
    BY <1>5 DEF keyVars, keyRest
  <2>2. now' \in 0..Horizon
    BY <2>1 DEF KeyTypeOK
  <2>3. UNCHANGED keyVars /\ UNCHANGED remoteVars /\ UNCHANGED fileVars
    BY <1>5, <2>1 DEF remoteVars, remoteRest, fileVars, fileRest
  <2>4. (part = "keys" => KeyInv') /\ (part = "remote" => RemoteInv') /\ (part = "files" => FileInv')
    BY <2>3, KeyNextInv, RemoteNextInv, FileNextInv
  <2> QED
    BY <1>1, <1>2, <1>3, <1>4, <1>5, <2>1, <2>2, <2>4
<1>6. CASE part = "traders" /\ part' = part /\ PreNext /\ UNCHANGED <<now, keyRest, remoteRest, fileRest>>
  <2>1. Inv' /\ PreTypeOK'
    BY <1>6, NextInv DEF Inv
  <2>2. now' \in 0..Horizon
    BY <1>6 DEF KeyTypeOK
  <2> QED
    BY <1>2, <1>3, <1>4, <1>6, <2>1, <2>2
<1>7. CASE part = "keys" /\ part' = part /\ KeyNext /\ UNCHANGED <<preVars, remoteRest, fileRest>>
  <2>1. KeyInv' /\ KeyTypeOK' /\ KnownKeyFound'
    BY <1>7, KeyNextInv DEF KeyInv, Missing, KnownKeyFound
  <2>2. now' \in 0..Horizon
    BY <2>1 DEF KeyTypeOK
  <2> QED
    BY <1>1, <1>3, <1>4, <1>7, <2>1, <2>2
<1>8. CASE part = "remote" /\ part' = part /\ RemoteNext /\ UNCHANGED <<preVars, keyRest, fileRest>>
  <2>1. RemoteInv' /\ RemoteTypeOK'
    BY <1>8, RemoteNextInv DEF RemoteInv
  <2>2. now' \in 0..Horizon
    BY <2>1 DEF RemoteTypeOK
  <2> QED
    BY <1>1, <1>2, <1>4, <1>8, <2>1, <2>2
<1>9. CASE part = "files" /\ part' = part /\ FileNext /\ UNCHANGED <<preVars, keyRest, remoteRest>>
  <2>1. FileInv' /\ FileTypeOK' /\ AcknowledgedServed'
    <3>1. FileInv'
      BY <1>9, FileNextInv
    <3>2. FileInv' => AcknowledgedServed'
      BY InvServed, PTL
    <3> QED
      BY <3>1, <3>2 DEF FileInv
  <2>2. now' \in 0..Horizon
    BY <2>1 DEF FileTypeOK
  <2> QED
    BY <1>1, <1>2, <1>3, <1>9, <2>1, <2>2
<1> QED
  BY <1>5, <1>6, <1>7, <1>8, <1>9 DEF Next

(* Whichever service moves, every state of all of them has its type, and   *)
(* every promise made for one service alone is kept.                       *)
THEOREM ServicesAreSafe ==
  Spec => [](/\ TypeOK /\ OneIdentity /\ ReadyStarts /\ DependenciesMet
             /\ KnownKeyFound /\ UsableToken /\ AcknowledgedServed)
<1>1. Apart => /\ TypeOK /\ OneIdentity /\ ReadyStarts /\ DependenciesMet
               /\ KnownKeyFound /\ UsableToken /\ AcknowledgedServed
  BY InvUsable DEF Apart, Inv, UsableToken
<1> QED
  BY <1>1, ApartInit, ApartStep, PTL DEF Spec
=============================================================================
