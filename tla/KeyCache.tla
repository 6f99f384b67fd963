------------------------------- MODULE KeyCache -------------------------------
(***************************************************************************)
(* How the backend decides whose token a request carries: the token        *)
(* extractor, its cache of the identity provider's signing keys under a    *)
(* read-write mutex, and the middleware that asks it.                      *)
(*                                                                         *)
(* The identity provider and the JWT library are external.  The provider   *)
(* may change the keys it publishes at any time.  A set of published keys  *)
(* is never empty; a response is composed at one moment of its request.    *)
(***************************************************************************)
EXTENDS Clock

CONSTANTS
  Kid,        \* key ids the provider may publish
  Broken,     \* those published with material that is no RSA key
  Token,      \* tokens that requests carry
  Verifier,   \* requests that can overlap
  TTL,        \* jwksCacheTTL
  FetchTime,  \* the timeout of the extractor's HTTP client
  Leeway,     \* of the expiry test
  Never,      \* no exp claim
  MaxRotations, \* bound: changes of the published keys
  NoToken, Unlocked

ASSUME KeyAssumption ==
  /\ TTL \in Nat \ {0} /\ FetchTime \in Nat \ {0} /\ Leeway \in Nat
  /\ MaxRotations \in Nat
  /\ Broken \subseteq Kid
  /\ Unlocked \notin Verifier
  /\ NoToken \notin Token
  /\ Never \notin Nat

VARIABLES
  served,    \* the key ids the provider publishes
  rotations, \* how often it has changed them
  withdrawn, \* the time a key id was last taken back, 0 when it never was
  cache,     \* cachedJWKS; {} for none, fetchJWKS refuses an empty set
  fetched,   \* lastJWKSFetch
  writer,    \* the request that holds cacheMu for writing
  check,     \* the requests: where keyFunc stands and what it read
  verdict,   \* what became of each request's latest token
  lacked     \* history: the request's key was unpublished at some time of it

keyVars == <<now, served, rotations, withdrawn, cache, fetched, writer, check, verdict, lacked>>

Idle == [pc |-> "idle", token |-> NoToken, force |-> FALSE, stamp |-> 0, keys |-> {}]

Verdicts == {"none", "user", "client", "unauthorized", "unknown key", "no keys"}

KeyTypeOK ==
  /\ now \in 0..Horizon
  /\ served \in SUBSET Kid
  /\ rotations \in 0..MaxRotations
  /\ withdrawn \in [Kid -> 0..Horizon]
  /\ cache \in SUBSET Kid
  /\ fetched \in 0..Horizon
  /\ writer \in Verifier \cup {Unlocked}
  /\ check \in [Verifier -> [pc : {"idle", "stamp", "read", "lock", "fetch", "answer"},
                             token : Token \cup {NoToken}, force : BOOLEAN,
                             stamp : 0..Horizon, keys : SUBSET Kid]]
  /\ verdict \in [Verifier -> Verdicts]
  /\ lacked \in [Verifier -> BOOLEAN]

KeyInit ==
  /\ now = 0
  /\ served \in SUBSET Kid \ {{}}
  /\ rotations = 0
  /\ withdrawn = [k \in Kid |-> 0]
  /\ cache = {}
  /\ fetched = 0
  /\ writer = Unlocked
  /\ check = [v \in Verifier |-> Idle]
  /\ verdict = [v \in Verifier |-> "none"]
  /\ lacked = [v \in Verifier |-> FALSE]

----------------------------------------------------------------------------
(* What a token says                                                       *)

InTime(t) == t.exp # Never /\ now < t.exp + Leeway

IsUser(t) ==
  /\ t.grant = "authorization_code"
  /\ {"sub", "email", "ouId"} \subseteq t.claims
  /\ t.phone # "blank"

IsClient(t) == t.grant = "client_credentials"

Accepted(t) == /\ t.issuer = "expected" /\ InTime(t)
               /\ t.client = "expected"
               /\ IsUser(t) \/ IsClient(t)

\* what the middleware makes of a token whose key is k
Judged(t) ==
  IF t.kid \in Broken \/ ~t.genuine \/ ~Accepted(t) THEN "unauthorized"
  ELSE IF IsUser(t) THEN "user" ELSE "client"

\* Refused before keyFunc looks for the key
Malformed(t) == t.method # "RSA" \/ t.kid \notin Kid

----------------------------------------------------------------------------
(* Requests: what one goroutine does between two waits                     *)

Answer(v, w) == /\ check' = [check EXCEPT ![v] = Idle]
                /\ verdict' = [verdict EXCEPT ![v] = w]

To(v, pc) == /\ check' = [check EXCEPT ![v] = [@ EXCEPT !.pc = pc]]
             /\ UNCHANGED verdict

\* a request without a header goes through without a context; one with a
\* header is judged by its token
Arrive(v, t) ==
  /\ check[v].pc = "idle"
  /\ IF Malformed(t)
       THEN Answer(v, "unauthorized")
       ELSE /\ check' = [check EXCEPT ![v] =
                 [Idle EXCEPT !.pc = "stamp", !.token = t]]
            /\ verdict' = [verdict EXCEPT ![v] = "none"]
  /\ lacked' = [lacked EXCEPT ![v] = t.kid \notin served]
  /\ UNCHANGED <<now, served, rotations, withdrawn, cache, fetched, writer>>

Valid(at) == cache # {} /\ at < fetched + TTL

\* the key is looked up in the set getJWKS returned; when it is not there a
\* second, forced getJWKS follows
Use(v, keys) ==
  LET c == check[v] IN
  IF c.token.kid \in keys THEN Answer(v, Judged(c.token))
  ELSE IF c.force THEN Answer(v, "unknown key")
  ELSE /\ check' = [check EXCEPT ![v] = [@ EXCEPT !.pc = "stamp", !.force = TRUE,
                                                  !.keys = {}]]
       /\ UNCHANGED verdict

Stamp(v) ==
  /\ check[v].pc = "stamp"
  /\ check' = [check EXCEPT ![v] = [@ EXCEPT !.pc = "read", !.stamp = now]]
  /\ UNCHANGED <<now, served, rotations, withdrawn, cache, fetched, writer, verdict, lacked>>

\* RLock: the validity is judged by the time read before the wait
ReadCache(v) ==
  /\ check[v].pc = "read"
  /\ writer = Unlocked
  /\ IF ~check[v].force /\ Valid(check[v].stamp) THEN Use(v, cache) ELSE To(v, "lock")
  /\ UNCHANGED <<now, served, rotations, withdrawn, cache, fetched, writer, lacked>>

\* a writer that arrives later does not overtake a waiting reader
ReadersWait == \E u \in Verifier : check[u].pc = "read" /\ check[u].stamp < now

\* the forced call takes a cache that another request has just filled
LockCacheTrusting(v) ==
  /\ check[v].pc = "lock"
  /\ writer = Unlocked /\ ~ReadersWait
  /\ IF Valid(now)
       THEN Use(v, cache) /\ UNCHANGED writer
       ELSE /\ check' = [check EXCEPT ![v] = [@ EXCEPT !.pc = "fetch", !.stamp = now]]
            /\ writer' = v
            /\ UNCHANGED verdict
  /\ UNCHANGED <<now, served, rotations, withdrawn, cache, fetched, lacked>>

LockCache(v) ==
  /\ check[v].pc = "lock"
  /\ writer = Unlocked /\ ~ReadersWait
  /\ IF ~check[v].force /\ Valid(now)
       THEN Use(v, cache) /\ UNCHANGED writer
       ELSE /\ check' = [check EXCEPT ![v] = [@ EXCEPT !.pc = "fetch", !.stamp = now]]
            /\ writer' = v
            /\ UNCHANGED verdict
  /\ UNCHANGED <<now, served, rotations, withdrawn, cache, fetched, lacked>>

\* the provider composes its response
Respond(v) ==
  /\ check[v].pc = "fetch"
  /\ check' = [check EXCEPT ![v] = [@ EXCEPT !.pc = "answer", !.keys = served]]
  /\ UNCHANGED <<now, served, rotations, withdrawn, cache, fetched, writer, verdict, lacked>>

\* the lifetime counted from the end of the fetch
InstallLate(v) ==
  /\ check[v].pc = "answer"
  /\ cache' = check[v].keys
  /\ fetched' = now
  /\ writer' = Unlocked
  /\ Use(v, check[v].keys)
  /\ UNCHANGED <<now, served, rotations, withdrawn, lacked>>

Install(v) ==
  /\ check[v].pc = "answer"
  /\ cache' = check[v].keys
  /\ fetched' = check[v].stamp
  /\ writer' = Unlocked
  /\ Use(v, check[v].keys)
  /\ UNCHANGED <<now, served, rotations, withdrawn, lacked>>

\* no connection, a timeout, another status or a body that is no key set
FetchFails(v) ==
  /\ check[v].pc \in {"fetch", "answer"}
  /\ writer' = Unlocked
  /\ Answer(v, "no keys")
  /\ UNCHANGED <<now, served, rotations, withdrawn, cache, fetched, lacked>>

----------------------------------------------------------------------------
(* The provider and time                                                   *)

Rotate(S) ==
  /\ S # {} /\ S # served
  /\ rotations < MaxRotations /\ rotations' = rotations + 1
  /\ served' = S
  /\ withdrawn' = [k \in Kid |-> IF k \in served \ S THEN now ELSE withdrawn[k]]
  /\ lacked' = [v \in Verifier |->
                  lacked[v] \/ (check[v].pc # "idle" /\ check[v].token.kid \notin S)]
  /\ UNCHANGED <<now, cache, fetched, writer, check, verdict>>

KeysMayWait == \A v \in Verifier :
  /\ check[v].pc # "stamp"
  /\ check[v].pc \in {"read", "lock"} => writer # Unlocked
  /\ check[v].pc \in {"fetch", "answer"} => now < check[v].stamp + FetchTime

KeyTick == /\ KeysMayWait /\ Passes
           /\ UNCHANGED <<served, rotations, withdrawn, cache, fetched, writer, check, verdict, lacked>>

KeyNext ==
  \/ \E v \in Verifier :
       \/ \E t \in Token : Arrive(v, t)
       \/ Stamp(v) \/ ReadCache(v) \/ LockCache(v)
       \/ Respond(v) \/ Install(v) \/ FetchFails(v)
  \/ \E S \in SUBSET Kid : Rotate(S)
  \/ KeyTick

KeySpec == KeyInit /\ [][KeyNext]_keyVars

----------------------------------------------------------------------------
(* Properties                                                              *)

Accepts(v) == /\ check[v].pc # "idle" /\ check'[v].pc = "idle"
              /\ verdict'[v] \in {"user", "client"}

(* A token is accepted only on a key that the provider publishes, or took  *)
(* back less than a cache lifetime and one fetch ago: the lifetime is      *)
(* counted from before the fetch, and a reader that waited behind a fetch  *)
(* judges the cache by the time before its wait.                           *)
RecentlyServed ==
  [][\A v \in Verifier : Accepts(v) =>
       LET k == check[v].token.kid IN
       k \in served \/ now < withdrawn[k] + TTL + FetchTime]_keyVars

(* Key rotation refuses nobody: a request is told that its key is unknown  *)
(* only if the provider did not publish that key during all of the request *)
(* (the forced second getJWKS of keyFunc does not trust the cache, however *)
(* recently another request filled it).                                    *)
KnownKeyFound ==
  \A v \in Verifier : verdict[v] = "unknown key" => lacked[v]

=============================================================================
