------------------------------ MODULE MCServices ------------------------------
(***************************************************************************)
(* The services around the workflows, one at a time: in a behaviour only   *)
(* the part chosen at its start moves.  They share no state but the time,  *)
(* so nothing is lost by not mixing their steps.                           *)
(***************************************************************************)
EXTENDS PreConsignment, KeyCache, RemoteToken, LocalFiles, TLC

CONSTANTS KeyHorizon, FileHorizon   \* bounds: as Horizon, for these parts

CONSTANT t1   \* one of Request: its person is p1, without loss of generality

CONSTANTS registration, licence, permit   \* the permit needs the other two

VARIABLE part

Symmetry == Permutations(Verifier) \cup Permutations(UserId) \cup Permutations(Put)
            \cup Permutations({registration, licence})

MCTemplate == {registration, licence, permit}
MCDependsOn == (registration :> {}) @@ (licence :> {}) @@ (permit :> {registration, licence})

GoodToken(kid, grant, claims) ==
  [method |-> "RSA", kid |-> kid, genuine |-> TRUE, issuer |-> "expected", exp |-> 3,
   client |-> "expected", grant |-> grant, claims |-> claims, phone |-> "absent"]

MCToken == {GoodToken("k1", "authorization_code", {"sub", "email", "ouId"}),
            GoodToken("k2", "client_credentials", {}),
            GoodToken("k0", "client_credentials", {})}

keyRest == <<served, rotations, withdrawn, cache, fetched, writer, check, verdict, lacked>>
remoteRest == <<token, holder, call>>
fileRest == <<linkEnds, name, content, meta, put, get, deleting, kept>>

\* of a listing nothing reads more than the dependencies it shows as completed
Dependency == UNION {DependsOn[m] : m \in Template}
SeenView == [r \in Request |-> {d \in Dependency : seen[r][d] = "COMPLETED"}]
View == <<part, whose, users, login, held, created, ask, SeenView, reply, direct,
          keyVars, remoteRest, fileRest>>

\* the parts that do not move have one initial state
Init ==
  /\ part \in {"traders", "keys", "remote", "files"}
  /\ PreInit /\ KeyInit /\ RemoteInit /\ FileInit
  /\ whose[t1] = "p1"
  /\ part # "traders" => \A r, q \in Request : whose[r] = whose[q]
  /\ part # "keys" => served = Kid

Next ==
  /\ UNCHANGED part
  /\ \/ /\ part = "traders" /\ PreNext
        /\ UNCHANGED <<now, keyRest, remoteRest, fileRest>>
     \/ /\ part = "keys" /\ KeyNext /\ now' <= KeyHorizon
        /\ UNCHANGED <<preVars, remoteRest, fileRest>>
     \/ /\ part = "remote" /\ RemoteNext
        /\ UNCHANGED <<preVars, keyRest, fileRest>>
     \/ /\ part = "files" /\ FileNext /\ now' <= FileHorizon
        /\ UNCHANGED <<preVars, keyRest, remoteRest>>

Spec == Init /\ [][Next]_<<part, preVars, keyVars, remoteRest, fileRest>>

\* the types of all parts
TypeOK == PreTypeOK /\ KeyTypeOK /\ RemoteTypeOK /\ FileTypeOK
=============================================================================
