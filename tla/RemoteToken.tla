----------------------------- MODULE RemoteToken -----------------------------
(***************************************************************************)
(* Calls to one remote service whose authenticator is OAuth2: the access   *)
(* token that all callers share, its refresh under the authenticator's     *)
(* mutex, and the retries of a call.                                       *)
(*                                                                         *)
(* The token server and the service are external.  The server grants a     *)
(* lifetime from the moment it composes its response; the client counts    *)
(* it from the moment it has read it.                                      *)
(***************************************************************************)
EXTENDS Clock

CONSTANTS
  Caller,       \* goroutines that call the service
  Lifetimes,    \* expires_in values the token server grants
  Buffer,       \* the minute by which a cached token is given up early
  TokenTimeout, \* of the client that fetches tokens
  CallTimeout,  \* of the service, the timeout of services.json
  MaxBackoff,   \* the longest wait before a retry
  MaxRetries,
  Free          \* the mutex is held by nobody

ASSUME RemoteAssumption ==
  /\ Lifetimes \subseteq Nat
  /\ Buffer \in Nat /\ TokenTimeout \in Nat \ {0} /\ CallTimeout \in Nat \ {0}
  /\ MaxBackoff \in Nat /\ MaxRetries \in Nat
  /\ Free \notin Caller

\* ten and thirty seconds against one minute
ASSUME TimeoutAssumption ==
  /\ TokenTimeout + CallTimeout <= Buffer
  /\ \A life \in Lifetimes : TokenTimeout + CallTimeout < life

VARIABLES
  token,  \* the cached token: when it ends and when the client thinks it does
  holder, \* the caller that holds the mutex of the authenticator
  call    \* the calls: where each stands, its attempts and its token

remoteVars == <<now, token, holder, call>>

NoCall == [pc |-> "none", attempt |-> 0, since |-> 0, ends |-> 0, life |-> 0]

RemoteTypeOK ==
  /\ now \in 0..Horizon
  /\ token.ends \in Nat /\ token.expiry \in Nat
  /\ holder \in Caller \cup {Free}
  /\ call \in [Caller -> [pc : {"none", "apply", "refresh", "issued", "send", "backoff"},
                          attempt : 0..MaxRetries, since : 0..Horizon,
                          ends : Nat, life : Lifetimes \cup {0}]]

RemoteInit ==
  /\ now = 0
  /\ token = [ends |-> 0, expiry |-> 0]   \* accessToken ""
  /\ holder = Free
  /\ call = [c \in Caller |-> NoCall]

----------------------------------------------------------------------------

Set(c, state) == call' = [call EXCEPT ![c] = state]

End(c) == Set(c, NoCall)

\* a call begins: the first one makes the client, and as GetClient looks
\* again under the lock all callers share one authenticator; a service that
\* is not configured, or cannot be, ends the call here
GetClient(c) ==
  /\ call[c].pc = "none"
  /\ Set(c, [NoCall EXCEPT !.pc = "apply"])
  /\ UNCHANGED <<now, token, holder>>

Send(c, ends) ==
  Set(c, [call[c] EXCEPT !.pc = "send", !.since = now, !.ends = ends, !.life = 0])

\* the cached token as long as it lasts
ApplyUnbuffered(c) ==
  /\ call[c].pc = "apply" /\ holder = Free
  /\ IF now < token.expiry
       THEN Send(c, token.ends) /\ UNCHANGED holder
       ELSE /\ Set(c, [call[c] EXCEPT !.pc = "refresh", !.since = now])
            /\ holder' = c
  /\ UNCHANGED <<now, token>>

\* the lock of getToken; the wait for it has no limit of its own
Apply(c) ==
  /\ call[c].pc = "apply" /\ holder = Free
  /\ IF now + Buffer < token.expiry
       THEN Send(c, token.ends) /\ UNCHANGED holder
       ELSE /\ Set(c, [call[c] EXCEPT !.pc = "refresh", !.since = now])
            /\ holder' = c
  /\ UNCHANGED <<now, token>>

\* the token server composes its response
Issue(c, life) ==
  /\ call[c].pc = "refresh"
  /\ Set(c, [call[c] EXCEPT !.pc = "issued", !.ends = now + life, !.life = life])
  /\ UNCHANGED <<now, token, holder>>

\* the response is read: the token is cached, and used without another look
\* at its expiry
Refreshed(c) ==
  /\ call[c].pc = "issued"
  /\ token' = [ends |-> call[c].ends, expiry |-> now + call[c].life]
  /\ holder' = Free
  /\ Send(c, call[c].ends)
  /\ UNCHANGED <<now>>

\* an attempt failed on the way or was answered with a retryable status
TryAgain(c) ==
  IF call[c].attempt < MaxRetries
    THEN Set(c, [call[c] EXCEPT !.pc = "backoff", !.attempt = @ + 1, !.since = now,
                                !.ends = 0, !.life = 0])
    ELSE End(c)

Release(c) == holder' = IF holder = c THEN Free ELSE holder

\* the token request or the call itself fails or times out
AttemptFails(c) ==
  /\ call[c].pc \in {"refresh", "issued", "send"}
  /\ Release(c)
  /\ TryAgain(c)
  /\ UNCHANGED <<now, token>>

\* an answer that is not retried, 401 among them: the token stays cached
Answered(c) ==
  /\ call[c].pc = "send"
  /\ End(c)
  /\ UNCHANGED <<now, token, holder>>

AfterBackoff(c) ==
  /\ call[c].pc = "backoff"
  /\ Set(c, [call[c] EXCEPT !.pc = "apply", !.since = 0])
  /\ UNCHANGED <<now, token, holder>>

\* the caller's context is done
Cancelled(c) ==
  /\ call[c].pc \in {"refresh", "issued", "send", "backoff"}
  /\ Release(c)
  /\ End(c)
  /\ UNCHANGED <<now, token>>

CallsMayWait == \A c \in Caller :
  /\ call[c].pc = "apply" => holder # Free
  /\ call[c].pc \in {"refresh", "issued"} => now < call[c].since + TokenTimeout
  /\ call[c].pc = "send" => now < call[c].since + CallTimeout
  /\ call[c].pc = "backoff" => now < call[c].since + MaxBackoff

RemoteTick == /\ CallsMayWait /\ Passes
              /\ UNCHANGED <<token, holder, call>>

RemoteNext ==
  \/ \E c \in Caller :
       \/ GetClient(c) \/ Apply(c)
       \/ \E life \in Lifetimes : Issue(c, life)
       \/ Refreshed(c) \/ AttemptFails(c) \/ Answered(c)
       \/ AfterBackoff(c) \/ Cancelled(c)
  \/ RemoteTick

RemoteSpec == RemoteInit /\ [][RemoteNext]_remoteVars

----------------------------------------------------------------------------
(* Properties                                                              *)

(* Whatever the waits for the lock, the token server and the network, a    *)
(* request is on its way only with a token that has not ended at the       *)
(* server that granted it, until the last moment it may be read there.     *)
UsableToken == \A c \in Caller : call[c].pc = "send" => now < call[c].ends

=============================================================================
