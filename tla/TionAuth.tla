------------------------------- MODULE TionAuth -------------------------------
(***************************************************************************)
(* The session of TionAuth (cloud_v4/auth.py): who renews the tokens, what *)
(* a refusal or a streak of failures is remembered as, and what listeners  *)
(* see of it, while the server may rotate, refuse or revoke the session.   *)
(*                                                                         *)
(* Times are counted down in ticks from the moment they are set, so the    *)
(* clock needs no bound: a tick is RENEW_RETRY_INTERVAL or a part of it.   *)
(***************************************************************************)
EXTENDS Naturals, FiniteSets

CONSTANTS
    Callers,     \* tasks that ask for a token
    Sessions,    \* renew session tokens, reused once nobody holds them
    Lifetime,    \* ticks until an access token needs a renewal
    Retry,       \* RENEW_RETRY_INTERVAL
    StaleAfter,  \* RENEW_STALE_AFTER
    None         \* no session on the server, no holder of the lock

ASSUME TimesAssumption == {Lifetime, Retry, StaleAfter} \subseteq Nat \ {0}
ASSUME NamesAssumption ==
    /\ None \notin Sessions \cup Callers /\ None \notin Nat
    /\ Sessions \cap {"none", "proof", "refused", "failed"} = {}

VARIABLES
    session,     \* renew_session_token of self._tokens, as saved with the entry
    expires,     \* ticks until the access token needs a renewal
    server,      \* the session the server knows, None once revoked
    lost,        \* an answer that rotated the session never reached us
    pc,          \* of each caller: idle, lock, sent, served
    kind,        \* of each caller: ensure, renew
    asked,       \* the session each caller's request carries
    reply,       \* the server's answer to each caller
    retried,     \* the caller has repeated a request with an invalid proof
    lock,        \* holder of _renew_lock
    refused,     \* _renew_error is set
    retryIn,     \* ticks until _renew_retry_at
    failing,     \* ticks since _renew_failing_since, up to StaleAfter; or None
    stale,       \* _stale_error is set
    shown,       \* the listeners' last look at renew_error
    sinceRenewal,\* ticks since the last renewal, up to Memory
    sinceRefusal,\* ticks since the last refusal was learned, up to Retry
    stable       \* the server has stopped failing

vars == <<session, expires, server, lost, pc, kind, asked, reply, retried, lock,
          refused, retryIn, failing, stale, shown, sinceRenewal, sinceRefusal, stable>>

tokens == <<session, expires, sinceRenewal>>
cloud  == <<server, lost>>
caller == <<pc, kind, asked, reply, retried>>
errors == <<refused, retryIn, failing, stale, sinceRefusal>>

\* How far back the last renewal is remembered.
Memory == IF Lifetime > StaleAfter THEN Lifetime ELSE StaleAfter

Init ==
    /\ session \in Sessions
    /\ expires = Lifetime
    /\ server = session
    /\ lost = FALSE
    /\ pc = [c \in Callers |-> "idle"]
    /\ kind = [c \in Callers |-> "ensure"]
    /\ asked = [c \in Callers |-> None]
    /\ reply = [c \in Callers |-> "none"]
    /\ retried = [c \in Callers |-> FALSE]
    /\ lock = None
    /\ refused = FALSE
    /\ retryIn = 0
    /\ failing = None
    /\ stale = FALSE
    /\ shown = FALSE
    /\ sinceRenewal = 0
    /\ sinceRefusal = Retry
    /\ stable = FALSE

NeedsRenewal == expires = 0

\* renew_error: the remembered refusal, or the streak's error.
RenewError == refused \/ stale

\* A caller is done, with a token or with an error.
Return(c) ==
    /\ pc' = [pc EXCEPT ![c] = "idle"]
    /\ asked' = [asked EXCEPT ![c] = None]
    /\ reply' = [reply EXCEPT ![c] = "none"]
    /\ retried' = [retried EXCEPT ![c] = FALSE]
    /\ UNCHANGED kind

-----------------------------------------------------------------------------
(* Asking for a token *)

\* async_ensure_valid, when its first check finds the token too old.
Ensure(c) ==
    /\ pc[c] = "idle"
    /\ NeedsRenewal
    /\ pc' = [pc EXCEPT ![c] = "lock"]
    /\ kind' = [kind EXCEPT ![c] = "ensure"]
    /\ UNCHANGED <<tokens, cloud, asked, reply, retried, lock, errors, shown, stable>>

\* async_renew_access: the server rejected the access token.
Renew(c) ==
    /\ pc[c] = "idle"
    /\ ~stable
    /\ pc' = [pc EXCEPT ![c] = "lock"]
    /\ kind' = [kind EXCEPT ![c] = "renew"]
    /\ UNCHANGED <<tokens, cloud, asked, reply, retried, lock, errors, shown, stable>>

\* The renewal is asked for with the session we hold now.
Ask(c) ==
    /\ pc' = [pc EXCEPT ![c] = "sent"]
    /\ asked' = [asked EXCEPT ![c] = session]
    /\ lock' = c
    /\ UNCHANGED <<tokens, cloud, kind, reply, retried, errors, shown, stable>>

\* Faulty variants of the turn in the lock: without the lock, without the
\* second look at the token, and with a refusal that is remembered for ever.
EnterUnlocked(c) ==
    /\ pc[c] = "lock"
    /\ Ask(c)

EnterUnchecked(c) ==
    /\ pc[c] = "lock"
    /\ lock = None
    /\ ~(refused /\ retryIn > 0)
    /\ Ask(c)

EnterForever(c) ==
    /\ pc[c] = "lock"
    /\ lock = None
    /\ IF (kind[c] = "ensure" /\ ~NeedsRenewal) \/ refused
         THEN Return(c) /\ UNCHANGED <<tokens, cloud, lock, errors, shown, stable>>
         ELSE Ask(c)

\* A caller's turn in the lock: another one may have renewed the token by now,
\* and a remembered refusal is raised again until its interval is over.
Enter(c) ==
    /\ pc[c] = "lock"
    /\ lock = None
    /\ IF (kind[c] = "ensure" /\ ~NeedsRenewal) \/ (refused /\ retryIn > 0)
         THEN Return(c) /\ UNCHANGED <<tokens, cloud, lock, errors, shown, stable>>
         ELSE Ask(c)

-----------------------------------------------------------------------------
(* The server *)

\* It renews the session it knows, and may rotate it; it refuses any other.
Serve(c) ==
    /\ pc[c] = "sent"
    /\ pc' = [pc EXCEPT ![c] = "served"]
    /\ \/ /\ asked[c] = server
          /\ \E s \in Sessions \ ({asked[d] : d \in Callers} \ {server}) :
               /\ server' = s
               /\ reply' = [reply EXCEPT ![c] = s]
       \/ /\ asked[c] # server
          /\ reply' = [reply EXCEPT ![c] = "refused"]
          /\ UNCHANGED server
       \/ /\ ~stable
          /\ \E r \in {"proof", "refused", "failed"} : reply' = [reply EXCEPT ![c] = r]
          /\ UNCHANGED server
    /\ UNCHANGED <<tokens, lost, kind, asked, retried, lock, errors, shown, stable>>

\* The user logs the device out.
Revoke ==
    /\ ~stable
    /\ server # None
    /\ server' = None
    /\ UNCHANGED <<tokens, lost, caller, lock, errors, shown, stable>>

-----------------------------------------------------------------------------
(* The answer *)

\* Faulty variant: the streak of failures outlives a renewal.
KeepStreak(c) ==
    /\ session' = reply[c]
    /\ expires' = Lifetime
    /\ sinceRenewal' = 0
    /\ refused' = FALSE /\ stale' = FALSE
    /\ shown' = FALSE
    /\ UNCHANGED <<retryIn, failing, sinceRefusal>>

\* Faulty variant: the listeners are called before the errors are forgotten.
NotifyFirst(c) ==
    /\ session' = reply[c]
    /\ expires' = Lifetime
    /\ sinceRenewal' = 0
    /\ refused' = FALSE /\ stale' = FALSE /\ failing' = None
    /\ shown' = (refused \/ stale)
    /\ UNCHANGED <<retryIn, sinceRefusal>>

\* The errors are forgotten, then the listeners see the new tokens.
Renewed(c) ==
    /\ session' = reply[c]
    /\ expires' = Lifetime
    /\ sinceRenewal' = 0
    /\ refused' = FALSE /\ stale' = FALSE /\ failing' = None
    /\ shown' = FALSE
    /\ UNCHANGED <<retryIn, sinceRefusal>>

\* Faulty variant: only the first refusal starts an interval.
NoteFirst(refusal) ==
    /\ failing' = IF failing = None THEN 0 ELSE failing
    /\ IF refusal
         THEN /\ refused' = TRUE /\ sinceRefusal' = 0
              /\ retryIn' = IF refused THEN retryIn ELSE Retry
              /\ UNCHANGED stale
         ELSE /\ stale' = (stale \/ failing' >= StaleAfter)
              /\ UNCHANGED <<refused, retryIn, sinceRefusal>>
    /\ UNCHANGED <<tokens, shown>>

\* _note_renew_failure: a refusal is remembered, other failures make a streak.
NoteFailure(refusal) ==
    /\ failing' = IF failing = None THEN 0 ELSE failing
    /\ IF refusal
         THEN /\ refused' = TRUE /\ retryIn' = Retry /\ sinceRefusal' = 0
              /\ UNCHANGED stale
         ELSE /\ stale' = (stale \/ failing' >= StaleAfter)
              /\ UNCHANGED <<refused, retryIn, sinceRefusal>>
    /\ UNCHANGED <<tokens, shown>>

\* An invalid device proof is worth one repetition, with the server's clock.
Repeat(c) ==
    /\ pc[c] = "served"
    /\ reply[c] = "proof" /\ ~retried[c]
    /\ pc' = [pc EXCEPT ![c] = "sent"]
    /\ reply' = [reply EXCEPT ![c] = "none"]
    /\ retried' = [retried EXCEPT ![c] = TRUE]
    /\ UNCHANGED <<tokens, cloud, kind, asked, lock, errors, shown, stable>>

Answer(c) ==
    /\ pc[c] = "served"
    /\ ~(reply[c] = "proof" /\ ~retried[c])
    /\ IF reply[c] \in Sessions THEN Renewed(c)
                                ELSE NoteFailure(reply[c] \in {"refused", "proof"})
    /\ Return(c)
    /\ lock' = None
    /\ UNCHANGED <<cloud, stable>>

\* The request or its answer is lost: TionConnectionError.
CallFails(c) ==
    /\ pc[c] \in {"sent", "served"}
    /\ ~stable
    /\ lost' = (lost \/ reply[c] \in Sessions \ {session})
    /\ NoteFailure(FALSE)
    /\ Return(c)
    /\ lock' = None
    /\ UNCHANGED <<server, stable>>

\* The task that asks is cancelled; its request may still reach the server.
Cancelled(c) ==
    /\ pc[c] # "idle"
    /\ ~stable
    /\ \/ lost' = (lost \/ reply[c] \in Sessions \ {session}) /\ UNCHANGED server
       \/ /\ pc[c] = "sent" /\ asked[c] = server
          /\ server' \in Sessions \ {asked[d] : d \in Callers}
          /\ lost' = TRUE
    /\ Return(c)
    /\ lock' = IF pc[c] \in {"sent", "served"} THEN None ELSE lock
    /\ UNCHANGED <<tokens, errors, shown, stable>>

-----------------------------------------------------------------------------
(* Listeners, the clock, and a new login *)

\* The coordinator looks at auth_error, after an update or a poll.
Look ==
    /\ shown' = RenewError
    /\ UNCHANGED <<tokens, cloud, caller, lock, errors, stable>>

Tick ==
    /\ expires' = IF expires = 0 THEN 0 ELSE expires - 1
    /\ retryIn' = IF retryIn = 0 THEN 0 ELSE retryIn - 1
    /\ failing' = IF failing \in {None, StaleAfter} THEN failing ELSE failing + 1
    /\ sinceRenewal' = IF sinceRenewal = Memory THEN Memory ELSE sinceRenewal + 1
    /\ sinceRefusal' = IF sinceRefusal = Retry THEN Retry ELSE sinceRefusal + 1
    /\ UNCHANGED <<session, cloud, caller, lock, refused, stale, shown, stable>>

\* The user logs in again: the entry is reloaded with a new session.
Relogin ==
    /\ shown
    /\ \A c \in Callers : pc[c] = "idle"
    /\ session' \in Sessions
    /\ server' = session'
    /\ lost' = FALSE
    /\ expires' = Lifetime
    /\ sinceRenewal' = 0
    /\ refused' = FALSE /\ stale' = FALSE /\ failing' = None /\ retryIn' = 0
    /\ sinceRefusal' = Retry
    /\ shown' = FALSE
    /\ UNCHANGED <<caller, lock, stable>>

\* From here on the server answers and the session it knows stays ours.
Stabilise ==
    /\ ~stable
    /\ stable' = TRUE
    /\ UNCHANGED <<tokens, cloud, caller, lock, errors, shown>>

-----------------------------------------------------------------------------
(* The specification *)

Next ==
    \/ \E c \in Callers :
         \/ Ensure(c) \/ Renew(c) \/ Enter(c) \/ Serve(c) \/ Repeat(c)
         \/ Answer(c) \/ CallFails(c) \/ Cancelled(c)
    \/ Revoke \/ Look \/ Tick \/ Relogin \/ Stabilise

Spec == Init /\ [][Next]_vars

\* The poll asks for a token every minute, the lock is first come first served,
\* and every request is answered.
Fairness ==
    /\ WF_vars(Tick)
    /\ \A c \in Callers : /\ WF_vars(Ensure(c))
                          /\ SF_vars(Enter(c))
                          /\ WF_vars(Serve(c))
                          /\ WF_vars(Repeat(c) \/ Answer(c))

FairSpec == Spec /\ Fairness

-----------------------------------------------------------------------------
(* Properties *)

\* Every variable keeps its type.
TypeOK ==
    /\ session \in Sessions /\ server \in Sessions \cup {None}
    /\ expires \in 0 .. Lifetime
    /\ pc \in [Callers -> {"idle", "lock", "sent", "served"}]
    /\ kind \in [Callers -> {"ensure", "renew"}]
    /\ asked \in [Callers -> Sessions \cup {None}]
    /\ reply \in [Callers -> Sessions \cup {"none", "proof", "refused", "failed"}]
    /\ retried \in [Callers -> BOOLEAN]
    /\ lock \in Callers \cup {None}
    /\ retryIn \in 0 .. Retry
    /\ failing \in 0 .. StaleAfter \cup {None}
    /\ sinceRenewal \in 0 .. Memory /\ sinceRefusal \in 0 .. Retry
    /\ lost \in BOOLEAN /\ refused \in BOOLEAN /\ stale \in BOOLEAN
    /\ shown \in BOOLEAN /\ stable \in BOOLEAN

\* We never get the session refused by our own doing: unless it was revoked, or
\* an answer that rotated it was lost, a request carries the session the server
\* knows, whatever callers renew at the same time.
InStep ==
    \A c \in Callers : pc[c] = "sent" => asked[c] = server \/ lost \/ server = None

\* A login is asked for because of a streak only if nothing was renewed for as
\* long as the streak lasts.
StaleMeansStreak ==
    stale => sinceRenewal >= StaleAfter

\* The listeners never go on seeing an error that a renewal has cleared.
NoGhostError ==
    shown => RenewError

\* One expiry, one renewal: from the moment a caller of async_ensure_valid asks
\* until it has its answer, the last renewal is a token's lifetime ago, so
\* callers that found the same old token do not rotate the session one after the
\* other.
OneRenewal ==
    \A c \in Callers :
      pc[c] \in {"sent", "served"} /\ kind[c] = "ensure" => sinceRenewal >= Lifetime

\* One request in an interval: while a refusal is remembered, nobody is asking
\* before the interval since the last one is over, not even those that were
\* waiting for the lock when it came, and not after a second refusal either.
RefusalsApart ==
    \A c \in Callers :
      pc[c] \in {"sent", "served"} /\ refused => sinceRefusal >= Retry

\* Once the server behaves, and still knows our session, the errors go away
\* without a new login.
Recovers ==
    (stable /\ server = session) ~> ~RenewError

=============================================================================
