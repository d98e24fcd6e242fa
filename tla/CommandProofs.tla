---------------------------- MODULE CommandProofs ----------------------------
(***************************************************************************)
(* What a command rests on: a session that signs for it, and a wire that   *)
(* carries it.                                                             *)
(*                                                                         *)
(* About the session of TionAuth, for any callers, sessions and intervals: *)
(* that concurrent renewals never get it refused, that a streak's login    *)
(* request and the listeners' error are justified, and that the server is  *)
(* asked once for an expired token and once in an interval of refusals.    *)
(* The invariant adds up the times: what is left of a token's life or of   *)
(* an interval, and what has passed since it began.                        *)
(*                                                                         *)
(* About a breezer's commands on the wire: that a command that ends well   *)
(* was done by the breezer as it was asked, for every model of breezer and *)
(* every number of bytes that a WebSocket message brings.  The invariant   *)
(* speaks of everything that is on its way: that the bytes come to whole   *)
(* messages, of which an answer says that a command was done only if it    *)
(* was; that each request was made and asks for what it was made for; that *)
(* the profile is that of the model, and nobody tells another highest      *)
(* speed than the model has, or a command would be written for another     *)
(* breezer than it is sent to.                                             *)
(*                                                                         *)
(* Spec is TionAuth's, WireSpec that of the wires.                         *)
(***************************************************************************)
EXTENDS TionAuth, WireProofs

-----------------------------------------------------------------------------
(* The session: the inductive invariant *)

Busy(c) == pc[c] \in {"sent", "served"}

\* Whoever waits for an answer holds the lock; what it asked with is still ours.
LockHeld ==
    \A c \in Callers :
      /\ Busy(c) <=> lock = c
      /\ asked[c] = IF Busy(c) THEN session ELSE None
      /\ pc[c] # "served" => reply[c] = "none"

\* The server knows our session, or the one in the answer on its way to us.
Synced ==
    \/ lost \/ server = None
    \/ \E c \in Callers : reply[c] \in Sessions /\ server = reply[c]
    \/ (\A c \in Callers : reply[c] \notin Sessions) /\ server = session

\* A streak began after the last renewal.
Streak ==
    /\ failing # None => sinceRenewal >= failing
    /\ stale => sinceRenewal >= StaleAfter

\* A token's life began with the last renewal, an interval with the last refusal.
Ages ==
    /\ expires + sinceRenewal >= Lifetime
    /\ retryIn + sinceRefusal >= Retry

\* Whoever asks has found the token too old, and no interval running.
Asking ==
    \A c \in Callers :
      Busy(c) => /\ kind[c] = "ensure" => expires = 0
                 /\ refused => retryIn = 0

IInv == TypeOK /\ LockHeld /\ Synced /\ Streak /\ Ages /\ Asking /\ NoGhostError

-----------------------------------------------------------------------------
(* The session: invariance and the theorems *)

\* What TionAuth assumes of times.
LEMMA AuthTimes ==
    /\ Lifetime \in Nat /\ Retry \in Nat /\ StaleAfter \in Nat
    /\ Lifetime > 0 /\ Retry > 0 /\ StaleAfter > 0
    /\ Lifetime \in 0 .. Lifetime /\ 0 \in 0 .. StaleAfter
    /\ 0 \in 0 .. Retry /\ Retry \in 0 .. Retry
    /\ Memory \in Nat /\ Memory >= Lifetime /\ Memory >= StaleAfter /\ 0 \in 0 .. Memory
  BY TimesAssumption DEF Memory

\* A session that has just been opened.
LEMMA InitIInv == Init => IInv
<1> SUFFICES ASSUME Init PROVE IInv
    OBVIOUS
<1> USE AuthTimes, NamesAssumption DEF Init
<1>1. TypeOK
  <2>1. expires \in 0 .. Lifetime /\ retryIn \in 0 .. Retry
        /\ sinceRenewal \in 0 .. Memory /\ sinceRefusal \in 0 .. Retry
    OBVIOUS
  <2>2. session \in Sessions /\ server \in Sessions \cup {None} /\ lock \in Callers \cup {None}
    OBVIOUS
  <2>3. failing \in 0 .. StaleAfter \cup {None}
    OBVIOUS
  <2>4. /\ pc \in [Callers -> {"idle", "lock", "sent", "served"}]
        /\ kind \in [Callers -> {"ensure", "renew"}]
        /\ asked \in [Callers -> Sessions \cup {None}]
        /\ reply \in [Callers -> Sessions \cup {"none", "proof", "refused", "failed"}]
        /\ retried \in [Callers -> BOOLEAN]
    OBVIOUS
  <2> QED BY <2>1, <2>2, <2>3, <2>4 DEF TypeOK
<1>2. LockHeld
  BY DEF LockHeld, Busy
<1>3. Synced
  BY DEF Synced
<1>4. Streak
  BY DEF Streak
<1>5. NoGhostError
  BY DEF NoGhostError
<1>6. Ages /\ Asking
  BY DEF Ages, Asking, Busy
<1> QED BY <1>1, <1>2, <1>3, <1>4, <1>5, <1>6 DEF IInv

\* What a failure leaves behind is well typed, and a stale streak is old enough.
LEMMA FailureNoted ==
  ASSUME TypeOK, Streak, Ages, NoGhostError, NEW r \in BOOLEAN, NoteFailure(r)
  PROVE  /\ session' = session /\ expires' = expires
         /\ failing' \in 0 .. StaleAfter \cup {None}
         /\ retryIn' \in 0 .. Retry
         /\ sinceRenewal' \in 0 .. Memory /\ sinceRefusal' \in 0 .. Retry
         /\ refused' \in BOOLEAN /\ stale' \in BOOLEAN /\ shown' \in BOOLEAN
         /\ Streak' /\ Ages'
         /\ NoGhostError'
<1> USE AuthTimes DEF TypeOK, NoteFailure, tokens
<1>1. failing' \in 0 .. StaleAfter \cup {None} /\ (failing' # None => sinceRenewal >= failing')
  BY DEF Streak
<1>2. stale' => sinceRenewal >= StaleAfter
  <2>1. sinceRenewal \in Nat /\ StaleAfter \in Nat
    BY AuthTimes
  <2>2. CASE stale
    BY <2>2 DEF Streak
  <2>3. CASE ~stale
    <3>1. stale' => failing' >= StaleAfter
      BY <2>3
    <3>2. failing' # None => failing' \in Nat
      BY <1>1
    <3>3. failing' # None
      BY NamesAssumption
    <3> QED BY <1>1, <2>1, <3>1, <3>2, <3>3
  <2> QED BY <2>2, <2>3
<1>3. RenewError => RenewError'
  BY DEF RenewError
<1>4. Streak'
  BY <1>1, <1>2 DEF Streak
<1>5. NoGhostError'
  BY <1>3 DEF NoGhostError
<1>6. /\ retryIn' \in 0 .. Retry /\ sinceRefusal' \in 0 .. Retry
      /\ refused' \in BOOLEAN /\ stale' \in BOOLEAN
  OBVIOUS
<1>7. Ages'
  BY DEF Ages
<1> QED BY <1>1, <1>4, <1>5, <1>6, <1>7

\* A caller that has returned holds nothing.
LEMMA Returned ==
  ASSUME TypeOK, NEW c \in Callers, Return(c)
  PROVE  /\ pc' \in [Callers -> {"idle", "lock", "sent", "served"}]
         /\ kind' \in [Callers -> {"ensure", "renew"}]
         /\ asked' \in [Callers -> Sessions \cup {None}]
         /\ reply' \in [Callers -> Sessions \cup {"none", "proof", "refused", "failed"}]
         /\ retried' \in [Callers -> BOOLEAN]
         /\ pc'[c] = "idle" /\ asked'[c] = None /\ reply'[c] = "none"
         /\ \A d \in Callers \ {c} : /\ pc'[d] = pc[d]
                                     /\ asked'[d] = asked[d]
                                     /\ reply'[d] = reply[d]
  BY DEF TypeOK, Return

\* Each step keeps the invariant.
LEMMA NextIInv == IInv /\ [Next]_vars => IInv'
<1> SUFFICES ASSUME IInv, [Next]_vars PROVE IInv'
    OBVIOUS
<1> USE AuthTimes, NamesAssumption DEF IInv, tokens, cloud, caller, errors
<1>1. ASSUME NEW c \in Callers, Ensure(c) PROVE IInv'
  BY <1>1 DEF Ensure, TypeOK, LockHeld, Synced, Streak, Ages, Asking, NoGhostError,
         RenewError, Busy
<1>2. ASSUME NEW c \in Callers, Renew(c) PROVE IInv'
  BY <1>2 DEF Renew, TypeOK, LockHeld, Synced, Streak, Ages, Asking, NoGhostError,
         RenewError, Busy
<1>3. ASSUME NEW c \in Callers, Enter(c) PROVE IInv'
  <2>1. CASE Ask(c)
    <3>1. TypeOK' /\ LockHeld' /\ Synced' /\ Streak' /\ Ages' /\ NoGhostError'
      BY <1>3, <2>1 DEF Enter, Ask, TypeOK, LockHeld, Synced, Streak, Ages, NoGhostError,
           RenewError, Busy
    <3>2. ~Return(c)
      BY <2>1 DEF Ask, Return, TypeOK
    <3>3. (kind[c] = "ensure" => expires = 0) /\ (refused => retryIn = 0)
      BY <1>3, <3>2 DEF Enter, NeedsRenewal, TypeOK
    <3>4. Asking'
      BY <2>1, <3>3 DEF Ask, Asking, Busy, TypeOK
    <3> QED BY <3>1, <3>4
  <2>2. CASE Return(c) /\ UNCHANGED <<tokens, cloud, lock, errors, shown, stable>>
    BY <1>3, <2>2 DEF Enter, Return, TypeOK, LockHeld, Synced, Streak, Ages, Asking, NoGhostError,
         RenewError, Busy
  <2> QED BY <1>3, <2>1, <2>2 DEF Enter
<1>4. ASSUME NEW c \in Callers, Serve(c) PROVE IInv'
  BY <1>4 DEF Serve, TypeOK, LockHeld, Synced, Streak, Ages, Asking, NoGhostError,
         RenewError, Busy
<1>5. ASSUME NEW c \in Callers, Repeat(c) PROVE IInv'
  BY <1>5 DEF Repeat, TypeOK, LockHeld, Synced, Streak, Ages, Asking, NoGhostError,
         RenewError, Busy
<1>6. ASSUME NEW c \in Callers, Answer(c) PROVE IInv'
  <2>1. Return(c) /\ lock' = None /\ UNCHANGED <<cloud, stable>> /\ Busy(c)
    BY <1>6 DEF Answer, Busy
  <2>2. LockHeld'
    BY <2>1, Returned DEF LockHeld, Busy, TypeOK
  <2>3. \A d \in Callers \ {c} : reply[d] = "none" /\ reply'[d] = "none"
    BY <2>1, Returned DEF LockHeld, Busy
  <2>6. Asking'
    BY <2>1, <2>2, Returned DEF LockHeld, Asking, Busy
  <2>4. CASE reply[c] \in Sessions
    <3>1. Renewed(c)
      BY <1>6, <2>4 DEF Answer
    <3>2. TypeOK'
      <4>1. /\ session' \in Sessions /\ expires' \in 0 .. Lifetime /\ retryIn' \in 0 .. Retry
            /\ sinceRenewal' \in 0 .. Memory /\ sinceRefusal' \in 0 .. Retry
            /\ failing' \in 0 .. StaleAfter \cup {None}
            /\ refused' = FALSE /\ stale' = FALSE /\ shown' = FALSE
        BY <2>4, <3>1 DEF Renewed, TypeOK
      <4> QED BY <2>1, <4>1, Returned DEF TypeOK
    <3>3. Synced'
      BY <2>1, <2>3, <2>4, <3>1, Returned DEF Renewed, Synced
    <3>4. Streak' /\ NoGhostError' /\ Ages'
      BY <3>1 DEF Renewed, Streak, NoGhostError, Ages, TypeOK
    <3> QED BY <2>2, <2>6, <3>2, <3>3, <3>4
  <2>5. CASE reply[c] \notin Sessions
    <3> DEFINE r == reply[c] \in {"refused", "proof"}
    <3>1. NoteFailure(r) /\ r \in BOOLEAN
      BY <1>6, <2>5 DEF Answer
    <3> HIDE DEF r
    <3>2. TypeOK'
      BY <2>1, <3>1, FailureNoted, Returned DEF TypeOK
    <3>3. Synced'
      BY <2>1, <2>3, <2>5, <3>1, FailureNoted, Returned DEF Synced
    <3> QED BY <2>2, <2>6, <3>1, <3>2, <3>3, FailureNoted
  <2> QED BY <2>4, <2>5
<1>7. ASSUME NEW c \in Callers, CallFails(c) PROVE IInv'
  <2>1. Return(c) /\ lock' = None /\ UNCHANGED <<server, stable>> /\ Busy(c)
    BY <1>7 DEF CallFails, Busy
  <2>2. LockHeld'
    BY <2>1, Returned DEF LockHeld, Busy, TypeOK
  <2>3. \A d \in Callers \ {c} : reply[d] = "none" /\ reply'[d] = "none"
    BY <2>1, Returned DEF LockHeld, Busy
  <2>4. NoteFailure(FALSE) /\ lost' = (lost \/ reply[c] \in Sessions \ {session})
    BY <1>7 DEF CallFails
  <2>5. TypeOK'
    BY <2>1, <2>4, FailureNoted, Returned DEF TypeOK
  <2>6. Synced'
    BY <2>1, <2>3, <2>4, FailureNoted, Returned DEF Synced
  <2>7. Asking'
    BY <2>1, <2>2, Returned DEF LockHeld, Asking, Busy
  <2> QED BY <2>2, <2>4, <2>5, <2>6, <2>7, FailureNoted
<1>8. ASSUME NEW c \in Callers, Cancelled(c) PROVE IInv'
  BY <1>8 DEF Cancelled, Return, TypeOK, LockHeld, Synced, Streak, Ages, Asking, NoGhostError,
         RenewError, Busy
<1>9. CASE Revoke
  BY <1>9 DEF Revoke, TypeOK, LockHeld, Synced, Streak, Ages, Asking, NoGhostError,
         RenewError, Busy
<1>10. CASE Look
  BY <1>10 DEF Look, TypeOK, LockHeld, Synced, Streak, Ages, Asking, NoGhostError,
         RenewError, Busy
<1>11. CASE Tick
  <2> USE <1>11 DEF Tick
  <2>1. /\ expires \in 0 .. Lifetime /\ retryIn \in 0 .. Retry
        /\ sinceRenewal \in 0 .. Memory /\ sinceRefusal \in 0 .. Retry
        /\ failing \in 0 .. StaleAfter \cup {None}
    BY DEF TypeOK
  <2>2. /\ expires' \in 0 .. Lifetime /\ retryIn' \in 0 .. Retry
        /\ sinceRenewal' \in 0 .. Memory /\ sinceRefusal' \in 0 .. Retry
        /\ failing' \in 0 .. StaleAfter \cup {None}
    BY <2>1
  <2>3. TypeOK'
    BY <2>2 DEF TypeOK
  <2>4. Ages'
    BY <2>1 DEF Ages
  <2>5. Streak'
    <3>1. failing' # None => sinceRenewal' >= failing'
      BY <2>1 DEF Streak
    <3>2. stale' => sinceRenewal' >= StaleAfter
      BY <2>1 DEF Streak
    <3> QED BY <3>1, <3>2 DEF Streak
  <2>6. Asking'
    <3>1. (expires = 0 => expires' = 0) /\ (retryIn = 0 => retryIn' = 0)
      OBVIOUS
    <3> QED BY <3>1 DEF Asking, Busy
  <2>7. LockHeld' /\ Synced' /\ NoGhostError'
    BY DEF LockHeld, Synced, NoGhostError, RenewError, Busy
  <2> QED BY <2>3, <2>4, <2>5, <2>6, <2>7
<1>12. CASE Relogin
  <2>1. TypeOK'
    <3>1. /\ session' \in Sessions /\ server' \in Sessions
          /\ expires' \in 0 .. Lifetime /\ retryIn' \in 0 .. Retry
          /\ sinceRenewal' \in 0 .. Memory /\ sinceRefusal' \in 0 .. Retry
          /\ failing' \in 0 .. StaleAfter \cup {None}
          /\ lost' = FALSE /\ refused' = FALSE /\ stale' = FALSE /\ shown' = FALSE
      BY <1>12 DEF Relogin
    <3>2. UNCHANGED <<pc, kind, asked, reply, retried, lock, stable>>
      BY <1>12 DEF Relogin
    <3> QED BY <3>1, <3>2 DEF TypeOK
  <2>2. LockHeld'
    BY <1>12 DEF Relogin, LockHeld, Busy
  <2>3. \A c \in Callers : reply'[c] \notin Sessions
    BY <1>12 DEF Relogin, LockHeld
  <2>4. Synced'
    BY <1>12, <2>3 DEF Relogin, Synced
  <2>5. Streak' /\ NoGhostError' /\ Ages' /\ Asking'
    BY <1>12 DEF Relogin, Streak, NoGhostError, Ages, Asking, Busy
  <2> QED BY <2>1, <2>2, <2>4, <2>5
<1>13. CASE Stabilise
  BY <1>13 DEF Stabilise, TypeOK, LockHeld, Synced, Streak, Ages, Asking, NoGhostError,
         RenewError, Busy
<1>14. CASE UNCHANGED vars
  BY <1>14 DEF vars, TypeOK, LockHeld, Synced, Streak, Ages, Asking, NoGhostError,
         RenewError, Busy
<1> QED BY <1>1, <1>2, <1>3, <1>4, <1>5, <1>6, <1>7, <1>8, <1>9, <1>10, <1>11, <1>12,
           <1>13, <1>14 DEF Next

\* So it holds for ever.
LEMMA Invariance == Spec => []IInv
  BY InitIInv, NextIInv, PTL DEF Spec

\* Every variable keeps its type.
THEOREM TypeCorrect == Spec => []TypeOK
<1>1. IInv => TypeOK
  BY DEF IInv
<1> QED BY <1>1, Invariance, PTL

\* Whatever callers renew at the same time, the session is refused only if it was
\* revoked or the answer that rotated it was lost.
THEOREM SessionInStep == Spec => []InStep
<1>1. IInv => InStep
  <2> SUFFICES ASSUME IInv, NEW c \in Callers, pc[c] = "sent", ~lost, server # None
               PROVE  asked[c] = server
    BY DEF InStep
  <2>1. asked[c] = session /\ reply[c] = "none"
    BY DEF IInv, LockHeld, Busy
  <2>2. \A d \in Callers : reply[d] = "none"
    BY DEF IInv, LockHeld, Busy
  <2> QED BY <2>1, <2>2, NamesAssumption DEF IInv, Synced
<1> QED BY <1>1, Invariance, PTL

\* A streak asks for a login only if nothing was renewed for as long as it lasts.
THEOREM StaleStreaks == Spec => []StaleMeansStreak
<1>1. IInv => StaleMeansStreak
  BY AuthTimes DEF IInv, Streak, StaleMeansStreak
<1> QED BY <1>1, Invariance, PTL

\* The listeners never go on seeing an error that a renewal has cleared.
THEOREM NoGhosts == Spec => []NoGhostError
<1>1. IInv => NoGhostError
  BY DEF IInv
<1> QED BY <1>1, Invariance, PTL

\* Callers of async_ensure_valid that found the same old token renew it once:
\* when one asks, the last renewal by any caller is a token's lifetime ago.
THEOREM OneRenewals == Spec => []OneRenewal
<1>1. IInv => OneRenewal
  <2> SUFFICES ASSUME IInv, NEW c \in Callers, Busy(c), kind[c] = "ensure"
               PROVE  sinceRenewal >= Lifetime
    BY DEF OneRenewal, Busy
  <2>1. expires = 0
    BY DEF IInv, Asking
  <2>2. expires + sinceRenewal >= Lifetime /\ sinceRenewal \in Nat
    BY AuthTimes DEF IInv, TypeOK, Ages
  <2> QED BY <2>1, <2>2, AuthTimes
<1> QED BY <1>1, Invariance, PTL

\* While a refusal is remembered, nobody asks the server before the interval
\* since the last refusal is over, be it the first of them or a later one.
THEOREM RefusalsKeptApart == Spec => []RefusalsApart
<1>1. IInv => RefusalsApart
  <2> SUFFICES ASSUME IInv, NEW c \in Callers, Busy(c), refused
               PROVE  sinceRefusal >= Retry
    BY DEF RefusalsApart, Busy
  <2>1. retryIn = 0
    BY DEF IInv, Asking
  <2>2. retryIn + sinceRefusal >= Retry /\ sinceRefusal \in Nat
    BY AuthTimes DEF IInv, TypeOK, Ages
  <2> QED BY <2>1, <2>2, AuthTimes
<1> QED BY <1>1, Invariance, PTL

-----------------------------------------------------------------------------
(* What is on its way, and what is known *)

ProductNames == {"b4s_ble", "br3s_rf", "o2_rf"}

\* What the facts of a breezer are.
Texts == {"outside", "inside", "mixed"}
FactsAre(facts) ==
    /\ DOMAIN facts = Nats!Aspects
    /\ facts["on_off"] \in BOOLEAN /\ facts["heater_on_off"] \in BOOLEAN
    /\ facts["fan_speed_level"] \in Signed /\ facts["target_temperature"] \in Signed
    /\ facts["temp_outdoor"] \in Signed /\ facts["temp_indoor"] \in Signed
    /\ facts["flap_mode"] \in Texts
    /\ facts["fan_speed_maxavail"] \in Signed
BreezerIs(b) ==
    /\ b = [product |-> b.product, facts |-> b.facts, changes |-> b.changes]
    /\ b.product \in ProductNames \cup {"none"} /\ b.changes \in Nat
    /\ FactsAre(b.facts)
    /\ b.product # "none" => b.facts["fan_speed_maxavail"] = Nats!SpeedMax(b.product)

\* A datapoint that tells the highest speed tells that of the model.
TopOf(product) == Nats!DpId(product, "fan_speed_maxavail")
GoodDps(product) ==
    {dp \in [id : Number, kind : Kinds, value : Int] :
       IsDp(dp) /\ (dp.id = TopOf(product) => dp.value = Nats!SpeedMax(product))}

\* What is written of a command, and what the breezer makes of it.
AspectOf(name) ==
    CASE name = "is_on" -> "on_off" [] name = "speed" -> "fan_speed_level" [] name = "flap" -> "flap_mode"
      [] name = "heater_enabled" -> "heater_on_off" [] name = "target_temperature" -> "target_temperature"
Names == {"is_on", "speed", "flap", "heater_enabled", "target_temperature"}
Means(product, name, value, dp) ==
    /\ name \in Names /\ dp.id = Nats!DpId(product, AspectOf(name))
    /\ CASE name = "is_on" -> value \in BOOLEAN /\ dp.value = (IF value THEN 1 ELSE 0)
         [] name = "speed" -> value \in 0 .. Nats!SpeedMax(product) /\ dp.value = value
         [] name = "flap" -> value \in {0, 1, 2} /\ (value = 2 => product = "br3s_rf") /\ dp.value = value
         [] name = "heater_enabled" -> value \in BOOLEAN /\ dp.value = Nats!RawOf(product, "heater_on_off", value)
         [] name = "target_temperature" -> value \in 0 .. 300 /\ dp.value = value
Asks(product, ask, dps) ==
    /\ DOMAIN dps = DOMAIN ask
    /\ \A i \in DOMAIN ask : Means(product, ask[i][1], ask[i][2], dps[i])
    /\ \A i, j \in DOMAIN ask : ask[i][1] = ask[j][1] => i = j

\* A change that is asked for was made.
Made(product, name, value, facts) ==
    CASE name = "is_on" -> facts.on_off = value
      [] name = "speed" -> facts.fan_speed_level = value
      [] name = "target_temperature" -> facts.target_temperature = value
      [] name = "heater_enabled" -> facts.heater_on_off = value
      [] name = "flap" -> Nats!RawOf(product, "flap_mode", facts.flap_mode) = value
AllMade(product, ask, facts) == \A i \in DOMAIN ask : Made(product, ask[i][1], ask[i][2], facts)

OrdersAre(product, o) ==
    /\ o = [made |-> o.made, asked |-> o.asked, done |-> o.done]
    /\ o.made \in 0 .. CloudActs
    /\ DOMAIN o.asked = 1 .. o.made /\ DOMAIN o.done \subseteq 1 .. o.made
    /\ \A c \in DOMAIN o.done : AllMade(product, o.asked[c], o.done[c])

\* A request on its way is one that was made, and asks for what it was made for.
Few == 0 .. 9
RequestIs(product, o, bytes) ==
    \A message \in Nats!Parse(bytes) :
    \A command \in Nats!GetInt(message, 2), dps \in Nats!DecodeValues(message, 4) :
      /\ command \in 1 .. o.made
      /\ dps \in Seq(GoodDps(product)) /\ Len(dps) \in Few
      /\ Asks(product, o.asked[command], dps)

\* A message tells the highest speed as it is, and that a command was done only if it was.
Good(product, done, message) ==
    /\ message.subject = Nats!REPORT =>
         \A r \in Nats!DecodeStateReport(message.body) : r.dps \in Seq(GoodDps(product))
    /\ message.subject = Nats!ANSWER =>
         \A a \in Nats!DecodeUpdateResponse(message.body) :
           a.success => a.command \in done /\ a.dps \in Seq(GoodDps(product))
GoodMessages(product, done) == {message \in NatsMessage : Good(product, done, message)}

\* Bytes that come to messages of some kind, with nothing left.
Streams(G, bytes) ==
    /\ bytes \in Seq(Nat)
    /\ Nats!Ops(bytes).messages \in Seq(G)
    /\ Nats!Ops(bytes).broken \/ Left(bytes) = <<>>

\* The profile that was loaded is that of the model.
SpecFits(product, spec) ==
    \A code \in Nats!Aspects :
      spec.code = Nats!Cell(Nats!Codes, code) =>
        /\ spec.id = Nats!DpId(product, code) /\ spec.type = Nats!Kind(product, code)
        /\ spec.type = Nats!INT =>
             spec.scale = IF code \in {"target_temperature", "temp_outdoor", "temp_indoor"} THEN 1 ELSE 0
ProfileFits(product, profile) ==
    /\ profile.product = Nats!Cell(Nats!Products, product)
    /\ \A i \in DOMAIN profile.dps : SpecFits(product, profile.dps[i])

KnowsTop(product, dps) == TopOf(product) \in DOMAIN dps => dps[TopOf(product)] = Nats!SpeedMax(product)
ClientIs(product, o, c) ==
    /\ IsClient(c)
    /\ c.waiting \in {0, o.made}
    /\ c.result = "ok" => o.made \in DOMAIN o.done
    /\ KnowsTop(product, c.dps)

LinkIs(l) ==
    /\ l = [up |-> l.up, bytes |-> l.bytes, mail |-> l.mail, cut |-> l.cut, requests |-> l.requests, losses |-> l.losses]
    /\ l.cut \in Nat /\ l.losses \in Nat

Commands ==
    /\ BreezerIs(breezer) /\ OrdersAre(breezer.product, orders) /\ LinkIs(link)
    /\ ClientIs(breezer.product, orders, client)
    /\ client.buffer \in Seq(Nat) /\ link.bytes \in Seq(Nat)
    /\ link.up \in BOOLEAN /\ (~link.up => client.buffer = <<>> /\ link.bytes = <<>>)
    /\ Streams(GoodMessages(breezer.product, DOMAIN orders.done), client.buffer \o link.bytes)
    /\ link.requests \in Seq(Seq(Nat))
    /\ \A i \in DOMAIN link.requests : RequestIs(breezer.product, orders, link.requests[i])
    /\ IF breezer.product = "none" THEN ~link.up /\ link.requests = <<>> /\ client.dps = Nats!Empty /\ orders.made = 0
       ELSE ProfileFits(breezer.product, client.profile)

-----------------------------------------------------------------------------
(* Streams of good messages *)

\* A sequence of some kind is of a wider kind too.
LEMMA Widened ==
    ASSUME NEW G, NEW H, G \subseteq H, NEW s \in Seq(G)
    PROVE  s \in Seq(H)
OBVIOUS

\* What two sequences come to is of a kind only if both are.
LEMMA BothParts ==
    ASSUME NEW T, NEW G, NEW x \in Seq(T), NEW y \in Seq(T), x \o y \in Seq(G)
    PROVE  x \in Seq(G) /\ y \in Seq(G)
<1>1. InTurn(x, y, T)
  BY Both
<1>2. \A i \in 1 .. Len(x \o y) : (x \o y)[i] \in G
  <2> DEFINE z == x \o y
  <2>1. z \in Seq(G)
    OBVIOUS
  <2> HIDE DEF z
  <2> QED  BY <2>1, Members DEF z
<1>3. \A i \in 1 .. Len(x) : x[i] \in G
  <2> TAKE i \in 1 .. Len(x)
  <2>1. i \in 1 .. Len(x \o y) /\ (x \o y)[i] = x[i]
    BY <1>1 DEF InTurn
  <2> QED  BY <1>2, <2>1
<1>4. \A i \in 1 .. Len(y) : y[i] \in G
  <2> TAKE i \in 1 .. Len(y)
  <2>1. Len(x) + i \in 1 .. Len(x \o y) /\ (x \o y)[Len(x) + i] = y[i]
    BY <1>1 DEF InTurn
  <2> QED  BY <1>2, <2>1
<1> QED  BY <1>3, <1>4

\* No bytes come to no messages.
LEMMA NothingStreams ==
    ASSUME NEW G
    PROVE  Streams(G, <<>>) /\ Nats!Ops(<<>>).messages = <<>> /\ ~Nats!Ops(<<>>).broken /\ Left(<<>>) = <<>>
<1> DEFINE x == <<>>
<1>0. x \in Seq(Nat) /\ Len(x) = 0
  OBVIOUS
<1>1. PICK f : Nats!Ops(x) = f[1] /\ Reads(x, f)
  BY <1>0, OpsFrom DEF Reads
<1>2. LineEnds(x, 1) = {} /\ 1 \in 1 .. Len(x) + 1
  BY <1>0 DEF LineEnds
<1>3. Nats!Ops(x) = [messages |-> <<>>, rest |-> 1, broken |-> FALSE]
  BY <1>1, <1>2 DEF Reads, ReadOp
<1>4. Left(x) = <<>>
  BY <1>0, <1>3 DEF Left
<1>5. <<>> \in Seq(G)
  OBVIOUS
<1>6. Nats!Ops(x).messages = <<>> /\ ~Nats!Ops(x).broken
  BY <1>3
<1>7. Streams(G, x)
  <2> HIDE DEF x
  <2> QED  BY <1>0, <1>4, <1>5, <1>6 DEF Streams
<1> QED  BY <1>4, <1>6, <1>7

\* What comes after such bytes comes to messages of its own.
LEMMA StreamsAnd ==
    ASSUME NEW G, G \subseteq NatsMessage, NEW y, Streams(G, y), NEW x, Streams(G, x)
    PROVE  Streams(G, y \o x)
<1>1. y \in Seq(Nat) /\ x \in Seq(Nat) /\ y \o x \in Seq(Nat)
  BY DEF Streams
<1>2. CASE Nats!Ops(y).broken
  <2>1. Nats!Ops(y \o x) = Nats!Ops(y)
    BY <1>1, <1>2, CutsDoNotMatter
  <2> QED  BY <1>1, <1>2, <2>1 DEF Streams
<1>3. CASE ~Nats!Ops(y).broken
  <2>0. y \in Seq(Nat) /\ x \in Seq(Nat)
    BY <1>1
  <2>1. Left(y) \o x = x
    BY <1>1, <1>3 DEF Streams
  <2>2. /\ Nats!Ops(y \o x).messages = Nats!Ops(y).messages \o Nats!Ops(x).messages
        /\ Nats!Ops(y \o x).broken = Nats!Ops(x).broken
        /\ Left(y \o x) = Left(x)
    BY <2>0, <1>3, <2>1, CutsDoNotMatter
  <2>3. Nats!Ops(y).messages \o Nats!Ops(x).messages \in Seq(G)
    <3>1. Nats!Ops(y).messages \in Seq(G) /\ Nats!Ops(x).messages \in Seq(G)
      BY DEF Streams
    <3> QED  BY <3>1
  <2>4. Nats!Ops(x).broken \/ Left(x) = <<>>
    BY DEF Streams
  <2> QED  BY <1>1, <2>2, <2>3, <2>4 DEF Streams
<1> QED  BY <1>2, <1>3

\* Messages of a kind are of a wider kind too.
LEMMA StreamsWiden ==
    ASSUME NEW G, NEW H, G \subseteq H, NEW y, Streams(G, y)
    PROVE  Streams(H, y)
BY Widened DEF Streams

\* Where such bytes are cut, there have come messages of the kind, and the rest comes to others.
LEMMA StreamsCut ==
    ASSUME NEW G, NEW a \in Seq(Nat), NEW b \in Seq(Nat), Streams(G, a \o b)
    PROVE  /\ Nats!Ops(a).messages \in Seq(G)
           /\ Nats!Ops(a).broken \/ Streams(G, Left(a) \o b)
<1>1. CASE Nats!Ops(a).broken
  <2>1. Nats!Ops(a \o b) = Nats!Ops(a)
    BY <1>1, CutsDoNotMatter
  <2> QED  BY <1>1, <2>1 DEF Streams
<1>2. CASE ~Nats!Ops(a).broken
  <2>1. /\ Nats!Ops(a \o b).messages = Nats!Ops(a).messages \o Nats!Ops(Left(a) \o b).messages
        /\ Nats!Ops(a \o b).broken = Nats!Ops(Left(a) \o b).broken
        /\ Left(a \o b) = Left(Left(a) \o b)
    BY <1>2, CutsDoNotMatter
  <2>2. Left(a) \in Seq(Nat) /\ Nats!Ops(a).messages \in Seq(NatsMessage)
    <3>1. Nats!Ops(a) \in OpsRead /\ Nats!Ops(a).rest \in 1 .. Len(a) + 1
      BY RestIs
    <3>2. Nats!Ops(a).rest \in Int /\ Nats!Ops(a).rest >= 1 /\ Len(a) \in Int
      BY <3>1
    <3> DEFINE p == Nats!Ops(a).rest
               n == Len(a)
    <3>3. p \in Int /\ p >= 1 /\ n \in Int /\ n <= Len(a)
      BY <3>2
    <3> HIDE DEF p, n
    <3>4. SubSeq(a, p, n) \in Seq(Nat)
      BY <3>3, Part
    <3> QED  BY <3>1, <3>4 DEF Left, OpsRead, p, n
  <2>3. Left(a) \o b \in Seq(Nat)
    BY <2>2
  <2>4. Nats!Ops(Left(a) \o b).messages \in Seq(NatsMessage)
    BY <2>3, RestIs DEF OpsRead
  <2>5. Nats!Ops(a).messages \in Seq(G) /\ Nats!Ops(Left(a) \o b).messages \in Seq(G)
    <3>1. Nats!Ops(a).messages \o Nats!Ops(Left(a) \o b).messages \in Seq(G)
      BY <2>1 DEF Streams
    <3> DEFINE u == Nats!Ops(a).messages
               v == Nats!Ops(Left(a) \o b).messages
    <3>2. u \in Seq(NatsMessage) /\ v \in Seq(NatsMessage) /\ u \o v \in Seq(G)
      BY <2>2, <2>4, <3>1
    <3> HIDE DEF u, v
    <3>3. u \in Seq(G) /\ v \in Seq(G)
      BY <3>2, BothParts
    <3> QED  BY <3>3 DEF u, v
  <2> QED  BY <2>1, <2>3, <2>5 DEF Streams
<1> QED  BY <1>1, <1>2

\* A message that is sent comes to one message.
LEMMA MessageStreams ==
    ASSUME NEW G, NEW style \in Nats!Styles, NEW subject \in 0 .. 9, NEW payload \in Seq(Nat),
           Len(payload) <= 990, Carried(style, subject, payload) \in G
    PROVE  Streams(G, Nats!Message(style, subject, payload))
<1> DEFINE x == Nats!Message(style, subject, payload)
<1>1. x \in Seq(Nat) /\ x \o <<>> = x
  <2>1. x \in Seq(Nat)
    BY MessageIs DEF IsMessage
  <2> HIDE DEF x
  <2> QED  BY <2>1
<1>2. /\ Nats!Ops(x \o <<>>).messages = << Carried(style, subject, payload) >> \o Nats!Ops(<<>>).messages
      /\ Left(x \o <<>>) = Left(<<>>)
  <2>1. <<>> \in Seq(Nat)
    OBVIOUS
  <2> QED  BY <2>1, SentIsRead
<1> HIDE DEF x
<1>3. Nats!Ops(<<>>).messages = <<>> /\ Left(<<>>) = <<>>
  BY NothingStreams
<1>4. << Carried(style, subject, payload) >> \o <<>> \in Seq(G)
  OBVIOUS
<1> QED  BY <1>1, <1>2, <1>3, <1>4 DEF Streams, x

\* A line whose headers are longer than the message ends it all.
LEMMA BrokenStreams ==
    ASSUME NEW G
    PROVE  Streams(G, Nats!Broken)
<1> DEFINE op == Nats!HMSG
           subject == Nats!REPORT
           head == 5
           total == 2
           cell == Nats!Line(op, subject, head, total)
           x == Nats!Broken
<1>1. op \in 0 .. 9 /\ subject \in 0 .. 9 /\ head \in 0 .. 9 /\ total \in 0 .. 999 /\ head > total
      /\ op = Nats!HMSG
  BY DEF Nats!HMSG, Nats!REPORT
<1>2. x = <<cell>> \o Nats!CRLF
  BY DEF Nats!Broken
<1> HIDE DEF op, subject, head, total
<1>3. Tells(cell, op, subject, head, total)
  BY ZenonT(30), <1>1, LineTells
<1> HIDE DEF cell
<1>4. cell \in Nat /\ cell # Nats!CR /\ cell % 10 = op /\ (cell \div 100) % 10 = head
      /\ (cell \div 1000) % 1000 = total
  BY <1>3 DEF Tells
<1>5. x \in Seq(Nat) /\ Len(x) = 3 /\ x[1] = cell /\ x[2] = Nats!CR /\ x[3] = Nats!LF
  BY <1>2, <1>4 DEF Nats!CRLF, Nats!CR, Nats!LF
<1> HIDE DEF x
<1>6. 1 \in 1 .. Len(x) + 1 /\ LineEnds(x, 1) # {} /\ LineEnd(x, 1) = 2 /\ Cell(x, 1) = cell
  <2>1. Len(x) >= 3 /\ x[1] # Nats!CR
    BY <1>4, <1>5
  <2>2. 1 \in 1 .. Len(x) + 1 /\ LineEnds(x, 1) # {} /\ LineEnd(x, 1) = 2 /\ Cell(x, 1) = x[1]
    BY <1>5, <2>1, FirstLine
  <2> QED  BY <1>5, <2>2
<1>7. Op(x, 1) = op /\ HeadLen(x, 1) = head /\ TotalLen(x, 1) = total
  BY <1>1, <1>4, <1>6 DEF Op, HeadLen, TotalLen
<1>8. PICK f : Nats!Ops(x) = f[1] /\ Reads(x, f)
  BY <1>5, OpsFrom DEF Reads
<1>9. f[1] = [messages |-> <<>>, rest |-> 1, broken |-> TRUE]
  <2>1. f[1] = ReadOp(x, f, 1)
    BY <1>6, <1>8 DEF Reads
  <2> QED  BY <1>1, <1>6, <1>7, <2>1 DEF ReadOp
<1>10. Nats!Ops(x).messages = <<>> /\ Nats!Ops(x).broken /\ <<>> \in Seq(G)
  BY <1>8, <1>9
<1>11. Streams(G, x)
  BY <1>5, <1>10 DEF Streams
<1> QED  BY <1>11 DEF x

-----------------------------------------------------------------------------
(* What the client makes of good messages *)

\* Some numbers, of which none is above a bound, have a greatest.
LEMMA MaxIs ==
    ASSUME NEW n \in Nat, NEW S \in SUBSET (0 .. n), S # {}
    PROVE  Nats!Max(S) \in S /\ \A i \in S : i <= Nats!Max(S)
<1> DEFINE T == {n - i : i \in S}
<1>1. T \in SUBSET Nat /\ T # {}
  <2>1. \A i \in S : n - i \in Nat
    <3> TAKE i \in S
    <3>1. i \in Int /\ i <= n
      OBVIOUS
    <3> QED  BY <3>1
  <2> QED  BY <2>1
<1> HIDE DEF T
<1>2. PICK low \in T : \A m \in T : low <= m
  BY <1>1, Least
<1>3. PICK top \in S : low = n - top
  BY <1>2 DEF T
<1>4. \A i \in S : i <= top
  <2> TAKE i \in S
  <2>1. n - i \in T /\ low <= n - i
    BY <1>2 DEF T
  <2>2. i \in Int /\ top \in Int
    OBVIOUS
  <2> QED  BY <1>3, <2>1, <2>2
<1>5. \E m \in S : \A i \in S : i <= m
  BY <1>4
<1>6. \E m \in S : \A i \in S : m >= i
  <2>1. \A i \in S : i \in Int
    OBVIOUS
  <2> QED  BY <1>5, <2>1
<1>7. Nats!Max(S) \in S /\ \A i \in S : Nats!Max(S) >= i
  BY <1>6 DEF Nats!Max
<1>8. \A i \in S : i \in Int
  OBVIOUS
<1> QED  BY <1>7, <1>8

\* What is merged into what is known keeps the highest speed of the model.
LEMMA MergeKnowsTop ==
    ASSUME NEW product, NEW dps, KnowsTop(product, dps), NEW values \in Seq(GoodDps(product))
    PROVE  KnowsTop(product, Nats!Merge(dps, values))
<1> DEFINE top == TopOf(product)
           places == {i \in DOMAIN values : values[i].id = top}
           new == {values[i].id : i \in DOMAIN values}
           Latest(id) == Nats!Max({i \in DOMAIN values : values[i].id = id})
           fresh == [id \in new |-> values[Latest(id)].value]
           merged == Nats!Over(fresh, dps)
<1>1. merged = Nats!Merge(dps, values)
  BY DEF Nats!Merge
<1>2. DOMAIN merged = new \cup DOMAIN dps /\ \A id \in DOMAIN merged : merged[id] = IF id \in new THEN fresh[id] ELSE dps[id]
  BY DEF Nats!Over
<1>3. ASSUME top \in DOMAIN merged PROVE merged[top] = Nats!SpeedMax(product)
  <2>1. CASE top \in new
    <3>1. places # {} /\ places \in SUBSET (0 .. Len(values)) /\ Len(values) \in Nat
      BY <2>1
    <3>2. Nats!Max(places) \in places
      <4> HIDE DEF places
      <4> QED  BY <3>1, MaxIs
    <3>3. merged[top] = values[Nats!Max(places)].value
      BY <1>2, <1>3, <2>1
    <3>4. \A i \in DOMAIN values : values[i] \in GoodDps(product)
      OBVIOUS
    <3>5. \A i \in DOMAIN values : values[i].id = top => values[i].value = Nats!SpeedMax(product)
      BY <3>4 DEF GoodDps
    <3> QED  BY <3>2, <3>3, <3>5
  <2>2. CASE top \notin new
    BY <1>2, <1>3, <2>2 DEF KnowsTop
  <2> QED  BY <2>1, <2>2
<1> HIDE DEF merged
<1> QED  BY <1>1, <1>3 DEF KnowsTop

\* A message of such a kind leaves a client as it may be.
LEMMA AnswerKeeps ==
    ASSUME NEW product, NEW o, NEW c, ClientIs(product, o, c), NEW m, Good(product, DOMAIN o.done, m)
    PROVE  ClientIs(product, o, AfterMessage(c, m)) /\ AfterMessage(c, m).buffer = c.buffer /\ AfterMessage(c, m).profile = c.profile
<1> DEFINE reports == IF m.subject = Nats!REPORT THEN Nats!DecodeStateReport(m.body) ELSE {}
           answers == IF m.subject = Nats!ANSWER THEN Nats!DecodeUpdateResponse(m.body) ELSE {}
<1>0. IsClient(c) /\ c.waiting \in {0, o.made} /\ (c.result = "ok" => o.made \in DOMAIN o.done)
      /\ KnowsTop(product, c.dps)
  BY DEF ClientIs
<1>0a. reports = {} \/ answers = {}
  BY DEF Nats!REPORT, Nats!ANSWER
<1>1. CASE reports # {}
  <2> DEFINE report == CHOOSE r \in reports : TRUE
             new == Nats!Merge(c.dps, report.dps)
  <2>1. AfterMessage(c, m) = [c EXCEPT !.dps = new]
    BY <1>0a, <1>1 DEF AfterMessage, Nats!OnDeviceMessage
  <2>2. report \in reports
    BY <1>1
  <2>3. report.dps \in Seq(GoodDps(product))
    <3> HIDE DEF report
    <3> QED  BY <1>1, <2>2 DEF Good
  <2>4. KnowsTop(product, new)
    BY <1>0, <2>3, MergeKnowsTop
  <2> HIDE DEF new
  <2> QED  BY <1>0, <2>1, <2>4 DEF ClientIs, IsClient
<1>2. CASE reports = {} /\ answers # {}
  <2> DEFINE answer == CHOOSE a \in answers : TRUE
             new == IF answer.success THEN Nats!Merge(c.dps, answer.dps) ELSE c.dps
             fresh == [c EXCEPT !.dps = new]
  <2>1. AfterMessage(c, m) = Nats!Resolve(fresh, answer.command, answer.success)
    BY <1>2 DEF AfterMessage, Nats!OnDeviceMessage
  <2>2. answer \in answers
    BY <1>2
  <2>3. answer.success => answer.command \in DOMAIN o.done /\ answer.dps \in Seq(GoodDps(product))
    <3> HIDE DEF answer
    <3> QED  BY <1>2, <2>2 DEF Good
  <2> HIDE DEF answer
  <2>4. KnowsTop(product, new)
    BY <1>0, <2>3, MergeKnowsTop
  <2> HIDE DEF new
  <2>5. fresh = [profile |-> c.profile, dps |-> new, buffer |-> c.buffer, waiting |-> c.waiting, result |-> c.result]
    BY <1>0 DEF IsClient
  <2> HIDE DEF fresh
  <2>6. CASE fresh.waiting # 0 /\ fresh.waiting = answer.command
    <3> DEFINE how == IF answer.success THEN "ok" ELSE "refused"
    <3>1. AfterMessage(c, m) = [fresh EXCEPT !.waiting = 0, !.result = how]
      BY <2>1, <2>6 DEF Nats!Resolve
    <3>2. answer.command = o.made
      BY <1>0, <2>5, <2>6
    <3>3. how = "ok" => o.made \in DOMAIN o.done
      BY <2>3, <3>2
    <3> HIDE DEF how
    <3> QED  BY <2>4, <2>5, <3>1, <3>3 DEF ClientIs, IsClient
  <2>7. CASE ~(fresh.waiting # 0 /\ fresh.waiting = answer.command)
    <3>1. AfterMessage(c, m) = fresh
      BY <2>1, <2>7 DEF Nats!Resolve
    <3> QED  BY <1>0, <2>4, <2>5, <3>1 DEF ClientIs, IsClient
  <2> QED  BY <2>6, <2>7
<1>3. CASE reports = {} /\ answers = {}
  <2>1. AfterMessage(c, m) = c
    BY <1>3 DEF AfterMessage, Nats!OnDeviceMessage
  <2> QED  BY <2>1
<1> QED  BY <1>1, <1>2, <1>3

\* What a client makes of such messages, one after another.
LEMMA TakesKeep ==
    ASSUME NEW product, NEW o, NEW c, ClientIs(product, o, c),
           NEW messages \in Seq(GoodMessages(product, DOMAIN o.done)), NEW after, Takes(c, messages, after)
    PROVE  LET last == after[Len(messages)]
           IN ClientIs(product, o, last) /\ last.buffer = c.buffer /\ last.profile = c.profile
<1> DEFINE Ok(x) == ClientIs(product, o, x) /\ x.buffer = c.buffer /\ x.profile = c.profile
           n == Len(messages)
           S == {i \in Nat : i <= n => Ok(after[i])}
<1>0. n \in Nat /\ \A i \in 1 .. n : Good(product, DOMAIN o.done, messages[i])
  <2>1. \A i \in 1 .. Len(messages) : messages[i] \in GoodMessages(product, DOMAIN o.done)
    BY Members
  <2> QED  BY <2>1 DEF GoodMessages
<1>1. 0 \in S
  BY DEF Takes
<1>2. ASSUME NEW i \in Nat, i \in S PROVE i + 1 \in S
  <2>1. CASE i + 1 <= n
    <3>1. i + 1 \in 1 .. n /\ Ok(after[i]) /\ (i + 1) - 1 = i
      BY <1>0, <1>2, <2>1
    <3>2. after[i + 1] = AfterMessage(after[i], messages[i + 1])
      BY <3>1 DEF Takes
    <3>3. Good(product, DOMAIN o.done, messages[i + 1])
      BY <1>0, <3>1
    <3>4. Ok(AfterMessage(after[i], messages[i + 1]))
      BY <3>1, <3>3, AnswerKeeps
    <3> QED  BY <3>2, <3>4
  <2> QED  BY <1>0, <2>1
<1> HIDE DEF S
<1>3. n \in S
  BY <1>0, <1>1, <1>2, Induction
<1> QED  BY <1>0, <1>3 DEF S

\* And of the bytes they come in.
LEMMA FeedKeeps ==
    ASSUME NEW product, NEW o, NEW c, ClientIs(product, o, c), c.buffer \in Seq(Nat),
           Nats!Ops(c.buffer).messages \in Seq(GoodMessages(product, DOMAIN o.done))
    PROVE  LET fed == Nats!Feed(c)
           IN /\ ClientIs(product, o, fed.client)
              /\ fed.client.buffer = Left(c.buffer) /\ fed.client.profile = c.profile
              /\ fed.broken = Nats!Ops(c.buffer).broken
<1> DEFINE b == Left(c.buffer)
           d == With(c, b)
           messages == Nats!Ops(c.buffer).messages
<1>1. PICK after : /\ Takes(d, messages, after)
                   /\ Nats!Feed(c) = [client |-> after[Len(messages)], broken |-> Nats!Ops(c.buffer).broken]
  BY FeedIs
<1>2. ClientIs(product, o, d) /\ d.buffer = b /\ d.profile = c.profile
  <2> HIDE DEF b
  <2> QED  BY DEF ClientIs, IsClient, With
<1> HIDE DEF d, messages, b
<1>3. messages \in Seq(GoodMessages(product, DOMAIN o.done))
  BY DEF messages
<1>4. LET last == after[Len(messages)]
      IN ClientIs(product, o, last) /\ last.buffer = d.buffer /\ last.profile = d.profile
  BY <1>1, <1>2, <1>3, TakesKeep
<1> QED  BY <1>1, <1>2, <1>4 DEF b

-----------------------------------------------------------------------------
(* What the adapter asks for *)

\* The datapoints of a model have each an id of its own.
LEMMA IdsDiffer ==
    ASSUME NEW product, NEW a \in Nats!Aspects, NEW b \in Nats!Aspects, Nats!DpId(product, a) = Nats!DpId(product, b)
    PROVE  a = b
BY DEF Nats!Aspects, Nats!DpId

\* An id, and a number of its kind.
LEMMA IdsAre ==
    ASSUME NEW product, NEW code \in Nats!Aspects
    PROVE  Nats!DpId(product, code) \in Number /\ Nats!Kind(product, code) \in Kinds
<1> DEFINE v == Nats!DpId(product, code)
<1>1. v \in Int /\ v >= 0 /\ v <= 200
  <2>1. v \in {70, 140, 150, 130, 100, 101, 11, 195, 84, 72}
    BY DEF Nats!Aspects, Nats!DpId
  <2> HIDE DEF v
  <2> QED  BY <2>1
<1>2. v < Nats!Word
  BY <1>1, WordIs
<1>3. Nats!Kind(product, code) \in Kinds
  BY DEF Nats!Kind, Kinds
<1>4. v \in Int /\ v >= 0
  BY <1>1
<1> HIDE DEF v
<1>5. v \in Number
  BY <1>2, <1>4, NumberIs
<1> QED  BY <1>3, <1>5 DEF v

\* A text is told by its cell.
LEMMA CellsDiffer ==
    ASSUME NEW a \in Nats!Aspects, NEW b \in Nats!Aspects, Nats!Cell(Nats!Codes, a) = Nats!Cell(Nats!Codes, b)
    PROVE  a = b
<1> DEFINE codes == Nats!Codes
           PlaceOf(code) == CHOOSE i \in DOMAIN codes : codes[i] = code
<1>1. \A code \in Nats!Aspects : \E i \in DOMAIN codes : codes[i] = code
  <2>1. DOMAIN codes = 1 .. 9
    BY DEF Nats!Codes
  <2> SUFFICES ASSUME NEW code \in Nats!Aspects PROVE \E i \in 1 .. 9 : codes[i] = code
    BY <2>1
  <2>2. codes[1] = "on_off" /\ codes[2] = "fan_speed_level" /\ codes[3] = "fan_speed_maxavail"
        /\ codes[4] = "target_temperature" /\ codes[5] = "temp_outdoor" /\ codes[6] = "temp_indoor"
        /\ codes[7] = "climatic_flags" /\ codes[8] = "heater_on_off" /\ codes[9] = "flap_mode"
    BY DEF Nats!Codes
  <2> HIDE DEF codes
  <2> QED  BY <2>2 DEF Nats!Aspects
<1> HIDE DEF codes
<1>2. \A code \in Nats!Aspects : codes[PlaceOf(code)] = code
  BY <1>1
<1>3. <<PlaceOf(a)>> = <<PlaceOf(b)>>
  BY DEF Nats!Cell, codes
<1>4. PlaceOf(a) = PlaceOf(b)
  BY <1>3
<1> QED  BY <1>2, <1>4

\* The model is told by its cell, too.
LEMMA ProductIs ==
    ASSUME NEW product \in ProductNames, NEW profile, ProfileFits(product, profile), NEW d, d.profile = profile
    PROVE  Nats!Product(d) = product
<1> DEFINE names == Nats!Products
           place == CHOOSE i \in DOMAIN names : names[i] = product
<1>1. \E i \in DOMAIN names : names[i] = product
  <2>1. DOMAIN names = 1 .. 3 /\ names[1] = "b4s_ble" /\ names[2] = "br3s_rf" /\ names[3] = "o2_rf"
    BY DEF Nats!Products
  <2> HIDE DEF names
  <2> QED  BY <2>1 DEF ProductNames
<1>2. d.profile.product = <<place>>
  BY DEF ProfileFits, Nats!Cell
<1> HIDE DEF names
<1>3. names[place] = product
  BY <1>1
<1> QED  BY <1>2, <1>3 DEF Nats!Product, names

\* by_code: what is found is the spec of the datapoint.
LEMMA ByCodeFits ==
    ASSUME NEW product, NEW d, ProfileFits(product, d.profile), NEW code \in Nats!Aspects,
           NEW spec \in Nats!ByCode(d, code)
    PROVE  SpecFits(product, spec) /\ spec.code = Nats!Cell(Nats!Codes, code)
BY DEF Nats!ByCode, ProfileFits

\* So it has its id, its type and its scale.
IsSpec(product, code, spec) ==
    /\ spec.id = Nats!DpId(product, code) /\ spec.type = Nats!Kind(product, code)
    /\ spec.type = Nats!INT =>
         spec.scale = IF code \in {"target_temperature", "temp_outdoor", "temp_indoor"} THEN 1 ELSE 0

\* So does the spec that is found by its code.
LEMMA SpecIs ==
    ASSUME NEW product, NEW d, ProfileFits(product, d.profile), NEW code \in Nats!Aspects,
           NEW spec \in Nats!ByCode(d, code)
    PROVE  IsSpec(product, code, spec)
BY ByCodeFits DEF SpecFits, IsSpec

\* What is known of a datapoint is known under its id.
LEMMA RawIs ==
    ASSUME NEW product, NEW d, ProfileFits(product, d.profile), NEW code \in Nats!Aspects, NEW raw \in Nats!Raw(d, code)
    PROVE  Nats!DpId(product, code) \in DOMAIN d.dps /\ raw = d.dps[Nats!DpId(product, code)]
BY SpecIs DEF Nats!Raw, IsSpec

\* The highest speed is that of the model, as long as what is known of it is.
LEMMA TopIs ==
    ASSUME NEW product \in ProductNames, NEW d, ProfileFits(product, d.profile), KnowsTop(product, d.dps)
    PROVE  Nats!BreezerSpeedMax(d) = {Nats!SpeedMax(product)}
<1> DEFINE code == "fan_speed_maxavail"
<1>1. code \in Nats!Aspects
  BY DEF Nats!Aspects
<1> HIDE DEF code
<1>2. \A raw \in Nats!Raw(d, code) : raw = Nats!SpeedMax(product)
  BY <1>1, RawIs DEF KnowsTop, TopOf, code
<1>3. Nats!SpeedMax(product) # 0 /\ Nats!SpeedMax(product) = IF Nats!Product(d) = "o2_rf" THEN 4 ELSE 6
  BY ProductIs DEF Nats!SpeedMax
<1>4. CASE Nats!Raw(d, code) = {}
  BY <1>3, <1>4 DEF Nats!BreezerSpeedMax, code
<1>5. CASE Nats!Raw(d, code) # {}
  <2>1. Nats!Raw(d, code) = {Nats!SpeedMax(product)}
    BY <1>2, <1>5
  <2> QED  BY <1>3, <2>1 DEF Nats!BreezerSpeedMax, code
<1> QED  BY <1>4, <1>5

Tenths == {"target_temperature", "temp_outdoor", "temp_indoor"}

\* What is written of a number, by the kind of its datapoint.
IsEncoded(product, code, tenths, dp) ==
    LET sort == Nats!Kind(product, code)
        value == IF sort = Nats!BOOL THEN IF tenths # 0 THEN 1 ELSE 0
                 ELSE IF code \in Tenths THEN tenths ELSE tenths \div 10
    IN sort \in {Nats!BOOL, Nats!INT} /\ dp = [id |-> Nats!DpId(product, code), kind |-> sort, value |-> value]

\* What a value is encoded to, by the spec of its aspect.
LEMMA EncodedValueIs ==
    ASSUME NEW product, NEW code, NEW spec, IsSpec(product, code, spec), NEW tenths \in Int,
           NEW dp \in Nats!EncodeValue(spec, tenths)
    PROVE  IsEncoded(product, code, tenths, dp)
<1> DEFINE sort == Nats!Kind(product, code)
           id == Nats!DpId(product, code)
           raw == (tenths * 10^spec.scale) \div 10
<1>1. spec.id = id /\ spec.type = sort
  BY DEF IsSpec
<1>2. sort \in {Nats!BOOL, Nats!INT, Nats!FLAGS}
  BY DEF Nats!Kind
<1>3. Nats!BOOL = 1 /\ Nats!INT = 2 /\ Nats!ENUM = 3 /\ Nats!FLAGS = 6
  BY DEF Nats!BOOL, Nats!INT, Nats!ENUM, Nats!FLAGS
<1> HIDE DEF sort, id
<1>4. CASE sort = Nats!BOOL
  <2>1. dp = [id |-> spec.id, kind |-> Nats!BOOL, value |-> IF tenths # 0 THEN 1 ELSE 0]
    BY <1>1, <1>3, <1>4 DEF Nats!EncodeValue
  <2> QED  BY <1>1, <1>4, <2>1 DEF IsEncoded, sort, id
<1>5. CASE sort = Nats!INT
  <2>1. raw = IF code \in Tenths THEN tenths ELSE tenths \div 10
    <3>1. CASE code \in Tenths
      <4>1. spec.scale = 1
        BY <1>1, <1>5, <3>1 DEF IsSpec, Tenths
      <4>2. 10^spec.scale = 10
        BY <4>1
      <4>3. (tenths * 10) \div 10 = tenths
        OBVIOUS
      <4> QED  BY <3>1, <4>2, <4>3
    <3>2. CASE code \notin Tenths
      <4>1. spec.scale = 0
        BY <1>1, <1>5, <3>2 DEF IsSpec, Tenths
      <4>2. 10^spec.scale = 1
        BY <4>1
      <4>3. tenths * 1 = tenths
        OBVIOUS
      <4> QED  BY <3>2, <4>2, <4>3
    <3> QED  BY <3>1, <3>2
  <2>2. dp = [id |-> spec.id, kind |-> Nats!INT, value |-> raw]
    <3> DEFINE v == (tenths * 10^spec.scale) \div 10
    <3>1. dp \in IF spec.ranged /\ v \notin spec.minimum .. spec.maximum THEN {}
                 ELSE {[id |-> spec.id, kind |-> Nats!INT, value |-> v]}
      BY <1>1, <1>3, <1>5 DEF Nats!EncodeValue
    <3> HIDE DEF v
    <3> QED  BY <3>1 DEF v
  <2> HIDE DEF raw
  <2>3. sort # Nats!BOOL
    BY <1>3, <1>5
  <2> QED  BY <1>1, <1>5, <2>1, <2>2, <2>3 DEF IsEncoded, sort, id
<1>6. CASE sort = Nats!FLAGS
  <2>1. Nats!EncodeValue(spec, tenths) = {}
    BY <1>1, <1>3, <1>6 DEF Nats!EncodeValue
  <2> QED  BY <2>1
<1> QED  BY <1>2, <1>4, <1>5, <1>6

\* What a user may ask for: a switch, or a number.
Typed(name, value) ==
    /\ name \in Names
    /\ name \in {"is_on", "heater_enabled"} => value \in BOOLEAN
    /\ name \in {"speed", "target_temperature"} => value \in Int

\* The kinds of what can be asked for.
LEMMA KindsAre ==
    ASSUME NEW product
    PROVE  /\ Nats!Kind(product, "on_off") = Nats!BOOL /\ Nats!Kind(product, "fan_speed_level") = Nats!INT
           /\ Nats!Kind(product, "flap_mode") = Nats!INT /\ Nats!Kind(product, "target_temperature") = Nats!INT
           /\ Nats!Kind(product, "heater_on_off") = IF product = "b4s_ble" THEN Nats!INT ELSE Nats!BOOL
           /\ Nats!INT = 2 /\ Nats!BOOL = 1
BY DEF Nats!Kind, Nats!INT, Nats!BOOL, Nats!FLAGS

\* A small number has its kind.
LEMMA GoodDpIs ==
    ASSUME NEW product, NEW code \in Nats!Aspects, code # "fan_speed_maxavail", NEW sort \in {Nats!BOOL, Nats!INT},
           NEW value \in Int, IF sort = Nats!BOOL THEN value \in {0, 1} ELSE value \in Signed
    PROVE  [id |-> Nats!DpId(product, code), kind |-> sort, value |-> value] \in GoodDps(product)
<1> DEFINE id == Nats!DpId(product, code)
           dp == [id |-> id, kind |-> sort, value |-> value]
<1>1. id \in Number /\ sort \in Kinds
  BY IdsAre DEF Kinds
<1>2. id # TopOf(product)
  <2>1. "fan_speed_maxavail" \in Nats!Aspects
    BY DEF Nats!Aspects
  <2> QED  BY <2>1, IdsDiffer DEF TopOf
<1> HIDE DEF id
<1>3. Fits(sort, value)
  BY DEF Fits, Nats!BOOL, Nats!INT
<1>4. dp \in [id : Number, kind : Kinds, value : Int] /\ dp.id = id /\ dp.kind = sort /\ dp.value = value
  BY <1>1
<1> HIDE DEF dp
<1>5. IsDp(dp)
  BY <1>1, <1>3, <1>4 DEF IsDp
<1> QED  BY <1>2, <1>4, <1>5 DEF GoodDps, dp, id

\* Numbers that fit a word with a sign.
LEMMA SignedAre ==
    ASSUME NEW v \in Int, v >= -16384, v <= 16383
    PROVE  v \in Signed
<1> DEFINE low == 0 - Nats!Word \div 2
           high == (Nats!Word \div 2) - 1
<1>1. low \in Int /\ high \in Int /\ low <= v /\ v <= high
  BY WordIs
<1>2. Signed = low .. high
  BY DEF Signed
<1> HIDE DEF low, high
<1> QED  BY <1>1, <1>2

\* A change of a known name is written from a spec of its datapoint.
WrittenOf(d, code, tenths, dp) == \E spec \in Nats!ByCode(d, code) : dp \in Nats!EncodeValue(spec, tenths)

\* So it is its datapoint, of its kind.
LEMMA WrittenFrom ==
    ASSUME NEW product, NEW d, ProfileFits(product, d.profile), NEW code \in Nats!Aspects, NEW tenths \in Int,
           NEW dp, WrittenOf(d, code, tenths, dp)
    PROVE  IsEncoded(product, code, tenths, dp)
BY SpecIs, EncodedValueIs DEF WrittenOf

\* A change that is written asks for what it was written of, in a datapoint that fits.
LEMMA EncodeMeans ==
    ASSUME NEW product \in ProductNames, NEW d, ProfileFits(product, d.profile), KnowsTop(product, d.dps),
           NEW name, NEW value, Typed(name, value), NEW dp \in Nats!Encode(d, name, value)
    PROVE  Means(product, name, value, dp) /\ dp \in GoodDps(product)
<1>0. "on_off" \in Nats!Aspects /\ "fan_speed_level" \in Nats!Aspects /\ "flap_mode" \in Nats!Aspects
      /\ "heater_on_off" \in Nats!Aspects /\ "target_temperature" \in Nats!Aspects
  BY DEF Nats!Aspects
<1>1. CASE name = "is_on"
  <2> DEFINE code == "on_off"
             tenths == IF value THEN 10 ELSE 0
             v == IF value THEN 1 ELSE 0
  <2>1. value \in BOOLEAN /\ tenths \in Int /\ (IF tenths # 0 THEN 1 ELSE 0) = v /\ v \in {0, 1}
    BY <1>1 DEF Typed
  <2>2. WrittenOf(d, code, tenths, dp)
    BY <1>1 DEF Nats!Encode, WrittenOf
  <2> HIDE DEF tenths, v, code
  <2>3. code \in Nats!Aspects /\ code # "fan_speed_maxavail" /\ Nats!Kind(product, code) = Nats!BOOL
    BY <1>0, KindsAre DEF code
  <2>4. IsEncoded(product, code, tenths, dp)
    BY <2>1, <2>2, <2>3, WrittenFrom
  <2>5. dp = [id |-> Nats!DpId(product, code), kind |-> Nats!BOOL, value |-> v]
    BY <2>1, <2>3, <2>4 DEF IsEncoded
  <2>6. dp \in GoodDps(product)
    <3>1. v \in Int
      BY <2>1
    <3> QED  BY <2>1, <2>3, <2>5, <3>1, GoodDpIs
  <2>7. dp.id = Nats!DpId(product, code) /\ dp.value = v
    BY <2>5
  <2> QED  BY <1>1, <2>1, <2>6, <2>7 DEF Means, Names, AspectOf, code, v
<1>2. CASE name = "speed"
  <2> DEFINE code == "fan_speed_level"
             tenths == 10 * value
  <2>1. value \in Int /\ tenths \in Int /\ tenths \div 10 = value
    BY <1>2 DEF Typed
  <2>2. WrittenOf(d, code, tenths, dp) /\ value \in 0 .. Nats!SpeedMax(product)
    <3>1. dp \in UNION {Nats!EncodeValue(spec, 10 * value) :
                          spec \in {spec \in Nats!ByCode(d, "fan_speed_level") :
                                      \A top \in Nats!BreezerSpeedMax(d) : value \in 0 .. top}}
      BY <1>2 DEF Nats!Encode
    <3>2. PICK spec \in Nats!ByCode(d, "fan_speed_level") :
            dp \in Nats!EncodeValue(spec, 10 * value) /\ \A top \in Nats!BreezerSpeedMax(d) : value \in 0 .. top
      BY <3>1
    <3>3. Nats!SpeedMax(product) \in Nats!BreezerSpeedMax(d)
      BY TopIs
    <3> QED  BY <3>2, <3>3 DEF WrittenOf
  <2> HIDE DEF tenths, code
  <2>3. code \in Nats!Aspects /\ code # "fan_speed_maxavail" /\ Nats!Kind(product, code) = Nats!INT
        /\ Nats!INT # Nats!BOOL /\ code \notin Tenths
    BY <1>0, KindsAre DEF code, Tenths
  <2>4. IsEncoded(product, code, tenths, dp)
    BY <2>1, <2>2, <2>3, WrittenFrom
  <2>5. dp = [id |-> Nats!DpId(product, code), kind |-> Nats!INT, value |-> value]
    BY <2>1, <2>3, <2>4 DEF IsEncoded
  <2>6. dp \in GoodDps(product)
    <3>1. value >= -16384 /\ value <= 16383
      <4>1. Nats!SpeedMax(product) \in {4, 6}
        BY DEF Nats!SpeedMax
      <4> QED  BY <2>1, <2>2, <4>1
    <3>2. value \in Signed
      BY <2>1, <3>1, SignedAre
    <3> QED  BY <2>1, <2>3, <2>5, <3>2, GoodDpIs
  <2>7. dp.id = Nats!DpId(product, code) /\ dp.value = value
    BY <2>5
  <2> QED  BY <1>2, <2>2, <2>6, <2>7 DEF Means, Names, AspectOf, code
<1>3. CASE name = "flap"
  <2> DEFINE code == "flap_mode"
             tenths == 10 * value
  <2>2. WrittenOf(d, code, tenths, dp) /\ value \in {0, 1, 2} /\ (value = 2 => product = "br3s_rf")
    <3>1. dp \in UNION {Nats!EncodeValue(spec, 10 * value) :
                          spec \in {spec \in Nats!ByCode(d, "flap_mode") : value \in Nats!FlapModes(d)}}
      BY <1>3 DEF Nats!Encode
    <3>2. PICK spec \in Nats!ByCode(d, "flap_mode") :
            dp \in Nats!EncodeValue(spec, 10 * value) /\ value \in Nats!FlapModes(d)
      BY <3>1
    <3>3. Nats!Product(d) = product
      BY ProductIs
    <3>4. value \in {0, 1, 2} /\ (value = 2 => product = "br3s_rf")
      BY <3>2, <3>3 DEF Nats!FlapModes, Nats!OUTSIDE, Nats!INSIDE, Nats!MIXED
    <3> QED  BY <3>2, <3>4 DEF WrittenOf
  <2>1. value \in Int /\ tenths \in Int /\ tenths \div 10 = value
    <3>1. value \in Int
      BY <2>2
    <3> QED  BY <3>1
  <2> HIDE DEF tenths, code
  <2>3. code \in Nats!Aspects /\ code # "fan_speed_maxavail" /\ Nats!Kind(product, code) = Nats!INT
        /\ Nats!INT # Nats!BOOL /\ code \notin Tenths
    BY <1>0, KindsAre DEF code, Tenths
  <2>4. IsEncoded(product, code, tenths, dp)
    BY <2>1, <2>2, <2>3, WrittenFrom
  <2>5. dp = [id |-> Nats!DpId(product, code), kind |-> Nats!INT, value |-> value]
    BY <2>1, <2>3, <2>4 DEF IsEncoded
  <2>6. dp \in GoodDps(product)
    <3>1. value >= -16384 /\ value <= 16383
      BY <2>2
    <3>2. value \in Signed
      BY <2>1, <3>1, SignedAre
    <3> QED  BY <2>1, <2>3, <2>5, <3>2, GoodDpIs
  <2>7. dp.id = Nats!DpId(product, code) /\ dp.value = value
    BY <2>5
  <2> QED  BY <1>3, <2>2, <2>6, <2>7 DEF Means, Names, AspectOf, code
<1>4. CASE name = "target_temperature"
  <2> DEFINE code == "target_temperature"
             tenths == value
  <2>2. WrittenOf(d, code, tenths, dp) /\ value \in 0 .. 300
    <3>1. dp \in UNION {Nats!EncodeValue(spec, value) : spec \in {spec \in Nats!ByCode(d, name) : value \in 0 .. 300}}
      BY <1>4 DEF Nats!Encode
    <3> QED  BY <1>4, <3>1 DEF WrittenOf
  <2>1. value \in Int /\ tenths \in Int
    BY <1>4 DEF Typed
  <2> HIDE DEF code
  <2>3. code \in Nats!Aspects /\ code # "fan_speed_maxavail" /\ Nats!Kind(product, code) = Nats!INT
        /\ Nats!INT # Nats!BOOL /\ code \in Tenths
    BY <1>0, KindsAre DEF code, Tenths
  <2>4. IsEncoded(product, code, tenths, dp)
    BY <2>1, <2>2, <2>3, WrittenFrom
  <2>5. dp = [id |-> Nats!DpId(product, code), kind |-> Nats!INT, value |-> value]
    BY <2>1, <2>3, <2>4 DEF IsEncoded
  <2>6. dp \in GoodDps(product)
    <3>1. value >= -16384 /\ value <= 16383
      BY <2>2
    <3>2. value \in Signed
      BY <2>1, <3>1, SignedAre
    <3> QED  BY <2>1, <2>3, <2>5, <3>2, GoodDpIs
  <2>7. dp.id = Nats!DpId(product, code) /\ dp.value = value
    BY <2>5
  <2> QED  BY <1>4, <2>2, <2>6, <2>7 DEF Means, Names, AspectOf, code
<1>5. CASE name = "heater_enabled"
  <2> DEFINE code == "heater_on_off"
             sort == Nats!Kind(product, code)
  <2>1. value \in BOOLEAN
    BY <1>5 DEF Typed
  <2>2. PICK spec \in Nats!ByCode(d, code) :
          dp \in Nats!EncodeValue(spec, IF spec.type = Nats!INT THEN IF value THEN 0 ELSE 10
                                        ELSE IF value THEN 10 ELSE 0)
    BY <1>5 DEF Nats!Encode
  <2> DEFINE tenths == IF spec.type = Nats!INT THEN IF value THEN 0 ELSE 10 ELSE IF value THEN 10 ELSE 0
             v == Nats!RawOf(product, code, value)
  <2>3. tenths \in Int /\ WrittenOf(d, code, tenths, dp)
    BY <2>2 DEF WrittenOf
  <2>4. spec.type = sort /\ code \in Nats!Aspects
    BY <1>0, <2>2, SpecIs DEF IsSpec
  <2>5. sort \in {Nats!BOOL, Nats!INT} /\ (sort = Nats!INT <=> product = "b4s_ble") /\ Nats!BOOL # Nats!INT
        /\ code \notin Tenths /\ code # "fan_speed_maxavail"
    BY KindsAre DEF Tenths
  <2>6. IsEncoded(product, code, tenths, dp)
    <3> HIDE DEF code, tenths
    <3> QED  BY <2>3, <2>4, WrittenFrom
  <2>7. v = IF sort = Nats!INT THEN IF value THEN 0 ELSE 1 ELSE IF value THEN 1 ELSE 0
    BY <2>5 DEF Nats!RawOf
  <2>8. dp = [id |-> Nats!DpId(product, code), kind |-> sort, value |-> v]
    <3>1. CASE sort = Nats!BOOL
      <4>1. (IF tenths # 0 THEN 1 ELSE 0) = v
        BY <2>1, <2>4, <2>5, <2>7, <3>1
      <4> HIDE DEF tenths, v
      <4> QED  BY <2>6, <3>1, <4>1 DEF IsEncoded
    <3>2. CASE sort = Nats!INT
      <4>1. tenths \div 10 = v
        BY <2>1, <2>4, <2>5, <2>7, <3>2
      <4> HIDE DEF tenths, v
      <4> QED  BY <2>5, <2>6, <3>2, <4>1 DEF IsEncoded
    <3> QED  BY <2>5, <3>1, <3>2
  <2>9. v \in {0, 1}
    BY <2>7
  <2> HIDE DEF tenths, v, code, sort
  <2>10. v \in Int /\ v \in Signed
    <3>1. v \in Int /\ v >= -16384 /\ v <= 16383
      BY <2>9
    <3> QED  BY <3>1, SignedAre
  <2>11. dp \in GoodDps(product)
    BY <2>4, <2>5, <2>8, <2>9, <2>10, GoodDpIs
  <2>12. dp.id = Nats!DpId(product, code) /\ dp.value = v
    BY <2>8
  <2> QED  BY <1>5, <2>1, <2>11, <2>12 DEF Means, Names, AspectOf, code, v
<1> QED  BY <1>1, <1>2, <1>3, <1>4, <1>5 DEF Typed, Names

\* The changes a user may ask for, each of them once.
Askable == {x \in Names \X (BOOLEAN \cup Int) : Typed(x[1], x[2])}
AskIs(ask, names, n) ==
    /\ ask \in Seq(Askable) /\ Len(ask) <= n
    /\ \A i \in 1 .. Len(ask) : ask[i][1] \in names
    /\ \A i, j \in 1 .. Len(ask) : ask[i][1] = ask[j][1] => i = j

\* One more change, or none.
OneMore(more, name, value) ==
    more = <<>> \/ (more = << <<name, value>> >> /\ value \in BOOLEAN \cup Int /\ Typed(name, value))

\* A change more in what is asked for.
LEMMA AskGrows ==
    ASSUME NEW ask, NEW names, NEW n \in Nat, AskIs(ask, names, n), NEW name, name \notin names, NEW value, NEW more,
           OneMore(more, name, value)
    PROVE  AskIs(ask \o more, names \cup {name}, n + 1)
<1>0. ask \in Seq(Askable) /\ Len(ask) <= n /\ Len(ask) \in Nat
      /\ (\A i \in 1 .. Len(ask) : ask[i][1] \in names)
      /\ \A i, j \in 1 .. Len(ask) : ask[i][1] = ask[j][1] => i = j
  BY DEF AskIs
<1>1. CASE more = <<>>
  <2>1. ask \o more = ask
    BY <1>0, <1>1
  <2> QED  BY <1>0, <2>1 DEF AskIs
<1>2. CASE more = << <<name, value>> >> /\ value \in BOOLEAN \cup Int /\ Typed(name, value)
  <2> DEFINE x == <<name, value>>
             all == ask \o more
             k == Len(ask)
  <2>1. x \in Askable /\ x[1] = name
    BY <1>2 DEF Askable, Typed
  <2> HIDE DEF x
  <2>2. more \in Seq(Askable) /\ Len(more) = 1 /\ more[1] = x
    BY <1>2, <2>1 DEF x
  <2>3. InTurn(ask, more, Askable)
    BY <1>0, <2>2, Both
  <2>4. all \in Seq(Askable) /\ Len(all) = k + 1 /\ (\A i \in 1 .. k : all[i] = ask[i]) /\ all[k + 1] = x
    <3>1. 1 \in 1 .. Len(more)
      BY <2>2
    <3> QED  BY <2>2, <2>3, <3>1 DEF InTurn
  <2> HIDE DEF all, k
  <2>5. k \in Nat /\ k <= n /\ k = Len(ask)
    BY <1>0 DEF k
  <2>6. \A i \in 1 .. k + 1 : i \in 1 .. k \/ i = k + 1
    BY <2>5
  <2>7. \A i \in 1 .. k : all[i][1] \in names
    BY <1>0, <2>4, <2>5
  <2>8. all[k + 1][1] = name
    BY <2>1, <2>4
  <2>9. \A i \in 1 .. Len(all) : all[i][1] \in names \cup {name}
    BY <2>4, <2>6, <2>7, <2>8
  <2>10. ASSUME NEW i \in 1 .. Len(all), NEW j \in 1 .. Len(all), all[i][1] = all[j][1] PROVE i = j
    <3>1. CASE i \in 1 .. k /\ j \in 1 .. k
      BY <1>0, <2>4, <2>5, <2>10, <3>1
    <3>2. CASE i = k + 1 /\ j \in 1 .. k
      BY <2>7, <2>8, <2>10, <3>2
    <3>3. CASE i \in 1 .. k /\ j = k + 1
      BY <2>7, <2>8, <2>10, <3>3
    <3> QED  BY <2>4, <2>6, <3>1, <3>2, <3>3
  <2>11. Len(all) <= n + 1
    BY <2>4, <2>5
  <2> QED  BY <2>4, <2>9, <2>10, <2>11 DEF AskIs, all
<1> QED  BY <1>1, <1>2 DEF OneMore

\* A wish is for numbers and switches.
WishIs(wish) ==
    /\ "speed" \in DOMAIN wish => wish.speed \in Int
    /\ "gate" \in DOMAIN wish => wish.gate \in 0 .. 2
    /\ "heater_enabled" \in DOMAIN wish => wish.heater_enabled \in BOOLEAN
    /\ "t_set" \in DOMAIN wish => wish.t_set \in Int

\* Every wish is of that kind.
LEMMA WishesAre == \A wish \in Nats!Wishes : WishIs(wish)
<1> SUFFICES ASSUME NEW wish \in Nats!Wishes PROVE WishIs(wish)
  OBVIOUS
<1>1. CASE wish \in {[speed |-> speed] : speed \in {0, 2, 6}}
  <2>1. PICK speed \in {0, 2, 6} : wish = [speed |-> speed]
    BY <1>1
  <2>2. DOMAIN wish = {"speed"} /\ wish.speed = speed
    BY <2>1
  <2> QED  BY <2>2 DEF WishIs
<1>2. CASE wish \in {[gate |-> gate] : gate \in 0 .. 2}
  <2>1. PICK gate \in 0 .. 2 : wish = [gate |-> gate]
    BY <1>2
  <2>2. DOMAIN wish = {"gate"} /\ wish.gate = gate
    BY <2>1
  <2> QED  BY <2>2 DEF WishIs
<1>3. CASE wish = [heater_enabled |-> TRUE]
  <2>1. DOMAIN wish = {"heater_enabled"} /\ wish.heater_enabled = TRUE
    BY <1>3
  <2> QED  BY <2>1 DEF WishIs
<1>4. CASE wish = [heater_enabled |-> FALSE, t_set |-> 55]
  <2>1. DOMAIN wish = {"heater_enabled", "t_set"} /\ wish.heater_enabled = FALSE /\ wish.t_set = 55
    BY <1>4
  <2>2. "speed" \notin DOMAIN wish /\ "gate" \notin DOMAIN wish
    BY <2>1
  <2>3. wish.t_set \in Int
    BY <2>1
  <2>4. wish.heater_enabled \in BOOLEAN
    BY <1>4
  <2> QED  BY <2>2, <2>3, <2>4 DEF WishIs
<1>5. CASE wish = [t_set |-> 310]
  <2>1. DOMAIN wish = {"t_set"} /\ wish.t_set = 310
    BY <1>5
  <2> QED  BY <2>1 DEF WishIs
<1> QED  BY <1>1, <1>2, <1>3, <1>4, <1>5 DEF Nats!Wishes

\* async_send: of a wish, five changes at most, each of them once.
LEMMA ChangesAre ==
    ASSUME NEW wish \in Nats!Wishes
    PROVE  AskIs(Nats!Changes(wish), Names, 5)
<1>0. WishIs(wish)
  BY WishesAre
<1> DEFINE Wished(name) == name \in DOMAIN wish
           If(condition, name, value) == IF condition THEN << <<name, value>> >> ELSE <<>>
           on == Wished("speed") /\ wish.speed > 0
           flap == Nats!GateToFlap(wish.gate)
           a == If(Wished("speed"), "is_on", on)
           b == If(on /\ Nats!Raw(Nats!Device, "fan_speed_level") # {wish.speed}, "speed", wish.speed)
           c == If(Wished("gate") /\ Nats!Flap(Nats!Device) # {flap}, "flap", flap)
           d == If(Wished("heater_enabled") /\ Nats!CanSet(Nats!Device, "heater_on_off")
                     /\ Nats!HeaterEnabled(Nats!Device) # {wish.heater_enabled}, "heater_enabled", wish.heater_enabled)
           e == If(Wished("t_set") /\ Nats!CanSet(Nats!Device, "target_temperature")
                     /\ Nats!Number(Nats!Device, "target_temperature") # {wish.t_set}, "target_temperature", wish.t_set)
<1>1. Nats!Changes(wish) = (((a \o b) \o c) \o d) \o e
  BY DEF Nats!Changes
<1>2. OneMore(a, "is_on", on)
  BY DEF OneMore, Typed, Names
<1>3. OneMore(b, "speed", wish.speed)
  BY <1>0 DEF OneMore, Typed, Names, WishIs
<1>4. OneMore(c, "flap", flap)
  <2>1. Wished("gate") => flap \in Int
    BY <1>0 DEF WishIs, Nats!GateToFlap, Nats!INSIDE, Nats!MIXED, Nats!OUTSIDE
  <2> HIDE DEF flap
  <2> QED  BY <2>1 DEF OneMore, Typed, Names
<1>5. OneMore(d, "heater_enabled", wish.heater_enabled)
  BY <1>0 DEF OneMore, Typed, Names, WishIs
<1>6. OneMore(e, "target_temperature", wish.t_set)
  BY <1>0 DEF OneMore, Typed, Names, WishIs
<1> HIDE DEF on, flap, a, b, c, d, e
<1>7. AskIs(<<>>, {}, 0) /\ <<>> \o a = a
  BY <1>2 DEF AskIs, OneMore
<1>8. AskIs(a, {} \cup {"is_on"}, 0 + 1)
  <2>1. AskIs(<<>> \o a, {} \cup {"is_on"}, 0 + 1)
    BY <1>2, <1>7, AskGrows
  <2> QED  BY <1>7, <2>1
<1>9. AskIs(a, {"is_on"}, 1)
  <2>1. {} \cup {"is_on"} = {"is_on"} /\ 0 + 1 = 1
    OBVIOUS
  <2> QED  BY <1>8, <2>1
<1>10. AskIs(a \o b, {"is_on"} \cup {"speed"}, 1 + 1)
  BY <1>3, <1>9, AskGrows
<1>11. AskIs((a \o b) \o c, ({"is_on"} \cup {"speed"}) \cup {"flap"}, (1 + 1) + 1)
  BY <1>4, <1>10, AskGrows
<1>12. AskIs(((a \o b) \o c) \o d, (({"is_on"} \cup {"speed"}) \cup {"flap"}) \cup {"heater_enabled"}, ((1 + 1) + 1) + 1)
  BY <1>5, <1>11, AskGrows
<1>13. AskIs((((a \o b) \o c) \o d) \o e,
             ((({"is_on"} \cup {"speed"}) \cup {"flap"}) \cup {"heater_enabled"}) \cup {"target_temperature"},
             (((1 + 1) + 1) + 1) + 1)
  BY <1>6, <1>12, AskGrows
<1>14. ((({"is_on"} \cup {"speed"}) \cup {"flap"}) \cup {"heater_enabled"}) \cup {"target_temperature"} = Names
       /\ (((1 + 1) + 1) + 1) + 1 = 5
  BY DEF Names
<1> QED  BY <1>1, <1>13, <1>14

\* Datapoints that fit a model are datapoints.
LEMMA GoodDpsAre ==
    ASSUME NEW product, NEW dps \in Seq(GoodDps(product))
    PROVE  AreDps(dps, Len(dps))
<1>1. \A i \in 1 .. Len(dps) : dps[i] \in GoodDps(product)
  BY Members
<1>2. Len(dps) \in Nat /\ DOMAIN dps = 1 .. Len(dps) /\ dps = [i \in 1 .. Len(dps) |-> dps[i]]
  OBVIOUS
<1> QED  BY <1>1, <1>2 DEF AreDps, GoodDps

\* What is asked for, change by change, is what is written.
AskedFor(product, ask, dps) == Asks(product, ask, dps) /\ dps \in Seq(GoodDps(product)) /\ Len(dps) = Len(ask)

\* Each change that is encoded asks for just that.
LEMMA AskedForIs ==
    ASSUME NEW product \in ProductNames, NEW d, ProfileFits(product, d.profile), KnowsTop(product, d.dps),
           NEW ask, NEW names, NEW n, AskIs(ask, names, n),
           NEW dps \in Nats!Each([i \in DOMAIN ask |-> Nats!Encode(d, ask[i][1], ask[i][2])])
    PROVE  AskedFor(product, ask, dps)
<1> DEFINE results == [i \in DOMAIN ask |-> Nats!Encode(d, ask[i][1], ask[i][2])]
<1>1. ask \in Seq(Askable) /\ DOMAIN ask = 1 .. Len(ask) /\ Len(ask) \in Nat
      /\ \A i, j \in 1 .. Len(ask) : ask[i][1] = ask[j][1] => i = j
  BY DEF AskIs
<1>2. \A i \in DOMAIN ask : Typed(ask[i][1], ask[i][2])
  <2>1. \A i \in 1 .. Len(ask) : ask[i] \in Askable
    BY <1>1, Members
  <2> QED  BY <1>1, <2>1 DEF Askable
<1>3. DOMAIN results = DOMAIN ask /\ \A i \in DOMAIN ask : results[i] = Nats!Encode(d, ask[i][1], ask[i][2])
  OBVIOUS
<1> HIDE DEF results
<1>4. dps \in Nats!Each(results)
  BY DEF results
<1>5. (\A i \in DOMAIN results : results[i] # {}) /\ dps = [i \in DOMAIN results |-> CHOOSE r \in results[i] : TRUE]
  BY <1>4 DEF Nats!Each
<1>6. \A i \in DOMAIN ask : dps[i] \in Nats!Encode(d, ask[i][1], ask[i][2])
  <2> TAKE i \in DOMAIN ask
  <2>1. dps[i] = CHOOSE r \in results[i] : TRUE
    BY <1>3, <1>5
  <2>2. results[i] # {}
    BY <1>3, <1>5
  <2>3. dps[i] \in results[i]
    BY <2>1, <2>2
  <2> QED  BY <1>3, <2>3
<1>7. \A i \in DOMAIN ask : Means(product, ask[i][1], ask[i][2], dps[i]) /\ dps[i] \in GoodDps(product)
  <2> TAKE i \in DOMAIN ask
  <2> DEFINE name == ask[i][1]
             value == ask[i][2]
             dp == dps[i]
  <2>1. Typed(name, value) /\ dp \in Nats!Encode(d, name, value)
    BY <1>2, <1>6
  <2> HIDE DEF name, value, dp
  <2>2. Means(product, name, value, dp) /\ dp \in GoodDps(product)
    BY <2>1, EncodeMeans
  <2> QED  BY <2>2 DEF name, value, dp
<1>8. DOMAIN dps = 1 .. Len(ask) /\ dps = [i \in 1 .. Len(ask) |-> dps[i]]
  BY <1>1, <1>3, <1>5
<1>9. dps \in Seq(GoodDps(product)) /\ Len(dps) = Len(ask)
  BY <1>1, <1>7, <1>8
<1> QED  BY <1>1, <1>7, <1>8, <1>9 DEF AskedFor, Asks

-----------------------------------------------------------------------------
(* The request of a command *)

\* A request is read as what it was written of.
LEMMA RequestReads ==
    ASSUME NEW product, NEW o, NEW command \in Number, command \in 1 .. o.made, NEW dps \in Seq(GoodDps(product)),
           Len(dps) \in Few, Asks(product, o.asked[command], dps)
    PROVE  RequestIs(product, o, Nats!EncodeUpdateRequest(command, 1, dps))
<1> DEFINE time == 1
           n == Len(dps)
           bytes == Nats!EncodeUpdateRequest(command, time, dps)
<1>1. time \in Number
  BY SmallNumbers
<1> HIDE DEF time
<1>2. AreDps(dps, n)
  BY GoodDpsAre
<1> HIDE DEF n
<1>3. ReadsRequest(bytes, command, dps)
  BY <1>1, <1>2, RequestsAreRead
<1> HIDE DEF bytes
<1> QED  BY <1>3 DEF RequestIs, ReadsRequest, bytes, time

\* It stays one when others are made after it.
LEMMA RequestStays ==
    ASSUME NEW product, NEW o, NEW p, NEW bytes, RequestIs(product, o, bytes), o.made \in Nat, p.made \in Nat,
           o.made <= p.made, \A c \in 1 .. o.made : p.asked[c] = o.asked[c]
    PROVE  RequestIs(product, p, bytes)
BY DEF RequestIs

-----------------------------------------------------------------------------
(* How long messages are *)

\* Bytes, of which there are no more than some number.
AtMost(x, n) == x \in Seq(Byte) /\ Len(x) <= n

\* One after the other they are as many as both.
LEMMA AtMostBoth ==
    ASSUME NEW x, NEW n \in Int, AtMost(x, n), NEW y, NEW m \in Int, AtMost(y, m)
    PROVE  AtMost(x \o y, n + m)
<1>1. x \o y \in Seq(Byte) /\ Len(x \o y) = Len(x) + Len(y)
  BY Both DEF AtMost, InTurn
<1>2. Len(x) \in Nat /\ Len(y) \in Nat /\ Len(x) <= n /\ Len(y) <= m
  BY DEF AtMost
<1> DEFINE i == Len(x)
           j == Len(y)
<1>3. i + j <= n + m
  BY <1>2
<1> HIDE DEF i, j
<1> QED  BY <1>1, <1>3 DEF AtMost, i, j

\* Sequences that are put together have no more than their number times the most of one.
LEMMA Bounded ==
    ASSUME NEW T, NEW s \in Seq(Seq(T)), NEW b \in Nat, \A i \in 1 .. Len(s) : Len(s[i]) <= b
    PROVE  Nats!FlattenSeq(s) \in Seq(T) /\ Len(Nats!FlattenSeq(s)) <= b * Len(s)
<1>1. Nats!FlattenSeq(s) = Grpc!FlattenSeq(s)
  BY DEF Nats!FlattenSeq, Grpc!FlattenSeq
<1>2. PICK C \in [0 .. Len(s) -> Seq(T)] : Joins(C, s) /\ Nats!FlattenSeq(s) = C[Len(s)]
  BY <1>1, Flattened
<1> DEFINE n == Len(s)
           S == {i \in Nat : i <= n => Len(C[i]) <= b * i}
<1>0. n \in Nat /\ \A i \in 1 .. n : s[i] \in Seq(T)
  BY Members
<1>3. 0 \in S
  <2>1. C[0] = <<>> /\ Len(<<>>) = 0 /\ b * 0 = 0
    BY <1>2 DEF Joins
  <2> QED  BY <2>1
<1>4. ASSUME NEW i \in Nat, i \in S PROVE i + 1 \in S
  <2>1. CASE i + 1 <= n
    <3> DEFINE k == i + 1
    <3>1. k \in 1 .. n /\ i \in 0 .. n /\ k - 1 = i /\ k \in Nat
      BY <1>0, <2>1
    <3> HIDE DEF k
    <3>2. C[k] = C[i] \o s[k]
      BY <1>2, <3>1 DEF Joins
    <3>3. C[i] \in Seq(T) /\ s[k] \in Seq(T)
      BY <1>0, <1>2, <3>1
    <3>4. Len(C[k]) = Len(C[i]) + Len(s[k])
      BY <3>2, <3>3, Both DEF InTurn
    <3>5. Len(C[i]) <= b * i /\ Len(s[k]) <= b /\ Len(C[i]) \in Nat /\ Len(s[k]) \in Nat
      BY <1>0, <1>4, <3>1, <3>3
    <3> DEFINE p == Len(C[i])
               q == Len(s[k])
    <3>6. p + q <= b * (i + 1)
      <4>1. b * (i + 1) = b * i + b /\ b * i \in Nat
        OBVIOUS
      <4> DEFINE bi == b * i
                 bk == b * (i + 1)
      <4>2. p <= bi /\ q <= b /\ p \in Nat /\ q \in Nat /\ bk = bi + b /\ bi \in Nat
        BY <3>5, <4>1
      <4> HIDE DEF p, q, bi, bk
      <4>3. p + q <= bk
        BY <4>2
      <4> QED  BY <4>3 DEF bk
    <3> HIDE DEF p, q
    <3>7. Len(C[k]) <= b * k
      BY <3>4, <3>6 DEF p, q, k
    <3> QED  BY <3>7 DEF k
  <2>2. CASE ~(i + 1 <= n)
    BY <2>2
  <2> QED  BY <2>1, <2>2
<1> HIDE DEF S
<1>5. n \in S
  BY <1>0, <1>3, <1>4, Induction
<1> QED  BY <1>0, <1>2, <1>5 DEF S

\* A field with a number takes few.
LEMMA ShortIsFew ==
    ASSUME NEW x, IsShort(x)
    PROVE  AtMost(x, 6)
<1> DEFINE n == Len(x)
<1>1. x \in Seq(Byte) /\ n \in 2 .. 6
  BY DEF IsShort
<1> HIDE DEF n
<1>2. n <= 6
  BY <1>1
<1> QED  BY <1>1, <1>2 DEF AtMost, n

\* Bytes in a field take six more.
LEMMA BytesWritten ==
    ASSUME NEW field \in FieldNumber, NEW value \in Seq(Byte), Len(value) \in Number
    PROVE  Nats!EncodeBytes(field, value) \in Seq(Byte) /\ Len(Nats!EncodeBytes(field, value)) <= 6 + Len(value)
<1> DEFINE three == 3
           n == Len(value)
           x == Nats!Tag(field, Nats!BYTES)
           y == Nats!Varint(n)
<1>1. 8 * field + Nats!BYTES \in Number
  <2>1. Nats!BYTES \in 0 .. 7
    BY DEF Nats!BYTES
  <2> QED  BY <2>1, Keys
<1>2. x \in Seq(Byte) /\ y \in Seq(Byte) /\ Len(x) <= three /\ Len(y) <= three /\ three \in Int /\ n \in Int
  <2>1. x \in Seq(Byte) /\ y \in Seq(Byte) /\ Len(x) \in 1 .. 3 /\ Len(y) \in 1 .. 3
    BY <1>1, VarintIs DEF IsVarint, Nats!Tag
  <2> DEFINE i == Len(x)
             j == Len(y)
  <2>2. i \in 1 .. 3 /\ j \in 1 .. 3 /\ n \in Int
    BY <2>1
  <2> HIDE DEF i, j
  <2>3. i <= three /\ j <= three /\ three \in Int
    BY <2>2
  <2> QED  BY <2>1, <2>2, <2>3 DEF i, j
<1>3. Nats!EncodeBytes(field, value) = (x \o y) \o value
  BY DEF Nats!EncodeBytes
<1> HIDE DEF x, y, three
<1>4. AtMost(x, three) /\ AtMost(y, three) /\ AtMost(value, n)
  BY <1>2 DEF AtMost
<1> HIDE DEF n
<1>5. AtMost(x \o y, three + three)
  BY <1>2, <1>4, AtMostBoth
<1>6. three + three \in Int /\ (three + three) + n = 6 + n
  BY <1>2 DEF three
<1>7. AtMost((x \o y) \o value, (three + three) + n)
  BY <1>2, <1>4, <1>5, <1>6, AtMostBoth
<1> QED  BY <1>3, <1>6, <1>7 DEF AtMost, n

\* Few datapoints take few bytes.
LEMMA ValuesAreFew ==
    ASSUME NEW dps, NEW n, AreDps(dps, n), n <= 9, NEW field \in FieldNumber
    PROVE  AtMost(Nats!Values(field, dps), 216)
<1> DEFINE Field(i) == Nats!EncodeBytes(field, Nats!EncodeDpValue(dps[i]))
           s == [i \in DOMAIN dps |-> Field(i)]
           b == 24
<1>1. n \in Nat /\ dps = [i \in 1 .. n |-> dps[i]] /\ \A i \in 1 .. n : IsDp(dps[i])
  BY DEF AreDps
<1>2. DOMAIN dps = 1 .. n
  BY <1>1
<1>3. \A i \in 1 .. n : Field(i) \in Seq(Byte) /\ Len(Field(i)) <= b
  <2> TAKE i \in 1 .. n
  <2> DEFINE x == Nats!EncodeDpValue(dps[i])
             k == Len(x)
             m == Len(Nats!EncodeBytes(field, x))
  <2>1. x \in Seq(Byte) /\ Len(x) \in Number /\ Len(x) <= 18
    BY <1>1, DpWritten
  <2> HIDE DEF x
  <2>2. Nats!EncodeBytes(field, x) \in Seq(Byte) /\ Len(Nats!EncodeBytes(field, x)) <= 6 + Len(x)
    BY <2>1, BytesWritten
  <2>3. m <= 6 + k /\ k <= 18 /\ k \in Int /\ m \in Int
    BY <2>1, <2>2
  <2> HIDE DEF m, k
  <2>4. m <= b
    BY <2>3
  <2> QED  BY <2>2, <2>4 DEF m, x
<1> HIDE DEF b, Field
<1>4. s \in Seq(Seq(Byte)) /\ Len(s) = n /\ \A i \in 1 .. Len(s) : Len(s[i]) <= b
  <2>1. s = [i \in 1 .. n |-> Field(i)]
    BY <1>2
  <2> HIDE DEF s
  <2>2. s \in Seq(Seq(Byte)) /\ Len(s) = n
    BY <1>1, <1>3, <2>1
  <2>3. \A i \in 1 .. n : s[i] = Field(i)
    BY <2>1
  <2> QED  BY <1>3, <2>2, <2>3
<1>5. b \in Nat
  BY DEF b
<1> HIDE DEF s
<1>6. Nats!FlattenSeq(s) \in Seq(Byte) /\ Len(Nats!FlattenSeq(s)) <= b * Len(s)
  BY <1>4, <1>5, Bounded
<1>7. Len(Nats!FlattenSeq(s)) <= 216
  <2> DEFINE k == Len(Nats!FlattenSeq(s))
  <2>1. k \in Int /\ k <= b * n
    BY <1>4, <1>6
  <2> HIDE DEF k
  <2>2. k <= 216
    BY <1>1, <2>1 DEF b
  <2> QED  BY <2>2 DEF k
<1> QED  BY <1>6, <1>7 DEF AtMost, Nats!Values, s, Field

\* So do reports and answers.
LEMMA ReportsAreFew ==
    ASSUME NEW dps, NEW n, AreDps(dps, n), n <= 9, NEW command \in Number
    PROVE  Nats!Report(dps, command) \in Seq(Byte) /\ Len(Nats!Report(dps, command)) <= 900
<1> DEFINE one == 1
           four == 4
           five == 5
           x == Nats!EncodeBytes(one, <<1>>)
           y == Nats!Values(four, dps)
           z == IF command = 0 THEN <<>> ELSE Nats!EncodeVarint(five, command)
           a == 7
           b == 216
           c == 6
<1>1. one \in FieldNumber /\ four \in FieldNumber /\ five \in FieldNumber
  <2>1. one \in 0 .. 100 /\ four \in 0 .. 100 /\ five \in 0 .. 100
    OBVIOUS
  <2> QED  BY <2>1, SmallNumbers
<1>2. AtMost(x, a)
  <2>1. 1 \in Byte /\ Len(<<1>>) = 1 /\ 1 \in Number
    <3>1. 1 \in 0 .. 100
      OBVIOUS
    <3> QED  BY <3>1, SmallNumbers DEF Byte
  <2>2. <<1>> \in Seq(Byte) /\ Len(<<1>>) \in Number
    BY <2>1
  <2> DEFINE v == <<1>>
  <2>3. v \in Seq(Byte) /\ Len(v) \in Number /\ 6 + Len(v) = a
    BY <2>1, <2>2
  <2> HIDE DEF v, one, a
  <2>4. AtMost(Nats!EncodeBytes(one, v), a)
    BY <1>1, <2>3, BytesWritten DEF AtMost
  <2> QED  BY <2>4 DEF v
<1> HIDE DEF one, four
<1>3. AtMost(y, b)
  BY <1>1, ValuesAreFew
<1> HIDE DEF five
<1>4. AtMost(z, c)
  <2>1. IsShort(Nats!EncodeVarint(five, command))
    BY <1>1, NumberWritten
  <2>2. AtMost(<<>>, c)
    BY DEF AtMost
  <2>3. AtMost(Nats!EncodeVarint(five, command), c)
    BY <2>1, ShortIsFew
  <2> HIDE DEF c
  <2> QED  BY <2>2, <2>3
<1>5. a \in Int /\ b \in Int /\ c \in Int /\ a + b \in Int /\ (a + b) + c <= 900
  OBVIOUS
<1>6. Nats!Report(dps, command) = (x \o y) \o z
  BY DEF Nats!Report, one, four, five
<1> HIDE DEF x, y, z, a, b, c
<1>7. AtMost(x \o y, a + b)
  BY <1>2, <1>3, <1>5, AtMostBoth
<1>8. AtMost((x \o y) \o z, (a + b) + c)
  BY <1>4, <1>5, <1>7, AtMostBoth
<1> DEFINE all == (x \o y) \o z
           sum == (a + b) + c
<1>9. all \in Seq(Byte) /\ Len(all) <= sum /\ sum <= 900 /\ sum \in Int
  BY <1>5, <1>8 DEF AtMost
<1> HIDE DEF all, sum
<1>10. Len(all) <= 900 /\ all \in Seq(Byte)
  <2>1. Len(all) \in Int
    BY <1>9
  <2> QED  BY <1>9, <2>1
<1> QED  BY <1>6, <1>10 DEF all

\* An answer is shorter than what a message can carry.
LEMMA ResponsesAreFew ==
    ASSUME NEW dps, NEW n, AreDps(dps, n), n <= 9, NEW command \in Number, NEW success \in BOOLEAN
    PROVE  Nats!Response(command, success, dps) \in Seq(Byte) /\ Len(Nats!Response(command, success, dps)) <= 900
<1> DEFINE two == 2
           three == 3
           four == 4
           six == 6
           how == IF success THEN 1 ELSE 0
           why == IF success THEN 0 ELSE 7
           x == Nats!EncodeVarint(two, command)
           y == Nats!EncodeVarint(three, how)
           z == Nats!EncodeVarint(four, why)
           v == Nats!Values(six, dps)
           a == 6
           b == 216
<1>1. /\ two \in FieldNumber /\ three \in FieldNumber /\ four \in FieldNumber /\ six \in FieldNumber
      /\ how \in Number /\ why \in Number
  <2>1. two \in 0 .. 100 /\ three \in 0 .. 100 /\ four \in 0 .. 100 /\ six \in 0 .. 100 /\ how \in 0 .. 100 /\ why \in 0 .. 100
    OBVIOUS
  <2> QED  BY <2>1, SmallNumbers
<1>2. Nats!Response(command, success, dps) = ((x \o y) \o z) \o v
  BY DEF Nats!Response
<1> HIDE DEF two, three, four, six, how, why
<1>3. IsShort(x) /\ IsShort(y) /\ IsShort(z)
  BY <1>1, NumberWritten
<1>4. AtMost(v, b)
  BY <1>1, ValuesAreFew
<1> HIDE DEF x, y, z, v
<1>5. AtMost(x, a) /\ AtMost(y, a) /\ AtMost(z, a)
  BY <1>3, ShortIsFew
<1>6. a \in Int /\ b \in Int /\ a + a \in Int /\ (a + a) + a \in Int /\ ((a + a) + a) + b <= 900
  OBVIOUS
<1> HIDE DEF a, b
<1>7. AtMost(x \o y, a + a)
  BY <1>5, <1>6, AtMostBoth
<1>8. AtMost((x \o y) \o z, (a + a) + a)
  BY <1>5, <1>6, <1>7, AtMostBoth
<1>9. AtMost(((x \o y) \o z) \o v, ((a + a) + a) + b)
  BY <1>4, <1>6, <1>8, AtMostBoth
<1> DEFINE all == ((x \o y) \o z) \o v
           sum == ((a + a) + a) + b
<1>10. all \in Seq(Byte) /\ Len(all) <= sum /\ sum <= 900 /\ sum \in Int
  BY <1>6, <1>9 DEF AtMost
<1> HIDE DEF all, sum
<1>11. Len(all) <= 900 /\ all \in Seq(Byte)
  <2>1. Len(all) \in Int
    BY <1>10
  <2> QED  BY <1>10, <2>1
<1> QED  BY <1>2, <1>11 DEF all

-----------------------------------------------------------------------------
(* What a breezer tells *)

\* A breezer's facts are numbers of their kind on the wire.
LEMMA RawFits ==
    ASSUME NEW product, NEW facts, FactsAre(facts), NEW code \in Nats!Aspects
    PROVE  LET raw == Nats!RawOf(product, code, facts[code])
           IN raw \in Int /\ Fits(Nats!Kind(product, code), raw)
<1> DEFINE raw == Nats!RawOf(product, code, facts[code])
           sort == Nats!Kind(product, code)
<1> SUFFICES raw \in Int /\ Fits(sort, raw)
  OBVIOUS
<1>0. Nats!BOOL = 1 /\ Nats!INT = 2 /\ Nats!FLAGS = 6
  BY DEF Nats!BOOL, Nats!INT, Nats!FLAGS
<1>1. ASSUME raw \in Signed, sort = Nats!INT PROVE raw \in Int /\ Fits(sort, raw)
  <2> HIDE DEF raw, sort
  <2>1. raw \in Int
    <3> DEFINE low == 0 - (Nats!Word \div 2)
               high == (Nats!Word \div 2) - 1
    <3>1. raw \in low .. high
      BY <1>1 DEF Signed
    <3> HIDE DEF low, high
    <3> QED  BY <3>1
  <2> QED  BY <1>0, <1>1, <2>1 DEF Fits
<1>2. ASSUME raw \in {0, 1, 2}, sort = Nats!INT PROVE raw \in Int /\ Fits(sort, raw)
  <2> HIDE DEF raw, sort
  <2>1. raw \in Int /\ raw >= -16384 /\ raw <= 16383
    BY <1>2
  <2>2. raw \in Signed
    BY <2>1, SignedAre
  <2> QED  BY <1>0, <1>2, <2>1, <2>2 DEF Fits
<1>3. ASSUME raw \in {0, 1}, sort = Nats!BOOL PROVE raw \in Int /\ Fits(sort, raw)
  <2> HIDE DEF raw, sort
  <2>1. raw \in Int
    BY <1>3
  <2>2. sort = Nats!BOOL /\ sort # Nats!INT
    BY <1>0, <1>3
  <2> QED  BY <1>3, <2>1, <2>2 DEF Fits
<1>4. CASE code = "on_off"
  <2>1. raw \in {0, 1} /\ sort = Nats!BOOL
    BY <1>0, <1>4 DEF Nats!RawOf, Nats!Kind
  <2> QED  BY <1>3, <2>1
<1>5. CASE code = "heater_on_off" /\ product = "b4s_ble"
  <2>1. raw \in {0, 1, 2} /\ sort = Nats!INT
    BY <1>0, <1>5 DEF Nats!RawOf, Nats!Kind
  <2> QED  BY <1>2, <2>1
<1>6. CASE code = "heater_on_off" /\ product # "b4s_ble"
  <2>1. raw \in {0, 1} /\ sort = Nats!BOOL
    BY <1>0, <1>6 DEF Nats!RawOf, Nats!Kind
  <2> QED  BY <1>3, <2>1
<1>7. CASE code = "climatic_flags"
  <2>1. raw \in 0 .. 100 /\ sort = Nats!FLAGS
    BY <1>0, <1>7 DEF Nats!RawOf, Nats!Kind
  <2> HIDE DEF raw, sort
  <2>2. raw \in Number /\ raw \in Int
    BY <2>1, SmallNumbers
  <2> QED  BY <1>0, <2>1, <2>2 DEF Fits
<1>8. CASE code = "flap_mode"
  <2>1. facts[code] \in Texts
    BY <1>8 DEF FactsAre
  <2>2. sort = Nats!INT /\ raw = [outside |-> 0, inside |-> 1, mixed |-> 2][facts[code]]
    BY <1>0, <1>8 DEF Nats!RawOf, Nats!Kind, Nats!OUTSIDE, Nats!INSIDE, Nats!MIXED
  <2>3. raw \in {0, 1, 2}
    BY <2>1, <2>2 DEF Texts
  <2> QED  BY <1>2, <2>2, <2>3
<1>9. CASE code \in {"fan_speed_level", "fan_speed_maxavail", "target_temperature", "temp_outdoor", "temp_indoor"}
  <2>1. raw = facts[code] /\ sort = Nats!INT
    BY <1>0, <1>9 DEF Nats!RawOf, Nats!Kind
  <2>2. facts[code] \in Signed
    BY <1>9 DEF FactsAre
  <2> QED  BY <1>1, <2>1, <2>2
<1> HIDE DEF raw, sort
<1> QED  BY <1>4, <1>5, <1>6, <1>7, <1>8, <1>9 DEF Nats!Aspects

\* So its datapoints fit the model.
DpOf(product, code, facts) ==
    [id |-> Nats!DpId(product, code), kind |-> Nats!Kind(product, code), value |-> Nats!RawOf(product, code, facts[code])]

\* A fact that is reported is a datapoint of the model.
LEMMA FactDpIs ==
    ASSUME NEW product, NEW facts, FactsAre(facts), facts["fan_speed_maxavail"] = Nats!SpeedMax(product),
           NEW code \in Nats!Aspects
    PROVE  DpOf(product, code, facts) \in GoodDps(product)
<1> DEFINE id == Nats!DpId(product, code)
           sort == Nats!Kind(product, code)
           raw == Nats!RawOf(product, code, facts[code])
           dp == DpOf(product, code, facts)
<1>1. id \in Number /\ sort \in Kinds /\ raw \in Int /\ Fits(sort, raw)
  BY IdsAre, RawFits
<1>2. id = TopOf(product) => raw = Nats!SpeedMax(product)
  <2>1. "fan_speed_maxavail" \in Nats!Aspects
    BY DEF Nats!Aspects
  <2>2. id = TopOf(product) => code = "fan_speed_maxavail"
    BY <2>1, IdsDiffer DEF TopOf
  <2>3. code = "fan_speed_maxavail" => raw = facts["fan_speed_maxavail"]
    BY DEF Nats!RawOf
  <2> QED  BY <2>2, <2>3
<1>3. dp = [id |-> id, kind |-> sort, value |-> raw]
  BY DEF DpOf
<1> HIDE DEF id, sort, raw, dp
<1>4. dp \in [id : Number, kind : Kinds, value : Int] /\ dp.id = id /\ dp.kind = sort /\ dp.value = raw
  BY <1>1, <1>3
<1>5. IsDp(dp)
  BY <1>1, <1>3, <1>4 DEF IsDp
<1>6. dp \in GoodDps(product)
  BY <1>2, <1>4, <1>5 DEF GoodDps
<1> QED  BY <1>6 DEF dp

\* There are nine codes, each an aspect.
LEMMA CodesAre == Len(Nats!Codes) = 9 /\ DOMAIN Nats!Codes = 1 .. 9 /\ \A i \in 1 .. 9 : Nats!Codes[i] \in Nats!Aspects
<1> DEFINE codes == Nats!Codes
<1>1. Len(codes) = 9 /\ DOMAIN codes = 1 .. 9
  BY DEF Nats!Codes
<1>2. codes[1] = "on_off" /\ codes[2] = "fan_speed_level" /\ codes[3] = "fan_speed_maxavail"
      /\ codes[4] = "target_temperature" /\ codes[5] = "temp_outdoor" /\ codes[6] = "temp_indoor"
      /\ codes[7] = "climatic_flags" /\ codes[8] = "heater_on_off" /\ codes[9] = "flap_mode"
  BY DEF Nats!Codes
<1> HIDE DEF codes
<1>3. \A i \in 1 .. 9 : codes[i] \in Nats!Aspects
  BY <1>2 DEF Nats!Aspects
<1> QED  BY <1>1, <1>3 DEF codes

\* The datapoints of facts fit the model.
LEMMA DpsFit ==
    ASSUME NEW facts, FactsAre(facts),
           facts["fan_speed_maxavail"] = Nats!SpeedMax(breezer.product), NEW codes
    PROVE  LET dps == Nats!Dps(codes, facts) IN dps \in Seq(GoodDps(breezer.product)) /\ Len(dps) <= 9
<1> DEFINE Dp(code) == DpOf(breezer.product, code, facts)
           s == [i \in DOMAIN Nats!Codes |-> IF Nats!Codes[i] \in codes THEN <<Dp(Nats!Codes[i])>> ELSE <<>>]
           G == GoodDps(breezer.product)
           one == 1
<1>1. Nats!Dps(codes, facts) = Nats!FlattenSeq(s)
  BY DEF Nats!Dps, DpOf
<1>2. \A i \in 1 .. 9 : Dp(Nats!Codes[i]) \in G
  <2> TAKE i \in 1 .. 9
  <2> DEFINE code == Nats!Codes[i]
  <2>1. code \in Nats!Aspects
    BY CodesAre
  <2> HIDE DEF code
  <2>2. DpOf(breezer.product, code, facts) \in GoodDps(breezer.product)
    BY <2>1, FactDpIs
  <2> QED  BY <2>2 DEF code
<1>3. s = [i \in 1 .. 9 |-> IF Nats!Codes[i] \in codes THEN <<Dp(Nats!Codes[i])>> ELSE <<>>]
  BY CodesAre
<1> HIDE DEF Dp, G
<1>4. \A i \in 1 .. 9 : s[i] \in Seq(G) /\ Len(s[i]) <= one
  BY <1>2, <1>3
<1>5. s \in Seq(Seq(G)) /\ Len(s) = 9
  BY <1>3, <1>4
<1> HIDE DEF s, one
<1>6. one \in Nat /\ \A i \in 1 .. Len(s) : Len(s[i]) <= one
  BY <1>4, <1>5 DEF one
<1>7. Nats!FlattenSeq(s) \in Seq(G) /\ Len(Nats!FlattenSeq(s)) <= one * Len(s)
  BY <1>5, <1>6, Bounded
<1> DEFINE n == Len(Nats!FlattenSeq(s))
<1>8. n <= 9
  <2>1. n \in Int /\ one * Len(s) = 9
    BY <1>5, <1>7 DEF one
  <2> QED  BY <1>7, <2>1
<1> QED  BY <1>1, <1>7, <1>8 DEF G

-----------------------------------------------------------------------------
(* Reports and answers are good messages *)

\* Where fields are followed by what is no field, nothing is read at all.
LEMMA NothingRead ==
    ASSUME NEW fields \in Seq(Fields), NEW y \in Seq(Byte), y # <<>>,
           Nats!ReadField(Written(fields) \o y, Len(Written(fields)) + 1) = {}
    PROVE  Nats!Parse(Written(fields) \o y) = {}
<1> DEFINE n == Len(fields)
           s == EncodedAll(fields)
           w == Written(fields)
           buf == w \o y
<1>1. s \in Seq(Seq(Byte)) /\ Len(s) = n /\ n \in Nat /\ \A i \in 1 .. n : s[i] = Encoded(fields[i]) /\ IsField(fields[i])
  BY EncodedAre
<1>2. \A i \in 1 .. n : Len(s[i]) \in Nat /\ Len(s[i]) > 0
  BY <1>1, EncodedIs
<1>2a. w = Nats!FlattenSeq(s)
  BY DEF Written
<1> HIDE DEF s, w, n
<1>3. PICK C \in [0 .. n -> Seq(Byte)] : Joins(C, s) /\ w = C[n]
  <2>1. Nats!FlattenSeq(s) = Grpc!FlattenSeq(s)
    BY DEF Nats!FlattenSeq, Grpc!FlattenSeq
  <2> QED  BY <1>1, <1>2a, <2>1, Flattened
<1>4. w \in Seq(Byte) /\ Len(w) \in Nat /\ InTurn(w, y, Byte)
  <2>1. w \in Seq(Byte)
    BY <1>1, <1>3
  <2> QED  BY <2>1, Both
<1>4a. buf \in Seq(Byte) /\ Len(buf) = Len(w) + Len(y) /\ Len(y) \in Nat /\ Len(y) > 0 /\ Len(buf) \in Nat
       /\ \A k \in 1 .. Len(w) : buf[k] = w[k]
  <2>1. Len(y) \in Nat /\ Len(y) > 0
    OBVIOUS
  <2> QED  BY <1>4, <2>1 DEF InTurn
<1>4b. Nats!ReadField(buf, Len(w) + 1) = {}
  BY DEF w
<1> HIDE DEF buf
<1>5. PICK from : Nats!Parse(buf) = from[1] /\ \A pos \in 1 .. Len(buf) + 1 : from[pos] = Parsed(buf, from, pos)
  BY <1>4a, ParsedFrom
<1> DEFINE At(i) == Len(C[i]) + 1
           S == {i \in 0 .. n : from[At(i)] = {}}
<1>6. n \in S
  <2> DEFINE p == At(n)
  <2>1. p = Len(w) + 1 /\ p \in 1 .. Len(buf) + 1 /\ p # Len(buf) + 1 /\ n \in 0 .. n
    BY <1>1, <1>3, <1>4, <1>4a
  <2> HIDE DEF p
  <2>2. from[p] = {}
    BY <1>4b, <1>5, <2>1 DEF Parsed
  <2> QED  BY <2>1, <2>2 DEF p
<1>7. ASSUME NEW i \in 0 .. n, i + 1 \in S, i < n PROVE i \in S
  <2> DEFINE k == i + 1
             p == Len(C[i])
             q == Len(C[k])
             e == Len(s[k])
             l == Len(w)
             b == Len(buf)
  <2>0. k \in 1 .. n /\ k - 1 = i /\ i \in 0 .. n /\ k \in 0 .. n /\ n \in 0 .. n /\ k <= n
    BY <1>1, <1>7
  <2> HIDE DEF k
  <2>1. C[i] \in Seq(Byte) /\ C[k] \in Seq(Byte) /\ s[k] \in Seq(Byte) /\ C[k] = C[i] \o s[k]
    <3>1. C[i] \in Seq(Byte) /\ C[k] \in Seq(Byte)
      BY <1>3, <2>0
    <3>2. s[k] \in Seq(Byte)
      BY <1>1, <2>0, Members
    <3>3. C[k] = C[i] \o s[k]
      BY <1>1, <1>3, <2>0 DEF Joins
    <3> QED  BY <3>1, <3>2, <3>3
  <2>2. Begins(C[k], w)
    BY <1>1, <1>3, <2>0, Beginnings
  <2>3. InTurn(C[i], s[k], Byte)
    BY <2>1, Both
  <2>4. /\ p \in Nat /\ e \in Nat /\ e > 0 /\ q = p + e /\ q <= l /\ l \in Nat /\ l <= b /\ b \in Nat
        /\ \A j \in 1 .. q : buf[j] = C[k][j]
        /\ \A j \in 1 .. e : C[k][p + j] = s[k][j]
    <3>1. p \in Nat /\ e \in Nat /\ e > 0 /\ l \in Nat /\ l <= b /\ b \in Nat
      BY <1>2, <1>4, <1>4a, <2>0, <2>1
    <3>2. q = p + e /\ \A j \in 1 .. e : C[k][p + j] = s[k][j]
      BY <2>1, <2>3 DEF InTurn
    <3>3. q <= l /\ \A j \in 1 .. q : w[j] = C[k][j]
      BY <2>2 DEF Begins
    <3>4. \A j \in 1 .. q : j \in 1 .. l
      BY <3>1, <3>2, <3>3
    <3> QED  BY <1>4a, <3>1, <3>2, <3>3, <3>4
  <2> HIDE DEF p, q, e, l, b
  <2>5. ASSUME NEW j \in 1 .. e PROVE buf[(p + 1) + j - 1] = s[k][j]
    <3>1. p + j \in 1 .. q /\ (p + 1) + j - 1 = p + j
      BY <2>4
    <3> QED  BY <2>4, <3>1
  <2>6. Lies(s[k], buf, p + 1)
    <3>1. p + 1 \in Nat /\ p + 1 >= 1 /\ (p + 1) + e <= b + 1
      BY <2>4
    <3> QED  BY <2>5, <3>1 DEF Lies, e, b
  <2>7. Nats!ReadField(buf, p + 1) = {FieldTold(fields[k], (p + 1) + e)}
    <3>1. IsField(fields[k]) /\ s[k] = Encoded(fields[k])
      BY <1>1, <2>0
    <3> QED  BY <1>4a, <2>6, <3>1, EncodedIsRead DEF e
  <2>8. (p + 1) + e = q + 1 /\ p + 1 \in 1 .. b + 1 /\ p + 1 # b + 1
    BY <2>4
  <2> DEFINE m == FieldTold(fields[k], q + 1)
             here == p + 1
             there == q + 1
  <2>9. m.pos = there
    BY DEF FieldTold
  <2>10. from[there] = {}
    BY <1>7 DEF q, k
  <2>11. Nats!ReadField(buf, here) = {m} /\ here \in 1 .. Len(buf) + 1 /\ here # Len(buf) + 1
    BY <2>7, <2>8 DEF b
  <2> HIDE DEF here, there, m
  <2>12. from[here] = UNION {{<<f>> \o rest : rest \in from[f.pos]} : f \in {m}}
    BY <1>5, <2>11 DEF Parsed
  <2>13. \A f \in {m} : {<<f>> \o rest : rest \in from[f.pos]} = {}
    BY <2>9, <2>10
  <2>14. from[here] = {}
    BY <2>12, <2>13
  <2> QED  BY <2>0, <2>14 DEF here, p
<1>8. \A i \in 0 .. n : (\A j \in i + 1 .. n : j \in S) => i \in S
  <2> HIDE DEF S
  <2> TAKE i \in 0 .. n
  <2> HAVE \A j \in i + 1 .. n : j \in S
  <2>1. CASE i = n
    BY <1>6, <2>1
  <2>2. CASE i < n
    <3>1. i + 1 \in i + 1 .. n
      BY <1>1, <2>2
    <3> QED  BY <1>7, <2>2, <3>1
  <2> QED  BY <1>1, <2>1, <2>2
<1>9. \A i \in 0 .. n : i \in S
  <2> HIDE DEF S
  <2> QED  BY <1>1, <1>8, Downward
<1>10. At(0) = 1 /\ 0 \in 0 .. n
  BY <1>1, <1>3 DEF Joins
<1>11. from[1] = {}
  BY <1>9, <1>10
<1> QED  BY <1>5, <1>11 DEF buf, w

\* A key of a wire type nobody knows begins no field.
LEMMA TagUnread ==
    ASSUME NEW x \in Seq(Byte)
    PROVE  /\ Nats!Tag(15, 3) \in Seq(Byte) /\ Nats!Tag(15, 3) # <<>>
           /\ Nats!ReadField(x \o Nats!Tag(15, 3), Len(x) + 1) = {}
<1> DEFINE key == 8 * 15 + 3
           y == Nats!Tag(15, 3)
           z == x \o y
           p == Len(x) + 1
<1>1. key \in Number /\ key % 8 = 3 /\ key >= 8
  <2>1. key \in Int /\ key >= 0 /\ key < Nats!Word
    BY WordIs
  <2> HIDE DEF key
  <2>2. key \in Number
    BY <2>1, NumberIs
  <2> QED  BY <2>2 DEF key
<1>2. y = Nats!Varint(key)
  BY DEF Nats!Tag
<1> HIDE DEF key, y
<1>3. IsVarint(y, key)
  BY <1>1, <1>2, VarintIs
<1>4. y \in Seq(Byte) /\ y # <<>>
  BY <1>3 DEF IsVarint
<1>5. InTurn(x, y, Byte)
  BY <1>4, Both
<1>6. z \in Seq(Byte)
  BY <1>5 DEF InTurn
<1> DEFINE one == 1
<1>7. Lies(z, z, one)
  <2>1. Len(z) \in Nat /\ one \in Nat /\ one >= 1 /\ one + Len(z) <= Len(z) + 1
    BY <1>6
  <2>2. \A i \in 1 .. Len(z) : one + i - 1 = i
    OBVIOUS
  <2> HIDE DEF z, one
  <2> QED  BY <2>1, <2>2 DEF Lies
<1> HIDE DEF one
<1>8. Lies(y, z, one + Len(x))
  <2>1. LieInTurn(x, y, z, z, one)
    <3>1. z = x \o y
      OBVIOUS
    <3> HIDE DEF z
    <3> QED  BY <1>4, <1>6, <1>7, <3>1, LiesInTurn
  <2> QED  BY <2>1 DEF LieInTurn
<1>9. one + Len(x) = p
  BY DEF one
<1> HIDE DEF z, p
<1>10. Nats!ReadVarint(z, p) = {[value |-> key, pos |-> p + Len(y)]}
  BY <1>1, <1>3, <1>6, <1>8, <1>9, VarintIsRead
<1> DEFINE k == [value |-> key, pos |-> p + Len(y)]
<1>11. Nats!FieldOf(z, k) = {}
  <2>1. k.value = key /\ k.value % 8 = 3 /\ k.value >= 8 /\ ~(k.value < 8)
    BY <1>1 DEF Number
  <2> HIDE DEF k
  <2> QED  BY <2>1 DEF Nats!FieldOf, Nats!VARINT, Nats!BYTES, Nats!FIXED64, Nats!FIXED32
<1> HIDE DEF k
<1>12. Nats!ReadVarint(z, p) = {k}
  BY <1>10 DEF k
<1>13. Nats!ReadField(z, p) = {}
  BY <1>11, <1>12 DEF Nats!ReadField
<1> QED  BY <1>4, <1>13 DEF y, z, p

\* A report is fields, one after another.
LEMMA ReportWritten ==
    ASSUME NEW dps, NEW n, AreDps(dps, n), NEW command \in Number
    PROVE  \E fields \in Seq(Fields) : Nats!Report(dps, command) = Written(fields)
<1> DEFINE one == 1
           four == 4
           five == 5
           first == BytesField(one, <<1>>)
           head == <<first>>
           values == DpsFields(four, dps, n)
           last == NumberField(five, command)
           tail == IF command = 0 THEN <<>> ELSE <<last>>
<1>1. one \in FieldNumber /\ four \in FieldNumber /\ five \in FieldNumber
  <2>1. one \in 0 .. 100 /\ four \in 0 .. 100 /\ five \in 0 .. 100 /\ one > 0 /\ four > 0 /\ five > 0
    OBVIOUS
  <2> QED  BY <2>1, SmallNumbers
<1>2. <<1>> \in Seq(Byte) /\ Len(<<1>>) \in Number
  <2>1. 1 \in Byte /\ Len(<<1>>) = 1 /\ 1 \in Number
    <3>1. 1 \in 0 .. 100
      OBVIOUS
    <3> QED  BY <3>1, SmallNumbers DEF Byte
  <2> QED  BY <2>1
<1> DEFINE bytes == <<1>>
<1>3. bytes \in Seq(Byte) /\ Len(bytes) \in Number
  BY <1>2
<1>4. Nats!Report(dps, command) = (Nats!EncodeBytes(one, bytes) \o Nats!Values(four, dps))
        \o IF command = 0 THEN <<>> ELSE Nats!EncodeVarint(five, command)
  BY DEF Nats!Report
<1>5. first = BytesField(one, bytes)
  OBVIOUS
<1> HIDE DEF one, four, five, bytes, first
<1>6. first \in Fields /\ Encoded(first) = Nats!EncodeBytes(one, bytes)
  BY <1>1, <1>3, <1>5, BytesFieldIs
<1>7. head \in Seq(Fields) /\ Written(head) = Nats!EncodeBytes(one, bytes)
  BY <1>6, WrittenAlone
<1>8. values \in Seq(Fields) /\ Written(values) = Nats!Values(four, dps)
  BY <1>1, DpsWritten
<1>9. last \in Fields /\ Encoded(last) = Nats!EncodeVarint(five, command)
  BY <1>1, NumberFieldIs
<1> HIDE DEF last
<1>10. tail \in Seq(Fields) /\ Written(tail) = IF command = 0 THEN <<>> ELSE Nats!EncodeVarint(five, command)
  <2>1. <<last>> \in Seq(Fields) /\ Written(<<last>>) = Encoded(last) /\ Written(<<>>) = <<>> /\ <<>> \in Seq(Fields)
    BY <1>9, WrittenAlone
  <2> QED  BY <1>9, <2>1
<1> HIDE DEF head, values, tail
<1>11. head \o values \in Seq(Fields) /\ Written(head \o values) = Written(head) \o Written(values)
  BY <1>7, <1>8, WrittenTogether
<1> DEFINE two == head \o values
<1> HIDE DEF two
<1>12. two \in Seq(Fields) /\ Written(two) = Written(head) \o Written(values)
  BY <1>11 DEF two
<1>13. two \o tail \in Seq(Fields) /\ Written(two \o tail) = Written(two) \o Written(tail)
  BY <1>10, <1>12, WrittenTogether
<1>14. Nats!Report(dps, command) = Written(two \o tail)
  BY <1>4, <1>7, <1>8, <1>10, <1>12, <1>13
<1> QED  BY <1>13, <1>14

\* Nobody can read it with such a key behind it.
LEMMA UnreadableIs ==
    ASSUME NEW dps, NEW n, AreDps(dps, n), NEW command \in Number
    PROVE  Nats!DecodeStateReport(Nats!Report(dps, command) \o Nats!Tag(15, 3)) = {}
<1> DEFINE y == Nats!Tag(15, 3)
<1>1. PICK fields \in Seq(Fields) : Nats!Report(dps, command) = Written(fields)
  BY ReportWritten
<1>2. Written(fields) \in Seq(Byte)
  <2>1. Written(fields \o fields) = Written(fields) \o Written(fields) /\ Written(fields) \in Seq(Byte)
    BY WrittenTogether
  <2> QED  BY <2>1
<1>3. y \in Seq(Byte) /\ y # <<>> /\ Nats!ReadField(Written(fields) \o y, Len(Written(fields)) + 1) = {}
  BY <1>2, TagUnread
<1> HIDE DEF y
<1>4. Nats!Parse(Written(fields) \o y) = {}
  BY <1>3, NothingRead
<1> DEFINE x == Nats!Report(dps, command) \o y
<1>5. Nats!Parse(x) = {}
  BY <1>1, <1>4
<1> HIDE DEF x
<1>6. Nats!DecodeStateReport(x) = {}
  BY <1>5 DEF Nats!DecodeStateReport
<1> QED  BY <1>6 DEF x, y

\* A report of datapoints that fit says nothing wrong, however it comes.
LEMMA ReportIsGood ==
    ASSUME NEW product, NEW done, NEW dps \in Seq(GoodDps(product)), Len(dps) <= 9, NEW command \in Number,
           NEW style \in Nats!Styles
    PROVE  Streams(GoodMessages(product, done), Nats!Message(style, Nats!REPORT, Nats!Report(dps, command)))
<1> DEFINE n == Len(dps)
           report == Nats!Report(dps, command)
           m == Carried(style, Nats!REPORT, report)
           G == GoodMessages(product, done)
           subject == Nats!REPORT
<1>1. AreDps(dps, n) /\ n <= 9
  BY GoodDpsAre
<1> HIDE DEF n
<1>2. report \in Seq(Byte) /\ Len(report) <= 900
  BY <1>1, ReportsAreFew
<1>3. Nats!DecodeStateReport(report) = {[command |-> command, dps |-> dps]}
  BY <1>1, ReportsAreRead
<1>4. Nats!DecodeStateReport(report \o Nats!Tag(15, 3)) = {}
  BY <1>1, UnreadableIs
<1>5. Nats!Tag(15, 3) \in Seq(Byte)
  <2>1. <<>> \in Seq(Byte)
    OBVIOUS
  <2> QED  BY <2>1, TagUnread
<1>6. report \in Seq(Nat) /\ Nats!Tag(15, 3) \in Seq(Nat)
  BY <1>2, <1>5, BytesAre
<1> HIDE DEF report
<1> DEFINE end == Nats!Tag(15, 3)
           body == IF style = "unreadable" THEN report \o end ELSE report
           fresh == IF style = "other" THEN Nats!OTHER_SERVICE ELSE Nats!REPORT
<1>6a. m = [subject |-> fresh, body |-> body]
  BY DEF Carried
<1>6b. body \in Seq(Nat)
  <2> HIDE DEF end
  <2> QED  BY <1>6 DEF end
<1>6c. fresh \in Nat /\ fresh # Nats!ANSWER /\ (fresh = Nats!REPORT => style # "other") /\ Nats!REPORT # Nats!ANSWER
  BY DEF Nats!REPORT, Nats!ANSWER, Nats!OTHER_SERVICE
<1>6d. \A r \in Nats!DecodeStateReport(body) : r.dps \in Seq(GoodDps(product))
  <2>1. CASE style = "unreadable"
    BY <1>4, <2>1
  <2>2. CASE style # "unreadable"
    BY <1>3, <2>2
  <2> QED  BY <2>1, <2>2
<1>7. m \in G
  <2> HIDE DEF body, fresh, m
  <2>1. m \in NatsMessage /\ m.subject = fresh /\ m.body = body
    BY <1>6a, <1>6b, <1>6c DEF NatsMessage
  <2>2. Good(product, done, m)
    BY <1>6c, <1>6d, <2>1 DEF Good
  <2> QED  BY <2>1, <2>2 DEF GoodMessages
<1>8. subject \in 0 .. 9 /\ report \in Seq(Nat) /\ Len(report) <= 990
  <2> DEFINE i == Len(report)
  <2>1. i \in Int /\ i <= 900
    BY <1>2, <1>6
  <2> HIDE DEF i
  <2>2. i <= 990
    BY <2>1
  <2> QED  BY <1>6, <2>2 DEF Nats!REPORT, i
<1> HIDE DEF G, subject
<1>9. Carried(style, subject, report) \in G
  BY <1>7 DEF subject
<1>10. Streams(G, Nats!Message(style, subject, report))
  BY <1>8, <1>9, MessageStreams
<1> QED  BY <1>10 DEF G, subject, report

\* Nor does an answer, when its command was done.
LEMMA ResponseIsGood ==
    ASSUME NEW product, NEW done, NEW dps, NEW n, AreDps(dps, n), n <= 9, NEW command \in Number, NEW success \in BOOLEAN,
           success => command \in done /\ dps \in Seq(GoodDps(product))
    PROVE  Streams(GoodMessages(product, done), Nats!Message("plain", Nats!ANSWER, Nats!Response(command, success, dps)))
<1> DEFINE style == "plain"
           answer == Nats!Response(command, success, dps)
           subject == Nats!ANSWER
           m == Carried(style, subject, answer)
           G == GoodMessages(product, done)
<1>2. answer \in Seq(Byte) /\ Len(answer) <= 900
  BY ResponsesAreFew
<1>3. Nats!DecodeUpdateResponse(answer) = {[command |-> command, success |-> success, dps |-> dps]}
  BY ResponsesAreRead
<1>6. answer \in Seq(Nat)
  BY <1>2, BytesAre
<1> HIDE DEF answer
<1>6a. m = [subject |-> subject, body |-> answer]
  BY DEF Carried
<1>6c. subject \in Nat /\ subject # Nats!REPORT /\ subject = Nats!ANSWER
  BY DEF Nats!REPORT, Nats!ANSWER
<1>6d. \A a \in Nats!DecodeUpdateResponse(answer) : a.success => a.command \in done /\ a.dps \in Seq(GoodDps(product))
  BY <1>3
<1>7. m \in G
  <2> HIDE DEF subject, m
  <2>1. m \in NatsMessage /\ m.subject = subject /\ m.body = answer
    BY <1>6, <1>6a, <1>6c DEF NatsMessage
  <2>2. Good(product, done, m)
    BY <1>6c, <1>6d, <2>1 DEF Good
  <2> QED  BY <2>1, <2>2 DEF GoodMessages
<1>8. subject \in 0 .. 9 /\ Len(answer) <= 990 /\ style \in Nats!Styles
  <2> DEFINE i == Len(answer)
  <2>1. i \in Int /\ i <= 900
    BY <1>2, <1>6
  <2> HIDE DEF i
  <2>2. i <= 990
    BY <2>1
  <2> QED  BY <2>2 DEF Nats!ANSWER, Nats!Styles, i
<1> HIDE DEF G, subject, style
<1>9. Carried(style, subject, answer) \in G
  BY <1>7
<1>10. Streams(G, Nats!Message(style, subject, answer))
  BY <1>6, <1>8, <1>9, MessageStreams
<1> QED  BY <1>10 DEF G, subject, style, answer

-----------------------------------------------------------------------------
(* Profiles *)

\* A field that is the only one of its number, and what is read of it.
Sole(fields, f) ==
    \E k \in 1 .. Len(fields) :
      fields[k] = f /\ \A i \in 1 .. Len(fields) : i # k => fields[i].field # f.field
ToldOf(message, f) ==
    /\ Nats!Has(message, f.field)
    /\ f.numeric => Nats!GetInt(message, f.field) = {f.num}
    /\ ~f.numeric => Nats!GetBytes(message, f.field) = {f.bytes}

\* The only field of its number is what is read of it.
LEMMA SoleIsTold ==
    ASSUME NEW fields, NEW message, ReadAs(message, fields), NEW f, Sole(fields, f)
    PROVE  ToldOf(message, f)
<1>0. PICK k \in 1 .. Len(fields) : fields[k] = f /\ \A i \in 1 .. Len(fields) : i # k => fields[i].field # f.field
  BY DEF Sole
<1>1. message \in Seq(FieldRead) /\ Len(message) = Len(fields) /\ k \in 1 .. Len(message)
      /\ \A i \in 1 .. Len(message) : Same(message[i], fields[i])
  BY DEF ReadAs
<1> DEFINE field == f.field
           m == message[k]
<1>2. \A i \in 1 .. Len(message) : message[i].field = field <=> i = k
  BY <1>0, <1>1 DEF Same
<1>3. Same(m, f)
  BY <1>0, <1>1
<1>4. Once(message, field, m)
  <2> HIDE DEF field, m
  <2> QED  BY <1>1, <1>2, OnceIs DEF m
<1> HIDE DEF m
<1>5. Nats!Has(message, field)
  BY <1>4 DEF Once, Nats!Has
<1>6. CASE f.numeric
  <2>1. m.numeric /\ m.num = f.num
    BY <1>3, <1>6 DEF Same
  <2> HIDE DEF field
  <2>2. Nats!GetInt(message, field) = {m.num}
    BY <1>4, <2>1, GetsInt
  <2> QED  BY <1>5, <1>6, <2>1, <2>2 DEF ToldOf, field
<1>7. CASE ~f.numeric
  <2>1. ~m.numeric /\ m.bytes = f.bytes
    BY <1>3, <1>7 DEF Same
  <2> HIDE DEF field
  <2>2. Nats!GetBytes(message, field) = {m.bytes}
    BY <1>4, <2>1, GetsBytes
  <2> QED  BY <1>5, <1>7, <2>1, <2>2 DEF ToldOf, field
<1> QED  BY <1>6, <1>7

\* A field that is nowhere is not read.
LEMMA LacksIsTold ==
    ASSUME NEW fields, NEW message, ReadAs(message, fields), NEW field, Lacks(fields, field)
    PROVE  ~Nats!Has(message, field)
<1>1. message \in Seq(FieldRead) /\ \A i \in 1 .. Len(message) : message[i].field # field
  BY DEF ReadAs, Lacks, Same
<1>2. Never(message, field)
  BY <1>1, NeverIs
<1> QED  BY <1>2, GetsNone

\* Fields and one more.
Grown(y, x, g) ==
    /\ y \in Seq(Fields) /\ Len(y) = Len(x) + 1 /\ Len(x) \in Nat
    /\ (\A i \in 1 .. Len(x) : y[i] = x[i]) /\ y[Len(x) + 1] = g
    /\ Written(y) = Written(x) \o Encoded(g)

\* Fields with one more written after them.
LEMMA GrownIs ==
    ASSUME NEW x \in Seq(Fields), NEW g \in Fields
    PROVE  Grown(x \o <<g>>, x, g)
<1> DEFINE z == <<g>>
           y == x \o z
<1>1. z \in Seq(Fields) /\ Written(z) = Encoded(g)
  BY WrittenAlone
<1>2. Len(z) = 1 /\ z[1] = g /\ 1 \in 1 .. Len(z)
  OBVIOUS
<1> HIDE DEF z
<1>3. InTurn(x, z, Fields)
  BY <1>1, Both
<1>4. y \in Seq(Fields) /\ Written(y) = Written(x) \o Written(z)
  BY <1>1, WrittenTogether
<1>5. Len(y) = Len(x) + 1 /\ (\A i \in 1 .. Len(x) : y[i] = x[i]) /\ y[Len(x) + 1] = g
  BY <1>2, <1>3 DEF InTurn
<1> HIDE DEF y
<1>6. Grown(y, x, g)
  BY <1>1, <1>4, <1>5 DEF Grown
<1> QED  BY <1>6 DEF y, z

\* A field that was the only one stays so if another one is added.
LEMMA SoleStays ==
    ASSUME NEW x, NEW y, NEW g, Grown(y, x, g), NEW f, Sole(x, f), f.field # g.field
    PROVE  Sole(y, f)
<1>1. PICK k \in 1 .. Len(x) : x[k] = f /\ \A i \in 1 .. Len(x) : i # k => x[i].field # f.field
  BY DEF Sole
<1> DEFINE n == Len(x)
<1>2. n \in Nat /\ Len(y) = n + 1 /\ (\A i \in 1 .. n : y[i] = x[i]) /\ y[n + 1] = g /\ k \in 1 .. n
  BY DEF Grown
<1> HIDE DEF n
<1>3. k \in 1 .. n + 1 /\ \A i \in 1 .. n + 1 : i \in 1 .. n \/ i = n + 1
  BY <1>2
<1>4. y[k] = f /\ \A i \in 1 .. n + 1 : i # k => y[i].field # f.field
  BY <1>1, <1>2, <1>3 DEF n
<1> QED  BY <1>2, <1>3, <1>4 DEF Sole

\* A field whose number was not there is the only one.
LEMMA SoleNew ==
    ASSUME NEW x, NEW y, NEW g, Grown(y, x, g), Lacks(x, g.field)
    PROVE  Sole(y, g)
<1> DEFINE n == Len(x)
<1>2. n \in Nat /\ Len(y) = n + 1 /\ (\A i \in 1 .. n : y[i] = x[i]) /\ y[n + 1] = g
      /\ \A i \in 1 .. n : x[i].field # g.field
  BY DEF Grown, Lacks
<1> HIDE DEF n
<1>3. n + 1 \in 1 .. n + 1 /\ \A i \in 1 .. n + 1 : i \in 1 .. n \/ i = n + 1
  BY <1>2
<1>4. \A i \in 1 .. n + 1 : i # n + 1 => y[i].field # g.field
  BY <1>2, <1>3
<1> QED  BY <1>2, <1>3, <1>4 DEF Sole

\* A number that was not there is not, if another one is added.
LEMMA LacksStays ==
    ASSUME NEW x, NEW y, NEW g, Grown(y, x, g), NEW field, Lacks(x, field), g.field # field
    PROVE  Lacks(y, field)
<1> DEFINE n == Len(x)
<1>2. n \in Nat /\ Len(y) = n + 1 /\ (\A i \in 1 .. n : y[i] = x[i]) /\ y[n + 1] = g
      /\ \A i \in 1 .. n : x[i].field # field
  BY DEF Grown, Lacks
<1> HIDE DEF n
<1>3. \A i \in 1 .. n + 1 : i \in 1 .. n \/ i = n + 1
  BY <1>2
<1>4. \A i \in 1 .. n + 1 : y[i].field # field
  BY <1>2, <1>3
<1> QED  BY <1>2, <1>4 DEF Lacks

\* No number is among no fields.
LEMMA NothingLacks == \A field : Lacks(<<>>, field)
BY DEF Lacks

\* Of the properties of a datapoint, the scale is read.
TellsScale(bytes, scale) ==
    /\ AtMost(bytes, 18)
    /\ \E m : Nats!Parse(bytes) = {m} /\ Nats!GetSint64(m, 4) = {scale}

\* The scale of a property is read as it was written.
LEMMA ScaleIsRead ==
    ASSUME NEW low \in Signed, NEW high \in Signed, NEW scale \in Signed
    PROVE  TellsScale((Nats!EncodeInt64(1, low) \o Nats!EncodeInt64(2, high)) \o Nats!EncodeInt64(4, scale), scale)
<1> DEFINE one == 1
           two == 2
           four == 4
           u == low % Nats!Word
           v == high % Nats!Word
           w == scale % Nats!Word
           a == NumberField(one, u)
           b == NumberField(two, v)
           c == NumberField(four, w)
           x == <<a>>
           y == x \o <<b>>
           z == y \o <<c>>
           bytes == (Nats!EncodeInt64(one, low) \o Nats!EncodeInt64(two, high)) \o Nats!EncodeInt64(four, scale)
<1>1. one \in FieldNumber /\ two \in FieldNumber /\ four \in FieldNumber /\ one # four /\ two # four
  <2>1. one \in 0 .. 100 /\ two \in 0 .. 100 /\ four \in 0 .. 100 /\ one > 0 /\ two > 0 /\ four > 0
    OBVIOUS
  <2> QED  BY <2>1, SmallNumbers
<1>2. bytes = (Nats!EncodeVarint(one, u) \o Nats!EncodeVarint(two, v)) \o Nats!EncodeVarint(four, w)
  BY DEF Nats!EncodeInt64, Nats!EncodeVarint
<1>3. u \in Number /\ v \in Number /\ w \in Number /\ Lowered(w) = scale
  BY SignedIs
<1>4. a.field = one /\ b.field = two /\ c.field = four /\ c.numeric /\ c.num = w
  BY DEF NumberField
<1>4a. bytes = (Nats!EncodeInt64(1, low) \o Nats!EncodeInt64(2, high)) \o Nats!EncodeInt64(4, scale)
  OBVIOUS
<1> HIDE DEF one, two, four, u, v, w, bytes
<1>5. /\ a \in Fields /\ Encoded(a) = Nats!EncodeVarint(one, u)
      /\ b \in Fields /\ Encoded(b) = Nats!EncodeVarint(two, v)
      /\ c \in Fields /\ Encoded(c) = Nats!EncodeVarint(four, w)
  BY <1>1, <1>3, NumberFieldIs
<1> HIDE DEF a, b, c
<1>6. x \in Seq(Fields) /\ Written(x) = Encoded(a) /\ Lacks(x, four)
  <2>1. x \in Seq(Fields) /\ Written(x) = Encoded(a)
    BY <1>5, WrittenAlone
  <2>2. Len(x) = 1 /\ x[1] = a
    OBVIOUS
  <2> HIDE DEF x
  <2>3. \A i \in 1 .. Len(x) : x[i] = a
    BY <2>2
  <2> QED  BY <1>1, <1>4, <2>1, <2>3 DEF Lacks
<1> HIDE DEF x
<1>7. Grown(y, x, b)
  BY <1>5, <1>6, GrownIs
<1>8. y \in Seq(Fields) /\ Written(y) = Written(x) \o Encoded(b)
  BY <1>7 DEF Grown
<1>9. Lacks(y, four)
  <2> HIDE DEF y
  <2> QED  BY <1>1, <1>4, <1>6, <1>7, LacksStays
<1> HIDE DEF y
<1>10. Grown(z, y, c)
  BY <1>5, <1>8, GrownIs
<1>11. z \in Seq(Fields) /\ Written(z) = Written(y) \o Encoded(c)
  BY <1>10 DEF Grown
<1>12. Sole(z, c)
  <2> HIDE DEF z
  <2> QED  BY <1>4, <1>9, <1>10, SoleNew
<1> HIDE DEF z
<1>13. PICK m : Nats!Parse(Written(z)) = {m} /\ ReadAs(m, z)
  BY <1>11, WrittenAreRead
<1>14. ToldOf(m, c)
  BY <1>12, <1>13, SoleIsTold
<1>15. Nats!GetInt(m, four) = {w}
  BY <1>4, <1>14 DEF ToldOf
<1>16. Nats!GetSint64(m, four) = {scale}
  BY <1>3, <1>15 DEF Nats!GetSint64, Lowered
<1>17. bytes = Written(z)
  BY <1>2, <1>5, <1>6, <1>8, <1>11
<1>18. AtMost(bytes, 18)
  <2> DEFINE six == 6
             e == Nats!EncodeVarint(one, u)
             f == Nats!EncodeVarint(two, v)
             g == Nats!EncodeVarint(four, w)
  <2>1. IsShort(e) /\ IsShort(f) /\ IsShort(g)
    BY <1>1, <1>3, NumberWritten
  <2> HIDE DEF e, f, g
  <2>2. AtMost(e, six) /\ AtMost(f, six) /\ AtMost(g, six)
    BY <2>1, ShortIsFew
  <2>3. six \in Int /\ six + six \in Int /\ (six + six) + six = 18
    OBVIOUS
  <2> HIDE DEF six
  <2>4. AtMost(e \o f, six + six)
    BY <2>2, <2>3, AtMostBoth
  <2>5. AtMost((e \o f) \o g, (six + six) + six)
    BY <2>2, <2>3, <2>4, AtMostBoth
  <2> QED  BY <1>2, <2>3, <2>5 DEF e, f, g
<1> QED  BY <1>4a, <1>13, <1>16, <1>17, <1>18 DEF TellsScale, four

\* The properties of a datapoint have the scale that was written.
LEMMA PropIsRead ==
    ASSUME NEW m, NEW b, NEW scale, Nats!Has(m, 8), Nats!GetBytes(m, 8) = {b}, TellsScale(b, scale),
           NEW p \in Nats!DecodeProp(m)
    PROVE  p.scale = scale
<1>1. PICK q : Nats!Parse(b) = {q} /\ Nats!GetSint64(q, 4) = {scale}
  BY DEF TellsScale
<1> DEFINE From(prop) ==
             IF prop = <<>> THEN {[ranged |-> FALSE, minimum |-> 0, maximum |-> 0, scale |-> 0]}
             ELSE {[ranged |-> TRUE, minimum |-> low, maximum |-> high, scale |-> sc] :
                     low \in Nats!GetSint64(prop[1], 1), high \in Nats!GetSint64(prop[1], 2),
                     sc \in Nats!GetSint64(prop[1], 4)}
<1>2. Nats!DecodeProp(m) = UNION {From(prop) : prop \in Nats!GetMessage(m, 8)}
  BY DEF Nats!DecodeProp
<1>3. PICK prop \in Nats!GetMessage(m, 8) : p \in From(prop)
  <2> HIDE DEF From
  <2> QED  BY <1>2
<1>4. Nats!GetMessage(m, 8) = {<<nested>> : nested \in UNION {Nats!Parse(c) : c \in Nats!GetBytes(m, 8)}}
  BY DEF Nats!GetMessage
<1>5. prop = <<q>>
  <2>1. PICK nested \in UNION {Nats!Parse(c) : c \in Nats!GetBytes(m, 8)} : prop = <<nested>>
    BY <1>3, <1>4
  <2>2. nested = q
    BY <1>1, <2>1
  <2> QED  BY <2>1, <2>2
<1>6. prop # <<>> /\ prop[1] = q
  BY <1>5
<1>7. PICK low \in Nats!GetSint64(q, 1), high \in Nats!GetSint64(q, 2), sc \in Nats!GetSint64(q, 4) :
        p = [ranged |-> TRUE, minimum |-> low, maximum |-> high, scale |-> sc]
  BY <1>3, <1>6
<1> QED  BY <1>1, <1>7

\* A spec is read as it was written, unless it is left out.
IsRead(s, id, code, type, scale) ==
    \/ s = <<>>
    \/ \E spec : /\ s = <<spec>>
                 /\ spec.id = id /\ spec.code = code /\ spec.type = type /\ (type = Nats!INT => spec.scale = scale)

\* A message with the fields of a spec is decoded to that spec, or skipped.
LEMMA SpecDecoded ==
    ASSUME NEW m, NEW id, NEW code, NEW type, NEW scale,
           Nats!GetInt(m, 1) = {id}, Nats!GetBytes(m, 2) = {code}, Nats!GetInt(m, 4) = {type},
           type = Nats!INT => \A p \in Nats!DecodeProp(m) : p.scale = scale,
           NEW s \in Nats!DecodeSpec(m)
    PROVE  IsRead(s, id, code, type, scale)
<1> DEFINE AnySpec(t, a) ==
             {<<[id |-> i, code |-> c, type |-> t, access |-> a, ranged |-> prop.ranged,
                 minimum |-> prop.minimum, maximum |-> prop.maximum, scale |-> prop.scale]>> :
                i \in Nats!GetInt(m, 1), c \in Nats!GetBytes(m, 2), prop \in Nats!DecodeProp(m)}
           From(t, a) == IF t \notin Nats!BOOL .. Nats!FLOAT \/ a \notin Nats!READ_WRITE .. Nats!WRITE_ONLY THEN {<<>>}
                         ELSE AnySpec(t, a)
<1>1. Nats!DecodeSpec(m) = UNION {From(t, a) : t \in Nats!GetInt(m, 4), a \in Nats!GetInt(m, 5)}
  BY DEF Nats!DecodeSpec
<1>2. PICK t \in Nats!GetInt(m, 4), a \in Nats!GetInt(m, 5) : s \in From(t, a)
  <2> HIDE DEF From
  <2> QED  BY <1>1
<1>3. t = type
  BY <1>2
<1>4. s = <<>> \/ s \in AnySpec(t, a)
  <2> HIDE DEF AnySpec
  <2> QED  BY <1>2
<1>5. CASE s \in AnySpec(t, a)
  <2>1. PICK i \in Nats!GetInt(m, 1), c \in Nats!GetBytes(m, 2), prop \in Nats!DecodeProp(m) :
          s = <<[id |-> i, code |-> c, type |-> t, access |-> a, ranged |-> prop.ranged,
                 minimum |-> prop.minimum, maximum |-> prop.maximum, scale |-> prop.scale]>>
    BY <1>5
  <2> DEFINE spec == [id |-> i, code |-> c, type |-> t, access |-> a, ranged |-> prop.ranged,
                      minimum |-> prop.minimum, maximum |-> prop.maximum, scale |-> prop.scale]
  <2>2. spec.id = id /\ spec.code = code /\ spec.type = type /\ spec.scale = prop.scale /\ s = <<spec>>
    BY <1>3, <2>1
  <2> HIDE DEF spec
  <2> QED  BY <2>2 DEF IsRead
<1> QED  BY <1>4, <1>5 DEF IsRead

SpecTold(bytes, id, code, type, scale) ==
    /\ AtMost(bytes, 60)
    /\ \E m : Nats!Parse(bytes) = {m} /\ \A s \in Nats!DecodeSpec(m) : IsRead(s, id, code, type, scale)

\* A spec that is written is read as it was.
LEMMA SpecIsTold ==
    ASSUME NEW id \in Number, NEW code \in Seq(Byte), Len(code) = 1, NEW type \in Number, NEW access \in Number,
           NEW low \in Signed, NEW high \in Signed, NEW scale \in Signed
    PROVE  SpecTold(Nats!EncodeSpec(id, code, type, access, low, high, scale), id, code, type, scale)
<1> DEFINE one == 1
           two == 2
           four == 4
           five == 5
           eight == 8
           props == (Nats!EncodeInt64(1, low) \o Nats!EncodeInt64(2, high)) \o Nats!EncodeInt64(4, scale)
           a == NumberField(one, id)
           b == BytesField(two, code)
           c == NumberField(four, type)
           d == NumberField(five, access)
           e == BytesField(eight, props)
           x == <<a>>
           y == x \o <<b>>
           z == y \o <<c>>
           v == z \o <<d>>
           w == v \o <<e>>
           ea == Nats!EncodeVarint(one, id)
           eb == Nats!EncodeBytes(two, code)
           ec == Nats!EncodeVarint(four, type)
           ed == Nats!EncodeVarint(five, access)
           ee == Nats!EncodeBytes(eight, props)
           bytes == Nats!EncodeSpec(id, code, type, access, low, high, scale)
<1>1. /\ one \in FieldNumber /\ two \in FieldNumber /\ four \in FieldNumber /\ five \in FieldNumber /\ eight \in FieldNumber
      /\ one # two /\ one # four /\ one # five /\ one # eight /\ two # four /\ two # five /\ two # eight
      /\ four # five /\ four # eight /\ five # eight
  <2>1. one \in 0 .. 100 /\ two \in 0 .. 100 /\ four \in 0 .. 100 /\ five \in 0 .. 100 /\ eight \in 0 .. 100
        /\ one > 0 /\ two > 0 /\ four > 0 /\ five > 0 /\ eight > 0
    OBVIOUS
  <2> QED  BY <2>1, SmallNumbers
<1>2. bytes = (((ea \o eb) \o ec) \o ed) \o IF type # Nats!INT THEN <<>> ELSE ee
  BY DEF Nats!EncodeSpec
<1>3. TellsScale(props, scale)
  BY ScaleIsRead
<1> HIDE DEF props
<1>4. props \in Seq(Byte) /\ Len(props) \in Number /\ Len(props) <= 18
  <2> DEFINE n == Len(props)
  <2>1. props \in Seq(Byte) /\ n <= 18 /\ n \in Int /\ n >= 0
    BY <1>3 DEF TellsScale, AtMost
  <2> HIDE DEF n
  <2>2. n < Nats!Word
    BY <2>1, WordIs
  <2>3. n \in Number
    BY <2>1, <2>2, NumberIs
  <2> QED  BY <2>1, <2>3 DEF n
<1>4a. Len(code) \in Number
  <2>1. Len(code) \in 0 .. 100
    OBVIOUS
  <2> QED  BY <2>1, SmallNumbers
<1>5. /\ a.field = one /\ a.numeric /\ a.num = id /\ b.field = two /\ ~b.numeric /\ b.bytes = code
      /\ c.field = four /\ c.numeric /\ c.num = type /\ d.field = five /\ e.field = eight /\ ~e.numeric /\ e.bytes = props
  BY DEF NumberField, BytesField
<1> HIDE DEF one, two, four, five, eight, ea, eb, ec, ed, ee, bytes
<1>6. /\ a \in Fields /\ Encoded(a) = ea /\ b \in Fields /\ Encoded(b) = eb /\ c \in Fields /\ Encoded(c) = ec
      /\ d \in Fields /\ Encoded(d) = ed /\ e \in Fields /\ Encoded(e) = ee
  BY <1>1, <1>4, <1>4a, NumberFieldIs, BytesFieldIs DEF ea, eb, ec, ed, ee
<1> HIDE DEF a, b, c, d, e
<1>7. x \in Seq(Fields) /\ Written(x) = ea /\ Sole(x, a) /\ Lacks(x, two) /\ Lacks(x, four) /\ Lacks(x, eight)
  <2>1. x \in Seq(Fields) /\ Written(x) = ea
    BY <1>6, WrittenAlone
  <2>2. Len(x) = 1 /\ x[1] = a
    OBVIOUS
  <2> HIDE DEF x
  <2>3. 1 \in 1 .. Len(x) /\ \A i \in 1 .. Len(x) : i = 1 /\ x[i] = a
    BY <2>2
  <2>4. Sole(x, a)
    BY <2>3 DEF Sole
  <2> QED  BY <1>1, <1>5, <2>1, <2>3, <2>4 DEF Lacks
<1> HIDE DEF x
<1>8. Grown(y, x, b)
  BY <1>6, <1>7, GrownIs
<1> HIDE DEF y
<1>9. y \in Seq(Fields) /\ Written(y) = ea \o eb
  BY <1>6, <1>7, <1>8 DEF Grown
<1>10. Sole(y, a) /\ Sole(y, b)
  BY <1>1, <1>5, <1>7, <1>8, SoleStays, SoleNew
<1>10a. Lacks(y, four) /\ Lacks(y, eight)
  BY <1>1, <1>5, <1>7, <1>8, LacksStays
<1>11. Grown(z, y, c)
  BY <1>6, <1>9, GrownIs
<1> HIDE DEF z
<1>12. z \in Seq(Fields) /\ Written(z) = (ea \o eb) \o ec
  BY <1>6, <1>9, <1>11 DEF Grown
<1>13. Sole(z, a) /\ Sole(z, b) /\ Sole(z, c)
  BY <1>1, <1>5, <1>10, <1>10a, <1>11, SoleStays, SoleNew
<1>13a. Lacks(z, eight)
  BY <1>1, <1>5, <1>10a, <1>11, LacksStays
<1>14. Grown(v, z, d)
  BY <1>6, <1>12, GrownIs
<1> HIDE DEF v
<1>15. v \in Seq(Fields) /\ Written(v) = ((ea \o eb) \o ec) \o ed
  BY <1>6, <1>12, <1>14 DEF Grown
<1>16. Sole(v, a) /\ Sole(v, b) /\ Sole(v, c)
  BY <1>1, <1>5, <1>13, <1>14, SoleStays
<1>16a. Lacks(v, eight)
  BY <1>1, <1>5, <1>13a, <1>14, LacksStays
<1>17. Grown(w, v, e)
  BY <1>6, <1>15, GrownIs
<1> HIDE DEF w
<1>18. w \in Seq(Fields) /\ Written(w) = (((ea \o eb) \o ec) \o ed) \o ee
  BY <1>6, <1>15, <1>17 DEF Grown
<1>19. Sole(w, a) /\ Sole(w, b) /\ Sole(w, c) /\ Sole(w, e)
  BY <1>1, <1>5, <1>16, <1>16a, <1>17, SoleStays, SoleNew
<1> DEFINE all == IF type # Nats!INT THEN v ELSE w
<1>20. all \in Seq(Fields) /\ bytes = Written(all) /\ Sole(all, a) /\ Sole(all, b) /\ Sole(all, c)
       /\ (type = Nats!INT => Sole(all, e))
  <2>1. CASE type # Nats!INT
    <3> DEFINE u == ((ea \o eb) \o ec) \o ed
    <3>1. u \in Seq(Byte)
      <4>1. Written(v \o v) = Written(v) \o Written(v) /\ Written(v) \in Seq(Byte)
        BY <1>15, WrittenTogether
      <4> QED  BY <1>15, <4>1
    <3> HIDE DEF u
    <3>2. u \o <<>> = u
      BY <3>1
    <3>3. bytes = u \o <<>>
      BY <1>2, <2>1 DEF u
    <3> QED  BY <1>15, <1>16, <2>1, <3>2, <3>3 DEF u
  <2>2. CASE type = Nats!INT
    BY <1>2, <1>18, <1>19, <2>2
  <2> QED  BY <2>1, <2>2
<1> HIDE DEF all
<1>21. PICK m : Nats!Parse(Written(all)) = {m} /\ ReadAs(m, all)
  BY <1>20, WrittenAreRead
<1>22. ToldOf(m, a) /\ ToldOf(m, b) /\ ToldOf(m, c) /\ (type = Nats!INT => ToldOf(m, e))
  BY <1>20, <1>21, SoleIsTold
<1>23. /\ Nats!GetInt(m, one) = {id} /\ Nats!GetBytes(m, two) = {code} /\ Nats!GetInt(m, four) = {type}
       /\ (type = Nats!INT => Nats!Has(m, eight) /\ Nats!GetBytes(m, eight) = {props})
  BY <1>5, <1>22 DEF ToldOf
<1>24. type = Nats!INT => \A p \in Nats!DecodeProp(m) : p.scale = scale
  BY <1>3, <1>23, PropIsRead DEF eight
<1>25. \A s \in Nats!DecodeSpec(m) : IsRead(s, id, code, type, scale)
  BY <1>23, <1>24, SpecDecoded DEF one, two, four
<1>26. AtMost(bytes, 60)
  <2> DEFINE p == 6
             q == 7
             r == 24
  <2>1. IsShort(ea) /\ IsShort(ec) /\ IsShort(ed)
    BY <1>1, NumberWritten DEF ea, ec, ed
  <2>2. AtMost(ea, p) /\ AtMost(ec, p) /\ AtMost(ed, p)
    BY <2>1, ShortIsFew
  <2>3. AtMost(eb, q)
    <3>1. 6 + Len(code) = q
      OBVIOUS
    <3> HIDE DEF q
    <3> QED  BY <1>1, <1>4a, <3>1, BytesWritten DEF AtMost, eb
  <2>4. AtMost(ee, r)
    <3> DEFINE i == Len(props)
               j == Len(ee)
    <3>1. ee \in Seq(Byte) /\ j <= 6 + i
      BY <1>1, <1>4, BytesWritten DEF ee
    <3>2. i \in Int /\ i <= 18 /\ j \in Int
      BY <1>4, <3>1
    <3> HIDE DEF i, j
    <3>3. j <= r
      BY <3>1, <3>2
    <3> QED  BY <3>1, <3>3 DEF AtMost, j
  <2>5. AtMost(<<>>, r)
    BY DEF AtMost
  <2>6. p \in Int /\ q \in Int /\ r \in Int /\ p + q \in Int /\ (p + q) + p \in Int /\ ((p + q) + p) + p \in Int
        /\ (((p + q) + p) + p) + r <= 60
    OBVIOUS
  <2> DEFINE last == IF type # Nats!INT THEN <<>> ELSE ee
  <2> HIDE DEF p, q, r
  <2>7. AtMost(last, r)
    BY <2>4, <2>5
  <2> HIDE DEF last
  <2>8. AtMost(ea \o eb, p + q)
    BY <2>2, <2>3, <2>6, AtMostBoth
  <2>9. AtMost((ea \o eb) \o ec, (p + q) + p)
    BY <2>2, <2>6, <2>8, AtMostBoth
  <2>10. AtMost(((ea \o eb) \o ec) \o ed, ((p + q) + p) + p)
    BY <2>2, <2>6, <2>9, AtMostBoth
  <2>11. AtMost((((ea \o eb) \o ec) \o ed) \o last, (((p + q) + p) + p) + r)
    BY <2>6, <2>7, <2>10, AtMostBoth
  <2> DEFINE i == Len(bytes)
             sum == (((p + q) + p) + p) + r
  <2>12. bytes \in Seq(Byte) /\ i <= sum /\ sum <= 60 /\ i \in Int /\ sum \in Int
    <3>1. bytes = (((ea \o eb) \o ec) \o ed) \o last
      BY <1>2 DEF last
    <3>2. bytes \in Seq(Byte) /\ i <= sum
      BY <2>11, <3>1 DEF AtMost
    <3>3. i \in Int
      BY <3>2
    <3>4. sum \in Int /\ sum <= 60
      BY <2>6
    <3> QED  BY <3>2, <3>3, <3>4
  <2> HIDE DEF i, sum
  <2>13. i <= 60
    BY <2>12
  <2> QED  BY <2>12, <2>13 DEF AtMost, i
<1>27. SpecTold(bytes, id, code, type, scale)
  BY <1>20, <1>21, <1>25, <1>26 DEF SpecTold
<1> QED  BY <1>27 DEF bytes

\* What is written of a datapoint is read as what it is, if it is read.
SpecBytesFit(product, bytes) ==
    /\ AtMost(bytes, 60)
    /\ \E m : /\ Nats!Parse(bytes) = {m}
              /\ \A s \in Nats!DecodeSpec(m) : s = <<>> \/ \E spec : s = <<spec>> /\ SpecFits(product, spec)

\* A cell is one byte.
LEMMA CellIs ==
    ASSUME NEW code \in Nats!Aspects
    PROVE  \E i \in 1 .. 9 : Nats!Cell(Nats!Codes, code) = <<i>>
<1> DEFINE codes == Nats!Codes
           place == CHOOSE i \in DOMAIN codes : codes[i] = code
<1>1. DOMAIN codes = 1 .. 9
  BY DEF Nats!Codes
<1>2. \E i \in 1 .. 9 : codes[i] = code
  <2>2. codes[1] = "on_off" /\ codes[2] = "fan_speed_level" /\ codes[3] = "fan_speed_maxavail"
        /\ codes[4] = "target_temperature" /\ codes[5] = "temp_outdoor" /\ codes[6] = "temp_indoor"
        /\ codes[7] = "climatic_flags" /\ codes[8] = "heater_on_off" /\ codes[9] = "flap_mode"
    BY DEF Nats!Codes
  <2> HIDE DEF codes
  <2> QED  BY <2>2 DEF Nats!Aspects
<1>3. Nats!Cell(Nats!Codes, code) = <<place>>
  BY DEF Nats!Cell
<1> HIDE DEF codes
<1>4. place \in 1 .. 9
  BY <1>1, <1>2
<1> QED  BY <1>3, <1>4

\* A code is one byte.
LEMMA ByteCell ==
    ASSUME NEW i \in 0 .. 100
    PROVE  <<i>> \in Seq(Byte) /\ Len(<<i>>) = 1
<1>1. i \in Byte
  BY DEF Byte
<1> QED  BY <1>1

\* Bytes that tell a spec that fits are read as one that fits.
LEMMA FitsIfTold ==
    ASSUME NEW product, NEW bytes, NEW id, NEW code, NEW type, NEW scale, SpecTold(bytes, id, code, type, scale),
           \A spec : (spec.id = id /\ spec.code = code /\ spec.type = type /\ (type = Nats!INT => spec.scale = scale))
                       => SpecFits(product, spec)
    PROVE  SpecBytesFit(product, bytes)
<1>1. PICK m : Nats!Parse(bytes) = {m} /\ \A s \in Nats!DecodeSpec(m) : IsRead(s, id, code, type, scale)
  BY DEF SpecTold
<1>2. ASSUME NEW s \in Nats!DecodeSpec(m) PROVE s = <<>> \/ \E spec : s = <<spec>> /\ SpecFits(product, spec)
  <2>1. IsRead(s, id, code, type, scale)
    BY <1>1
  <2> QED  BY <2>1 DEF IsRead
<1> QED  BY <1>1, <1>2 DEF SpecBytesFit, SpecTold

\* The spec of an aspect, as the catalogue has it, fits the model.
LEMMA AspectFits ==
    ASSUME NEW product, NEW code \in Nats!Aspects, NEW access \in Number, NEW low \in Signed, NEW high \in Signed,
           NEW scale \in Signed, scale = IF code \in Tenths THEN 1 ELSE 0
    PROVE  SpecBytesFit(product, Nats!EncodeSpec(Nats!DpId(product, code), Nats!Cell(Nats!Codes, code),
                                                 Nats!Kind(product, code), access, low, high, scale))
<1> DEFINE id == Nats!DpId(product, code)
           cell == Nats!Cell(Nats!Codes, code)
           sort == Nats!Kind(product, code)
           bytes == Nats!EncodeSpec(id, cell, sort, access, low, high, scale)
<1>1. id \in Number /\ sort \in Number
  <2>1. sort \in {1, 2, 6}
    BY DEF Nats!Kind, Nats!BOOL, Nats!INT, Nats!FLAGS
  <2> HIDE DEF sort
  <2>2. sort \in 0 .. 100
    BY <2>1
  <2> QED  BY <2>2, IdsAre, SmallNumbers
<1>2. cell \in Seq(Byte) /\ Len(cell) = 1
  <2>1. PICK i \in 1 .. 9 : cell = <<i>>
    BY CellIs
  <2>2. i \in 0 .. 100
    OBVIOUS
  <2> HIDE DEF cell
  <2> QED  BY <2>1, <2>2, ByteCell
<1>3. ASSUME NEW spec, spec.id = id, spec.code = cell, spec.type = sort, sort = Nats!INT => spec.scale = scale
      PROVE  SpecFits(product, spec)
  <2>1. \A other \in Nats!Aspects : spec.code = Nats!Cell(Nats!Codes, other) => other = code
    BY <1>3, CellsDiffer
  <2> QED  BY <1>3, <2>1 DEF SpecFits, Tenths
<1> HIDE DEF id, cell, sort
<1>4. SpecTold(bytes, id, cell, sort, scale)
  BY <1>1, <1>2, SpecIsTold
<1>5. \A spec : (spec.id = id /\ spec.code = cell /\ spec.type = sort /\ (sort = Nats!INT => spec.scale = scale))
                  => SpecFits(product, spec)
  BY <1>3
<1> HIDE DEF bytes
<1>6. SpecBytesFit(product, bytes)
  BY <1>4, <1>5, FitsIfTold
<1> QED  BY <1>6 DEF bytes, id, cell, sort

\* What the code does not know is nobody's datapoint.
LEMMA UnknownFits ==
    ASSUME NEW product, NEW access \in Number
    PROVE  SpecBytesFit(product, Nats!EncodeSpec(11, <<Len(Nats!Codes) + 1>>, 9, access, 0, 0, 0))
<1> DEFINE id == 11
           cell == <<Len(Nats!Codes) + 1>>
           sort == 9
           zero == 0
           bytes == Nats!EncodeSpec(id, cell, sort, access, zero, zero, zero)
<1>1. id \in Number /\ sort \in Number /\ zero \in Signed
  <2>1. id \in 0 .. 100 /\ sort \in 0 .. 100 /\ zero \in Int /\ zero >= -16384 /\ zero <= 16383
    OBVIOUS
  <2> HIDE DEF id, sort, zero
  <2> QED  BY <2>1, SmallNumbers, SignedAre
<1>2. cell = <<10>>
  BY CodesAre
<1>3. cell \in Seq(Byte) /\ Len(cell) = 1
  <2>1. 10 \in 0 .. 100
    OBVIOUS
  <2> HIDE DEF cell
  <2> QED  BY <1>2, <2>1, ByteCell
<1>4. \A other \in Nats!Aspects : cell # Nats!Cell(Nats!Codes, other)
  <2> TAKE other \in Nats!Aspects
  <2>1. PICK i \in 1 .. 9 : Nats!Cell(Nats!Codes, other) = <<i>>
    BY CellIs
  <2>2. <<i>>[1] # <<10>>[1]
    OBVIOUS
  <2> QED  BY <1>2, <2>1, <2>2
<1> HIDE DEF id, cell, sort, zero
<1>5. SpecTold(bytes, id, cell, sort, zero)
  BY <1>1, <1>3, SpecIsTold
<1>6. \A spec : (spec.id = id /\ spec.code = cell /\ spec.type = sort /\ (sort = Nats!INT => spec.scale = zero))
                  => SpecFits(product, spec)
  BY <1>4 DEF SpecFits
<1> HIDE DEF bytes
<1>7. SpecBytesFit(product, bytes)
  BY <1>5, <1>6, FitsIfTold
<1> QED  BY <1>7 DEF bytes, id, cell, sort, zero

\* Each of the results is one of its own.
LEMMA EachOf ==
    ASSUME NEW results, NEW r \in Nats!Each(results)
    PROVE  DOMAIN r = DOMAIN results /\ r = [i \in DOMAIN r |-> r[i]] /\ \A i \in DOMAIN results : r[i] \in results[i]
<1>1. (\A i \in DOMAIN results : results[i] # {}) /\ r = [i \in DOMAIN results |-> CHOOSE x \in results[i] : TRUE]
  BY DEF Nats!Each
<1>2. \A i \in DOMAIN results : r[i] = CHOOSE x \in results[i] : TRUE
  BY <1>1
<1> QED  BY <1>1, <1>2

\* A short length is a small number.
LEMMA ShortIsSmall ==
    ASSUME NEW k \in Nat, k <= 60
    PROVE  k \in 0 .. 100
<1> QED  OBVIOUS

\* A sequence of one value.
LEMMA OneOf ==
    ASSUME NEW T, NEW t \in T, NEW s, s = <<t>>, NEW one, one = 1
    PROVE  s \in Seq(T) /\ Len(s) <= one
<1> QED  OBVIOUS

\* The datapoints of a profile, one field each.
SpecFields(specs, n) == [i \in 1 .. n |-> BytesField(13, specs[i])]
AreSpecFields(f, specs, n) ==
    /\ f \in Seq(Fields) /\ Len(f) = n
    /\ \A i \in 1 .. n : f[i] = BytesField(13, specs[i])
    /\ Written(f) = Nats!FlattenSeq([i \in DOMAIN specs |-> Nats!EncodeBytes(13, specs[i])])

\* Specs that fit, written one after the other as fields of a message.
LEMMA SpecsWritten ==
    ASSUME NEW product, NEW specs, NEW n \in Nat, specs = [i \in 1 .. n |-> specs[i]],
           \A i \in 1 .. n : SpecBytesFit(product, specs[i])
    PROVE  AreSpecFields(SpecFields(specs, n), specs, n)
<1> DEFINE field == 13
           f == SpecFields(specs, n)
           g == [i \in 1 .. n |-> BytesField(field, specs[i])]
<1>1. field \in FieldNumber
  <2>1. field \in 0 .. 100 /\ field > 0
    OBVIOUS
  <2> QED  BY <2>1, SmallNumbers
<1>2. f = g
  BY DEF SpecFields
<1>3. DOMAIN specs = 1 .. n
  OBVIOUS
<1> HIDE DEF field, f
<1>4. \A i \in 1 .. n : BytesField(field, specs[i]) \in Fields
                         /\ Encoded(BytesField(field, specs[i])) = Nats!EncodeBytes(field, specs[i])
  <2> TAKE i \in 1 .. n
  <2> DEFINE b == specs[i]
             k == Len(b)
  <2>1. SpecBytesFit(product, b)
    OBVIOUS
  <2> HIDE DEF b
  <2>2. b \in Seq(Byte) /\ k <= 60
    BY <2>1 DEF SpecBytesFit, AtMost
  <2>3. k \in 0 .. 100
    <3>1. k \in Nat /\ k <= 60
      BY <2>2
    <3> HIDE DEF k
    <3> QED  BY <3>1, ShortIsSmall
  <2>4. k \in Number
    <3> HIDE DEF k
    <3> QED  BY <2>3, SmallNumbers
  <2>5. BytesField(field, b) \in Fields /\ Encoded(BytesField(field, b)) = Nats!EncodeBytes(field, b)
    BY <1>1, <2>2, <2>4, BytesFieldIs
  <2> QED  BY <2>5 DEF b
<1>5. g \in Seq(Fields) /\ Len(g) = n /\ \A i \in 1 .. n : g[i] = BytesField(field, specs[i])
  BY <1>4
<1>6. Written(g) = Nats!FlattenSeq([i \in DOMAIN specs |-> Nats!EncodeBytes(field, specs[i])])
  <2>1. EncodedAll(g) = [i \in 1 .. n |-> Encoded(g[i])]
    BY <1>5 DEF EncodedAll
  <2>2. \A i \in 1 .. n : Encoded(g[i]) = Nats!EncodeBytes(field, specs[i])
    BY <1>4, <1>5
  <2>3. EncodedAll(g) = [i \in 1 .. n |-> Nats!EncodeBytes(field, specs[i])]
    BY <2>1, <2>2
  <2> QED  BY <1>3, <2>3 DEF Written
<1> HIDE DEF g
<1> QED  BY <1>2, <1>5, <1>6 DEF f, field, AreSpecFields

\* The messages in a field that is nothing else.
LEMMA NestedAre ==
    ASSUME NEW m \in Seq(FieldRead), NEW field, NEW n \in Nat, Len(m) = 1 + n, m[1].field # field,
           \A i \in 1 .. n : m[1 + i].field = field /\ ~m[1 + i].numeric,
           NEW items \in Nats!GetMessages(m, field)
    PROVE  DOMAIN items = 1 .. n /\ \A i \in 1 .. n : items[i] \in Nats!Parse(m[1 + i].bytes)
<1> DEFINE one == 1
           hi == one + n
           values == Some(m, one, hi)
           results == [i \in DOMAIN values |-> IF values[i].numeric THEN {} ELSE Nats!Parse(values[i].bytes)]
<1>1. one \in Nat /\ hi \in Nat /\ one <= hi /\ hi <= Len(m) /\ hi - one = n
  OBVIOUS
<1>2. \A i \in 1 .. Len(m) : m[i].field = field <=> i \in one + 1 .. hi
  <2> TAKE i \in 1 .. Len(m)
  <2>1. CASE i = 1
    BY <2>1
  <2>2. CASE i # 1
    <3> DEFINE j == i - 1
    <3>1. j \in 1 .. n /\ i = 1 + j
      BY <2>2
    <3> HIDE DEF j
    <3>2. m[i].field = field
      BY <3>1
    <3> QED  BY <3>1, <3>2
  <2> QED  BY <2>1, <2>2
<1> HIDE DEF one, hi
<1>3. Between(m, field, one, hi)
  BY <1>1, <1>2 DEF Between
<1>4. Nats!All(m, field) = values
  BY <1>3, AllAre
<1>5. values = [k \in 1 .. n |-> m[one + k]]
  BY <1>1 DEF Some
<1>6. DOMAIN values = 1 .. n /\ \A i \in 1 .. n : values[i] = m[1 + i]
  BY <1>5 DEF one
<1>7. items \in Nats!Each(results)
  BY <1>4 DEF Nats!GetMessages
<1> HIDE DEF values
<1>8. DOMAIN results = 1 .. n /\ \A i \in 1 .. n : results[i] = Nats!Parse(m[1 + i].bytes)
  BY <1>6
<1> HIDE DEF results
<1>9. DOMAIN items = DOMAIN results /\ \A i \in DOMAIN results : items[i] \in results[i]
  BY <1>7, EachOf
<1> QED  BY <1>8, <1>9

\* What is put together of specs that fit, fits.
Picked(product, s) == s = <<>> \/ \E spec : s = <<spec>> /\ SpecFits(product, spec)

\* What is put together of specs that fit, fits.
LEMMA FlattenedFit ==
    ASSUME NEW product, NEW n \in Nat, NEW s, s = [i \in 1 .. n |-> s[i]], \A i \in 1 .. n : Picked(product, s[i])
    PROVE  \A i \in DOMAIN Nats!FlattenSeq(s) : SpecFits(product, Nats!FlattenSeq(s)[i])
<1> DEFINE J == {i \in 1 .. n : s[i] # <<>>}
           T == {s[i][1] : i \in J}
           one == 1
           z == Nats!FlattenSeq(s)
<1>1. \A t \in T : SpecFits(product, t)
  <2> TAKE t \in T
  <2>1. PICK i \in J : t = s[i][1]
    OBVIOUS
  <2>2. PICK spec : s[i] = <<spec>> /\ SpecFits(product, spec)
    BY <2>1 DEF Picked
  <2>3. <<spec>>[1] = spec
    OBVIOUS
  <2> QED  BY <2>1, <2>2, <2>3
<1>2. ASSUME NEW i \in 1 .. n PROVE s[i] \in Seq(T) /\ Len(s[i]) <= one
  <2>1. CASE s[i] = <<>>
    BY <2>1
  <2>2. CASE s[i] # <<>>
    <3>1. PICK spec : s[i] = <<spec>>
      BY <2>2 DEF Picked
    <3>2. s[i][1] = spec /\ s[i][1] \in T
      BY <2>2, <3>1
    <3>3. spec \in T
      BY <3>2
    <3> HIDE DEF T
    <3>4. one = 1
      OBVIOUS
    <3> HIDE DEF one
    <3> QED  BY <3>1, <3>3, <3>4, OneOf
  <2> QED  BY <2>1, <2>2
<1> HIDE DEF T, one
<1>3. s \in Seq(Seq(T)) /\ Len(s) = n
  BY <1>2
<1>4. one \in Nat /\ \A i \in 1 .. Len(s) : Len(s[i]) <= one
  BY <1>2, <1>3 DEF one
<1>5. z \in Seq(T)
  BY <1>3, <1>4, Bounded
<1> HIDE DEF z
<1>6. \A i \in DOMAIN z : z[i] \in T
  BY <1>5
<1> QED  BY <1>1, <1>6 DEF z

\* A profile of such datapoints is one of its model.
LEMMA ProfileIsRead ==
    ASSUME NEW product, NEW cell \in Seq(Byte), Len(cell) = 1, cell = Nats!Cell(Nats!Products, product),
           NEW specs, NEW n \in Nat, specs = [i \in 1 .. n |-> specs[i]], \A i \in 1 .. n : SpecBytesFit(product, specs[i]),
           NEW profile \in Nats!DecodeProfile(Nats!EncodeBytes(1, cell)
                             \o Nats!FlattenSeq([i \in DOMAIN specs |-> Nats!EncodeBytes(13, specs[i])]))
    PROVE  ProfileFits(product, profile)
<1> DEFINE one == 1
           first == BytesField(one, cell)
           head == <<first>>
           rest == SpecFields(specs, n)
           all == head \o rest
           data == Nats!EncodeBytes(one, cell) \o Nats!FlattenSeq([i \in DOMAIN specs |-> Nats!EncodeBytes(13, specs[i])])
<1>1. one \in FieldNumber /\ Len(cell) \in Number
  <2>1. one \in 0 .. 100 /\ one > 0 /\ Len(cell) \in 0 .. 100
    OBVIOUS
  <2> QED  BY <2>1, SmallNumbers
<1>2. profile \in Nats!DecodeProfile(data)
  OBVIOUS
<1>3. first.field = 1 /\ ~first.numeric /\ first.bytes = cell
  BY DEF BytesField
<1> HIDE DEF one
<1>4. first \in Fields /\ Encoded(first) = Nats!EncodeBytes(one, cell)
  BY <1>1, BytesFieldIs
<1> HIDE DEF first
<1>5. head \in Seq(Fields) /\ Written(head) = Nats!EncodeBytes(one, cell)
  BY <1>4, WrittenAlone
<1>6. Len(head) = 1 /\ head[1] = first /\ 1 \in 1 .. Len(head)
  OBVIOUS
<1>7. /\ rest \in Seq(Fields) /\ Len(rest) = n
      /\ \A i \in 1 .. n : rest[i] = BytesField(13, specs[i])
      /\ Written(rest) = Nats!FlattenSeq([i \in DOMAIN specs |-> Nats!EncodeBytes(13, specs[i])])
  <2>1. AreSpecFields(rest, specs, n)
    BY SpecsWritten
  <2> HIDE DEF rest
  <2> QED  BY <2>1 DEF AreSpecFields
<1> HIDE DEF head, rest
<1>8. all \in Seq(Fields) /\ Written(all) = Written(head) \o Written(rest)
  BY <1>5, <1>7, WrittenTogether
<1>9. InTurn(head, rest, Fields)
  BY <1>5, <1>7, Both
<1>10. Len(all) = 1 + n /\ all[1] = first /\ \A i \in 1 .. n : all[1 + i] = BytesField(13, specs[i])
  BY <1>6, <1>7, <1>9 DEF InTurn
<1>11. data = Written(all)
  BY <1>5, <1>7, <1>8
<1> HIDE DEF all, data
<1>12. PICK m : Nats!Parse(Written(all)) = {m} /\ ReadAs(m, all)
  BY <1>8, WrittenAreRead
<1>13. m \in Seq(FieldRead) /\ Len(m) = 1 + n /\ \A i \in 1 .. Len(all) : Same(m[i], all[i])
  BY <1>10, <1>12 DEF ReadAs
<1>14. m[1].field = 1
  <2>1. 1 \in 1 .. Len(all)
    BY <1>10
  <2> QED  BY <1>3, <1>10, <1>13, <2>1 DEF Same
<1>15. ASSUME NEW i \in 1 .. n PROVE m[1 + i].field = 13 /\ ~m[1 + i].numeric /\ m[1 + i].bytes = specs[i]
  <2>1. 1 + i \in 1 .. Len(all)
    BY <1>10
  <2>2. Same(m[1 + i], BytesField(13, specs[i]))
    BY <1>10, <1>13, <2>1
  <2> QED  BY <2>2 DEF Same, BytesField
<1>16. Nats!GetBytes(m, 1) = {cell}
  <2>1. Sole(all, first)
    <3>1. 1 \in 1 .. Len(all) /\ all[1] = first
      BY <1>10
    <3>2. ASSUME NEW i \in 1 .. Len(all), i # 1 PROVE all[i].field # first.field
      <4> DEFINE j == i - 1
      <4>1. j \in 1 .. n /\ i = 1 + j
        BY <1>10, <3>2
      <4> HIDE DEF j
      <4>2. all[i] = BytesField(13, specs[j])
        BY <1>10, <4>1
      <4> QED  BY <1>3, <4>2 DEF BytesField
    <3> QED  BY <3>1, <3>2 DEF Sole
  <2>2. ToldOf(m, first)
    BY <1>12, <2>1, SoleIsTold
  <2> QED  BY <1>3, <2>2 DEF ToldOf
<1> DEFINE From(source) ==
             {[product |-> p, dps |-> Nats!FlattenSeq(ss)] :
                p \in Nats!GetBytes(source, 1),
                ss \in UNION {Nats!Each([i \in DOMAIN items |-> Nats!DecodeSpec(items[i])]) :
                                items \in Nats!GetMessages(source, 13)}}
<1>17. profile \in From(m)
  <2>1. Nats!DecodeProfile(data) = UNION {From(source) : source \in Nats!Parse(data)}
    BY DEF Nats!DecodeProfile
  <2> HIDE DEF From
  <2> QED  BY <1>2, <1>11, <1>12, <2>1
<1>18. PICK p \in Nats!GetBytes(m, 1),
            ss \in UNION {Nats!Each([i \in DOMAIN items |-> Nats!DecodeSpec(items[i])]) : items \in Nats!GetMessages(m, 13)} :
              profile = [product |-> p, dps |-> Nats!FlattenSeq(ss)]
  BY <1>17
<1>19. PICK items \in Nats!GetMessages(m, 13) : ss \in Nats!Each([i \in DOMAIN items |-> Nats!DecodeSpec(items[i])])
  BY <1>18
<1>20. DOMAIN items = 1 .. n /\ \A i \in 1 .. n : items[i] \in Nats!Parse(m[1 + i].bytes)
  <2> DEFINE field == 13
  <2>1. m[1].field # field /\ (\A i \in 1 .. n : m[1 + i].field = field /\ ~m[1 + i].numeric)
        /\ items \in Nats!GetMessages(m, field)
    BY <1>14, <1>15, <1>19
  <2> HIDE DEF field
  <2> QED  BY <1>13, <2>1, NestedAre
<1> DEFINE results == [i \in DOMAIN items |-> Nats!DecodeSpec(items[i])]
<1>21. DOMAIN results = 1 .. n /\ (\A i \in 1 .. n : results[i] = Nats!DecodeSpec(items[i])) /\ ss \in Nats!Each(results)
  BY <1>19, <1>20
<1> HIDE DEF results
<1>22. DOMAIN ss = DOMAIN results /\ ss = [i \in DOMAIN ss |-> ss[i]] /\ \A i \in DOMAIN results : ss[i] \in results[i]
  BY <1>21, EachOf
<1>23. ASSUME NEW i \in 1 .. n PROVE Picked(product, ss[i])
  <2> DEFINE b == specs[i]
             item == items[i]
  <2>1. SpecBytesFit(product, b) /\ item \in Nats!Parse(b) /\ ss[i] \in Nats!DecodeSpec(item)
    BY <1>15, <1>20, <1>21, <1>22
  <2> HIDE DEF b, item
  <2>2. PICK q : /\ Nats!Parse(b) = {q}
                 /\ \A s \in Nats!DecodeSpec(q) : s = <<>> \/ \E spec : s = <<spec>> /\ SpecFits(product, spec)
    BY <2>1 DEF SpecBytesFit
  <2> QED  BY <2>1, <2>2 DEF Picked
<1>24. ss = [i \in 1 .. n |-> ss[i]]
  BY <1>21, <1>22
<1>25. \A i \in DOMAIN Nats!FlattenSeq(ss) : SpecFits(product, Nats!FlattenSeq(ss)[i])
  BY <1>23, <1>24, FlattenedFit
<1>26. profile.product = cell /\ profile.dps = Nats!FlattenSeq(ss)
  BY <1>16, <1>18
<1> QED  BY <1>25, <1>26 DEF ProfileFits

\* What is written of a datapoint in the catalogue.
Listed(product, code, access, low, high, scale) ==
    Nats!EncodeSpec(Nats!DpId(product, code), Nats!Cell(Nats!Codes, code), Nats!Kind(product, code),
                    access, low, high, scale)

Reach == -1000 .. 1000
Accesses == {1, 2}
ScaleOf(code) == IF code \in Tenths THEN 1 ELSE 0

\* Each datapoint of the catalogue is one of the model, as it is written.
LEMMA CatalogueSpecs ==
    ASSUME NEW product, NEW code \in Nats!Aspects, NEW access \in Accesses, NEW low \in Reach, NEW high \in Reach,
           NEW scale, scale = ScaleOf(code)
    PROVE  SpecBytesFit(product, Listed(product, code, access, low, high, scale))
<1>1. access \in Number
  <2>1. access \in 0 .. 100
    BY DEF Accesses
  <2> QED  BY <2>1, SmallNumbers
<1>2. low \in Signed /\ high \in Signed /\ scale \in Signed
  <2>1. low \in Int /\ low >= -16384 /\ low <= 16383
    BY DEF Reach
  <2>2. high \in Int /\ high >= -16384 /\ high <= 16383
    BY DEF Reach
  <2>3. scale \in Int /\ scale >= -16384 /\ scale <= 16383
    BY DEF ScaleOf
  <2> QED  BY <2>1, <2>2, <2>3, SignedAre
<1> QED  BY <1>1, <1>2, AspectFits DEF Listed, ScaleOf

\* The model's name on the wire is one byte.
LEMMA ProductCell ==
    ASSUME NEW product \in ProductNames
    PROVE  Nats!Cell(Nats!Products, product) \in Seq(Byte) /\ Len(Nats!Cell(Nats!Products, product)) = 1
<1> DEFINE products == Nats!Products
           place == CHOOSE i \in DOMAIN products : products[i] = product
<1>1. DOMAIN products = 1 .. 3
  BY DEF Nats!Products
<1>2. \E i \in 1 .. 3 : products[i] = product
  <2>1. products[1] = "b4s_ble" /\ products[2] = "br3s_rf" /\ products[3] = "o2_rf"
    BY DEF Nats!Products
  <2> HIDE DEF products
  <2> QED  BY <2>1 DEF ProductNames
<1>3. Nats!Cell(Nats!Products, product) = <<place>>
  BY DEF Nats!Cell
<1> HIDE DEF products
<1>4. place \in 1 .. 3
  BY <1>1, <1>2
<1> HIDE DEF place
<1>5. place \in 0 .. 100
  BY <1>4
<1> QED  BY <1>3, <1>5, ByteCell

\* What is loaded of the catalogue is the profile of the model.
LEMMA CatalogueFits ==
    ASSUME NEW product \in ProductNames, NEW profile \in Nats!DecodeProfile(Nats!Catalogue(product))
    PROVE  ProfileFits(product, profile)
<1> DEFINE cell == Nats!Cell(Nats!Products, product)
           zero == 0
           one == 1
           two == 2
           ten == 10
           warm == 500
           cold == -500
           top == 1000
           bottom == -1000
           unknown == Nats!EncodeSpec(11, <<Len(Nats!Codes) + 1>>, 9, one, 0, 0, 0)
           Dp(code, access, low, high, scale) == Listed(product, code, access, low, high, scale)
           specs == << unknown,
                       Dp("on_off", one, zero, zero, zero),
                       Dp("heater_on_off", one, zero, ten, zero),
                       Dp("target_temperature", one, bottom, top, one),
                       Dp("fan_speed_level", one, zero, ten, zero),
                       Dp("fan_speed_maxavail", two, zero, ten, zero),
                       Dp("flap_mode", one, zero, two, zero),
                       Dp("temp_outdoor", two, cold, warm, one),
                       Dp("temp_indoor", two, cold, warm, one),
                       Dp("climatic_flags", two, zero, zero, zero) >>
<1>1. Nats!Catalogue(product) = Nats!EncodeBytes(1, cell) \o Nats!FlattenSeq([i \in DOMAIN specs |-> Nats!EncodeBytes(13, specs[i])])
  BY DEF Nats!Catalogue, Nats!READ_WRITE, Nats!READ_ONLY, Listed
<1>2. cell \in Seq(Byte) /\ Len(cell) = 1 /\ cell = Nats!Cell(Nats!Products, product)
  BY ProductCell
<1>3. "target_temperature" \in Tenths /\ "temp_outdoor" \in Tenths /\ "temp_indoor" \in Tenths
      /\ "on_off" \notin Tenths /\ "heater_on_off" \notin Tenths /\ "fan_speed_level" \notin Tenths
      /\ "fan_speed_maxavail" \notin Tenths /\ "flap_mode" \notin Tenths /\ "climatic_flags" \notin Tenths
  BY DEF Tenths
<1>4. {"on_off", "heater_on_off", "target_temperature", "fan_speed_level", "fan_speed_maxavail", "flap_mode",
       "temp_outdoor", "temp_indoor", "climatic_flags"} \subseteq Nats!Aspects
  BY DEF Nats!Aspects
<1>5. specs = [i \in 1 .. 10 |-> specs[i]]
  OBVIOUS
<1>6. SpecBytesFit(product, unknown)
  <2>1. one \in Number
    <3>1. one \in 0 .. 100
      OBVIOUS
    <3> HIDE DEF one
    <3> QED  BY <3>1, SmallNumbers
  <2> HIDE DEF one
  <2> QED  BY <2>1, UnknownFits
<1>7. one \in {1, 2} /\ two \in {1, 2} /\ zero \in {0, 1} /\ one \in {0, 1}
  OBVIOUS
<1>8. {zero, two, ten, warm, cold, top, bottom} \subseteq Reach
  BY DEF Reach
<1>9. ASSUME NEW code \in Nats!Aspects, NEW access \in {one, two}, NEW low \in {zero, two, ten, warm, cold, top, bottom},
             NEW high \in {zero, two, ten, warm, cold, top, bottom}, NEW scale \in {zero, one},
             code \in Tenths => scale = one, code \notin Tenths => scale = zero
      PROVE  SpecBytesFit(product, Listed(product, code, access, low, high, scale))
  <2>1. scale = ScaleOf(code)
    BY <1>9 DEF ScaleOf
  <2>2. access \in Accesses
    BY <1>7 DEF Accesses
  <2>3. low \in Reach /\ high \in Reach
    BY <1>8
  <2> HIDE DEF zero, one, two, ten, warm, cold, top, bottom
  <2> QED  BY <2>1, <2>2, <2>3, CatalogueSpecs
<1>10. Len(specs) = 10
  OBVIOUS
<1> HIDE DEF zero, one, two, ten, warm, cold, top, bottom, unknown
<1>11. /\ SpecBytesFit(product, Dp("on_off", one, zero, zero, zero))
       /\ SpecBytesFit(product, Dp("heater_on_off", one, zero, ten, zero))
       /\ SpecBytesFit(product, Dp("fan_speed_level", one, zero, ten, zero))
       /\ SpecBytesFit(product, Dp("fan_speed_maxavail", two, zero, ten, zero))
       /\ SpecBytesFit(product, Dp("flap_mode", one, zero, two, zero))
       /\ SpecBytesFit(product, Dp("climatic_flags", two, zero, zero, zero))
  BY <1>3, <1>4, <1>9
<1>12. /\ SpecBytesFit(product, Dp("target_temperature", one, bottom, top, one))
       /\ SpecBytesFit(product, Dp("temp_outdoor", two, cold, warm, one))
       /\ SpecBytesFit(product, Dp("temp_indoor", two, cold, warm, one))
  BY <1>3, <1>4, <1>9
<1> HIDE DEF Dp
<1>13. \A i \in 1 .. 10 : SpecBytesFit(product, specs[i])
  <2>1. /\ SpecBytesFit(product, specs[1]) /\ SpecBytesFit(product, specs[2]) /\ SpecBytesFit(product, specs[3])
        /\ SpecBytesFit(product, specs[4]) /\ SpecBytesFit(product, specs[5]) /\ SpecBytesFit(product, specs[6])
        /\ SpecBytesFit(product, specs[7]) /\ SpecBytesFit(product, specs[8]) /\ SpecBytesFit(product, specs[9])
        /\ SpecBytesFit(product, specs[10])
    BY <1>6, <1>11, <1>12
  <2> HIDE DEF specs
  <2> TAKE i \in 1 .. 10
  <2>2. i \in {1, 2, 3, 4, 5, 6, 7, 8, 9, 10}
    OBVIOUS
  <2> QED  BY <2>1, <2>2
<1>14. profile \in Nats!DecodeProfile(Nats!EncodeBytes(1, cell)
                    \o Nats!FlattenSeq([i \in DOMAIN specs |-> Nats!EncodeBytes(13, specs[i])]))
  BY <1>1
<1> DEFINE n == 10
<1>15. n \in Nat /\ specs = [i \in 1 .. n |-> specs[i]] /\ \A i \in 1 .. n : SpecBytesFit(product, specs[i])
  BY <1>5, <1>13
<1> HIDE DEF cell, specs, n
<1> QED  BY <1>2, <1>14, <1>15, ProfileIsRead

-----------------------------------------------------------------------------
(* The inductive invariant, and its steps that send nothing *)

\* What is on its way to the client, behind what it has not read yet.
Bears(G, buffer, l) ==
    /\ LinkIs(l) /\ buffer \in Seq(Nat) /\ l.bytes \in Seq(Nat)
    /\ Streams(G, buffer \o l.bytes)

\* What is sent is good if what is on its way was, and it is too.
LEMMA SentCarries ==
    ASSUME NEW G, G \subseteq NatsMessage, NEW buffer, NEW l, Bears(G, buffer, l),
           NEW bytes, Streams(G, bytes), NEW tells
    PROVE  LET k == Nats!Sent(l, bytes, tells)
           IN Bears(G, buffer, k) /\ k.up = l.up /\ k.requests = l.requests
<1> DEFINE k == Nats!Sent(l, bytes, tells)
<1>1. LinkIs(l) /\ buffer \in Seq(Nat) /\ l.bytes \in Seq(Nat) /\ Streams(G, buffer \o l.bytes)
  BY DEF Bears
<1>2. bytes \in Seq(Nat)
  BY DEF Streams
<1>3. k.bytes = l.bytes \o bytes /\ k.up = l.up /\ k.requests = l.requests
  BY <1>1 DEF LinkIs, Nats!Sent
<1>4. LinkIs(k)
  <2>1. k = [l EXCEPT !.bytes = l.bytes \o bytes, !.mail = Append(l.mail, [left |-> Len(bytes), tells |-> tells])]
    BY DEF Nats!Sent
  <2>2. l = [up |-> l.up, bytes |-> l.bytes, mail |-> l.mail, cut |-> l.cut, requests |-> l.requests, losses |-> l.losses]
    BY <1>1 DEF LinkIs
  <2> DEFINE mail == Append(l.mail, [left |-> Len(bytes), tells |-> tells])
             more == l.bytes \o bytes
  <2> HIDE DEF mail, more
  <2>3. k = [l EXCEPT !.bytes = more, !.mail = mail]
    BY <2>1 DEF mail, more
  <2>4. l.cut \in Nat /\ l.losses \in Nat
    BY <1>1 DEF LinkIs
  <2> HIDE DEF k
  <2>5. k.cut = l.cut /\ k.losses = l.losses
    BY <2>2, <2>3
  <2>6. k = [up |-> k.up, bytes |-> k.bytes, mail |-> k.mail, cut |-> k.cut, requests |-> k.requests, losses |-> k.losses]
    BY <2>2, <2>3
  <2> QED  BY <2>4, <2>5, <2>6 DEF LinkIs
<1> HIDE DEF k
<1>5. Streams(G, (buffer \o l.bytes) \o bytes)
  BY <1>1, StreamsAnd
<1>6. (buffer \o l.bytes) \o bytes = buffer \o (l.bytes \o bytes)
  <2>1. Associate(buffer, l.bytes, bytes)
    BY <1>1, <1>2, Associative
  <2> QED  BY <2>1 DEF Associate
<1>7. k.bytes \in Seq(Nat)
  BY <1>1, <1>2, <1>3
<1>8. Bears(G, buffer, k)
  BY <1>1, <1>3, <1>4, <1>5, <1>6, <1>7 DEF Bears
<1> QED  BY <1>3, <1>8 DEF k

\* They are messages.
LEMMA GoodAre == \A product, done : GoodMessages(product, done) \subseteq NatsMessage
<1> QED  BY DEF GoodMessages

\* The same bytes say as much when more has been done.
LEMMA MoreIsDone ==
    ASSUME NEW product, NEW done, NEW more, done \subseteq more
    PROVE  GoodMessages(product, done) \subseteq GoodMessages(product, more)
<1>1. ASSUME NEW m \in NatsMessage, Good(product, done, m) PROVE Good(product, more, m)
  BY <1>1 DEF Good
<1> QED  BY <1>1 DEF GoodMessages

\* The good messages of what is the case now.
Now(b, o) == GoodMessages(b.product, DOMAIN o.done)
RequestsAre(b, o, l) ==
    /\ l.requests \in Seq(Seq(Nat))
    /\ \A i \in DOMAIN l.requests : RequestIs(b.product, o, l.requests[i])
WhileDown(l, c) == l.up \in BOOLEAN /\ (~l.up => c.buffer = <<>> /\ l.bytes = <<>>)
Loaded(b, o, l, c) ==
    IF b.product = "none" THEN ~l.up /\ l.requests = <<>> /\ c.dps = Nats!Empty /\ o.made = 0
    ELSE ProfileFits(b.product, c.profile)
CommandsAre(b, o, l, c) ==
    /\ BreezerIs(b) /\ OrdersAre(b.product, o)
    /\ ClientIs(b.product, o, c)
    /\ Bears(Now(b, o), c.buffer, l)
    /\ WhileDown(l, c) /\ RequestsAre(b, o, l) /\ Loaded(b, o, l, c)

\* What commands rest on, as one predicate of the state.
LEMMA CommandsIs == Commands <=> CommandsAre(breezer, orders, link, client)
<1> QED  BY DEF Commands, CommandsAre, Bears, Now, WhileDown, RequestsAre, Loaded

\* At the start nothing is on its way, and nothing was made.
LEMMA InitCommands ==
    ASSUME Nats!Init
    PROVE  Commands
<1>1. /\ breezer = [product |-> "none", facts |-> Nats!FirstFacts, changes |-> 0]
      /\ link.up = FALSE /\ link.bytes = <<>> /\ link.requests = <<>> /\ LinkIs(link)
      /\ client.dps = Nats!Empty /\ client.buffer = <<>> /\ client.waiting = 0 /\ client.result = "none" /\ IsClient(client)
      /\ orders = [made |-> 0, asked |-> Nats!Empty, done |-> Nats!Empty]
  BY DEF Nats!Init, LinkIs, IsClient
<1>2. BreezerIs(breezer)
  <2>1. FactsAre(Nats!FirstFacts)
    <3>1. 3 \in Signed /\ 6 \in Signed /\ 215 \in Signed /\ -105 \in Signed
      <4>1. 3 \in Signed
        BY SignedAre
      <4>2. 6 \in Signed
        BY SignedAre
      <4>3. 215 \in Signed
        BY SignedAre
      <4>4. -105 \in Signed
        BY SignedAre
      <4> QED  BY <4>1, <4>2, <4>3, <4>4
    <3>2. DOMAIN Nats!FirstFacts = Nats!Aspects
      BY DEF Nats!FirstFacts, Nats!Aspects
    <3> QED  BY <3>1, <3>2 DEF FactsAre, Nats!FirstFacts, Texts
  <2> QED  BY <1>1, <2>1 DEF BreezerIs
<1>3. DOMAIN Nats!Empty = {}
  BY DEF Nats!Empty
<1>4. OrdersAre("none", orders)
  <2>1. 0 \in 0 .. CloudActs
    BY BoundsAssumption
  <2> QED  BY <1>1, <1>3, <2>1 DEF OrdersAre
<1>5. ClientIs("none", orders, client)
  BY <1>1, <1>3 DEF ClientIs, KnowsTop
<1>6. Bears(Now(breezer, orders), client.buffer, link)
  <2>1. Streams(Now(breezer, orders), <<>>)
    BY NothingStreams
  <2>2. <<>> \o <<>> = <<>> /\ <<>> \in Seq(Nat)
    OBVIOUS
  <2> QED  BY <1>1, <2>1, <2>2 DEF Bears
<1>7. CommandsAre(breezer, orders, link, client)
  <2>1. RequestsAre(breezer, orders, link)
    <3>1. DOMAIN link.requests = {} /\ link.requests \in Seq(Seq(Nat))
      BY <1>1
    <3> QED  BY <3>1 DEF RequestsAre
  <2>2. WhileDown(link, client)
    BY <1>1 DEF WhileDown
  <2>3. breezer.product = "none" /\ orders.made = 0
    BY <1>1
  <2>4. Loaded(breezer, orders, link, client)
    BY <1>1, <2>3 DEF Loaded
  <2> QED  BY <1>2, <1>4, <1>5, <1>6, <2>1, <2>2, <2>3, <2>4 DEF CommandsAre
<1> QED  BY <1>7, CommandsIs

\* A timeout gives up waiting.
LEMMA TimeoutCommands ==
    ASSUME Commands, Nats!Timeout
    PROVE  Commands'
<1>1. CommandsAre(breezer, orders, link, client)
  BY CommandsIs
<1>2. client' = [client EXCEPT !.waiting = 0, !.result = "timeout"] /\ UNCHANGED <<breezer, link, told, orders>>
  BY DEF Nats!Timeout
<1>3. IsClient(client)
  BY <1>1 DEF CommandsAre, ClientIs
<1>4. /\ IsClient(client') /\ client'.waiting = 0 /\ client'.result = "timeout"
      /\ client'.buffer = client.buffer /\ client'.dps = client.dps /\ client'.profile = client.profile
  BY <1>2, <1>3 DEF IsClient
<1>5. ClientIs(breezer.product, orders, client')
  BY <1>1, <1>4 DEF ClientIs, CommandsAre
<1>6. CommandsAre(breezer, orders, link, client')
  BY <1>1, <1>4, <1>5 DEF CommandsAre, WhileDown, Loaded
<1>7. CommandsAre(breezer', orders', link', client')
  BY <1>2, <1>6
<1>8. Commands' <=> CommandsAre(breezer', orders', link', client')
  BY DEF Commands, CommandsAre, Bears, Now, WhileDown, RequestsAre, Loaded
<1> QED  BY <1>7, <1>8

\* What is the case after a step.
LEMMA NextCommandsIs == Commands' <=> CommandsAre(breezer', orders', link', client')
<1> QED  BY DEF Commands, CommandsAre, Bears, Now, WhileDown, RequestsAre, Loaded

-----------------------------------------------------------------------------
(* Steps of the link *)

\* A link is what it is made of.
LEMMA LinkMade ==
    ASSUME NEW l, NEW up, NEW bytes, NEW mail, NEW cut \in Nat, NEW requests, NEW losses \in Nat,
           l = [up |-> up, bytes |-> bytes, mail |-> mail, cut |-> cut, requests |-> requests, losses |-> losses]
    PROVE  LinkIs(l) /\ l.up = up /\ l.bytes = bytes /\ l.requests = requests
<1>1. l.up = up /\ l.bytes = bytes /\ l.mail = mail /\ l.cut = cut /\ l.requests = requests /\ l.losses = losses
  OBVIOUS
<1>2. LinkIs(l)
  BY <1>1 DEF LinkIs
<1> QED  BY <1>1, <1>2

\* A line that is no NATS ends what is read.
LEMMA BreakCommands ==
    ASSUME Commands, Nats!Break
    PROVE  Commands'
<1>1. CommandsAre(breezer, orders, link, client)
  BY CommandsIs
<1> DEFINE sent == Nats!Sent(link, Nats!Broken, Nats!NoNats)
<1>2. link.up /\ link' = [sent EXCEPT !.losses = @ + 1] /\ UNCHANGED <<breezer, client, told, orders>>
  BY DEF Nats!Break
<1>3. Bears(Now(breezer, orders), client.buffer, sent) /\ sent.up = link.up /\ sent.requests = link.requests
  <2>1. Bears(Now(breezer, orders), client.buffer, link)
    BY <1>1 DEF CommandsAre
  <2>2. Streams(Now(breezer, orders), Nats!Broken)
    BY BrokenStreams
  <2>3. Now(breezer, orders) \subseteq NatsMessage
    BY GoodAre DEF Now
  <2> QED  BY <2>1, <2>2, <2>3, SentCarries
<1> HIDE DEF sent
<1>4. LinkIs(link') /\ link'.up = link.up /\ link'.bytes = sent.bytes /\ link'.requests = link.requests
  <2>1. sent = [up |-> sent.up, bytes |-> sent.bytes, mail |-> sent.mail, cut |-> sent.cut, requests |-> sent.requests,
                losses |-> sent.losses]
        /\ sent.cut \in Nat /\ sent.losses \in Nat
    BY <1>3 DEF Bears, LinkIs
  <2> DEFINE losses == sent.losses + 1
  <2>2. losses \in Nat
    BY <2>1
  <2>3. link' = [up |-> sent.up, bytes |-> sent.bytes, mail |-> sent.mail, cut |-> sent.cut, requests |-> sent.requests,
                 losses |-> losses]
    BY <1>2, <2>1
  <2> HIDE DEF losses
  <2>4. LinkIs(link') /\ link'.up = sent.up /\ link'.bytes = sent.bytes /\ link'.requests = sent.requests
    BY <2>1, <2>2, <2>3, LinkMade
  <2> QED  BY <1>3, <2>4
<1>5. Bears(Now(breezer, orders), client.buffer, link')
  BY <1>3, <1>4 DEF Bears
<1>6. WhileDown(link', client)
  BY <1>1, <1>2, <1>4 DEF CommandsAre, WhileDown
<1>7. RequestsAre(breezer, orders, link') /\ Loaded(breezer, orders, link', client)
  BY <1>1, <1>4 DEF CommandsAre, RequestsAre, Loaded
<1>8. CommandsAre(breezer', orders', link', client')
  BY <1>1, <1>2, <1>5, <1>6, <1>7 DEF CommandsAre
<1> QED  BY <1>8, NextCommandsIs

\* Nothing on its way, nothing to read.
LEMMA NothingCarries ==
    ASSUME NEW G, NEW l, LinkIs(l), l.bytes = <<>>
    PROVE  Bears(G, <<>>, l)
<1>1. Streams(G, <<>>)
  BY NothingStreams
<1>2. <<>> \o <<>> = <<>> /\ <<>> \in Seq(Nat)
  OBVIOUS
<1> QED  BY <1>1, <1>2 DEF Bears

\* A connection that is lost, of a client that may be.
LEMMA LostCommands ==
    ASSUME CommandsAre(breezer, orders, link, client), NEW c, ClientIs(breezer.product, orders, c), c.dps = client.dps \/ breezer.product # "none",
           c.profile = client.profile, NEW losses \in Nat, Nats!Lost(c, losses), UNCHANGED <<breezer, orders>>
    PROVE  Commands'
<1>1. PICK requests \in {link.requests, <<>>} :
        link' = [link EXCEPT !.up = FALSE, !.bytes = <<>>, !.mail = <<>>, !.requests = requests, !.losses = @ + losses]
  BY DEF Nats!Lost
<1>2. client' = [c EXCEPT !.buffer = <<>>, !.waiting = 0, !.result = IF c.waiting # 0 THEN "lost" ELSE @]
  BY DEF Nats!Lost
<1>3. LinkIs(link') /\ link'.up = FALSE /\ link'.bytes = <<>> /\ link'.requests = requests
  <2>1. link = [up |-> link.up, bytes |-> link.bytes, mail |-> link.mail, cut |-> link.cut, requests |-> link.requests,
                losses |-> link.losses]
        /\ link.cut \in Nat /\ link.losses \in Nat
    BY DEF CommandsAre, Bears, LinkIs
  <2> DEFINE down == FALSE
             none == <<>>
             all == link.losses + losses
  <2>2. all \in Nat /\ down = FALSE /\ none = <<>>
    BY <2>1
  <2>3. link' = [up |-> down, bytes |-> none, mail |-> none, cut |-> link.cut, requests |-> requests, losses |-> all]
    BY <1>1, <2>1
  <2> HIDE DEF down, none, all
  <2>4. LinkIs(link') /\ link'.up = down /\ link'.bytes = none /\ link'.requests = requests
    BY <2>1, <2>2, <2>3, LinkMade
  <2> QED  BY <2>2, <2>4
<1>4. IsClient(c) /\ (c.result = "ok" => orders.made \in DOMAIN orders.done) /\ KnowsTop(breezer.product, c.dps)
  BY DEF ClientIs
<1>5. /\ IsClient(client') /\ client'.waiting = 0 /\ client'.buffer = <<>> /\ client'.dps = c.dps /\ client'.profile = c.profile
      /\ client'.result \in {"lost", c.result}
  BY <1>2, <1>4 DEF IsClient
<1>6. ClientIs(breezer.product, orders, client')
  BY <1>4, <1>5 DEF ClientIs
<1>7. Bears(Now(breezer, orders), client'.buffer, link')
  BY <1>3, <1>5, NothingCarries
<1>8. WhileDown(link', client')
  BY <1>3, <1>5 DEF WhileDown
<1>9. RequestsAre(breezer, orders, link')
  <2>1. RequestsAre(breezer, orders, link)
    BY DEF CommandsAre
  <2>2. CASE link'.requests = <<>>
    <3>1. DOMAIN link'.requests = {} /\ link'.requests \in Seq(Seq(Nat))
      BY <2>2
    <3> QED  BY <3>1 DEF RequestsAre
  <2> QED  BY <1>3, <2>1, <2>2 DEF RequestsAre
<1>10. Loaded(breezer, orders, link', client')
  <2>1. Loaded(breezer, orders, link, client)
    BY DEF CommandsAre
  <2> QED  BY <1>3, <1>5, <2>1 DEF Loaded
<1>11. BreezerIs(breezer) /\ OrdersAre(breezer.product, orders)
  BY DEF CommandsAre
<1>12. CommandsAre(breezer, orders, link', client')
  BY <1>6, <1>7, <1>8, <1>9, <1>10, <1>11 DEF CommandsAre
<1>13. CommandsAre(breezer', orders', link', client')
  BY <1>12
<1> QED  BY <1>13, NextCommandsIs

\* A link is lost.
LEMMA LoseCommands ==
    ASSUME Commands, Nats!Lose
    PROVE  Commands'
<1>1. CommandsAre(breezer, orders, link, client)
  BY CommandsIs
<1> DEFINE one == 1
<1>2. one \in Nat /\ Nats!Lost(client, one) /\ UNCHANGED <<breezer, orders>>
  BY DEF Nats!Lose
<1>3. ClientIs(breezer.product, orders, client)
  BY <1>1 DEF CommandsAre
<1> HIDE DEF one
<1> QED  BY <1>1, <1>2, <1>3, LostCommands

\* A model that was loaded is one of them, and its breezer has the facts of one.
LEMMA ModelIs ==
    ASSUME NEW b, BreezerIs(b), b.product # "none"
    PROVE  b.product \in ProductNames /\ FactsAre(b.facts) /\ b.facts["fan_speed_maxavail"] = Nats!SpeedMax(b.product)
<1> QED  BY DEF BreezerIs

\* A connection begins with a report of what is so, or with silence.
LEMMA ConnectCommands ==
    ASSUME Commands, Nats!Connect
    PROVE  Commands'
<1>1. CommandsAre(breezer, orders, link, client)
  BY CommandsIs
<1> DEFINE up == [link EXCEPT !.up = TRUE]
           nine == 9
           Text(codes) == Nats!Message("plain", Nats!REPORT, Nats!Report(Nats!Dps(codes, breezer.facts), nine))
<1>2. /\ ~link.up /\ breezer.product # "none"
      /\ client' = [client EXCEPT !.buffer = <<>>] /\ UNCHANGED <<breezer, told, orders>>
  BY DEF Nats!Connect
<1>3. PICK codes, tells : link' = Nats!Sent(up, Text(codes), tells) \/ link' = up
  BY DEF Nats!Connect
<1>4. BreezerIs(breezer) /\ ClientIs(breezer.product, orders, client) /\ LinkIs(link) /\ WhileDown(link, client)
  BY <1>1 DEF CommandsAre, Bears
<1>5. LinkIs(up) /\ up.up /\ up.bytes = <<>> /\ up.requests = link.requests /\ link.bytes = <<>> /\ client.buffer = <<>>
  <2>1. link.bytes = <<>> /\ client.buffer = <<>>
    BY <1>2, <1>4 DEF WhileDown
  <2>2. LinkIs(up) /\ up.up /\ up.bytes = link.bytes /\ up.requests = link.requests
    <3> DEFINE yes == TRUE
    <3>1. link = [up |-> link.up, bytes |-> link.bytes, mail |-> link.mail, cut |-> link.cut, requests |-> link.requests, losses |-> link.losses]
      BY <1>4 DEF LinkIs
    <3>2. up = [link EXCEPT !.up = yes] /\ yes = TRUE
      OBVIOUS
    <3> HIDE DEF yes, up
    <3>3. up.up = yes /\ up.bytes = link.bytes /\ up.requests = link.requests
      BY <3>1, <3>2
    <3>4. up = [up |-> up.up, bytes |-> up.bytes, mail |-> up.mail, cut |-> up.cut, requests |-> up.requests, losses |-> up.losses]
      BY <3>1, <3>2
    <3>5. LinkIs(up)
      <4>1. up.cut = link.cut /\ up.losses = link.losses
        BY <3>1, <3>2
      <4>2. link.cut \in Nat /\ link.losses \in Nat
        BY <1>4 DEF LinkIs
      <4> QED  BY <3>4, <4>1, <4>2 DEF LinkIs
    <3> QED  BY <3>2, <3>3, <3>5
  <2> HIDE DEF up
  <2> QED  BY <2>1, <2>2
<1>6. IsClient(client') /\ client' = client
  BY <1>2, <1>4, <1>5 DEF ClientIs, IsClient
<1>7. Bears(Now(breezer, orders), <<>>, up)
  <2> HIDE DEF up
  <2> QED  BY <1>5, NothingCarries
<1>8. Streams(Now(breezer, orders), Text(codes))
  <2> DEFINE dps == Nats!Dps(codes, breezer.facts)
  <2>1. FactsAre(breezer.facts) /\ breezer.facts["fan_speed_maxavail"] = Nats!SpeedMax(breezer.product)
    BY <1>2, <1>4, ModelIs
  <2>2. dps \in Seq(GoodDps(breezer.product)) /\ Len(dps) <= 9
    BY <2>1, DpsFit
  <2>3. nine \in Number
    <3>1. nine \in 0 .. 100
      OBVIOUS
    <3> HIDE DEF nine
    <3> QED  BY <3>1, SmallNumbers
  <2>4. "plain" \in Nats!Styles
    BY DEF Nats!Styles
  <2> HIDE DEF nine, dps
  <2>5. Streams(GoodMessages(breezer.product, DOMAIN orders.done), Nats!Message("plain", Nats!REPORT, Nats!Report(dps, nine)))
    BY <2>2, <2>3, <2>4, ReportIsGood
  <2> QED  BY <2>5 DEF dps, Now
<1> HIDE DEF up, Text
<1>9. Bears(Now(breezer, orders), <<>>, link') /\ link'.up /\ link'.requests = link.requests
  <2>1. Now(breezer, orders) \subseteq NatsMessage
    BY GoodAre DEF Now
  <2>2. CASE link' = up
    BY <1>5, <1>7, <2>2
  <2>3. CASE link' = Nats!Sent(up, Text(codes), tells)
    BY <1>5, <1>7, <1>8, <2>1, <2>3, SentCarries
  <2> QED  BY <1>3, <2>2, <2>3
<1>10. WhileDown(link', client)
  <2>1. link'.up \in BOOLEAN
    <3>1. Nats!Sent(up, Text(codes), tells).up = up.up
      <4> DEFINE text == Text(codes)
      <4>1. Nats!Sent(up, text, tells) = [up EXCEPT !.bytes = up.bytes \o text,
                                              !.mail = Append(up.mail, [left |-> Len(text), tells |-> tells])]
        BY DEF Nats!Sent
      <4> HIDE DEF text
      <4>2. Nats!Sent(up, text, tells).up = up.up
        BY <1>5, <4>1 DEF LinkIs
      <4> QED  BY <4>2 DEF text
    <3>2. up.up = TRUE
      BY <1>4 DEF LinkIs, up
    <3> QED  BY <1>3, <3>1, <3>2
  <2> QED  BY <1>9, <2>1 DEF WhileDown
<1>11. RequestsAre(breezer, orders, link') /\ Loaded(breezer, orders, link', client)
  BY <1>1, <1>2, <1>9 DEF CommandsAre, RequestsAre, Loaded
<1>12. CommandsAre(breezer, orders, link', client)
  BY <1>1, <1>5, <1>9, <1>10, <1>11 DEF CommandsAre
<1>13. CommandsAre(breezer', orders', link', client')
  BY <1>2, <1>6, <1>12
<1> QED  BY <1>13, NextCommandsIs

-----------------------------------------------------------------------------
(* Steps of the breezer *)

\* The highest speed of a model, as a fact.
LEMMA SpeedMaxIs == \A product : Nats!SpeedMax(product) \in Signed
<1>1. 4 \in Signed /\ 6 \in Signed
  <2>1. 4 \in Signed
    BY SignedAre
  <2>2. 6 \in Signed
    BY SignedAre
  <2> QED  BY <2>1, <2>2
<1> QED  BY <1>1 DEF Nats!SpeedMax

\* A breezer of a model is what it is made of.
LEMMA BreezerMade ==
    ASSUME NEW b, NEW product \in ProductNames, NEW facts, FactsAre(facts), NEW changes \in Nat,
           facts["fan_speed_maxavail"] = Nats!SpeedMax(product),
           b = [product |-> product, facts |-> facts, changes |-> changes]
    PROVE  BreezerIs(b) /\ b.product = product /\ b.facts = facts
<1>1. b.product = product /\ b.facts = facts /\ b.changes = changes
  OBVIOUS
<1>2. b = [product |-> b.product, facts |-> b.facts, changes |-> b.changes]
  BY <1>1
<1>3. BreezerIs(b)
  BY <1>1, <1>2 DEF BreezerIs
<1> QED  BY <1>1, <1>3

\* A fact that takes the place of another.
FactIs(code, fact) ==
    /\ code \in {"on_off", "heater_on_off"} => fact \in BOOLEAN
    /\ code \in {"fan_speed_level", "target_temperature", "temp_outdoor", "temp_indoor", "fan_speed_maxavail"} => fact \in Signed
    /\ code = "flap_mode" => fact \in Texts

\* Facts stay facts if one of them changes.
LEMMA FactsChange ==
    ASSUME NEW facts, FactsAre(facts), NEW code \in Nats!Aspects, NEW fact, FactIs(code, fact)
    PROVE  FactsAre([facts EXCEPT ![code] = fact])
<1> DEFINE f == [facts EXCEPT ![code] = fact]
<1>1. DOMAIN f = Nats!Aspects
  BY DEF FactsAre
<1>2. \A a \in Nats!Aspects : f[a] = IF a = code THEN fact ELSE facts[a]
  BY DEF FactsAre
<1>3. {"on_off", "fan_speed_level", "fan_speed_maxavail", "target_temperature", "temp_outdoor",
       "temp_indoor", "heater_on_off", "flap_mode"} \subseteq Nats!Aspects
  BY DEF Nats!Aspects
<1> HIDE DEF f
<1>4. f["on_off"] \in BOOLEAN /\ f["heater_on_off"] \in BOOLEAN
  BY <1>2, <1>3 DEF FactIs, FactsAre
<1>5. f["fan_speed_level"] \in Signed /\ f["target_temperature"] \in Signed
  BY <1>2, <1>3 DEF FactIs, FactsAre
<1>6. f["temp_outdoor"] \in Signed /\ f["temp_indoor"] \in Signed /\ f["fan_speed_maxavail"] \in Signed
  BY <1>2, <1>3 DEF FactIs, FactsAre
<1>7. f["flap_mode"] \in Texts
  BY <1>2, <1>3 DEF FactIs, FactsAre
<1> QED  BY <1>1, <1>4, <1>5, <1>6, <1>7 DEF FactsAre, f

\* The profile that is read is that of the model.
LEMMA LoadProfileCommands ==
    ASSUME Commands, Nats!LoadProfile
    PROVE  Commands'
<1>1. CommandsAre(breezer, orders, link, client)
  BY CommandsIs
<1>2. PICK i \in DOMAIN Nats!Products, cut \in Cuts :
        /\ breezer' = [breezer EXCEPT !.product = Nats!Products[i], !.facts.fan_speed_maxavail = Nats!SpeedMax(Nats!Products[i])]
        /\ link' = [link EXCEPT !.cut = cut]
        /\ \E profile \in Nats!DecodeProfile(Nats!Catalogue(Nats!Products[i])) : client' = [client EXCEPT !.profile = profile]
  BY DEF Nats!LoadProfile
<1> DEFINE product == Nats!Products[i]
           facts == [breezer.facts EXCEPT !["fan_speed_maxavail"] = Nats!SpeedMax(product)]
<1>3. breezer.product = "none" /\ UNCHANGED <<told, orders>>
  BY DEF Nats!LoadProfile
<1>4. product \in ProductNames
  <2>1. DOMAIN Nats!Products = 1 .. 3
    BY DEF Nats!Products
  <2>2. Nats!Products[1] \in ProductNames /\ Nats!Products[2] \in ProductNames /\ Nats!Products[3] \in ProductNames
    BY DEF Nats!Products, ProductNames
  <2> QED  BY <2>1, <2>2
<1>5. PICK profile \in Nats!DecodeProfile(Nats!Catalogue(product)) : client' = [client EXCEPT !.profile = profile]
  BY <1>2
<1> HIDE DEF product
<1>6. ProfileFits(product, profile)
  BY <1>4, <1>5, CatalogueFits
<1>7. BreezerIs(breezer) /\ OrdersAre(breezer.product, orders) /\ ClientIs(breezer.product, orders, client)
      /\ Bears(Now(breezer, orders), client.buffer, link) /\ WhileDown(link, client) /\ Loaded(breezer, orders, link, client)
  BY <1>1 DEF CommandsAre
<1>8. ~link.up /\ link.up \in BOOLEAN /\ link.requests = <<>> /\ client.dps = Nats!Empty /\ orders.made = 0 /\ client.buffer = <<>> /\ link.bytes = <<>>
  BY <1>3, <1>7 DEF Loaded, WhileDown
<1>9. breezer = [product |-> breezer.product, facts |-> breezer.facts, changes |-> breezer.changes] /\ FactsAre(breezer.facts)
  BY <1>7 DEF BreezerIs
<1>10. breezer' = [product |-> product, facts |-> facts, changes |-> breezer.changes]
  <2>1. breezer' = [breezer EXCEPT !.product = product, !.facts.fan_speed_maxavail = Nats!SpeedMax(product)]
    BY <1>2 DEF product
  <2> QED  BY <1>9, <2>1
<1>11. FactsAre(facts) /\ facts["fan_speed_maxavail"] = Nats!SpeedMax(product)
  <2>1. "fan_speed_maxavail" \in Nats!Aspects
    BY DEF Nats!Aspects
  <2>2. FactIs("fan_speed_maxavail", Nats!SpeedMax(product))
    BY SpeedMaxIs DEF FactIs
  <2>3. DOMAIN breezer.facts = Nats!Aspects
    BY <1>9 DEF FactsAre
  <2> QED  BY <1>9, <2>1, <2>2, <2>3, FactsChange
<1> HIDE DEF facts
<1>12. BreezerIs(breezer') /\ breezer'.product = product
  <2>1. breezer.changes \in Nat
    BY <1>7 DEF BreezerIs
  <2> QED  BY <1>4, <1>10, <1>11, <2>1, BreezerMade
<1>13. LinkIs(link') /\ link'.up = link.up /\ link'.bytes = <<>> /\ link'.requests = <<>>
  <2>1. link = [up |-> link.up, bytes |-> link.bytes, mail |-> link.mail, cut |-> link.cut, requests |-> link.requests, losses |-> link.losses]
    BY <1>7 DEF Bears, LinkIs
  <2>2. link' = [up |-> link.up, bytes |-> link.bytes, mail |-> link.mail, cut |-> cut, requests |-> link.requests, losses |-> link.losses]
    BY <1>2, <2>1
  <2>3. cut \in Nat /\ link.losses \in Nat
    BY <1>7, BoundsAssumption DEF Bears, LinkIs
  <2>4. link'.cut = cut /\ link'.losses = link.losses /\ link'.up = link.up /\ link'.bytes = link.bytes /\ link'.requests = link.requests
    BY <2>2
  <2>5. link' = [up |-> link'.up, bytes |-> link'.bytes, mail |-> link'.mail, cut |-> link'.cut, requests |-> link'.requests,
                 losses |-> link'.losses]
    BY <2>2
  <2>6. LinkIs(link')
    BY <2>3, <2>4, <2>5 DEF LinkIs
  <2> QED  BY <1>8, <2>4, <2>6
<1>14. IsClient(client) /\ client.waiting \in {0, orders.made} /\ (client.result = "ok" => orders.made \in DOMAIN orders.done)
  BY <1>7 DEF ClientIs
<1>15. /\ IsClient(client') /\ client'.profile = profile /\ client'.dps = client.dps /\ client'.buffer = client.buffer
       /\ client'.waiting = client.waiting /\ client'.result = client.result
  BY <1>5, <1>14 DEF IsClient
<1>16. KnowsTop(product, client'.dps)
  <2>1. DOMAIN client'.dps = {}
    BY <1>8, <1>15 DEF Nats!Empty
  <2> QED  BY <2>1 DEF KnowsTop
<1>17. ClientIs(product, orders, client')
  BY <1>14, <1>15, <1>16 DEF ClientIs
<1>18. OrdersAre(product, orders)
  <2>1. DOMAIN orders.done = {}
    BY <1>7, <1>8 DEF OrdersAre
  <2> QED  BY <1>7, <2>1 DEF OrdersAre
<1>19. Bears(Now(breezer', orders), client'.buffer, link')
  BY <1>8, <1>13, <1>15, NothingCarries
<1>20. WhileDown(link', client')
  BY <1>8, <1>13, <1>15 DEF WhileDown
<1>21. RequestsAre(breezer', orders, link')
  <2>1. DOMAIN link'.requests = {} /\ link'.requests \in Seq(Seq(Nat))
    BY <1>13
  <2> QED  BY <2>1 DEF RequestsAre
<1>22. Loaded(breezer', orders, link', client')
  <2>1. product # "none"
    BY <1>4 DEF ProductNames
  <2> QED  BY <1>6, <1>12, <1>15, <2>1 DEF Loaded
<1>23. CommandsAre(breezer', orders, link', client')
  BY <1>12, <1>17, <1>18, <1>19, <1>20, <1>21, <1>22 DEF CommandsAre
<1>24. CommandsAre(breezer', orders', link', client')
  BY <1>3, <1>23
<1> QED  BY <1>24, NextCommandsIs

\* What may become the case is of its kind.
LEMMA FactsOfAre ==
    ASSUME NEW code \in Nats!Aspects, NEW fact \in Nats!FactsOf(code)
    PROVE  FactIs(code, fact) /\ code # "fan_speed_maxavail"
<1>1. 4 \in Signed /\ 0 \in Signed /\ 3 \in Signed /\ 300 \in Signed /\ -7 \in Signed
  <2>1. 4 \in Signed
    BY SignedAre
  <2>2. 0 \in Signed
    BY SignedAre
  <2>3. 3 \in Signed
    BY SignedAre
  <2>4. 300 \in Signed
    BY SignedAre
  <2>5. -7 \in Signed
    BY SignedAre
  <2> QED  BY <2>1, <2>2, <2>3, <2>4, <2>5
<1>2. CASE code \in {"on_off", "heater_on_off"}
  BY <1>2 DEF Nats!FactsOf, FactIs
<1>3. CASE code = "fan_speed_level"
  BY <1>1, <1>3 DEF Nats!FactsOf, FactIs
<1>4. CASE code = "target_temperature"
  BY <1>1, <1>4 DEF Nats!FactsOf, FactIs
<1>5. CASE code = "temp_outdoor"
  BY <1>1, <1>5 DEF Nats!FactsOf, FactIs
<1>6. CASE code = "temp_indoor"
  BY <1>1, <1>6 DEF Nats!FactsOf, FactIs
<1>7. CASE code = "climatic_flags"
  BY <1>7 DEF Nats!FactsOf, FactIs
<1>8. CASE code = "flap_mode"
  BY <1>8 DEF Nats!FactsOf, FactIs, Texts
<1>9. CASE code = "fan_speed_maxavail"
  <2>1. Nats!FactsOf(code) = {}
    BY <1>9 DEF Nats!FactsOf
  <2> QED  BY <2>1
<1> QED  BY <1>2, <1>3, <1>4, <1>5, <1>6, <1>7, <1>8, <1>9 DEF Nats!Aspects

\* A report tells no other highest speed, and is no answer.
LEMMA ChangeCommands ==
    ASSUME Commands, Nats!Change
    PROVE  Commands'
<1>1. CommandsAre(breezer, orders, link, client)
  BY CommandsIs
<1> DEFINE zero == 0
           Facts(code, fact) == [breezer.facts EXCEPT ![code] = fact]
           Text(code, fact, style) == Nats!Message(style, Nats!REPORT, Nats!Report(Nats!Dps({code}, Facts(code, fact)), zero))
<1>2. PICK code \in Nats!Aspects : \E fact \in Nats!FactsOf(code), style \in IF code = "on_off" THEN Nats!Styles ELSE {"plain"} : \E tells :
        /\ breezer' = [breezer EXCEPT !.facts = Facts(code, fact), !.changes = @ + 1]
        /\ link' = IF ~link.up THEN link ELSE Nats!Sent(link, Text(code, fact, style), tells)
  BY DEF Nats!Change
<1>30. PICK fact \in Nats!FactsOf(code), style \in IF code = "on_off" THEN Nats!Styles ELSE {"plain"} : \E tells :
        /\ breezer' = [breezer EXCEPT !.facts = Facts(code, fact), !.changes = @ + 1]
        /\ link' = IF ~link.up THEN link ELSE Nats!Sent(link, Text(code, fact, style), tells)
  BY <1>2
<1>3. PICK tells :
        /\ breezer' = [breezer EXCEPT !.facts = Facts(code, fact), !.changes = @ + 1]
        /\ link' = IF ~link.up THEN link ELSE Nats!Sent(link, Text(code, fact, style), tells)
  BY <1>30
<1>4. breezer.product # "none" /\ UNCHANGED <<client, told, orders>>
  BY DEF Nats!Change
<1>5. style \in Nats!Styles
  BY DEF Nats!Styles
<1>6. BreezerIs(breezer) /\ Bears(Now(breezer, orders), client.buffer, link) /\ WhileDown(link, client)
      /\ RequestsAre(breezer, orders, link) /\ Loaded(breezer, orders, link, client)
  BY <1>1 DEF CommandsAre
<1>7. breezer.product \in ProductNames /\ FactsAre(breezer.facts) /\ breezer.facts["fan_speed_maxavail"] = Nats!SpeedMax(breezer.product)
  BY <1>4, <1>6, ModelIs
<1> DEFINE facts == Facts(code, fact)
<1>8. FactsAre(facts) /\ facts["fan_speed_maxavail"] = Nats!SpeedMax(breezer.product)
  <2>1. FactIs(code, fact) /\ code # "fan_speed_maxavail"
    BY FactsOfAre
  <2>2. facts["fan_speed_maxavail"] = breezer.facts["fan_speed_maxavail"]
    BY <2>1
  <2>3. FactsAre(facts)
    BY <1>7, <2>1, FactsChange
  <2> QED  BY <1>7, <2>2, <2>3
<1>9. Streams(Now(breezer, orders), Text(code, fact, style))
  <2> DEFINE dps == Nats!Dps({code}, facts)
  <2> HIDE DEF facts
  <2>1. dps \in Seq(GoodDps(breezer.product)) /\ Len(dps) <= 9
    BY <1>8, DpsFit
  <2>2. zero \in Number
    <3>1. zero \in 0 .. 100
      OBVIOUS
    <3> HIDE DEF zero
    <3> QED  BY <3>1, SmallNumbers
  <2> HIDE DEF zero, dps
  <2>3. Streams(GoodMessages(breezer.product, DOMAIN orders.done), Nats!Message(style, Nats!REPORT, Nats!Report(dps, zero)))
    BY <1>5, <2>1, <2>2, ReportIsGood
  <2> QED  BY <2>3 DEF dps, Now, facts
<1>10. breezer = [product |-> breezer.product, facts |-> breezer.facts, changes |-> breezer.changes]
  BY <1>6 DEF BreezerIs
<1> HIDE DEF Facts, Text
<1>11. breezer' = [product |-> breezer.product, facts |-> facts, changes |-> breezer.changes + 1]
  <2> HIDE DEF facts
  <2>1. breezer' = [breezer EXCEPT !.facts = facts, !.changes = @ + 1]
    BY <1>3 DEF facts
  <2> QED  BY <1>10, <2>1
<1> HIDE DEF facts
<1>12. BreezerIs(breezer') /\ breezer'.product = breezer.product
  <2> DEFINE product == breezer.product
             changes == breezer.changes + 1
  <2>1. changes \in Nat
    BY <1>6 DEF BreezerIs
  <2>2. product \in ProductNames /\ facts["fan_speed_maxavail"] = Nats!SpeedMax(product)
        /\ breezer' = [product |-> product, facts |-> facts, changes |-> changes]
    BY <1>7, <1>8, <1>11
  <2> HIDE DEF product, changes
  <2>3. BreezerIs(breezer') /\ breezer'.product = product
    BY <1>8, <2>1, <2>2, BreezerMade
  <2> QED  BY <2>3 DEF product
<1>13. Bears(Now(breezer, orders), client.buffer, link') /\ link'.up = link.up /\ link'.requests = link.requests
  <2>1. Now(breezer, orders) \subseteq NatsMessage
    BY GoodAre DEF Now
  <2>2. CASE ~link.up
    <3>1. link' = link
      BY <1>3, <2>2
    <3> QED  BY <1>6, <3>1
  <2>3. CASE link.up
    <3>1. link' = Nats!Sent(link, Text(code, fact, style), tells)
      BY <1>3, <2>3
    <3> QED  BY <1>6, <1>9, <2>1, <3>1, SentCarries
  <2> QED  BY <2>2, <2>3
<1>14. WhileDown(link', client)
  <2>1. CASE ~link.up
    <3>1. link' = link
      BY <1>3, <2>1
    <3> QED  BY <1>6, <3>1
  <2> QED  BY <1>6, <1>13, <2>1 DEF WhileDown
<1>15. Now(breezer', orders) = Now(breezer, orders)
  BY <1>12 DEF Now
<1>16. RequestsAre(breezer', orders, link') /\ Loaded(breezer', orders, link', client)
  BY <1>6, <1>12, <1>13 DEF RequestsAre, Loaded
<1>17. OrdersAre(breezer'.product, orders) /\ ClientIs(breezer'.product, orders, client)
  BY <1>1, <1>12 DEF CommandsAre
<1>18. CommandsAre(breezer', orders, link', client)
  BY <1>12, <1>13, <1>14, <1>15, <1>16, <1>17 DEF CommandsAre
<1>19. CommandsAre(breezer', orders', link', client')
  BY <1>4, <1>18
<1> QED  BY <1>19, NextCommandsIs

-----------------------------------------------------------------------------
(* What arrives *)

\* A sequence is what it is cut into.
LEMMA CutInTwo ==
    ASSUME NEW s \in Seq(Nat), NEW n \in Nat, n <= Len(s)
    PROVE  /\ SubSeq(s, 1, n) \in Seq(Nat) /\ SubSeq(s, n + 1, Len(s)) \in Seq(Nat)
           /\ SubSeq(s, 1, n) \o SubSeq(s, n + 1, Len(s)) = s
<1> DEFINE a == SubSeq(s, 1, n)
           b == SubSeq(s, n + 1, Len(s))
           z == a \o b
<1>1. a \in Seq(Nat) /\ b \in Seq(Nat)
  BY Part
<1>2. Len(a) = n /\ \A k \in 1 .. n : a[k] = s[k]
  OBVIOUS
<1>3. Len(b) = Len(s) - n /\ \A k \in 1 .. Len(s) - n : b[k] = s[n + k]
  OBVIOUS
<1> HIDE DEF a, b
<1>4. InTurn(a, b, Nat)
  BY <1>1, Both
<1>5. z \in Seq(Nat) /\ Len(z) = Len(s)
  BY <1>2, <1>3, <1>4 DEF InTurn
<1>6. \A k \in 1 .. Len(s) : z[k] = s[k]
  <2> TAKE k \in 1 .. Len(s)
  <2>1. CASE k <= n
    <3>1. k \in 1 .. Len(a)
      BY <1>2, <2>1
    <3> QED  BY <1>2, <1>4, <3>1 DEF InTurn
  <2>2. CASE k > n
    <3> DEFINE j == k - n
    <3>1. j \in 1 .. Len(b) /\ k = Len(a) + j /\ k = n + j /\ j \in 1 .. Len(s) - n
      BY <1>2, <1>3, <2>2
    <3> HIDE DEF j
    <3>2. z[Len(a) + j] = b[j]
      BY <1>4, <3>1 DEF InTurn
    <3>3. z[k] = b[j]
      BY <3>1, <3>2
    <3>4. b[j] = s[n + j]
      BY <1>3, <3>1
    <3>5. s[n + j] = s[k]
      BY <3>1
    <3> QED  BY <3>3, <3>4, <3>5
  <2>3. k <= n \/ k > n
    OBVIOUS
  <2> HIDE DEF z
  <2> QED  BY <2>1, <2>2, <2>3
<1> HIDE DEF z
<1>7. z = s
  BY <1>5, <1>6
<1> QED  BY <1>1, <1>7 DEF z, a, b

\* What is left of some bytes.
LEMMA LeftIs ==
    ASSUME NEW x \in Seq(Nat)
    PROVE  Left(x) \in Seq(Nat)
<1>1. Nats!Ops(x) \in OpsRead /\ Nats!Ops(x).rest \in 1 .. Len(x) + 1
  BY RestIs
<1> DEFINE p == Nats!Ops(x).rest
           n == Len(x)
<1>2. p \in Int /\ p >= 1 /\ n \in Int /\ n <= Len(x)
  BY <1>1
<1> HIDE DEF p, n
<1>3. SubSeq(x, p, n) \in Seq(Nat)
  BY <1>2, Part
<1> QED  BY <1>3 DEF Left, p, n

\* A client with other bytes to read.
LEMMA WithIs ==
    ASSUME NEW c, IsClient(c), NEW x
    PROVE  LET k == With(c, x)
           IN /\ IsClient(k) /\ k.buffer = x /\ k.profile = c.profile /\ k.dps = c.dps
              /\ k.waiting = c.waiting /\ k.result = c.result
<1> DEFINE k == With(c, x)
<1>1. c = [profile |-> c.profile, dps |-> c.dps, buffer |-> c.buffer, waiting |-> c.waiting, result |-> c.result]
  BY DEF IsClient
<1>2. k = [profile |-> c.profile, dps |-> c.dps, buffer |-> x, waiting |-> c.waiting, result |-> c.result]
  BY <1>1 DEF With
<1> HIDE DEF k
<1>3. k.buffer = x /\ k.profile = c.profile /\ k.dps = c.dps /\ k.waiting = c.waiting /\ k.result = c.result
  BY <1>2
<1>4. IsClient(k)
  BY <1>2 DEF IsClient
<1> QED  BY <1>3, <1>4 DEF k

\* What the client has made of some bytes more.
FedWith(c, bytes) == Nats!Feed([c EXCEPT !.buffer = @ \o bytes])

\* What is fed moves from the bytes to the client, whole message by whole message.
LEMMA FedCommands ==
    ASSUME NEW product, NEW o, NEW c, ClientIs(product, o, c), c.buffer \in Seq(Nat), NEW a \in Seq(Nat), NEW b \in Seq(Nat),
           Streams(GoodMessages(product, DOMAIN o.done), c.buffer \o (a \o b))
    PROVE  LET fed == FedWith(c, a)
           IN /\ ClientIs(product, o, fed.client) /\ fed.client.profile = c.profile
              /\ ~fed.broken => fed.client.buffer \in Seq(Nat)
                                /\ Streams(GoodMessages(product, DOMAIN o.done), fed.client.buffer \o b)
<1> DEFINE G == GoodMessages(product, DOMAIN o.done)
           x == c.buffer \o a
           k == [c EXCEPT !.buffer = x]
           fed == Nats!Feed(k)
<1>1. IsClient(c) /\ c.waiting \in {0, o.made} /\ (c.result = "ok" => o.made \in DOMAIN o.done) /\ KnowsTop(product, c.dps)
  BY DEF ClientIs
<1>2. x \in Seq(Nat)
  OBVIOUS
<1>3. Streams(G, x \o b)
  <2>1. Associate(c.buffer, a, b)
    BY Associative
  <2> QED  BY <2>1 DEF Associate
<1>4. FedWith(c, a) = fed
  BY DEF FedWith
<1> HIDE DEF x, G
<1>5. IsClient(k) /\ k.buffer = x /\ k.profile = c.profile /\ k.dps = c.dps /\ k.waiting = c.waiting /\ k.result = c.result
  <2>1. k = With(c, x)
    BY DEF With
  <2> HIDE DEF k
  <2> QED  BY <1>1, <2>1, WithIs
<1> HIDE DEF k
<1>6. ClientIs(product, o, k)
  BY <1>1, <1>5 DEF ClientIs
<1>7. Nats!Ops(x).messages \in Seq(G) /\ (Nats!Ops(x).broken \/ Streams(G, Left(x) \o b))
  BY <1>2, <1>3, StreamsCut
<1>8. k.buffer \in Seq(Nat) /\ Nats!Ops(k.buffer).messages \in Seq(GoodMessages(product, DOMAIN o.done))
  BY <1>2, <1>5, <1>7 DEF G
<1>9. /\ ClientIs(product, o, fed.client)
      /\ fed.client.buffer = Left(k.buffer) /\ fed.client.profile = k.profile
      /\ fed.broken = Nats!Ops(k.buffer).broken
  BY <1>6, <1>8, FeedKeeps
<1>10. Left(x) \in Seq(Nat)
  BY <1>2, LeftIs
<1> HIDE DEF fed
<1> QED  BY <1>4, <1>5, <1>7, <1>9, <1>10 DEF G

\* However many bytes come, the messages among them are good.
LEMMA ReceiveCommands ==
    ASSUME Commands, Nats!Receive
    PROVE  Commands'
<1>1. CommandsAre(breezer, orders, link, client)
  BY CommandsIs
<1> DEFINE n == Nats!Min({link.cut, Len(link.bytes)})
           a == SubSeq(link.bytes, 1, n)
           b == SubSeq(link.bytes, n + 1, Len(link.bytes))
           fed == FedWith(client, a)
<1>2. /\ link.up /\ UNCHANGED <<breezer, orders>>
      /\ IF fed.broken THEN Nats!Lost(fed.client, 0)
         ELSE client' = fed.client /\ \E mail : link' = [link EXCEPT !.bytes = b, !.mail = mail]
  BY DEF Nats!Receive, FedWith
<1>3. BreezerIs(breezer) /\ OrdersAre(breezer.product, orders) /\ ClientIs(breezer.product, orders, client)
      /\ Bears(Now(breezer, orders), client.buffer, link) /\ WhileDown(link, client)
      /\ RequestsAre(breezer, orders, link) /\ Loaded(breezer, orders, link, client)
  BY <1>1 DEF CommandsAre
<1>4. LinkIs(link) /\ client.buffer \in Seq(Nat) /\ link.bytes \in Seq(Nat) /\ Streams(Now(breezer, orders), client.buffer \o link.bytes)
  BY <1>3 DEF Bears
<1>5. n \in Nat /\ n <= Len(link.bytes)
  <2> DEFINE S == {link.cut, Len(link.bytes)}
  <2>1. S \in SUBSET Nat /\ S # {} /\ Len(link.bytes) \in S
    BY <1>4 DEF LinkIs
  <2> HIDE DEF S
  <2>2. Nats!Min(S) \in S /\ \A y \in S : Nats!Min(S) <= y
    BY <2>1, MinIs
  <2> QED  BY <2>1, <2>2 DEF S
<1> HIDE DEF n
<1>6. a \in Seq(Nat) /\ b \in Seq(Nat) /\ a \o b = link.bytes
  BY <1>4, <1>5, CutInTwo
<1> HIDE DEF a, b
<1>7. /\ ClientIs(breezer.product, orders, fed.client) /\ fed.client.profile = client.profile
      /\ ~fed.broken => /\ fed.client.buffer \in Seq(Nat)
                        /\ Streams(Now(breezer, orders), fed.client.buffer \o b)
  <2>1. Streams(GoodMessages(breezer.product, DOMAIN orders.done), client.buffer \o (a \o b))
    BY <1>4, <1>6 DEF Now
  <2> QED  BY <1>3, <1>4, <1>6, <2>1, FedCommands DEF Now
<1> HIDE DEF fed
<1>8. breezer.product # "none"
  BY <1>2, <1>3 DEF Loaded
<1>9. CASE fed.broken
  <2> DEFINE zero == 0
             c == fed.client
  <2>1. zero \in Nat /\ Nats!Lost(c, zero) /\ UNCHANGED <<breezer, orders>>
    BY <1>2, <1>9
  <2>2. ClientIs(breezer.product, orders, c) /\ c.profile = client.profile
    BY <1>7
  <2> HIDE DEF zero, c
  <2> QED  BY <1>1, <1>8, <2>1, <2>2, LostCommands
<1>10. CASE ~fed.broken
  <2>1. client' = fed.client
    BY <1>2, <1>10
  <2>2. PICK mail : link' = [link EXCEPT !.bytes = b, !.mail = mail]
    BY <1>2, <1>10
  <2>3. LinkIs(link') /\ link'.up = link.up /\ link'.bytes = b /\ link'.requests = link.requests
    <3>1. link = [up |-> link.up, bytes |-> link.bytes, mail |-> link.mail, cut |-> link.cut, requests |-> link.requests, losses |-> link.losses]
          /\ link.cut \in Nat /\ link.losses \in Nat
      BY <1>4 DEF LinkIs
    <3>2. link' = [up |-> link.up, bytes |-> b, mail |-> mail, cut |-> link.cut, requests |-> link.requests, losses |-> link.losses]
      BY <2>2, <3>1
    <3>3. link'.cut \in Nat /\ link'.losses \in Nat /\ link'.up = link.up /\ link'.bytes = b /\ link'.requests = link.requests
      BY <3>1, <3>2
    <3>4. link' = [up |-> link'.up, bytes |-> link'.bytes, mail |-> link'.mail, cut |-> link'.cut, requests |-> link'.requests,
                   losses |-> link'.losses]
      BY <3>2
    <3> QED  BY <3>3, <3>4 DEF LinkIs
  <2>4. Bears(Now(breezer, orders), client'.buffer, link')
    BY <1>6, <1>7, <1>10, <2>1, <2>3 DEF Bears
  <2>5. WhileDown(link', client')
    BY <1>2, <1>3, <2>3 DEF WhileDown
  <2>6. RequestsAre(breezer, orders, link') /\ Loaded(breezer, orders, link', client')
    BY <1>3, <1>7, <1>8, <2>1, <2>3 DEF RequestsAre, Loaded
  <2>7. CommandsAre(breezer, orders, link', client')
    BY <1>3, <1>7, <2>1, <2>4, <2>5, <2>6 DEF CommandsAre
  <2>8. CommandsAre(breezer', orders', link', client')
    BY <1>2, <2>7
  <2> QED  BY <2>8, NextCommandsIs
<1> QED  BY <1>9, <1>10

-----------------------------------------------------------------------------
(* A command *)

\* Orders are what they are made of.
LEMMA OrdersMade ==
    ASSUME NEW p, NEW made, NEW wanted, NEW done, p = [made |-> made, asked |-> wanted, done |-> done]
    PROVE  p.made = made /\ p.asked = wanted /\ p.done = done
OBVIOUS

\* A command that is made, behind those before.
MadeAfter(o, p, ask) ==
    /\ p.made = o.made + 1 /\ p.done = o.done
    /\ DOMAIN p.asked = 1 .. p.made
    /\ p.asked[p.made] = ask
    /\ \A c \in 1 .. o.made : p.asked[c] = o.asked[c]

\* A command more is made.
LEMMA OneMoreIsMade ==
    ASSUME NEW product, NEW o, OrdersAre(product, o), NEW ask, NEW p, o.made + 1 <= CloudActs,
           p = [o EXCEPT !.made = o.made + 1, !.asked = Nats!Over([c \in {o.made + 1} |-> ask], @)]
    PROVE  OrdersAre(product, p) /\ MadeAfter(o, p, ask)
<1> DEFINE command == o.made + 1
           one == [c \in {command} |-> ask]
           wanted == Nats!Over(one, o.asked)
<1>1. /\ o = [made |-> o.made, asked |-> o.asked, done |-> o.done]
      /\ o.made \in 0 .. CloudActs
      /\ DOMAIN o.asked = 1 .. o.made /\ DOMAIN o.done \subseteq 1 .. o.made
      /\ \A c \in DOMAIN o.done : AllMade(product, o.asked[c], o.done[c])
  BY DEF OrdersAre
<1>2. CloudActs \in Nat
  BY BoundsAssumption
<1>3. command \in 0 .. CloudActs /\ 1 .. o.made \cup {command} = 1 .. command /\ command \notin 1 .. o.made /\ o.made \in Nat
  BY <1>1, <1>2
<1>4. DOMAIN one = {command} /\ one[command] = ask
  OBVIOUS
<1> HIDE DEF one
<1>5. DOMAIN wanted = 1 .. command
  BY <1>1, <1>3, <1>4 DEF Nats!Over
<1>6. wanted[command] = ask
  BY <1>4, <1>5 DEF Nats!Over
<1>7. \A c \in 1 .. o.made : wanted[c] = o.asked[c]
  BY <1>1, <1>3, <1>4 DEF Nats!Over
<1>8. p = [made |-> command, asked |-> wanted, done |-> o.done]
  <2>1. p = [o EXCEPT !.made = command, !.asked = wanted]
    BY DEF one
  <2> HIDE DEF command, wanted
  <2> QED  BY <1>1, <2>1
<1>9. p.made = command /\ p.asked = wanted /\ p.done = o.done
  <2> DEFINE r == [made |-> command, asked |-> wanted, done |-> o.done]
  <2>1. p = r
    BY <1>8
  <2> HIDE DEF command, wanted
  <2>2. r.made = command /\ r.asked = wanted /\ r.done = o.done
    BY OrdersMade
  <2> HIDE DEF r
  <2> QED  BY <2>1, <2>2
<1> HIDE DEF wanted
<1>10. MadeAfter(o, p, ask)
  BY <1>3, <1>5, <1>6, <1>7, <1>9 DEF MadeAfter
<1>11. DOMAIN p.done \subseteq 1 .. p.made
  BY <1>1, <1>3, <1>9
<1>12. \A c \in DOMAIN p.done : AllMade(product, p.asked[c], p.done[c])
  <2> TAKE c \in DOMAIN p.done
  <2>1. c \in DOMAIN o.done /\ c \in 1 .. o.made
    BY <1>1, <1>9
  <2>2. p.asked[c] = o.asked[c] /\ p.done[c] = o.done[c]
    BY <1>7, <1>9, <2>1
  <2> QED  BY <1>1, <2>1, <2>2
<1>13. p = [made |-> p.made, asked |-> p.asked, done |-> p.done]
  BY <1>8, <1>9
<1>14. p.made \in 0 .. CloudActs /\ DOMAIN p.asked = 1 .. p.made
  BY <1>3, <1>5, <1>9
<1>15. OrdersAre(product, p)
  BY <1>11, <1>12, <1>13, <1>14 DEF OrdersAre
<1> QED  BY <1>10, <1>15

\* Some requests, and one more.
LEMMA RequestsGrow ==
    ASSUME NEW b, NEW o, NEW p, NEW l, RequestsAre(b, o, l), NEW more, RequestIs(b.product, p, more),
           NEW k, k.requests = Append(l.requests, more), more \in Seq(Nat),
           o.made \in Nat, p.made \in Nat, o.made <= p.made, \A c \in 1 .. o.made : p.asked[c] = o.asked[c]
    PROVE  RequestsAre(b, p, k)
<1> DEFINE n == Len(l.requests)
<1>0. l.requests \in Seq(Seq(Nat))
  BY DEF RequestsAre
<1>1. n \in Nat /\ DOMAIN l.requests = 1 .. n
  BY <1>0
<1>2. DOMAIN k.requests = 1 .. n + 1 /\ k.requests[n + 1] = more /\ \A i \in 1 .. n : k.requests[i] = l.requests[i]
  BY <1>0
<1>5. k.requests \in Seq(Seq(Nat))
  BY <1>0
<1> HIDE DEF n
<1>3. \A i \in 1 .. n : RequestIs(b.product, p, l.requests[i])
  <2> TAKE i \in 1 .. n
  <2>1. RequestIs(b.product, o, l.requests[i])
    BY <1>1 DEF RequestsAre
  <2> QED  BY <2>1, RequestStays
<1>4. \A i \in 1 .. n + 1 : RequestIs(b.product, p, k.requests[i])
  <2> TAKE i \in 1 .. n + 1
  <2>1. i \in 1 .. n \/ i = n + 1
    BY <1>1
  <2>2. CASE i \in 1 .. n
    BY <1>2, <1>3, <2>2
  <2>3. CASE i = n + 1
    BY <1>2, <2>3
  <2> QED  BY <2>1, <2>2, <2>3
<1> QED  BY <1>2, <1>4, <1>5 DEF RequestsAre

\* Few are nine at most.
LEMMA FewIs == \A n \in Few : n <= 9
<1> QED  BY DEF Few

\* A request is bytes.
LEMMA RequestIsBytes ==
    ASSUME NEW product, NEW command \in Number, NEW dps \in Seq(GoodDps(product)), Len(dps) \in Few
    PROVE  Nats!EncodeUpdateRequest(command, 1, dps) \in Seq(Nat)
<1> DEFINE one == 1
           two == 2
           three == 3
           four == 4
           x == Nats!EncodeVarint(two, command)
           y == Nats!EncodeVarint(three, one)
           z == Nats!Values(four, dps)
           n == Len(dps)
<1>1. two \in FieldNumber /\ three \in FieldNumber /\ four \in FieldNumber /\ one \in Number
  <2>1. two \in 0 .. 100 /\ three \in 0 .. 100 /\ four \in 0 .. 100 /\ one \in 0 .. 100
    OBVIOUS
  <2> QED  BY <2>1, SmallNumbers
<1>2. Nats!EncodeUpdateRequest(command, one, dps) = (x \o y) \o z
  BY DEF Nats!EncodeUpdateRequest, Nats!Values
<1> HIDE DEF one, two, three, four
<1>3. AtMost(x, 6) /\ AtMost(y, 6)
  <2>1. IsShort(x) /\ IsShort(y)
    BY <1>1, NumberWritten
  <2> HIDE DEF x, y
  <2> QED  BY <2>1, ShortIsFew
<1>4. AtMost(z, 216)
  <2>1. AreDps(dps, n)
    BY GoodDpsAre
  <2>2. n <= 9
    BY FewIs
  <2> HIDE DEF n
  <2> QED  BY <1>1, <2>1, <2>2, ValuesAreFew
<1> HIDE DEF x, y, z
<1>5. x \in Seq(Byte) /\ y \in Seq(Byte) /\ z \in Seq(Byte)
  BY <1>3, <1>4 DEF AtMost
<1>6. (x \o y) \o z \in Seq(Byte)
  BY <1>5
<1>7. Byte \subseteq Nat
  BY DEF Byte
<1> DEFINE all == (x \o y) \o z
<1>8. all \in Seq(Nat)
  BY <1>6, <1>7, Widened
<1> HIDE DEF all
<1> QED  BY <1>2, <1>8 DEF all, one

\* A command is made of what the adapter knows, and its request says just that.
LEMMA CommandCommands ==
    ASSUME CloudActs < Nats!Word, Commands, Nats!Command
    PROVE  Commands'
<1>1. CommandsAre(breezer, orders, link, client)
  BY CommandsIs
<1> DEFINE command == orders.made + 1
           d == Nats!Device
           Text(dps) == Nats!EncodeUpdateRequest(command, 1, dps)
<1>2. /\ link.up /\ client.waiting = 0 /\ Nats!Acts < CloudActs /\ UNCHANGED <<breezer, told>>
  BY DEF Nats!Command
<1>3. PICK ask \in {Nats!Changes(wish) : wish \in Nats!Wishes} \ {<<>>} :
        \E dps \in Nats!Each([i \in DOMAIN ask |-> Nats!Encode(d, ask[i][1], ask[i][2])]) :
          /\ orders' = [orders EXCEPT !.made = command, !.asked = Nats!Over([c \in {command} |-> ask], @)]
          /\ link' = [link EXCEPT !.requests = Append(@, Text(dps))]
          /\ client' = [client EXCEPT !.waiting = command, !.result = "none"]
  BY DEF Nats!Command
<1>4. PICK dps \in Nats!Each([i \in DOMAIN ask |-> Nats!Encode(d, ask[i][1], ask[i][2])]) :
          /\ orders' = [orders EXCEPT !.made = command, !.asked = Nats!Over([c \in {command} |-> ask], @)]
          /\ link' = [link EXCEPT !.requests = Append(@, Text(dps))]
          /\ client' = [client EXCEPT !.waiting = command, !.result = "none"]
  BY <1>3
<1>5. BreezerIs(breezer) /\ OrdersAre(breezer.product, orders) /\ ClientIs(breezer.product, orders, client)
      /\ Bears(Now(breezer, orders), client.buffer, link) /\ WhileDown(link, client)
      /\ RequestsAre(breezer, orders, link) /\ Loaded(breezer, orders, link, client)
  BY <1>1 DEF CommandsAre
<1>6. breezer.product # "none"
  BY <1>2, <1>5 DEF Loaded
<1>7. breezer.product \in ProductNames
  BY <1>5, <1>6, ModelIs
<1>8. orders.made \in Nat /\ command <= CloudActs
  <2>1. breezer.changes \in Nat /\ orders.made \in 0 .. CloudActs /\ link.losses \in Nat /\ CloudActs \in Nat
    BY <1>5, BoundsAssumption DEF BreezerIs, OrdersAre, Bears, LinkIs
  <2>2. (breezer.changes + orders.made) + link.losses < CloudActs
    BY <1>2 DEF Nats!Acts
  <2> DEFINE x == breezer.changes
             y == orders.made
             z == link.losses
  <2>3. x \in Nat /\ y \in Nat /\ z \in Nat /\ CloudActs \in Nat /\ (x + y) + z < CloudActs
    BY <2>1, <2>2
  <2> HIDE DEF x, y, z
  <2>4. y \in Nat /\ y + 1 <= CloudActs
    BY <2>3
  <2> QED  BY <2>4 DEF y
<1>9. ProfileFits(breezer.product, d.profile) /\ KnowsTop(breezer.product, d.dps)
  <2>1. d.profile = client.profile /\ d.dps = client.dps
    BY DEF Nats!Device
  <2> QED  BY <1>5, <1>6, <2>1 DEF Loaded, ClientIs
<1> DEFINE five == 5
<1>10. AskIs(ask, Names, five)
  <2>1. PICK wish \in Nats!Wishes : ask = Nats!Changes(wish)
    OBVIOUS
  <2> QED  BY <2>1, ChangesAre
<1> HIDE DEF d
<1>11. Len(ask) <= 5 /\ Len(ask) \in Nat
  BY <1>10 DEF AskIs
<1> HIDE DEF five
<1>12. AskedFor(breezer.product, ask, dps)
  BY <1>7, <1>9, <1>10, AskedForIs
<1>13. OrdersAre(breezer.product, orders') /\ MadeAfter(orders, orders', ask)
  BY <1>4, <1>5, <1>8, OneMoreIsMade
<1>14. orders'.made = command /\ command \in 1 .. orders'.made /\ orders'.asked[command] = ask /\ orders'.done = orders.done
  BY <1>8, <1>13 DEF MadeAfter
<1>15. command \in Number
  <2>1. CloudActs \in Nat /\ Nats!Word \in Nat
    BY BoundsAssumption, WordIs
  <2> QED  BY <1>8, <2>1 DEF Number
<1> HIDE DEF command
<1>16. RequestIs(breezer.product, orders', Text(dps)) /\ Text(dps) \in Seq(Nat)
  <2>1. dps \in Seq(GoodDps(breezer.product)) /\ Len(dps) = Len(ask) /\ Asks(breezer.product, ask, dps)
    BY <1>12 DEF AskedFor
  <2>2. Len(dps) \in Few
    <3> DEFINE k == Len(ask)
    <3>1. k \in Nat /\ k <= 5 /\ Len(dps) = k
      BY <1>11, <2>1
    <3> HIDE DEF k
    <3>2. k \in Few
      BY <3>1 DEF Few
    <3> QED  BY <3>1, <3>2
  <2>3. RequestIs(breezer.product, orders', Nats!EncodeUpdateRequest(command, 1, dps))
    BY <1>14, <1>15, <2>1, <2>2, RequestReads
  <2>4. Nats!EncodeUpdateRequest(command, 1, dps) \in Seq(Nat)
    BY <1>15, <2>1, <2>2, RequestIsBytes
  <2> QED  BY <2>3, <2>4
<1> HIDE DEF Text
<1>17. /\ IsClient(client') /\ client'.profile = client.profile /\ client'.dps = client.dps /\ client'.buffer = client.buffer
       /\ client'.waiting = command /\ client'.result = "none"
  <2>1. IsClient(client)
    BY <1>5 DEF ClientIs
  <2> QED  BY <1>4, <2>1 DEF IsClient
<1>18. ClientIs(breezer.product, orders', client')
  <2>1. KnowsTop(breezer.product, client.dps)
    BY <1>5 DEF ClientIs
  <2> QED  BY <1>14, <1>17, <2>1 DEF ClientIs
<1>19. LinkIs(link') /\ link'.up = link.up /\ link'.bytes = link.bytes /\ link'.requests = Append(link.requests, Text(dps))
  <2>1. link = [up |-> link.up, bytes |-> link.bytes, mail |-> link.mail, cut |-> link.cut, requests |-> link.requests,
                losses |-> link.losses]
        /\ link.cut \in Nat /\ link.losses \in Nat
    BY <1>5 DEF Bears, LinkIs
  <2> DEFINE requests == Append(link.requests, Text(dps))
  <2>2. link' = [link EXCEPT !.requests = requests]
    BY <1>4
  <2> HIDE DEF requests
  <2>3. link' = [up |-> link.up, bytes |-> link.bytes, mail |-> link.mail, cut |-> link.cut, requests |-> requests,
                 losses |-> link.losses]
    BY <2>1, <2>2
  <2>4. LinkIs(link') /\ link'.up = link.up /\ link'.bytes = link.bytes /\ link'.requests = requests
    BY <2>1, <2>3, LinkMade
  <2> QED  BY <2>4 DEF requests
<1>20. Now(breezer, orders') = Now(breezer, orders)
  BY <1>14 DEF Now
<1>21. Bears(Now(breezer, orders'), client'.buffer, link')
  BY <1>5, <1>17, <1>19, <1>20 DEF Bears
<1>22. WhileDown(link', client')
  BY <1>2, <1>5, <1>19 DEF WhileDown
<1>23. RequestsAre(breezer, orders', link')
  <2>1. orders'.made \in Nat /\ orders.made <= orders'.made /\ \A c \in 1 .. orders.made : orders'.asked[c] = orders.asked[c]
    BY <1>8, <1>13 DEF MadeAfter
  <2> QED  BY <1>5, <1>8, <1>16, <1>19, <2>1, RequestsGrow
<1>24. Loaded(breezer, orders', link', client')
  BY <1>5, <1>6, <1>17 DEF Loaded
<1>25. CommandsAre(breezer, orders', link', client')
  BY <1>5, <1>13, <1>18, <1>21, <1>22, <1>23, <1>24 DEF CommandsAre
<1>26. CommandsAre(breezer', orders', link', client')
  BY <1>2, <1>25
<1> QED  BY <1>26, NextCommandsIs

-----------------------------------------------------------------------------
(* What is served *)

\* Facts are each of its kind, and what is, are facts.
LEMMA FactsEach ==
    ASSUME NEW facts, FactsAre(facts), NEW code \in Nats!Aspects
    PROVE  FactIs(code, facts[code])
<1> QED  BY DEF FactsAre, FactIs

\* And they are facts if each of them is.
LEMMA FactsFrom ==
    ASSUME NEW facts, DOMAIN facts = Nats!Aspects, \A code \in Nats!Aspects : FactIs(code, facts[code])
    PROVE  FactsAre(facts)
<1>1. {"on_off", "fan_speed_level", "fan_speed_maxavail", "target_temperature", "temp_outdoor",
       "temp_indoor", "heater_on_off", "flap_mode"} \subseteq Nats!Aspects
  BY DEF Nats!Aspects
<1>2. facts["on_off"] \in BOOLEAN /\ facts["heater_on_off"] \in BOOLEAN
  BY <1>1 DEF FactIs
<1>3. facts["fan_speed_level"] \in Signed /\ facts["target_temperature"] \in Signed
  BY <1>1 DEF FactIs
<1>4. facts["temp_outdoor"] \in Signed /\ facts["temp_indoor"] \in Signed /\ facts["fan_speed_maxavail"] \in Signed
  BY <1>1 DEF FactIs
<1>5. facts["flap_mode"] \in Texts
  BY <1>1 DEF FactIs
<1> QED  BY <1>2, <1>3, <1>4, <1>5 DEF FactsAre

\* A change that was asked for, as it is the case.
MadeAs(product, name, value, fact) ==
    IF name = "flap" THEN Nats!RawOf(product, "flap_mode", fact) = value ELSE fact = value

\* A change whose aspect has become so was made.
LEMMA MadeIs ==
    ASSUME NEW product, NEW name \in Names, NEW value, NEW facts, MadeAs(product, name, value, facts[AspectOf(name)])
    PROVE  Made(product, name, value, facts)
<1> QED  BY DEF Names, MadeAs, AspectOf, Made

\* What the breezer takes a number for is what the number was written of.
Does(product, name, value, raw) ==
    LET fact == Nats!FactOf(product, AspectOf(name), raw)
    IN FactIs(AspectOf(name), fact) /\ MadeAs(product, name, value, fact)

\* The datapoint of a change does that change.
LEMMA DoesIs ==
    ASSUME NEW product \in ProductNames, NEW name, NEW value, NEW dp, Means(product, name, value, dp)
    PROVE  Does(product, name, value, dp.value)
<1> DEFINE raw == dp.value
           fact == Nats!FactOf(product, AspectOf(name), raw)
<1>0. name \in Names
  BY DEF Means
<1>k. /\ Nats!Kind(product, "on_off") = Nats!BOOL
      /\ Nats!Kind(product, "heater_on_off") = IF product = "b4s_ble" THEN Nats!INT ELSE Nats!BOOL
      /\ Nats!INT # Nats!BOOL
  <2>1. Nats!INT = 2 /\ Nats!BOOL = 1
    BY KindsAre
  <2> QED  BY <2>1, KindsAre
<1>1. CASE name = "is_on"
  <2>1. value \in BOOLEAN /\ raw = (IF value THEN 1 ELSE 0)
    BY <1>1 DEF Means
  <2>2. AspectOf(name) = "on_off"
    BY <1>1 DEF AspectOf
  <2>3. Nats!FactOf(product, "on_off", raw) = (raw # 0)
    BY <1>k DEF Nats!FactOf
  <2>4. (raw # 0) = value
    BY <2>1
  <2> HIDE DEF raw
  <2>5. FactIs("on_off", value) /\ MadeAs(product, name, value, value)
    BY <1>1, <2>1 DEF FactIs, MadeAs
  <2> QED  BY <2>2, <2>3, <2>4, <2>5 DEF Does, raw
<1>2. CASE name = "speed"
  <2>1. value \in 0 .. Nats!SpeedMax(product) /\ raw = value
    BY <1>2 DEF Means
  <2>2. AspectOf(name) = "fan_speed_level"
    BY <1>2 DEF AspectOf
  <2>3. Nats!FactOf(product, "fan_speed_level", raw) = Nats!Min({raw, Nats!SpeedMax(product)})
    BY DEF Nats!FactOf
  <2>4. Nats!SpeedMax(product) \in {4, 6}
    BY DEF Nats!SpeedMax
  <2> DEFINE top == Nats!SpeedMax(product)
             S == {value, top}
  <2>5. value \in Nat /\ top \in Nat /\ value <= top /\ value <= 6
    BY <2>1, <2>4
  <2> HIDE DEF top
  <2>6. S \in SUBSET Nat /\ S # {}
    BY <2>5
  <2>7. value \in S /\ \A y \in S : value <= y
    BY <2>5
  <2>8. \A y \in S : y \in Nat
    BY <2>5
  <2> HIDE DEF S
  <2>9. Nats!Min(S) \in S /\ \A y \in S : Nats!Min(S) <= y
    BY <2>6, MinIs
  <2>10. Nats!Min(S) = value
    <3> DEFINE m == Nats!Min(S)
    <3>1. m \in Nat /\ value \in Nat /\ m <= value /\ value <= m
      BY <2>5, <2>7, <2>8, <2>9
    <3> HIDE DEF m
    <3>2. m = value
      BY <3>1
    <3> QED  BY <3>2 DEF m
  <2>11. value \in Signed
    <3>1. value \in Int /\ value >= -16384 /\ value <= 16383
      BY <2>5
    <3> QED  BY <3>1, SignedAre
  <2>12. FactIs("fan_speed_level", value) /\ MadeAs(product, name, value, value)
    BY <1>2, <2>11 DEF FactIs, MadeAs
  <2>13. Nats!FactOf(product, "fan_speed_level", raw) = value
    BY <2>1, <2>3, <2>10 DEF S, top
  <2> HIDE DEF raw
  <2> QED  BY <2>2, <2>12, <2>13 DEF Does, raw
<1>3. CASE name = "flap"
  <2>1. value \in {0, 1, 2} /\ (value = 2 => product = "br3s_rf") /\ raw = value
    BY <1>3 DEF Means
  <2>2. AspectOf(name) = "flap_mode"
    BY <1>3 DEF AspectOf
  <2>3. Nats!FactOf(product, "flap_mode", raw) = IF raw = 0 THEN "outside" ELSE IF raw = 2 /\ product = "br3s_rf" THEN "mixed" ELSE "inside"
    BY DEF Nats!FactOf, Nats!OUTSIDE, Nats!MIXED
  <2>4. \A f \in Texts : Nats!RawOf(product, "flap_mode", f) = [outside |-> 0, inside |-> 1, mixed |-> 2][f]
    BY DEF Nats!RawOf, Nats!OUTSIDE, Nats!MIXED, Nats!INSIDE
  <2>5. /\ Nats!RawOf(product, "flap_mode", "outside") = 0 /\ Nats!RawOf(product, "flap_mode", "inside") = 1
        /\ Nats!RawOf(product, "flap_mode", "mixed") = 2
    BY <2>4 DEF Texts
  <2> DEFINE f == Nats!FactOf(product, "flap_mode", raw)
  <2>6. f \in Texts
    BY <2>3 DEF Texts
  <2>7. Nats!RawOf(product, "flap_mode", f) = value
    <3> HIDE DEF raw
    <3>1. CASE value = 0
      BY <2>1, <2>3, <2>5, <3>1
    <3>2. CASE value = 1
      BY <2>1, <2>3, <2>5, <3>2
    <3>3. CASE value = 2
      BY <2>1, <2>3, <2>5, <3>3
    <3> QED  BY <2>1, <3>1, <3>2, <3>3
  <2> HIDE DEF raw, f
  <2>8. FactIs("flap_mode", f) /\ MadeAs(product, name, value, f)
    BY <1>3, <2>6, <2>7 DEF FactIs, MadeAs
  <2> QED  BY <2>2, <2>8 DEF Does, raw, f
<1>4. CASE name = "heater_enabled"
  <2>1. value \in BOOLEAN /\ raw = Nats!RawOf(product, "heater_on_off", value)
    BY <1>4 DEF Means
  <2>2. AspectOf(name) = "heater_on_off"
    BY <1>4 DEF AspectOf
  <2> HIDE DEF raw
  <2>3. Nats!FactOf(product, "heater_on_off", raw) = value
    <3>1. CASE product = "b4s_ble"
      <4>1. raw = IF value THEN 0 ELSE 1
        BY <1>k, <2>1, <3>1 DEF Nats!RawOf
      <4>2. Nats!FactOf(product, "heater_on_off", raw) = (raw = 0)
        BY <1>k, <3>1 DEF Nats!FactOf
      <4> QED  BY <2>1, <4>1, <4>2
    <3>2. CASE product # "b4s_ble"
      <4>1. raw = IF value THEN 1 ELSE 0
        BY <1>k, <2>1, <3>2 DEF Nats!RawOf
      <4>2. Nats!FactOf(product, "heater_on_off", raw) = (raw # 0)
        BY <1>k, <3>2 DEF Nats!FactOf
      <4> QED  BY <2>1, <4>1, <4>2
    <3> QED  BY <3>1, <3>2
  <2>4. FactIs("heater_on_off", value) /\ MadeAs(product, name, value, value)
    BY <1>4, <2>1 DEF FactIs, MadeAs
  <2> QED  BY <2>2, <2>3, <2>4 DEF Does, raw
<1>5. CASE name = "target_temperature"
  <2>1. value \in 0 .. 300 /\ raw = value
    BY <1>5 DEF Means
  <2>2. AspectOf(name) = "target_temperature"
    BY <1>5 DEF AspectOf
  <2>3. Nats!FactOf(product, "target_temperature", raw) = value
    BY <2>1 DEF Nats!FactOf
  <2>4. value \in Signed
    <3>1. value \in Int /\ value >= -16384 /\ value <= 16383
      BY <2>1
    <3> QED  BY <3>1, SignedAre
  <2>5. FactIs("target_temperature", value) /\ MadeAs(product, name, value, value)
    BY <1>5, <2>4 DEF FactIs, MadeAs
  <2> HIDE DEF raw
  <2> QED  BY <2>2, <2>3, <2>5 DEF Does, raw
<1> QED  BY <1>0, <1>1, <1>2, <1>3, <1>4, <1>5 DEF Names

\* Serve: the datapoints of a request, each for its aspect, and the facts once they are done.
CodeOf(product, dp) == CHOOSE code \in Nats!Aspects : Nats!DpId(product, code) = dp.id
CodesOf(product, dps) == {CodeOf(product, dps[i]) : i \in DOMAIN dps}
LatestOf(product, dps, code) == Nats!Max({i \in DOMAIN dps : CodeOf(product, dps[i]) = code})
Served(product, facts, dps) ==
    [code \in Nats!Aspects |->
       IF code \in CodesOf(product, dps) THEN Nats!FactOf(product, code, dps[LatestOf(product, dps, code)].value)
       ELSE facts[code]]

\* A name is told by its aspect.
LEMMA AspectsDiffer ==
    /\ \A name \in Names : AspectOf(name) \in Nats!Aspects /\ AspectOf(name) # "fan_speed_maxavail"
    /\ \A a, b \in Names : AspectOf(a) = AspectOf(b) => a = b
<1>1. /\ AspectOf("is_on") = "on_off" /\ AspectOf("speed") = "fan_speed_level" /\ AspectOf("flap") = "flap_mode"
      /\ AspectOf("heater_enabled") = "heater_on_off" /\ AspectOf("target_temperature") = "target_temperature"
  BY DEF AspectOf
<1>2. \A name \in Names : AspectOf(name) \in Nats!Aspects /\ AspectOf(name) # "fan_speed_maxavail"
  BY <1>1 DEF Names, Nats!Aspects
<1>3. ASSUME NEW a \in Names, NEW b \in Names, AspectOf(a) = AspectOf(b) PROVE a = b
  <2>1. CASE a = "is_on"
    BY <1>1, <1>3, <2>1 DEF Names
  <2>2. CASE a = "speed"
    BY <1>1, <1>3, <2>2 DEF Names
  <2>3. CASE a = "flap"
    BY <1>1, <1>3, <2>3 DEF Names
  <2>4. CASE a = "heater_enabled"
    BY <1>1, <1>3, <2>4 DEF Names
  <2>5. CASE a = "target_temperature"
    BY <1>1, <1>3, <2>5 DEF Names
  <2> QED  BY <2>1, <2>2, <2>3, <2>4, <2>5 DEF Names
<1> QED  BY <1>2, <1>3

\* The aspect of a datapoint is that of what it was written of.
LEMMA CodeIs ==
    ASSUME NEW product, NEW name, NEW value, NEW dp, Means(product, name, value, dp)
    PROVE  CodeOf(product, dp) = AspectOf(name)
<1>1. name \in Names /\ dp.id = Nats!DpId(product, AspectOf(name))
  BY DEF Means
<1>2. AspectOf(name) \in Nats!Aspects
  BY <1>1, AspectsDiffer
<1> DEFINE c == CodeOf(product, dp)
<1>3. c \in Nats!Aspects /\ Nats!DpId(product, c) = dp.id
  BY <1>1, <1>2 DEF CodeOf
<1> HIDE DEF c
<1>4. c = AspectOf(name)
  BY <1>1, <1>2, <1>3, IdsDiffer
<1> QED  BY <1>4 DEF c

\* Each change that was asked for is done, for no aspect is asked for twice.
LEMMA ServedOne ==
    ASSUME NEW product \in ProductNames, NEW facts, NEW ask, NEW n \in Nat, DOMAIN ask = 1 .. n,
           NEW dps, Asks(product, ask, dps), NEW i \in 1 .. n
    PROVE  LET code == AspectOf(ask[i][1])
           IN code \in CodesOf(product, dps)
              /\ Served(product, facts, dps)[code] = Nats!FactOf(product, code, dps[i].value)
<1> DEFINE code == AspectOf(ask[i][1])
           S == {j \in DOMAIN dps : CodeOf(product, dps[j]) = code}
<1>1. /\ DOMAIN dps = 1 .. n
      /\ \A j \in 1 .. n : Means(product, ask[j][1], ask[j][2], dps[j])
      /\ \A j, k \in 1 .. n : ask[j][1] = ask[k][1] => j = k
  BY DEF Asks
<1>2. \A j \in 1 .. n : ask[j][1] \in Names /\ CodeOf(product, dps[j]) = AspectOf(ask[j][1])
  <2> TAKE j \in 1 .. n
  <2>1. Means(product, ask[j][1], ask[j][2], dps[j])
    BY <1>1
  <2>2. ask[j][1] \in Names
    BY <2>1 DEF Means
  <2> QED  BY <2>1, <2>2, CodeIs
<1>3. S = {i}
  BY <1>1, <1>2, AspectsDiffer
<1>4. Nats!Max(S) = i
  <2>1. S \in SUBSET (0 .. n) /\ S # {}
    BY <1>3
  <2> HIDE DEF S
  <2>2. Nats!Max(S) \in S
    BY <2>1, MaxIs
  <2> QED  BY <1>3, <2>2
<1>5. LatestOf(product, dps, code) = i
  BY <1>4 DEF LatestOf
<1>6. code \in CodesOf(product, dps)
  BY <1>1, <1>2 DEF CodesOf
<1>7. code \in Nats!Aspects
  BY <1>2, AspectsDiffer
<1> HIDE DEF code, S
<1>8. Served(product, facts, dps)[code] = Nats!FactOf(product, code, dps[i].value)
  BY <1>5, <1>6, <1>7 DEF Served
<1> QED  BY <1>6, <1>8 DEF code

\* A request that is served leaves facts, and each change of it made.
LEMMA ServedIs ==
    ASSUME NEW product \in ProductNames, NEW facts, FactsAre(facts), NEW ask, NEW n \in Nat, DOMAIN ask = 1 .. n,
           NEW dps, Asks(product, ask, dps)
    PROVE  LET served == Served(product, facts, dps)
           IN /\ FactsAre(served) /\ served["fan_speed_maxavail"] = facts["fan_speed_maxavail"]
              /\ AllMade(product, ask, served)
<1> DEFINE served == Served(product, facts, dps)
<1>1. /\ DOMAIN dps = 1 .. n
      /\ \A j \in 1 .. n : Means(product, ask[j][1], ask[j][2], dps[j])
  BY DEF Asks
<1>2. \A i \in 1 .. n : ask[i][1] \in Names /\ CodeOf(product, dps[i]) = AspectOf(ask[i][1])
  BY <1>1, CodeIs DEF Means
<1>3. ASSUME NEW i \in 1 .. n
      PROVE  LET code == AspectOf(ask[i][1])
             IN FactIs(code, served[code]) /\ MadeAs(product, ask[i][1], ask[i][2], served[code])
  <2> DEFINE name == ask[i][1]
             value == ask[i][2]
             code == AspectOf(name)
             dp == dps[i]
  <2>1. served[code] = Nats!FactOf(product, code, dp.value)
    BY ServedOne
  <2>2. Means(product, name, value, dp)
    BY <1>1
  <2> HIDE DEF name, value, dp
  <2>3. Does(product, name, value, dp.value)
    BY <2>2, DoesIs
  <2>4. FactIs(code, served[code]) /\ MadeAs(product, name, value, served[code])
    <3> HIDE DEF served
    <3> QED  BY <2>1, <2>3 DEF Does
  <2> QED  BY <2>4 DEF name, value
<1>4. DOMAIN served = Nats!Aspects
  BY DEF Served
<1>5. \A code \in Nats!Aspects : code \notin CodesOf(product, dps) => served[code] = facts[code]
  BY DEF Served
<1> HIDE DEF served
<1>6. \A code \in Nats!Aspects : FactIs(code, served[code])
  <2> TAKE code \in Nats!Aspects
  <2>1. CASE code \in CodesOf(product, dps)
    <3>1. PICK i \in DOMAIN dps : code = CodeOf(product, dps[i])
      BY <2>1 DEF CodesOf
    <3>2. i \in 1 .. n /\ code = AspectOf(ask[i][1])
      BY <1>1, <1>2, <3>1
    <3> QED  BY <1>3, <3>2
  <2>2. CASE code \notin CodesOf(product, dps)
    BY <1>5, <2>2, FactsEach
  <2> QED  BY <2>1, <2>2
<1>7. FactsAre(served)
  BY <1>4, <1>6, FactsFrom
<1>8. "fan_speed_maxavail" \notin CodesOf(product, dps)
  <2> SUFFICES ASSUME NEW i \in DOMAIN dps, "fan_speed_maxavail" = CodeOf(product, dps[i]) PROVE FALSE
    BY DEF CodesOf
  <2>1. ask[i][1] \in Names /\ AspectOf(ask[i][1]) = "fan_speed_maxavail"
    BY <1>1, <1>2
  <2> QED  BY <2>1, AspectsDiffer
<1>9. served["fan_speed_maxavail"] = facts["fan_speed_maxavail"]
  <2>1. "fan_speed_maxavail" \in Nats!Aspects
    BY DEF Nats!Aspects
  <2> QED  BY <1>5, <1>8, <2>1
<1>10. AllMade(product, ask, served)
  <2>1. \A i \in 1 .. n : Made(product, ask[i][1], ask[i][2], served)
    BY <1>2, <1>3, MadeIs
  <2> QED  BY <2>1 DEF AllMade
<1> QED  BY <1>7, <1>9, <1>10 DEF served

\* What is on its way is good by what has been done since, too.
LEMMA CarriesWiden ==
    ASSUME NEW G, NEW H, G \subseteq H, NEW buffer, NEW l, Bears(G, buffer, l)
    PROVE  Bears(H, buffer, l)
<1> QED  BY StreamsWiden DEF Bears

\* A request less.
LEMMA RequestTaken ==
    ASSUME NEW b, NEW o, NEW l, RequestsAre(b, o, l), l.requests # <<>>, NEW c, NEW p, NEW k,
           c.product = b.product, p.made = o.made, p.asked = o.asked, k.requests = Tail(l.requests)
    PROVE  RequestIs(b.product, o, l.requests[1]) /\ RequestsAre(c, p, k)
<1> DEFINE n == Len(l.requests)
<1>1. l.requests \in Seq(Seq(Nat)) /\ \A i \in DOMAIN l.requests : RequestIs(b.product, o, l.requests[i])
  BY DEF RequestsAre
<1>2. n \in Nat /\ n >= 1 /\ DOMAIN l.requests = 1 .. n
  BY <1>1
<1>3. k.requests \in Seq(Seq(Nat)) /\ DOMAIN k.requests = 1 .. n - 1 /\ \A i \in 1 .. n - 1 : k.requests[i] = l.requests[i + 1]
  BY <1>1, <1>2
<1> HIDE DEF n
<1>4. \A i \in 1 .. n - 1 : RequestIs(c.product, p, k.requests[i])
  <2> TAKE i \in 1 .. n - 1
  <2>1. i + 1 \in 1 .. n
    BY <1>2
  <2>2. RequestIs(b.product, o, k.requests[i])
    BY <1>1, <1>2, <1>3, <2>1
  <2> QED  BY <2>2 DEF RequestIs
<1>5. RequestIs(b.product, o, l.requests[1])
  <2>1. 1 \in DOMAIN l.requests
    BY <1>2
  <2> QED  BY <1>1, <2>1
<1> QED  BY <1>3, <1>4, <1>5 DEF RequestsAre

\* The orders p are those of o with command done, leaving facts.
Finishes(o, p, command, facts) == p = [o EXCEPT !.done = Nats!Over([c \in {command} |-> facts], @)]
DoneIn(product, o, p, command) ==
    /\ OrdersAre(product, p) /\ p.made = o.made /\ p.asked = o.asked
    /\ DOMAIN p.done = DOMAIN o.done \cup {command}

\* A command that is done as it was asked for.
LEMMA OneMoreIsDone ==
    ASSUME NEW product, NEW o, OrdersAre(product, o), NEW command, command \in 1 .. o.made, NEW facts,
           AllMade(product, o.asked[command], facts), NEW p, Finishes(o, p, command, facts)
    PROVE  DoneIn(product, o, p, command)
<1> DEFINE one == [c \in {command} |-> facts]
           done == Nats!Over(one, o.done)
           r == [made |-> o.made, asked |-> o.asked, done |-> done]
<1>1. /\ o = [made |-> o.made, asked |-> o.asked, done |-> o.done]
      /\ o.made \in 0 .. CloudActs
      /\ DOMAIN o.asked = 1 .. o.made /\ DOMAIN o.done \subseteq 1 .. o.made
      /\ \A c \in DOMAIN o.done : AllMade(product, o.asked[c], o.done[c])
  BY DEF OrdersAre
<1>2. DOMAIN one = {command} /\ one[command] = facts
  OBVIOUS
<1>3. p = r
  <2>1. p = [o EXCEPT !.done = done]
    BY DEF Finishes
  <2> HIDE DEF done
  <2> QED  BY <1>1, <2>1
<1> HIDE DEF one
<1>4. DOMAIN done = DOMAIN o.done \cup {command}
  BY <1>2 DEF Nats!Over
<1>5. done[command] = facts /\ \A c \in DOMAIN o.done : c # command => done[c] = o.done[c]
  BY <1>2, <1>4 DEF Nats!Over
<1> HIDE DEF done
<1>6. r.made = o.made /\ r.asked = o.asked /\ r.done = done
  BY OrdersMade
<1> HIDE DEF r
<1>7. p.made = o.made /\ p.asked = o.asked /\ p.done = done
  BY <1>3, <1>6
<1>8. \A c \in DOMAIN p.done : AllMade(product, p.asked[c], p.done[c])
  <2> TAKE c \in DOMAIN p.done
  <2>1. CASE c = command
    BY <1>5, <1>7, <2>1
  <2>2. CASE c # command
    BY <1>1, <1>4, <1>5, <1>7, <2>2
  <2> QED  BY <2>1, <2>2
<1>9. p = [made |-> p.made, asked |-> p.asked, done |-> p.done]
  BY <1>3, <1>7 DEF r
<1>10. DOMAIN p.done \subseteq 1 .. p.made
  BY <1>1, <1>4, <1>7
<1>11. OrdersAre(product, p)
  BY <1>1, <1>7, <1>8, <1>9, <1>10 DEF OrdersAre
<1> QED  BY <1>4, <1>7, <1>11 DEF DoneIn

\* How it went is said, while the link is up.
LEMMA AnswerCarries ==
    ASSUME NEW product, NEW done, NEW buffer, NEW rest, Bears(GoodMessages(product, done), buffer, rest),
           NEW dps, NEW n, AreDps(dps, n), n <= 9, NEW command \in Number, NEW success \in BOOLEAN,
           success => command \in done /\ dps \in Seq(GoodDps(product)), NEW tells,
           NEW l, l = IF ~rest.up THEN rest
                      ELSE Nats!Sent(rest, Nats!Message("plain", Nats!ANSWER, Nats!Response(command, success, dps)), tells)
    PROVE  Bears(GoodMessages(product, done), buffer, l) /\ l.up = rest.up /\ l.requests = rest.requests
           /\ (~rest.up => l = rest)
<1> DEFINE G == GoodMessages(product, done)
           text == Nats!Message("plain", Nats!ANSWER, Nats!Response(command, success, dps))
<1>1. Streams(G, text)
  BY ResponseIsGood
<1>2. G \subseteq NatsMessage
  BY GoodAre
<1>3. CASE ~rest.up
  BY <1>3
<1>4. CASE rest.up
  <2> HIDE DEF G, text
  <2>1. l = Nats!Sent(rest, text, tells)
    BY <1>4 DEF text
  <2>2. Bears(G, buffer, rest)
    BY DEF G
  <2> DEFINE k == Nats!Sent(rest, text, tells)
  <2>3. Bears(G, buffer, k) /\ k.up = rest.up /\ k.requests = rest.requests
    BY <1>1, <1>2, <2>2, SentCarries
  <2> HIDE DEF k
  <2>4. l = k
    BY <2>1 DEF k
  <2> QED  BY <1>4, <2>3, <2>4 DEF G
<1> QED  BY <1>3, <1>4

\* A request that is served was made; its answer says how it went, and it is done by then.
LEMMA ServeCommands ==
    ASSUME CloudActs < Nats!Word, Commands, Nats!Serve
    PROVE  Commands'
<1>1. CommandsAre(breezer, orders, link, client)
  BY CommandsIs
<1> DEFINE product == breezer.product
           rest == [link EXCEPT !.requests = Tail(@)]
           Facts(dps) == Served(product, breezer.facts, dps)
           Text(command, success, dps) ==
             Nats!Message("plain", Nats!ANSWER,
                          IF success THEN Nats!Response(command, TRUE, Nats!Dps(CodesOf(product, dps), Facts(dps)))
                          ELSE Nats!Response(command, FALSE, dps))
           Shows(success, dps) == IF success THEN Nats!Facts(CodesOf(product, dps), Facts(dps)) ELSE Nats!Empty
<1>2. link.requests # <<>> /\ UNCHANGED <<client, told>>
  BY DEF Nats!Serve
<1>3. PICK request \in Nats!Parse(link.requests[1]) :
        \E command \in Nats!GetInt(request, 2), dps \in Nats!DecodeValues(request, 4), success \in BOOLEAN :
          /\ breezer' = IF success THEN [breezer EXCEPT !.facts = Facts(dps)] ELSE breezer
          /\ orders' = IF success THEN [orders EXCEPT !.done = Nats!Over([c \in {command} |-> Facts(dps)], @)] ELSE orders
          /\ link' = IF ~link.up THEN rest ELSE Nats!Sent(rest, Text(command, success, dps), Shows(success, dps))
  BY DEF Nats!Serve, Served, CodesOf, CodeOf, LatestOf
<1>4. PICK command \in Nats!GetInt(request, 2), dps \in Nats!DecodeValues(request, 4), success \in BOOLEAN :
          /\ breezer' = IF success THEN [breezer EXCEPT !.facts = Facts(dps)] ELSE breezer
          /\ orders' = IF success THEN [orders EXCEPT !.done = Nats!Over([c \in {command} |-> Facts(dps)], @)] ELSE orders
          /\ link' = IF ~link.up THEN rest ELSE Nats!Sent(rest, Text(command, success, dps), Shows(success, dps))
  BY <1>3
<1>5. BreezerIs(breezer) /\ OrdersAre(product, orders) /\ ClientIs(product, orders, client)
      /\ Bears(Now(breezer, orders), client.buffer, link) /\ WhileDown(link, client)
      /\ RequestsAre(breezer, orders, link) /\ Loaded(breezer, orders, link, client)
  BY <1>1 DEF CommandsAre
<1>6. product # "none"
  BY <1>2, <1>5 DEF Loaded
<1>7. product \in ProductNames /\ FactsAre(breezer.facts) /\ breezer.facts["fan_speed_maxavail"] = Nats!SpeedMax(product)
  BY <1>5, <1>6, ModelIs
<1>8. /\ command \in 1 .. orders.made
      /\ dps \in Seq(GoodDps(product)) /\ Len(dps) \in Few
      /\ Asks(product, orders.asked[command], dps)
  <2>1. RequestIs(product, orders, link.requests[1])
    <3>1. 1 \in DOMAIN link.requests
      BY <1>2, <1>5 DEF RequestsAre
    <3> QED  BY <1>5, <3>1 DEF RequestsAre
  <2> QED  BY <2>1 DEF RequestIs
<1> DEFINE facts == Facts(dps)
           ask == orders.asked[command]
           n == Len(dps)
           m == Len(Nats!Dps(CodesOf(product, dps), facts))
           answer == Nats!Dps(CodesOf(product, dps), facts)
           tells == Shows(success, dps)
<1>9. n \in Nat /\ n <= 9 /\ DOMAIN ask = 1 .. n
  <2>1. DOMAIN dps = 1 .. n /\ n \in Nat /\ DOMAIN dps = DOMAIN ask
    BY <1>8 DEF Asks
  <2>2. n \in 0 .. 9
    BY <1>8 DEF Few
  <2> HIDE DEF n
  <2>3. n <= 9
    BY <2>2
  <2> QED  BY <1>8, <2>1, <2>3
<1>10. FactsAre(facts) /\ facts["fan_speed_maxavail"] = Nats!SpeedMax(product) /\ AllMade(product, ask, facts)
  <2> HIDE DEF product, ask, n
  <2>1. Asks(product, ask, dps)
    BY <1>8 DEF ask
  <2> QED  BY <1>7, <1>9, <2>1, ServedIs
<1>11. command \in Number
  <2>1. orders.made \in 0 .. CloudActs /\ CloudActs \in Nat /\ Nats!Word \in Nat
    BY <1>5, BoundsAssumption, WordIs DEF OrdersAre
  <2> QED  BY <1>8, <2>1 DEF Number
<1>12. answer \in Seq(GoodDps(product)) /\ Len(answer) <= 9 /\ AreDps(answer, m)
  <2> HIDE DEF facts
  <2>1. answer \in Seq(GoodDps(product)) /\ Len(answer) <= 9
    BY <1>10, DpsFit
  <2> HIDE DEF answer
  <2>2. AreDps(answer, Len(answer))
    BY <2>1, GoodDpsAre
  <2> QED  BY <2>1, <2>2 DEF answer
<1>13. AreDps(dps, n)
  BY <1>8, GoodDpsAre
<1>14. m <= 9
  BY <1>12
<1> HIDE DEF Facts, Shows
<1>15. IF success
       THEN /\ breezer' = [breezer EXCEPT !.facts = facts]
            /\ orders' = [orders EXCEPT !.done = Nats!Over([c \in {command} |-> facts], @)]
       ELSE breezer' = breezer /\ orders' = orders
  <2> HIDE DEF product
  <2> QED  BY <1>4
<1>16. link' = IF ~rest.up THEN rest
               ELSE Nats!Sent(rest, Nats!Message("plain", Nats!ANSWER,
                                                 IF success THEN Nats!Response(command, TRUE, answer)
                                                 ELSE Nats!Response(command, FALSE, dps)), tells)
  <2>1. rest.up = link.up
    BY <1>5 DEF Bears, LinkIs
  <2> HIDE DEF rest, product
  <2> QED  BY <1>4, <2>1
<1>17. BreezerIs(breezer') /\ breezer'.product = product
  <2>1. CASE ~success
    BY <1>5, <1>15, <2>1
  <2>2. CASE success
    <3> DEFINE changes == breezer.changes
    <3>1. breezer = [product |-> product, facts |-> breezer.facts, changes |-> changes] /\ changes \in Nat
      BY <1>5 DEF BreezerIs
    <3>2. breezer' = [breezer EXCEPT !.facts = facts]
      BY <1>15, <2>2
    <3> HIDE DEF facts, product, changes
    <3>3. breezer' = [product |-> product, facts |-> facts, changes |-> changes]
      BY <3>1, <3>2
    <3> QED  BY <1>7, <1>10, <3>1, <3>3, BreezerMade
  <2> QED  BY <2>1, <2>2
<1>18. /\ OrdersAre(product, orders') /\ orders'.made = orders.made /\ orders'.asked = orders.asked
       /\ DOMAIN orders.done \subseteq DOMAIN orders'.done /\ (success => command \in DOMAIN orders'.done)
  <2>1. CASE ~success
    BY <1>5, <1>15, <2>1
  <2>2. CASE success
    <3> DEFINE o == orders
               p == orders'
    <3>1. Finishes(o, p, command, facts)
      BY <1>15, <2>2 DEF Finishes
    <3>2. AllMade(product, o.asked[command], facts)
      BY <1>10
    <3>3. OrdersAre(product, o) /\ command \in 1 .. o.made
      BY <1>5, <1>8
    <3> HIDE DEF facts, product, ask, o, p
    <3>4. DoneIn(product, o, p, command)
      BY <3>1, <3>2, <3>3, OneMoreIsDone
    <3> QED  BY <3>4 DEF DoneIn, o, p
  <2> QED  BY <2>1, <2>2
<1> DEFINE G == GoodMessages(product, DOMAIN orders'.done)
<1>19. Bears(G, client.buffer, rest) /\ rest.up = link.up /\ rest.bytes = link.bytes /\ rest.requests = Tail(link.requests)
  <2> DEFINE requests == Tail(link.requests)
  <2>1. link = [up |-> link.up, bytes |-> link.bytes, mail |-> link.mail, cut |-> link.cut, requests |-> link.requests,
                losses |-> link.losses]
        /\ link.cut \in Nat /\ link.losses \in Nat
    BY <1>5 DEF Bears, LinkIs
  <2>2. rest = [link EXCEPT !.requests = requests]
    OBVIOUS
  <2> HIDE DEF rest, requests
  <2>3. rest = [up |-> link.up, bytes |-> link.bytes, mail |-> link.mail, cut |-> link.cut, requests |-> requests,
                losses |-> link.losses]
    BY <2>1, <2>2
  <2>4. LinkIs(rest) /\ rest.up = link.up /\ rest.bytes = link.bytes /\ rest.requests = requests
    BY <2>1, <2>3, LinkMade
  <2>5. Bears(Now(breezer, orders), client.buffer, rest)
    BY <1>5, <2>4 DEF Bears
  <2>6. Now(breezer, orders) \subseteq G
    BY <1>18, MoreIsDone DEF Now
  <2> HIDE DEF G
  <2>7. Bears(G, client.buffer, rest)
    BY <2>5, <2>6, CarriesWiden
  <2> QED  BY <2>4, <2>7 DEF requests
<1> HIDE DEF rest
<1>20. Bears(G, client.buffer, link') /\ link'.up = rest.up /\ link'.requests = rest.requests /\ (~rest.up => link' = rest)
  <2> DEFINE done == DOMAIN orders'.done
  <2>0. Bears(GoodMessages(product, done), client.buffer, rest)
    BY <1>19
  <2>1. CASE success
    <3> DEFINE yes == TRUE
    <3>1. yes \in BOOLEAN /\ command \in done
      BY <1>18, <2>1
    <3>2. link' = IF ~rest.up THEN rest
                  ELSE Nats!Sent(rest, Nats!Message("plain", Nats!ANSWER, Nats!Response(command, yes, answer)), tells)
      BY <1>16, <2>1
    <3> HIDE DEF yes, done, answer, tells, m, product
    <3> QED  BY <1>11, <1>12, <1>14, <2>0, <3>1, <3>2, AnswerCarries DEF G, done
  <2>2. CASE ~success
    <3> DEFINE no == FALSE
    <3>1. no \in BOOLEAN /\ ~no
      OBVIOUS
    <3>2. link' = IF ~rest.up THEN rest
                  ELSE Nats!Sent(rest, Nats!Message("plain", Nats!ANSWER, Nats!Response(command, no, dps)), tells)
      BY <1>16, <2>2
    <3> HIDE DEF no, done, tells, n, product
    <3> QED  BY <1>9, <1>11, <1>13, <2>0, <3>1, <3>2, AnswerCarries DEF G, done
  <2> QED  BY <2>1, <2>2
<1>21. ClientIs(product, orders', client)
  BY <1>5, <1>18 DEF ClientIs
<1>22. WhileDown(link', client)
  <2>1. link.up \in BOOLEAN /\ (~link.up => client.buffer = <<>> /\ link.bytes = <<>>)
    BY <1>5 DEF WhileDown
  <2> QED  BY <1>19, <1>20, <2>1 DEF WhileDown
<1>23. RequestsAre(breezer', orders', link')
  <2>1. link'.requests = Tail(link.requests)
    BY <1>19, <1>20
  <2> QED  BY <1>2, <1>5, <1>17, <1>18, <2>1, RequestTaken
<1>24. Loaded(breezer', orders', link', client)
  BY <1>5, <1>6, <1>17 DEF Loaded
<1>25. Bears(Now(breezer', orders'), client.buffer, link')
  BY <1>17, <1>20 DEF Now
<1>26. CommandsAre(breezer', orders', link', client)
  BY <1>17, <1>18, <1>21, <1>22, <1>23, <1>24, <1>25 DEF CommandsAre
<1>27. CommandsAre(breezer', orders', link', client')
  BY <1>2, <1>26
<1> QED  BY <1>27, NextCommandsIs

\* Each step keeps what commands rest on.
LEMMA NextCommands ==
    ASSUME CloudActs < Nats!Word, Commands, [Nats!Next]_(Nats!vars)
    PROVE  Commands'
<1>1. CASE Nats!LoadProfile
  BY <1>1, LoadProfileCommands
<1>2. CASE Nats!Connect
  BY <1>2, ConnectCommands
<1>3. CASE Nats!Lose
  BY <1>3, LoseCommands
<1>4. CASE Nats!Receive
  BY <1>4, ReceiveCommands
<1>5. CASE Nats!Command
  BY <1>5, CommandCommands
<1>6. CASE Nats!Timeout
  BY <1>6, TimeoutCommands
<1>7. CASE Nats!Change
  BY <1>7, ChangeCommands
<1>8. CASE Nats!Break
  BY <1>8, BreakCommands
<1>9. CASE Nats!Serve
  BY <1>9, ServeCommands
<1>10. CASE UNCHANGED Nats!vars
  <2>1. UNCHANGED <<breezer, orders, link, client>>
    BY <1>10 DEF Nats!vars
  <2>2. CommandsAre(breezer', orders', link', client')
    BY <2>1, CommandsIs
  <2> QED  BY <2>2, NextCommandsIs
<1> QED  BY <1>1, <1>2, <1>3, <1>4, <1>5, <1>6, <1>7, <1>8, <1>9, <1>10 DEF Nats!Next

\* What commands rest on says that a command that ends well was done.
LEMMA CommandsAreDone == Commands => OkIsDone
<1> SUFFICES ASSUME Commands, client.result = "ok" PROVE OkIsDone
  BY DEF OkIsDone, Nats!OkIsDone
<1>1. OrdersAre(breezer.product, orders) /\ ClientIs(breezer.product, orders, client)
  BY CommandsIs DEF CommandsAre
<1>2. orders.made \in DOMAIN orders.done
  BY <1>1 DEF ClientIs
<1>3. AllMade(breezer.product, orders.asked[orders.made], orders.done[orders.made])
  BY <1>1, <1>2 DEF OrdersAre
<1> QED  BY <1>2, <1>3 DEF OkIsDone, Nats!OkIsDone, AllMade, Made

\* So commands rest on it for ever.
LEMMA CommandsInvariant ==
    ASSUME CloudActs < Nats!Word
    PROVE  WireSpec => []Commands
<1>1. WireInit => Commands
  BY InitCommands DEF WireInit
<1>2. Commands /\ [WireNext]_<<side, nats, grpc, ble>> => Commands'
  <2> SUFFICES ASSUME Commands, [WireNext]_<<side, nats, grpc, ble>> PROVE Commands'
    OBVIOUS
  <2>1. [Nats!Next]_(Nats!vars)
    BY DEF WireNext, grpc, nats, ble, Nats!vars
  <2> QED  BY <2>1, NextCommands
<1> QED  BY <1>1, <1>2, PTL DEF WireSpec

\* However the bytes are cut, whatever is lost with its connection, whatever answers
\* come late to commands before it: a command that ends well was done by the breezer as
\* it was asked, as long as fewer commands are made than a word counts (cloud.py,
\* async_command and _resolve; views.py, encode).
THEOREM OkCommandsAreDone ==
    ASSUME CloudActs < Nats!Word
    PROVE  WireSpec => []OkIsDone
<1> QED  BY CommandsInvariant, CommandsAreDone, PTL

=============================================================================
