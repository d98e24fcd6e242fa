--------------------------- MODULE V4ClimateProofs ---------------------------
(***************************************************************************)
(* Proofs about V4Climate, for any calls and requests, any time to live of *)
(* a pending value and any changes in the app: the types, that a refused   *)
(* value is not kept, and that no call's change is lost silently.          *)
(***************************************************************************)
EXTENDS V4Climate, TLAPS

CallRecords ==
    [request : {"off", "manual", "auto", "heat", "sleep", "eco"},
     pc : {"new", "zone", "command", "limits", "done", "failed"},
     asked : Changes, sent : Changes, wanted : Changes, flying : BOOLEAN,
     answer : {"none", "ok", "error"}, confirmed : SUBSET Fields]

Entities == [pending : [Fields -> Values \cup {None}],
             age : [Fields -> 0 .. PendingTTL + 1], preset : Presets \cup {"none"}]

Lives == [Fields -> Values]
Messages == [dps : Changes, to : Calls \cup {None}, ok : BOOLEAN]

\* What is in flight, by where the call is.  A command is sent once, and is over
\* for the device when its answer says that it was taken.
Shape(k) ==
    /\ k.flying => k.pc \in {"command", "failed"} /\ DOMAIN k.sent \subseteq Dps
    /\ k.pc = "zone" => DOMAIN k.sent \subseteq {"mode"}
    /\ k.pc = "command" => DOMAIN k.sent \subseteq Dps
    /\ k.pc = "limits" => DOMAIN k.sent \subseteq Limits
    /\ DOMAIN k.wanted \subseteq Limits
    /\ k.answer = "ok" => ~k.flying
    /\ k.pc \in {"new", "zone"} => k.answer = "none"
    /\ k.pc = "new" => k.asked = NoChange
    /\ k.pc = "zone" /\ k.request \notin Presets => DOMAIN k.asked \subseteq {"mode"}

Holds(g, k, f) == f \in DOMAIN g /\ g[f] = k.asked[f]

\* Each value a call has asked for was found or taken, is being sent, or is a limit
\* that goes after the command.
Accounted(k) ==
    k.request \notin Presets /\ k.pc # "failed" =>
      \A f \in DOMAIN k.asked :
        \/ f \in k.confirmed
        \/ k.pc \in {"zone", "command", "limits"} /\ Holds(k.sent, k, f)
        \/ k.pc = "command" /\ Holds(k.wanted, k, f)

\* The call answers for the value v of field f.
Backs(k, f, v) ==
    /\ k.pc # "failed" \/ f \in k.confirmed \/ k.request \in Presets
    /\ f \in DOMAIN k.asked
    /\ k.asked[f] = v

\* Somebody answers for each pending value.
Owned ==
    \A f \in Dps \cup Limits : entity.pending[f] # None =>
      \E c \in Calls : Backs(call[c], f, entity.pending[f])

\* A message to a call is the answer to its command, which is no longer in flight.
Told ==
    \A i \in 1 .. Len(inbox), c \in Calls : inbox[i].to = c =>
      ~call[c].flying /\ call[c].pc \notin {"new", "zone"}

CallInv == \A c \in Calls : Shape(call[c]) /\ Accounted(call[c])

Types ==
    /\ device \in [Dps -> Values] /\ room \in [Room -> Values] /\ live \in Lives
    /\ channel \in {"up", "down"} /\ apps \in 0 .. MaxApp
    /\ inbox \in Seq(Messages)
    /\ entity \in Entities
    /\ call \in [Calls -> CallRecords]

IInv == Types /\ CallInv /\ Told /\ Owned

-----------------------------------------------------------------------------
(* Changes *)

\* An assignment of values to fields is a change, and the only kind there is.
LEMMA ChangeDomain ==
    ASSUME NEW g \in Changes
    PROVE  g \in [DOMAIN g -> Values] /\ DOMAIN g \subseteq Fields
BY DEF Changes

LEMMA ChangeIntro ==
    ASSUME NEW S \in SUBSET Fields, NEW g \in [S -> Values]
    PROVE  g \in Changes /\ DOMAIN g = S
BY DEF Changes

\* One assignment, and nothing.
LEMMA OneChange ==
    ASSUME NEW f \in Fields, NEW v \in Values
    PROVE  To(f, v) \in Changes /\ DOMAIN To(f, v) = {f} /\ To(f, v)[f] = v
<1>1. To(f, v) \in [{f} -> Values]
  BY DEF To
<1> QED  BY <1>1, ChangeIntro DEF To

LEMMA NoChangeType == NoChange \in Changes /\ DOMAIN NoChange = {}
<1>1. NoChange \in [{} -> Values]
  BY DEF NoChange
<1> QED  BY <1>1, ChangeIntro

\* A change before another, and the part of one.
LEMMA Joined ==
    ASSUME NEW g \in Changes, NEW h \in Changes
    PROVE  /\ (g ++ h) \in Changes
           /\ DOMAIN (g ++ h) = DOMAIN g \cup DOMAIN h
           /\ \A f \in DOMAIN g : (g ++ h)[f] = g[f]
           /\ \A f \in DOMAIN h \ DOMAIN g : (g ++ h)[f] = h[f]
<1>1. (g ++ h) \in [DOMAIN g \cup DOMAIN h -> Values]
  BY ChangeDomain DEF ++
<1>2. DOMAIN g \cup DOMAIN h \subseteq Fields
  BY ChangeDomain
<1> QED  BY <1>1, <1>2, ChangeIntro DEF ++

LEMMA Part ==
    ASSUME NEW g \in Changes, NEW S
    PROVE  /\ Only(g, S) \in Changes
           /\ DOMAIN Only(g, S) = S \cap DOMAIN g
           /\ \A f \in S \cap DOMAIN g : Only(g, S)[f] = g[f]
<1>1. Only(g, S) \in [S \cap DOMAIN g -> Values]
  BY ChangeDomain DEF Only
<1>2. S \cap DOMAIN g \subseteq Fields
  BY ChangeDomain
<1> QED  BY <1>1, <1>2, ChangeIntro DEF Only

\* A change over all the values of a set of fields.
LEMMA PutBefore ==
    ASSUME NEW S \in SUBSET Fields, NEW g \in Changes, NEW h \in [S -> Values], DOMAIN g \subseteq S
    PROVE  (g ++ h) \in [S -> Values]
BY ChangeDomain DEF ++

-----------------------------------------------------------------------------
(* Pending values *)

LEMMA ForgetType ==
    ASSUME NEW e \in Entities, NEW S
    PROVE  /\ Forget(e, S) \in Entities
           /\ Forget(e, S).preset = e.preset
           /\ \A f \in Fields : Forget(e, S).pending[f] = IF f \in S THEN None ELSE e.pending[f]
<1> DEFINE pending == [f \in Fields |-> IF f \in S THEN None ELSE e.pending[f]]
           age == [f \in Fields |-> IF f \in S THEN 0 ELSE e.age[f]]
<1>1. pending \in [Fields -> Values \cup {None}]
  BY DEF Entities
<1>2. age \in [Fields -> 0 .. PendingTTL + 1]
  BY BoundsAssumption DEF Entities
<1>3. Forget(e, S) = [e EXCEPT !.pending = pending, !.age = age]
  BY DEF Forget
<1> HIDE DEF pending, age
<1>4. /\ [e EXCEPT !.pending = pending, !.age = age] \in Entities
      /\ [e EXCEPT !.pending = pending, !.age = age].preset = e.preset
      /\ [e EXCEPT !.pending = pending, !.age = age].pending = pending
  BY <1>1, <1>2 DEF Entities
<1>5. \A f \in Fields : pending[f] = IF f \in S THEN None ELSE e.pending[f]
  BY DEF pending
<1> QED  BY <1>3, <1>4, <1>5

LEMMA PutType ==
    ASSUME NEW e \in Entities, NEW g \in Changes
    PROVE  /\ Put(e, g) \in Entities
           /\ \A f \in DOMAIN g : Put(e, g).pending[f] = g[f] /\ Put(e, g).age[f] = 0
           /\ \A f \in Fields \ DOMAIN g : Put(e, g).pending[f] = e.pending[f]
<1>1. e.pending \in [Fields -> Values \cup {None}] /\ e.age \in [Fields -> 0 .. PendingTTL + 1]
  BY DEF Entities
<1>2. g \in [DOMAIN g -> Values] /\ DOMAIN g \subseteq Fields
  BY ChangeDomain
<1>3. (g ++ e.pending) \in [Fields -> Values \cup {None}]
  BY <1>1, <1>2 DEF ++
<1>4. ([f \in DOMAIN g |-> 0] ++ e.age) \in [Fields -> 0 .. PendingTTL + 1]
  BY <1>1, <1>2, BoundsAssumption DEF ++
<1> DEFINE pending == g ++ e.pending
           age == [f \in DOMAIN g |-> 0] ++ e.age
<1>5. Put(e, g) = [e EXCEPT !.pending = pending, !.age = age]
  BY DEF Put
<1> HIDE DEF pending, age
<1>6. /\ [e EXCEPT !.pending = pending, !.age = age] \in Entities
      /\ [e EXCEPT !.pending = pending, !.age = age].pending = pending
      /\ [e EXCEPT !.pending = pending, !.age = age].age = age
  BY <1>3, <1>4 DEF Entities, pending, age
<1>7. \A f \in Fields : /\ pending[f] = IF f \in DOMAIN g THEN g[f] ELSE e.pending[f]
                        /\ f \in DOMAIN g => age[f] = 0
  BY <1>1, <1>2 DEF ++, pending, age
<1> QED  BY <1>2, <1>5, <1>6, <1>7

\* A value that was just set is not too old.
LEMMA FreshKept ==
    ASSUME NEW e \in Entities, NEW f \in Fields, e.age[f] = 0
    PROVE  f \notin TooOld(e)
BY BoundsAssumption DEF TooOld

LEMMA RenderType ==
    ASSUME NEW e \in Entities, NEW l
    PROVE  /\ Render(e, l) \in Entities
           /\ \A f \in Fields : Render(e, l).pending[f] \in {None, e.pending[f]}
BY ForgetType DEF Render

-----------------------------------------------------------------------------
(* A call, from one await to the next *)

\* What is pending after a step of a call is backed by it, or was backed by others.
Supported(k, e, k2, e2) ==
    \A f \in Dps \cup Limits : e2.pending[f] # None =>
      \/ Backs(k2, f, e2.pending[f])
      \/ e2.pending[f] = e.pending[f] /\ ~Backs(k, f, e.pending[f])

LEMMA SupportedTwice ==
    ASSUME NEW k, NEW e, NEW k1, NEW e1, NEW k2, NEW e2,
           Supported(k, e, k1, e1), Supported(k1, e1, k2, e2)
    PROVE  Supported(k, e, k2, e2)
BY DEF Supported

\* The call's record and the entity after a step that leaves "new".
Fine(k, e, r) ==
    /\ r.call \in CallRecords /\ r.call.pc # "new"
    /\ Shape(r.call) /\ Accounted(r.call)
    /\ r.call.pc = "zone" => k.pc = "new"
    /\ r.call.flying => k.flying \/ k.pc \in {"new", "zone"}
    /\ r.entity \in Entities
    /\ Supported(k, e, r.call, r.entity)

\* All values are backed or found, but for those that the change g still has.
Covered(k, g) ==
    k.request \notin Presets =>
      \A f \in DOMAIN k.asked : f \in k.confirmed \/ Holds(g, k, f)

LEMMA DoneFine ==
    ASSUME NEW k \in CallRecords, NEW e \in Entities, NEW l,
           ~k.flying, k.pc # "failed", Covered(k, NoChange)
    PROVE  Fine(k, e, Done(k, e, l))
<1> DEFINE r == Done(k, e, l)
           p == IF k.request \in Presets THEN k.request ELSE e.preset
<1>1. r.call = [k EXCEPT !.pc = "done", !.wanted = NoChange, !.answer = "none",
                         !.sent = NoChange]
  BY DEF Done, Over, CallRecords
<1>2. r.call \in CallRecords /\ r.call.pc = "done" /\ ~r.call.flying
  BY <1>1, NoChangeType DEF CallRecords
<1>3. Shape(r.call)
  BY <1>1, <1>2, NoChangeType DEF Shape, CallRecords
<1>4. Accounted(r.call)
  BY <1>1, NoChangeType DEF Accounted, Covered, Holds, CallRecords
<1>5. [e EXCEPT !.preset = p] \in Entities /\ [e EXCEPT !.preset = p].pending = e.pending
  BY DEF Entities, Presets, CallRecords
<1>6. r.entity = Render([e EXCEPT !.preset = p], l)
  BY DEF Done, Entities
<1>7. r.entity \in Entities /\ \A f \in Fields : r.entity.pending[f] \in {None, e.pending[f]}
  <2> DEFINE n == [e EXCEPT !.preset = p]
  <2>1. n \in Entities /\ n.pending = e.pending /\ r.entity = Render(n, l)
    BY <1>5, <1>6
  <2> HIDE DEF n, r, p
  <2> QED  BY <2>1, RenderType
<1>8. \A f, v : Backs(k, f, v) => Backs(r.call, f, v)
  BY <1>1 DEF Backs, CallRecords
<1>9. Supported(k, e, r.call, r.entity)
  BY <1>7, <1>8 DEF Supported, Fields, Room
<1> QED  BY <1>2, <1>3, <1>4, <1>7, <1>9 DEF Fine

LEMMA FailedFine ==
    ASSUME NEW k \in CallRecords, NEW e \in Entities, NEW S,
           k.flying => DOMAIN k.sent \subseteq Dps,
           \A f \in (Dps \cup Limits) \ S : \A v : Backs(k, f, v) => f \in k.confirmed \/ k.request \in Presets
    PROVE  Fine(k, e, Failed(k, e, S))
<1> DEFINE r == Failed(k, e, S)
<1>1. r.call = [k EXCEPT !.pc = "failed", !.wanted = NoChange, !.answer = "none",
                         !.sent = IF k.flying THEN k.sent ELSE NoChange]
  BY DEF Failed, Over, CallRecords
<1>2. r.call \in CallRecords /\ r.call.pc = "failed"
  BY <1>1, NoChangeType DEF CallRecords
<1> r.call.flying = k.flying
  BY <1>1 DEF CallRecords
<1>3. Shape(r.call)
  BY <1>1, NoChangeType DEF Shape, CallRecords
<1>4. Accounted(r.call)
  BY <1>2 DEF Accounted
<1>5. r.entity = Forget(e, S)
  BY DEF Failed
<1>6. \A f \in (Dps \cup Limits) \ S : \A v : Backs(k, f, v) => Backs(r.call, f, v)
  BY <1>1 DEF Backs, CallRecords
<1>7. Supported(k, e, r.call, r.entity)
  BY <1>5, <1>6, ForgetType DEF Supported, Fields, Room
<1> QED  BY <1>2, <1>3, <1>4, <1>5, <1>7, ForgetType DEF Fine

\* What is found to be live changes nothing else.
LEMMA FoundType ==
    ASSUME NEW k \in CallRecords, NEW l, NEW S
    PROVE  LET q == Found(k, l, S)
           IN /\ q \in CallRecords
              /\ \A x \in {"request", "pc", "asked", "sent", "wanted", "flying", "answer"} : q[x] = k[x]
              /\ k.confirmed \subseteq q.confirmed
              /\ \A f \in S \cap DOMAIN k.asked : k.asked[f] = l[f] => f \in q.confirmed
<1>1. k.asked \in Changes /\ DOMAIN k.asked \subseteq Fields
  BY ChangeDomain DEF CallRecords
<1> QED  BY <1>1 DEF Found, CallRecords

LEMMA SendLimitsFine ==
    ASSUME NEW k \in CallRecords, NEW e \in Entities, NEW l,
           ~k.flying, k.pc # "failed", DOMAIN k.wanted \subseteq Limits, Covered(k, k.wanted)
    PROVE  Fine(k, e, SendLimits(k, e, l))
<1> DEFINE S == {f \in DOMAIN k.wanted : k.wanted[f] # l[f]}
           q == Found(k, l, Limits)
           r == SendLimits(k, e, l)
<1>1. /\ q \in CallRecords /\ k.confirmed \subseteq q.confirmed
      /\ q.request = k.request /\ q.pc = k.pc /\ q.asked = k.asked /\ q.wanted = k.wanted
      /\ q.flying = k.flying /\ q.sent = k.sent /\ q.answer = k.answer
      /\ \A f \in Limits \cap DOMAIN k.asked : k.asked[f] = l[f] => f \in q.confirmed
  BY FoundType DEF CallRecords
<1>2. \A f \in DOMAIN k.wanted \ S :
         Holds(k.wanted, k, f) /\ f \in DOMAIN k.asked => f \in q.confirmed
  BY <1>1 DEF Holds
<1>3. \A f, v : Backs(k, f, v) => Backs(q, f, v)
  BY <1>1 DEF Backs
<1>4. CASE S = {}
  <2>1. Covered(q, NoChange)
    BY <1>1, <1>2, <1>4 DEF Covered, Holds
  <2>2. r = Done(q, e, l)
    BY <1>4 DEF SendLimits
  <2>3. Fine(q, e, r)
    BY <1>1, <2>1, <2>2, DoneFine
  <2>4. Supported(k, e, r.call, r.entity)
    BY <1>3, <2>3 DEF Fine, Supported
  <2> QED  BY <1>1, <2>3, <2>4 DEF Fine
<1>5. CASE S # {}
  <2> DEFINE g == Only(k.wanted, S)
  <2>1. S \subseteq Limits /\ g \in Changes /\ DOMAIN g = S /\ \A f \in S : g[f] = k.wanted[f]
    <3>1. k.wanted \in Changes /\ S \cap DOMAIN k.wanted = S
      BY DEF CallRecords
    <3>2. S \subseteq Limits
      OBVIOUS
    <3> HIDE DEF S
    <3> QED  BY <3>1, <3>2, Part
  <2>2. r = [call |-> [q EXCEPT !.pc = "limits", !.sent = g], entity |-> e]
    BY <1>5 DEF SendLimits
  <2> HIDE DEF r, q, g, S
  <2>3. r.call \in CallRecords /\ r.call.pc = "limits"
    BY <1>1, <2>1, <2>2 DEF CallRecords
  <2>4. /\ r.call.sent = g /\ r.call.asked = k.asked /\ r.call.confirmed = q.confirmed
        /\ r.call.wanted = k.wanted /\ ~r.call.flying /\ r.call.request = k.request
    BY <1>1, <2>2 DEF CallRecords
  <2>5. Shape(r.call)
    BY <2>1, <2>3, <2>4 DEF Shape
  <2>6. Accounted(r.call)
    BY <1>1, <1>2, <2>1, <2>3, <2>4 DEF Accounted, Covered, Holds
  <2>7. \A f, v : Backs(k, f, v) => Backs(r.call, f, v)
    BY <1>1, <2>3, <2>4 DEF Backs
  <2>8. Supported(k, e, r.call, r.entity)
    BY <2>2, <2>7 DEF Supported
  <2> QED  BY <2>2, <2>3, <2>4, <2>5, <2>6, <2>8 DEF Fine, r
<1> QED  BY <1>4, <1>5

\* The fields a command leaves out are live, the limits wait for it to be taken.
LEMMA SendBreezerFine ==
    ASSUME NEW k \in CallRecords, NEW e \in Entities, NEW l,
           ~k.flying, k.pc \in {"new", "zone"}, k.answer = "none",
           k.request \notin Presets =>
             \A f \in DOMAIN k.asked :
               \/ f \in k.confirmed
               \/ f \in Dps \cup Limits /\ e.pending[f] = k.asked[f] /\ f \notin TooOld(e)
    PROVE  Fine(k, e, SendBreezer(k, e, l))
<1> DEFINE fresh == Forget(e, TooOld(e))
           S == Command(fresh, l)
           W == Limits \cap PendingOf(fresh)
           w == Only(fresh.pending, W)
           q == [Found(k, l, Dps) EXCEPT !.wanted = w]
           r == SendBreezer(k, e, l)
<1>1. fresh \in Entities
  BY ForgetType
<1>2. \A f \in Fields : fresh.pending[f] = IF f \in TooOld(e) THEN None ELSE e.pending[f]
  BY ForgetType
<1> HIDE DEF fresh
<1>3. \A f \in PendingOf(fresh) : f \in Fields /\ fresh.pending[f] \in Values
  BY <1>1 DEF PendingOf, Entities
<1>4. \A T \in SUBSET PendingOf(fresh) :
           /\ Only(fresh.pending, T) \in Changes /\ DOMAIN Only(fresh.pending, T) = T
           /\ \A f \in T : Only(fresh.pending, T)[f] = fresh.pending[f]
  <2> SUFFICES ASSUME NEW T \in SUBSET PendingOf(fresh)
               PROVE  /\ Only(fresh.pending, T) \in Changes /\ DOMAIN Only(fresh.pending, T) = T
                      /\ \A f \in T : Only(fresh.pending, T)[f] = fresh.pending[f]
    OBVIOUS
  <2>1. T \cap DOMAIN fresh.pending = T
    BY <1>1, <1>3 DEF Entities
  <2>2. Only(fresh.pending, T) = [f \in T |-> fresh.pending[f]]
    BY <2>1 DEF Only
  <2>3. T \subseteq Fields /\ [f \in T |-> fresh.pending[f]] \in [T -> Values]
    BY <1>3
  <2> QED  BY <2>2, <2>3, ChangeIntro
<1>5. W \subseteq PendingOf(fresh) /\ S \subseteq PendingOf(fresh) /\ S \subseteq Dps
  BY DEF Command
<1>6. w \in Changes /\ DOMAIN w = W /\ \A f \in W : w[f] = fresh.pending[f]
  BY <1>4, <1>5
<1>7. /\ q \in CallRecords /\ k.confirmed \subseteq q.confirmed
      /\ q.request = k.request /\ q.pc = k.pc /\ q.asked = k.asked /\ q.wanted = w
      /\ q.flying = k.flying /\ q.answer = k.answer
      /\ \A f \in Dps \cap DOMAIN k.asked : k.asked[f] = l[f] => f \in q.confirmed
  <2> DEFINE p == Found(k, l, Dps)
  <2>1. /\ p \in CallRecords /\ k.confirmed \subseteq p.confirmed
        /\ p.request = k.request /\ p.pc = k.pc /\ p.asked = k.asked
        /\ p.flying = k.flying /\ p.answer = k.answer
        /\ \A f \in Dps \cap DOMAIN k.asked : k.asked[f] = l[f] => f \in p.confirmed
    BY FoundType DEF CallRecords
  <2> HIDE DEF p, w
  <2>2. q = [p EXCEPT !.wanted = w]
    BY DEF p
  <2> HIDE DEF q
  <2> QED  BY <1>6, <2>1, <2>2 DEF CallRecords
<1>8. DOMAIN k.asked \subseteq Fields
  BY ChangeDomain DEF CallRecords
<1>9. k.request \notin Presets =>
        \A f \in DOMAIN k.asked :
          \/ f \in q.confirmed
          \/ f \in S /\ fresh.pending[f] = k.asked[f]
          \/ f \in W /\ fresh.pending[f] = k.asked[f]
  <2> SUFFICES ASSUME k.request \notin Presets, NEW f \in DOMAIN k.asked, f \notin k.confirmed
               PROVE  \/ f \in q.confirmed
                      \/ f \in S /\ fresh.pending[f] = k.asked[f]
                      \/ f \in W /\ fresh.pending[f] = k.asked[f]
    BY <1>7
  <2>1. f \in Dps \cup Limits /\ fresh.pending[f] = k.asked[f]
    BY <1>2, <1>8
  <2>2. fresh.pending[f] # None /\ f \in PendingOf(fresh)
    BY <1>8, <2>1, NoneAssumption, ChangeDomain DEF PendingOf, Values, CallRecords
  <2>3. CASE f \in Limits
    BY <2>1, <2>2, <2>3
  <2>4. CASE f \in Dps
    BY <1>7, <2>1, <2>2, <2>4 DEF Command
  <2> QED  BY <2>1, <2>3, <2>4
<1>10. \A f, v : Backs(k, f, v) => Backs(q, f, v)
  BY <1>7 DEF Backs
<1>11. \A f \in Fields : fresh.pending[f] \in {None, e.pending[f]}
  BY <1>2
<1>12. Dps \cup Limits \subseteq Fields
  BY DEF Fields, Room
<1>13. Supported(k, e, q, fresh)
  BY <1>10, <1>11, <1>12 DEF Supported
<1> HIDE DEF q, w, W
<1>14. CASE S = {}
  <2>1. r = SendLimits(q, fresh, l)
    BY <1>14 DEF SendBreezer, fresh, q, w, W
  <2>2. Covered(q, q.wanted)
    BY <1>6, <1>7, <1>9, <1>14 DEF Covered, Holds
  <2>3. DOMAIN q.wanted \subseteq Limits
    BY <1>6, <1>7 DEF W
  <2>4. Fine(q, fresh, r)
    BY <1>1, <1>7, <2>1, <2>2, <2>3, SendLimitsFine
  <2> QED  BY <1>7, <1>13, <2>4, SupportedTwice DEF Fine
<1>15. CASE S # {} /\ channel = "down"
  <2>1. r = Failed(q, fresh, Dps \cup Limits)
    BY <1>15 DEF SendBreezer, fresh, q, w, W
  <2>2. Fine(q, fresh, r)
    BY <1>1, <1>7, <2>1, FailedFine
  <2> QED  BY <1>7, <1>13, <2>2, SupportedTwice DEF Fine
<1>16. CASE S # {} /\ channel # "down"
  <2> DEFINE g == Only(fresh.pending, S)
  <2>1. g \in Changes /\ DOMAIN g = S /\ \A f \in S : g[f] = fresh.pending[f]
    BY <1>4, <1>5
  <2>2. r = [call |-> [q EXCEPT !.pc = "command", !.sent = g, !.flying = TRUE], entity |-> fresh]
    BY <1>16 DEF SendBreezer, fresh, q, w, W
  <2> HIDE DEF r, g, S
  <2>3. /\ r.call \in CallRecords /\ r.call.pc = "command" /\ r.call.sent = g /\ r.call.flying
        /\ r.call.asked = k.asked /\ r.call.confirmed = q.confirmed /\ r.call.wanted = w
        /\ r.call.request = k.request /\ r.call.answer = "none"
    BY <1>7, <2>1, <2>2 DEF CallRecords
  <2>4. Shape(r.call)
    BY <1>5, <1>6, <2>1, <2>3 DEF Shape, W
  <2>5. Accounted(r.call)
    BY <1>6, <1>9, <2>1, <2>3 DEF Accounted, Holds
  <2>6. \A f, v : Backs(q, f, v) => Backs(r.call, f, v)
    BY <1>7, <2>3 DEF Backs
  <2>7. Supported(q, fresh, r.call, r.entity)
    BY <2>2, <2>6 DEF Supported
  <2>8. Supported(k, e, r.call, r.entity)
    BY <1>13, <2>7, SupportedTwice
  <2> QED  BY <1>1, <2>2, <2>3, <2>4, <2>5, <2>8 DEF Fine, r
<1> QED  BY <1>14, <1>15, <1>16

\* The zone has its mode; the rest is set and sent.
LEMMA LateType ==
    ASSUME NEW k \in CallRecords, NEW e, NEW l
    PROVE  LET g == Late(k, e, l)
           IN g \in Changes /\ DOMAIN g \subseteq Dps \cup Limits
<1>1. /\ To("speed", 0) \in Changes /\ DOMAIN To("speed", 0) = {"speed"}
      /\ To("speed", 1) \in Changes /\ DOMAIN To("speed", 1) = {"speed"}
      /\ To("speed", 2) \in Changes /\ DOMAIN To("speed", 2) = {"speed"}
      /\ To("heater", 0) \in Changes /\ DOMAIN To("heater", 0) = {"heater"}
      /\ To("heater", 1) \in Changes /\ DOMAIN To("heater", 1) = {"heater"}
      /\ To("limit", 2) \in Changes /\ DOMAIN To("limit", 2) = {"limit"}
  BY OneChange DEF Fields, Dps, Room, Limits, Values
<1>2. NoChange \in Changes /\ DOMAIN NoChange = {}
  BY NoChangeType
<1>3. k.request \in {"off", "manual", "auto", "heat", "sleep", "eco"}
  BY DEF CallRecords
<1>4. CASE k.request = "off"
  <2>1. Late(k, e, l) = To("speed", 0)
    BY <1>4 DEF Late, Presets
  <2> QED  BY <1>1, <2>1 DEF Dps
<1>5. CASE k.request = "manual"
  <2>1. Late(k, e, l) = To("speed", 2)
    BY <1>5 DEF Late, Presets
  <2> QED  BY <1>1, <2>1 DEF Dps
<1>6. CASE k.request = "auto"
  <2> DEFINE g == To("limit", 2) ++ To("heater", 0)
  <2>1. Late(k, e, l) = g
    BY <1>6 DEF Late, Presets
  <2>2. g \in Changes /\ DOMAIN g = {"limit"} \cup {"heater"}
    <3>1. To("limit", 2) \in Changes /\ To("heater", 0) \in Changes
      BY <1>1
    <3>2. g \in Changes /\ DOMAIN g = DOMAIN To("limit", 2) \cup DOMAIN To("heater", 0)
      BY <3>1, Joined
    <3> QED  BY <1>1, <3>2
  <2> QED  BY <2>1, <2>2 DEF Dps, Limits
<1>7. CASE k.request = "heat"
  <2> DEFINE g == To("heater", 1) ++ To("speed", 1)
             h == To("heater", 1) ++ NoChange
  <2>1. Late(k, e, l) \in {g, h}
    BY <1>7 DEF Late, Presets
  <2>2. g \in Changes /\ DOMAIN g = {"heater"} \cup {"speed"}
    <3>1. To("heater", 1) \in Changes /\ To("speed", 1) \in Changes
      BY <1>1
    <3>2. g \in Changes /\ DOMAIN g = DOMAIN To("heater", 1) \cup DOMAIN To("speed", 1)
      BY <3>1, Joined
    <3> QED  BY <1>1, <3>2
  <2>3. h \in Changes /\ DOMAIN h = DOMAIN To("heater", 1) \cup DOMAIN NoChange
    <3>1. To("heater", 1) \in Changes
      BY <1>1
    <3> QED  BY <1>2, <3>1, Joined
  <2>4. DOMAIN g \subseteq Dps /\ DOMAIN h \subseteq Dps
    BY <1>1, <1>2, <2>2, <2>3 DEF Dps
  <2> HIDE DEF g, h
  <2> QED  BY <2>1, <2>2, <2>3, <2>4
<1>8. CASE k.request \in Presets
  BY <1>2, <1>8 DEF Late, Presets
<1>9. k.request \in {"off", "manual", "auto", "heat"} \cup Presets
  BY <1>3 DEF Presets
<1> HIDE DEF Late
<1> QED  BY <1>4, <1>5, <1>6, <1>7, <1>8, <1>9

LEMMA EarlyType ==
    ASSUME NEW k \in CallRecords
    PROVE  /\ Early(k.request) \in Changes
           /\ k.request \notin Presets => DOMAIN Early(k.request) \subseteq {"mode"}
<1>1. /\ To("mode", 0) \in Changes /\ DOMAIN To("mode", 0) = {"mode"}
      /\ To("mode", 1) \in Changes /\ DOMAIN To("mode", 1) = {"mode"}
      /\ To("speed", 1) \in Changes /\ To("heater", 0) \in Changes /\ To("limit", 1) \in Changes
  BY OneChange DEF Fields, Dps, Room, Limits, Values
<1>2. NoChange \in Changes /\ DOMAIN NoChange = {}
  BY NoChangeType
<1>3. k.request \in {"off", "manual", "auto", "heat", "sleep", "eco"}
  BY DEF CallRecords
<1>4. CASE k.request \in {"off", "manual", "auto", "heat"}
  BY <1>1, <1>2, <1>4 DEF Early
<1>5. CASE k.request = "sleep"
  BY <1>1, <1>5, Joined DEF Early, Presets
<1>6. CASE k.request = "eco"
  BY <1>1, <1>6, Joined DEF Early, Presets
<1> QED  BY <1>3, <1>4, <1>5, <1>6

LEMMA ZoneSentFine ==
    ASSUME NEW k \in CallRecords, NEW e \in Entities, NEW l,
           ~k.flying, k.pc \in {"new", "zone"}, k.answer = "none",
           k.request \notin Presets => DOMAIN k.asked \subseteq k.confirmed \cap {"mode"}
    PROVE  Fine(k, e, ZoneSent(k, e, l))
<1> DEFINE g == Late(k, e, l)
           q == [k EXCEPT !.asked = g ++ k.asked]
           p == Put(e, g)
           r == ZoneSent(k, e, l)
<1>1. g \in Changes /\ DOMAIN g \subseteq Dps \cup Limits
  BY LateType
<1>2. r = SendBreezer(q, p, l)
  BY DEF ZoneSent
<1> HIDE DEF g
<1>3. k.asked \in Changes
  BY DEF CallRecords
<1>4. /\ g ++ k.asked \in Changes /\ DOMAIN (g ++ k.asked) = DOMAIN g \cup DOMAIN k.asked
      /\ \A f \in DOMAIN g : (g ++ k.asked)[f] = g[f]
      /\ \A f \in DOMAIN k.asked \ DOMAIN g : (g ++ k.asked)[f] = k.asked[f]
  BY <1>1, <1>3, Joined
<1> DEFINE a == g ++ k.asked
<1> HIDE DEF a
<1>5. q = [k EXCEPT !.asked = a]
  BY DEF a
<1> HIDE DEF q
<1>6. /\ q \in CallRecords /\ q.asked = a /\ q.pc = k.pc /\ q.flying = k.flying
      /\ q.answer = k.answer /\ q.request = k.request /\ q.confirmed = k.confirmed
  BY <1>4, <1>5 DEF CallRecords, a
<1>7. /\ p \in Entities
      /\ \A f \in DOMAIN g : p.pending[f] = g[f] /\ p.age[f] = 0
      /\ \A f \in Fields \ DOMAIN g : p.pending[f] = e.pending[f]
  BY <1>1, PutType
<1> HIDE DEF p
<1>8. DOMAIN g \subseteq Fields
  BY <1>1, ChangeDomain
<1>9. \A f \in DOMAIN g : f \notin TooOld(p)
  BY <1>7, <1>8, FreshKept
<1>10. Supported(k, e, q, p)
  <2> SUFFICES ASSUME NEW f \in Dps \cup Limits, p.pending[f] # None, ~Backs(q, f, p.pending[f])
               PROVE  p.pending[f] = e.pending[f] /\ ~Backs(k, f, e.pending[f])
    BY DEF Supported
  <2>1. f \in Fields
    BY DEF Fields, Room
  <2>2. CASE f \in DOMAIN g
    BY <1>4, <1>6, <1>7, <2>2 DEF Backs, a
  <2>3. CASE f \notin DOMAIN g
    BY <1>4, <1>6, <1>7, <2>1, <2>3 DEF Backs, a
  <2> QED  BY <2>2, <2>3
<1>11. q.request \notin Presets =>
         \A f \in DOMAIN q.asked :
           \/ f \in q.confirmed
           \/ f \in Dps \cup Limits /\ p.pending[f] = q.asked[f] /\ f \notin TooOld(p)
  BY <1>1, <1>4, <1>6, <1>7, <1>9 DEF a
<1>12. Fine(q, p, r)
  BY <1>2, <1>6, <1>7, <1>11, SendBreezerFine
<1> QED  BY <1>6, <1>10, <1>12, SupportedTwice DEF Fine

LEMMA StartedFine ==
    ASSUME NEW k \in CallRecords, NEW e \in Entities, NEW l,
           ~k.flying, k.pc = "new", k.answer = "none", k.asked = NoChange, DOMAIN k.wanted \subseteq Limits
    PROVE  Fine(k, e, Started(k, e, l))
<1> DEFINE g == Early(k.request)
           d == IF k.request \in Presets THEN e ELSE [e EXCEPT !.preset = "none"]
           p == Put(d, g)
           q == Found([k EXCEPT !.asked = g], l, {"mode"})
           r == Started(k, e, l)
<1>1. g \in Changes /\ (k.request \notin Presets => DOMAIN g \subseteq {"mode"})
  BY EarlyType
<1>2. d \in Entities /\ d.pending = e.pending
  BY DEF Entities
<1>3. /\ "mode" \in DOMAIN g /\ g["mode"] # l["mode"] =>
           r = [call |-> [q EXCEPT !.pc = "zone", !.sent = Only(g, {"mode"})], entity |-> p]
      /\ ~("mode" \in DOMAIN g /\ g["mode"] # l["mode"]) => r = ZoneSent(q, p, l)
  BY DEF Started
<1> HIDE DEF d, g
<1>4. /\ p \in Entities
      /\ \A f \in DOMAIN g : p.pending[f] = g[f]
      /\ \A f \in Fields \ DOMAIN g : p.pending[f] = e.pending[f]
  BY <1>1, <1>2, PutType
<1>5. /\ [k EXCEPT !.asked = g] \in CallRecords /\ [k EXCEPT !.asked = g].asked = g
      /\ \A x \in {"request", "pc", "sent", "wanted", "flying", "answer", "confirmed"} :
           [k EXCEPT !.asked = g][x] = k[x]
  BY <1>1 DEF CallRecords
<1>6. /\ q \in CallRecords /\ q.asked = g /\ q.pc = k.pc /\ q.flying = k.flying
      /\ q.answer = k.answer /\ q.request = k.request /\ q.wanted = k.wanted
      /\ "mode" \in DOMAIN g /\ g["mode"] = l["mode"] => "mode" \in q.confirmed
  BY <1>5, FoundType DEF CallRecords
<1> HIDE DEF p, q, r
<1>7. Supported(k, e, q, p)
  <2> SUFFICES ASSUME NEW f \in Dps \cup Limits, p.pending[f] # None, ~Backs(q, f, p.pending[f])
               PROVE  p.pending[f] = e.pending[f] /\ ~Backs(k, f, e.pending[f])
    BY DEF Supported
  <2>1. f \in Fields
    BY DEF Fields, Room
  <2>2. f \notin DOMAIN g
    BY <1>4, <1>6 DEF Backs
  <2> QED  BY <1>4, <2>1, <2>2, NoChangeType DEF Backs
<1>8. CASE "mode" \in DOMAIN g /\ g["mode"] # l["mode"]
  <2> DEFINE s == Only(g, {"mode"})
  <2>1. s \in Changes /\ DOMAIN s = {"mode"} /\ s["mode"] = g["mode"]
    <3>1. /\ s \in Changes /\ DOMAIN s = {"mode"} \cap DOMAIN g
          /\ \A f \in {"mode"} \cap DOMAIN g : s[f] = g[f]
      BY <1>1, Part
    <3> HIDE DEF s
    <3> QED  BY <1>8, <3>1
  <2>2. r = [call |-> [q EXCEPT !.pc = "zone", !.sent = s], entity |-> p]
    BY <1>3, <1>8
  <2> HIDE DEF s
  <2>3. /\ r.call \in CallRecords /\ r.call.pc = "zone" /\ r.call.sent = s /\ ~r.call.flying
        /\ r.call.asked = g /\ r.call.request = k.request /\ r.call.answer = "none"
        /\ r.call.wanted = k.wanted /\ r.call.confirmed = q.confirmed
    BY <1>6, <2>1, <2>2 DEF CallRecords
  <2>4. Shape(r.call)
    BY <1>1, <2>1, <2>3 DEF Shape
  <2>5. Accounted(r.call)
    BY <1>1, <2>1, <2>3 DEF Accounted, Holds
  <2>6. \A f, v : Backs(q, f, v) => Backs(r.call, f, v)
    BY <1>6, <2>3 DEF Backs
  <2>7. Supported(q, p, r.call, r.entity)
    BY <2>2, <2>6 DEF Supported
  <2>8. Supported(k, e, r.call, r.entity)
    BY <1>7, <2>7, SupportedTwice
  <2> QED  BY <1>4, <2>2, <2>3, <2>4, <2>5, <2>8 DEF Fine, r
<1>9. CASE ~("mode" \in DOMAIN g /\ g["mode"] # l["mode"])
  <2>1. r = ZoneSent(q, p, l)
    BY <1>3, <1>9
  <2>2. q.request \notin Presets => DOMAIN q.asked \subseteq q.confirmed \cap {"mode"}
    BY <1>1, <1>6, <1>9
  <2>3. Fine(q, p, r)
    BY <1>4, <1>6, <2>1, <2>2, ZoneSentFine
  <2> QED  BY <1>6, <1>7, <2>3, SupportedTwice DEF Fine, r
<1> QED  BY <1>8, <1>9

-----------------------------------------------------------------------------
(* The actions *)

\* A step of call c that is fine keeps the calls and what is pending in order.
LEMMA CallStep ==
    ASSUME IInv, NEW c \in Calls, NEW e \in Entities, NEW r, Fine(call[c], e, r),
           \A f \in Fields : e.pending[f] \in {None, entity.pending[f]},
           call' = [call EXCEPT ![c] = r.call], entity' = r.entity, inbox' = inbox
    PROVE  /\ entity' \in Entities /\ call' \in [Calls -> CallRecords]
           /\ CallInv' /\ Told' /\ Owned'
<1>1. call \in [Calls -> CallRecords] /\ r.call \in CallRecords /\ call'[c] = r.call
  BY DEF IInv, Types, Fine
<1>2. entity' \in Entities /\ call' \in [Calls -> CallRecords]
  BY <1>1 DEF Fine
<1>3. CallInv'
  <2> SUFFICES ASSUME NEW d \in Calls
               PROVE  Shape(call'[d]) /\ Accounted(call'[d])
    BY DEF CallInv
  <2>1. CASE d = c
    BY <1>1, <2>1 DEF Fine
  <2>2. CASE d # c
    BY <1>1, <2>2 DEF IInv, CallInv
  <2> QED  BY <2>1, <2>2
<1>4. Told'
  <2> SUFFICES ASSUME NEW i \in 1 .. Len(inbox), NEW d \in Calls, inbox[i].to = d
               PROVE  ~call'[d].flying /\ call'[d].pc \notin {"new", "zone"}
    BY DEF Told
  <2>1. ~call[d].flying /\ call[d].pc \notin {"new", "zone"}
    BY DEF IInv, Told
  <2>2. CASE d = c
    BY <1>1, <2>1, <2>2 DEF Fine
  <2>3. CASE d # c
    BY <1>1, <2>1, <2>3
  <2> QED  BY <2>2, <2>3
<1>5. Owned'
  <2> SUFFICES ASSUME NEW f \in Dps \cup Limits, entity'.pending[f] # None
               PROVE  \E d \in Calls : Backs(call'[d], f, entity'.pending[f])
    BY DEF Owned
  <2>1. CASE Backs(r.call, f, r.entity.pending[f])
    BY <1>1, <2>1
  <2>2. CASE ~Backs(r.call, f, r.entity.pending[f])
    <3>1. r.entity.pending[f] = e.pending[f] /\ ~Backs(call[c], f, e.pending[f])
      BY <2>2 DEF Fine, Supported
    <3>2. e.pending[f] = entity.pending[f]
      BY <3>1 DEF Fields, Room
    <3>3. PICK d \in Calls : Backs(call[d], f, entity.pending[f])
      BY <3>1, <3>2 DEF IInv, Owned
    <3> QED  BY <1>1, <3>1, <3>2, <3>3
  <2> QED  BY <2>1, <2>2
<1> QED  BY <1>2, <1>3, <1>4, <1>5

\* What is drawn or forgotten while no call moves stays owned.
LEMMA EntityStep ==
    ASSUME IInv, NEW l, entity' = Render(entity, l), call' = call
    PROVE  entity' \in Entities /\ Owned' /\ CallInv'
<1>1. entity \in Entities
  BY DEF IInv, Types
<1>2. entity' \in Entities /\ \A f \in Fields : entity'.pending[f] \in {None, entity.pending[f]}
  BY <1>1, RenderType
<1>3. Owned'
  BY <1>2 DEF IInv, Owned, Fields, Room
<1> QED  BY <1>2, <1>3 DEF IInv, CallInv

LEMMA InitInv == Init => IInv
<1> SUFFICES ASSUME Init PROVE IInv
  OBVIOUS
<1>1. device \in [Dps -> Values] /\ room \in [Room -> Values]
  BY DEF Init, Values
<1>2. live \in Lives
  BY <1>1 DEF Init, Lives, ++, Fields
<1>3. entity \in Entities /\ \A f \in Fields : entity.pending[f] = None
  <2>1. entity = [pending |-> [f \in Fields |-> None], age |-> [f \in Fields |-> 0], preset |-> "none"]
    BY DEF Init
  <2>2. [f \in Fields |-> None] \in [Fields -> Values \cup {None}]
    OBVIOUS
  <2>3. [f \in Fields |-> 0] \in [Fields -> 0 .. PendingTTL + 1]
    BY BoundsAssumption
  <2> QED  BY <2>1, <2>2, <2>3 DEF Entities
<1>4. \A c \in Calls :
        \E x \in {"off", "manual", "auto", "heat", "sleep", "eco"} :
          call[c] = [request |-> x, pc |-> "new", asked |-> NoChange,
                     sent |-> NoChange, wanted |-> NoChange, flying |-> FALSE,
                     answer |-> "none", confirmed |-> {}]
  BY DEF Init
<1>5. call \in [Calls -> CallRecords]
  <2>1. ASSUME NEW c \in Calls PROVE call[c] \in CallRecords
    <3>1. PICK x \in {"off", "manual", "auto", "heat", "sleep", "eco"} :
            call[c] = [request |-> x, pc |-> "new", asked |-> NoChange,
                       sent |-> NoChange, wanted |-> NoChange, flying |-> FALSE,
                       answer |-> "none", confirmed |-> {}]
      BY <1>4
    <3> QED  BY <3>1, NoChangeType DEF CallRecords
  <2>2. call = [c \in Calls |-> call[c]]
    BY DEF Init
  <2> QED  BY <2>1, <2>2
<1>6. CallInv
  <2> SUFFICES ASSUME NEW c \in Calls PROVE Shape(call[c]) /\ Accounted(call[c])
    BY DEF CallInv
  <2>1. /\ call[c].pc = "new" /\ call[c].asked = NoChange /\ call[c].sent = NoChange
        /\ call[c].wanted = NoChange /\ call[c].flying = FALSE /\ call[c].answer = "none"
    BY <1>4
  <2> QED  BY <2>1, NoChangeType DEF Shape, Accounted
<1>7. inbox \in Seq(Messages) /\ Told
  BY DEF Init, Told
<1>8. Owned
  BY <1>3 DEF Owned, Fields, Room
<1> QED  BY <1>1, <1>2, <1>3, <1>5, <1>6, <1>7, <1>8, BoundsAssumption DEF IInv, Types, Init

\* A call that has found more of its values, or had them taken, is the same call.
LEMMA FineFrom ==
    ASSUME NEW k \in CallRecords, NEW e, NEW r, NEW C \in SUBSET Fields, k.confirmed \subseteq C,
           Fine([k EXCEPT !.confirmed = C], e, r)
    PROVE  Fine(k, e, r)
<1> DEFINE q == [k EXCEPT !.confirmed = C]
<1>1. /\ q.pc = k.pc /\ q.flying = k.flying /\ q.asked = k.asked /\ q.request = k.request
      /\ q.confirmed = C
  BY DEF CallRecords
<1> HIDE DEF q
<1>2. \A f, v : Backs(k, f, v) => Backs(q, f, v)
  BY <1>1 DEF Backs
<1>3. Fine(q, e, r)
  BY DEF q
<1> QED  BY <1>1, <1>2, <1>3 DEF Fine, Supported

LEMMA BeginStep ==
    ASSUME IInv, NEW c \in Calls, Begin(c)
    PROVE  IInv'
<1>1. call[c] \in CallRecords /\ entity \in Entities /\ Shape(call[c])
  BY DEF IInv, Types, CallInv
<1>2. Fine(call[c], entity, Started(call[c], entity, live))
  BY <1>1, StartedFine DEF Begin, Shape
<1>3. /\ entity' \in Entities /\ call' \in [Calls -> CallRecords]
      /\ CallInv' /\ Told' /\ Owned'
  <2> DEFINE r == Started(call[c], entity, live)
  <2>1. call' = [call EXCEPT ![c] = r.call] /\ entity' = r.entity /\ inbox' = inbox
    BY DEF Begin, Becomes
  <2>2. Fine(call[c], entity, r)
    BY <1>2
  <2> HIDE DEF r
  <2>3. \A f \in Fields : entity.pending[f] \in {None, entity.pending[f]}
    OBVIOUS
  <2> QED  BY <1>1, <2>1, <2>2, <2>3, CallStep
<1> QED  BY <1>3 DEF IInv, Types, Begin

LEMMA RoomAnswerStep ==
    ASSUME IInv, NEW c \in Calls, RoomAnswer(c)
    PROVE  IInv'
<1> DEFINE C == call[c].confirmed \cup
                   {f \in DOMAIN call[c].sent \cap DOMAIN call[c].asked :
                      call[c].sent[f] = call[c].asked[f]}
           k == [call[c] EXCEPT !.confirmed = C]
           e == Render(entity, live')
           r == IF k.pc = "zone" THEN ZoneSent(k, e, live') ELSE Done(k, e, live')
<1>1. /\ call[c] \in CallRecords /\ entity \in Entities /\ Shape(call[c]) /\ Accounted(call[c])
      /\ call[c].pc \in {"zone", "limits"}
  BY DEF IInv, Types, CallInv, RoomAnswer
<1>2. call[c].sent \in Changes /\ DOMAIN call[c].sent \subseteq Room /\ Room \subseteq Fields
  BY <1>1 DEF Shape, Room, CallRecords, Fields
<1>3. room' \in [Room -> Values] /\ live' \in Lives
  BY <1>2, PutBefore DEF RoomAnswer, IInv, Types, Lives
<1>4. e \in Entities /\ \A f \in Fields : e.pending[f] \in {None, entity.pending[f]}
  BY <1>1, RenderType
<1>5. C \in SUBSET Fields /\ call[c].confirmed \subseteq C
  BY <1>1, <1>2 DEF CallRecords
<1>6. call' = [call EXCEPT ![c] = r.call] /\ entity' = r.entity
  BY DEF RoomAnswer, Becomes
<1>7. \A f \in DOMAIN call[c].asked : call[c].request \in Presets \/ f \in C
  BY <1>1 DEF Accounted, Holds
<1> HIDE DEF C, e
<1>8. /\ k \in CallRecords /\ k.confirmed = C /\ k.asked = call[c].asked /\ k.pc = call[c].pc
      /\ k.request = call[c].request /\ k.flying = call[c].flying /\ k.answer = call[c].answer
  BY <1>1, <1>5 DEF CallRecords
<1> HIDE DEF k
<1>9. Fine(k, e, r)
  <2>1. CASE k.pc = "zone"
    <3>1. k.request \notin Presets => DOMAIN k.asked \subseteq k.confirmed \cap {"mode"}
      BY <1>1, <1>7, <1>8, <2>1 DEF Shape
    <3>2. ~k.flying /\ k.answer = "none"
      BY <1>1, <1>8, <2>1 DEF Shape
    <3> QED  BY <1>4, <1>8, <2>1, <3>1, <3>2, ZoneSentFine
  <2>2. CASE k.pc # "zone"
    <3>1. Covered(k, NoChange) /\ ~k.flying /\ k.pc = "limits"
      BY <1>1, <1>7, <1>8, <2>2 DEF Covered, Shape
    <3> QED  BY <1>4, <1>8, <2>2, <3>1, DoneFine
  <2> QED  BY <2>1, <2>2
<1> HIDE DEF r
<1>10. Fine(call[c], e, r)
  BY <1>1, <1>5, <1>9, FineFrom DEF k
<1>11. /\ entity' \in Entities /\ call' \in [Calls -> CallRecords]
       /\ CallInv' /\ Told' /\ Owned'
  BY <1>4, <1>6, <1>10, CallStep DEF RoomAnswer
<1> QED  BY <1>3, <1>11 DEF IInv, Types, RoomAnswer

LEMMA RoomFailsStep ==
    ASSUME IInv, NEW c \in Calls, RoomFails(c)
    PROVE  IInv'
<1> DEFINE S == IF call[c].pc = "zone" THEN {"mode"} ELSE Limits
<1>1. /\ call[c] \in CallRecords /\ entity \in Entities /\ Shape(call[c]) /\ Accounted(call[c])
      /\ call[c].pc \in {"zone", "limits"}
  BY DEF IInv, Types, CallInv, RoomFails
<1>2. call[c].sent \in Changes /\ DOMAIN call[c].sent \subseteq Room /\ Room \subseteq Fields
  BY <1>1 DEF Shape, Room, CallRecords, Fields
<1>3. room' \in [Room -> Values]
  <2>1. room \in [Room -> Values]
    BY DEF IInv, Types
  <2>2. (call[c].sent ++ room) \in [Room -> Values]
    BY <1>2, <2>1, PutBefore
  <2>3. room' \in {room, call[c].sent ++ room}
    BY DEF RoomFails
  <2> QED  BY <2>1, <2>2, <2>3
<1>4. \A f \in (Dps \cup Limits) \ S : \A v :
        Backs(call[c], f, v) => f \in call[c].confirmed \/ call[c].request \in Presets
  <2> SUFFICES ASSUME NEW f \in (Dps \cup Limits) \ S, NEW v, Backs(call[c], f, v),
                      call[c].request \notin Presets
               PROVE  f \in call[c].confirmed
    OBVIOUS
  <2>1. CASE call[c].pc = "zone"
    BY <1>1, <2>1 DEF Shape, Backs
  <2>2. CASE call[c].pc = "limits"
    BY <1>1, <2>2 DEF Shape, Accounted, Holds, Backs
  <2> QED  BY <1>1, <2>1, <2>2
<1>5. Fine(call[c], entity, Failed(call[c], entity, S))
  BY <1>1, <1>4, FailedFine DEF Shape
<1>6. /\ entity' \in Entities /\ call' \in [Calls -> CallRecords]
      /\ CallInv' /\ Told' /\ Owned'
  <2> DEFINE r == Failed(call[c], entity, S)
  <2>1. call' = [call EXCEPT ![c] = r.call] /\ entity' = r.entity /\ inbox' = inbox
    BY DEF RoomFails, Becomes
  <2>2. Fine(call[c], entity, r)
    BY <1>5
  <2> HIDE DEF r
  <2>3. \A f \in Fields : entity.pending[f] \in {None, entity.pending[f]}
    OBVIOUS
  <2> QED  BY <1>1, <2>1, <2>2, <2>3, CallStep
<1> QED  BY <1>3, <1>6 DEF IInv, Types, RoomFails

LEMMA ResumeStep ==
    ASSUME IInv, NEW c \in Calls, Resume(c)
    PROVE  IInv'
<1> DEFINE C == call[c].confirmed \cup
                   {f \in DOMAIN call[c].sent \cap DOMAIN call[c].asked :
                      call[c].sent[f] = call[c].asked[f]}
           k == [call[c] EXCEPT !.confirmed = C]
           r == IF k.answer = "ok" THEN SendLimits(k, entity, live)
                ELSE Failed(call[c], entity, Dps \cup Limits)
<1>1. /\ call[c] \in CallRecords /\ entity \in Entities /\ Shape(call[c]) /\ Accounted(call[c])
      /\ call[c].pc = "command"
  BY DEF IInv, Types, CallInv, Resume
<1>2. call' = [call EXCEPT ![c] = r.call] /\ entity' = r.entity /\ inbox' = inbox
  BY DEF Resume, Becomes
<1>3. C \in SUBSET Fields /\ call[c].confirmed \subseteq C
  BY <1>1, ChangeDomain DEF CallRecords
<1>4. \A f \in DOMAIN call[c].asked :
        call[c].request \in Presets \/ f \in C \/ Holds(call[c].wanted, call[c], f)
  BY <1>1 DEF Accounted, Holds
<1> HIDE DEF C
<1>5. /\ k \in CallRecords /\ k.confirmed = C /\ k.asked = call[c].asked /\ k.pc = call[c].pc
      /\ k.request = call[c].request /\ k.flying = call[c].flying /\ k.answer = call[c].answer
      /\ k.wanted = call[c].wanted
  BY <1>1, <1>3 DEF CallRecords
<1> HIDE DEF k
<1>6. Fine(call[c], entity, r)
  <2>1. CASE k.answer = "ok"
    <3>1. Covered(k, k.wanted)
      BY <1>4, <1>5 DEF Covered, Holds
    <3>2. ~k.flying /\ k.pc # "failed" /\ DOMAIN k.wanted \subseteq Limits
      BY <1>1, <1>5, <2>1 DEF Shape
    <3>3. Fine(k, entity, r)
      BY <1>1, <1>5, <2>1, <3>1, <3>2, SendLimitsFine
    <3> HIDE DEF r
    <3> QED  BY <1>1, <1>3, <3>3, FineFrom DEF k
  <2>2. CASE k.answer # "ok"
    <3>1. Fine(call[c], entity, Failed(call[c], entity, Dps \cup Limits))
      BY <1>1, FailedFine DEF Shape
    <3> QED  BY <2>2, <3>1
  <2> QED  BY <2>1, <2>2
<1> HIDE DEF r
<1>7. \A f \in Fields : entity.pending[f] \in {None, entity.pending[f]}
  OBVIOUS
<1>8. /\ entity' \in Entities /\ call' \in [Calls -> CallRecords]
      /\ CallInv' /\ Told' /\ Owned'
  BY <1>1, <1>2, <1>6, <1>7, CallStep
<1> QED  BY <1>8 DEF IInv, Types, Resume

LEMMA CommandFailsStep ==
    ASSUME IInv, NEW c \in Calls, CommandFails(c)
    PROVE  IInv'
<1> DEFINE r == Failed(call[c], entity, Dps \cup Limits)
<1>1. call[c] \in CallRecords /\ entity \in Entities /\ Shape(call[c])
  BY DEF IInv, Types, CallInv
<1>2. call' = [call EXCEPT ![c] = r.call] /\ entity' = r.entity /\ inbox' = inbox
  BY DEF CommandFails, Becomes
<1>3. Fine(call[c], entity, r)
  BY <1>1, FailedFine DEF Shape
<1> HIDE DEF r
<1>4. \A f \in Fields : entity.pending[f] \in {None, entity.pending[f]}
  OBVIOUS
<1>5. /\ entity' \in Entities /\ call' \in [Calls -> CallRecords]
      /\ CallInv' /\ Told' /\ Owned'
  BY <1>1, <1>2, <1>3, <1>4, CallStep
<1> QED  BY <1>5 DEF IInv, Types, CommandFails

\* A report joins the messages on their way, or is lost with the channel.
LEMMA ReportStep ==
    ASSUME IInv, NEW g \in Changes, NEW to \in Calls \cup {None}, NEW ok \in BOOLEAN,
           Report(g, to, ok)
    PROVE  /\ inbox' \in Seq(Messages)
           /\ \A i \in 1 .. Len(inbox') :
                \/ i \in 1 .. Len(inbox) /\ inbox'[i] = inbox[i]
                \/ inbox'[i].to = to
<1> DEFINE m == [dps |-> g, to |-> to, ok |-> ok]
<1>1. m \in Messages /\ m.to = to
  BY DEF Messages
<1>2. inbox \in Seq(Messages)
  BY DEF IInv, Types
<1>3. inbox' = inbox \/ inbox' = Append(inbox, m)
  BY DEF Report
<1> HIDE DEF m
<1> QED  BY <1>1, <1>2, <1>3

LEMMA HandleStep ==
    ASSUME IInv, NEW c \in Calls, Handle(c)
    PROVE  IInv'
<1> DEFINE s == IF call[c].pc \in {"done", "failed"} THEN NoChange ELSE call[c].sent
           k == [call[c] EXCEPT !.flying = FALSE, !.sent = s]
<1>1. /\ call[c] \in CallRecords /\ Shape(call[c]) /\ Accounted(call[c])
      /\ call[c].flying /\ call[c].pc \in {"command", "failed"} /\ DOMAIN call[c].sent \subseteq Dps
      /\ call \in [Calls -> CallRecords]
  BY DEF IInv, Types, CallInv, Handle, Shape
<1>2. call[c].sent \in Changes /\ NoChange \in Changes /\ DOMAIN NoChange = {}
  BY <1>1, NoChangeType DEF CallRecords
<1>3. device' \in [Dps -> Values]
  <2>1. device \in [Dps -> Values] /\ Dps \in SUBSET Fields
    BY DEF IInv, Types, Fields
  <2>2. (call[c].sent ++ device) \in [Dps -> Values]
    BY <1>1, <1>2, <2>1, PutBefore
  <2>3. device' \in {device, call[c].sent ++ device}
    BY DEF Handle
  <2> QED  BY <2>1, <2>2, <2>3
<1>4. /\ inbox' \in Seq(Messages)
      /\ \A i \in 1 .. Len(inbox') :
           (i \in 1 .. Len(inbox) /\ inbox'[i] = inbox[i]) \/ inbox'[i].to = c
  <2>1. Report(call[c].sent, c, TRUE) \/ Report(NoChange, c, FALSE)
    BY DEF Handle
  <2>2. CASE Report(call[c].sent, c, TRUE)
    BY <1>2, <2>2, ReportStep
  <2>3. CASE Report(NoChange, c, FALSE)
    BY <1>2, <2>3, ReportStep
  <2> QED  BY <2>1, <2>2, <2>3
<1>5. call' = [call EXCEPT ![c] = k]
  BY <1>1 DEF Handle
<1> HIDE DEF s
<1>6. s \in Changes /\ (call[c].pc = "command" => s = call[c].sent)
  BY <1>2 DEF s
<1>7. /\ k \in CallRecords /\ ~k.flying /\ k.sent = s /\ k.pc = call[c].pc
      /\ k.asked = call[c].asked /\ k.wanted = call[c].wanted /\ k.request = call[c].request
      /\ k.answer = call[c].answer /\ k.confirmed = call[c].confirmed
  BY <1>1, <1>6 DEF CallRecords
<1> HIDE DEF k
<1>8. call' \in [Calls -> CallRecords] /\ call'[c] = k /\ \A d \in Calls \ {c} : call'[d] = call[d]
  BY <1>1, <1>5, <1>7
<1>9. CallInv'
  <2>1. Shape(k)
    BY <1>1, <1>6, <1>7 DEF Shape
  <2>2. Accounted(k)
    BY <1>1, <1>6, <1>7 DEF Accounted, Holds
  <2> QED  BY <1>8, <2>1, <2>2 DEF CallInv, IInv
<1>10. Told'
  <2> SUFFICES ASSUME NEW i \in 1 .. Len(inbox'), NEW d \in Calls, inbox'[i].to = d
               PROVE  ~call'[d].flying /\ call'[d].pc \notin {"new", "zone"}
    BY DEF Told
  <2>1. CASE d = c
    BY <1>1, <1>7, <1>8, <2>1
  <2>2. CASE d # c
    BY <1>4, <1>8, <2>2 DEF IInv, Told
  <2> QED  BY <2>1, <2>2
<1>11. Owned'
  <2>1. \A d \in Calls : \A f, v : Backs(call[d], f, v) => Backs(call'[d], f, v)
    BY <1>7, <1>8 DEF Backs
  <2>2. entity' = entity
    BY DEF Handle
  <2> QED  BY <2>1, <2>2 DEF IInv, Owned
<1> QED  BY <1>3, <1>4, <1>8, <1>9, <1>10, <1>11 DEF IInv, Types, Handle

LEMMA AppChangesStep ==
    ASSUME IInv, AppChanges
    PROVE  IInv'
<1>1. PICK f \in Dps, v \in {0, 1} : device' = [device EXCEPT ![f] = v] /\ Report(To(f, v), None, TRUE)
  BY DEF AppChanges
<1>2. device' \in [Dps -> Values] /\ apps' \in 0 .. MaxApp
  BY <1>1, BoundsAssumption DEF IInv, Types, AppChanges, Values
<1>3. To(f, v) \in Changes
  <2>1. f \in Fields /\ v \in Values
    BY DEF Fields, Values
  <2> QED  BY <2>1, OneChange
<1>4. /\ inbox' \in Seq(Messages)
      /\ \A i \in 1 .. Len(inbox') :
           (i \in 1 .. Len(inbox) /\ inbox'[i] = inbox[i]) \/ inbox'[i].to = None
  BY <1>1, <1>3, ReportStep
<1>5. Told'
  BY <1>4, NoneAssumption DEF IInv, Told, AppChanges
<1> QED  BY <1>2, <1>4, <1>5 DEF IInv, Types, CallInv, Owned, AppChanges

\* A call's answer is noted while it waits for one; a command that was taken is no
\* longer in flight.
LEMMA AnswerStep ==
    ASSUME IInv, NEW D \in SUBSET Calls, NEW a \in {"ok", "error"},
           \A c \in D : call[c].pc = "command" /\ (a = "ok" => ~call[c].flying),
           call' = [c \in Calls |-> IF c \in D THEN [call[c] EXCEPT !.answer = a] ELSE call[c]],
           \A f \in Fields : entity'.pending[f] \in {None, entity.pending[f]}
    PROVE  call' \in [Calls -> CallRecords] /\ CallInv' /\ Owned'
<1>1. call \in [Calls -> CallRecords] /\ CallInv
  BY DEF IInv, Types
<1>2. ASSUME NEW c \in Calls
      PROVE  /\ call'[c] \in CallRecords
             /\ \A x \in {"request", "pc", "asked", "sent", "wanted", "flying", "confirmed"} :
                  call'[c][x] = call[c][x]
             /\ call'[c].answer = IF c \in D THEN a ELSE call[c].answer
  <2>1. call'[c] = IF c \in D THEN [call[c] EXCEPT !.answer = a] ELSE call[c]
    OBVIOUS
  <2>2. call[c] \in CallRecords
    BY <1>1
  <2> QED  BY <2>1, <2>2 DEF CallRecords
<1>3. call' \in [Calls -> CallRecords]
  BY <1>2
<1>4. ASSUME NEW c \in Calls
      PROVE  Shape(call'[c]) /\ Accounted(call'[c])
  <2>1. Shape(call[c]) /\ Accounted(call[c])
    BY <1>1 DEF CallInv
  <2>2. /\ call'[c].request = call[c].request /\ call'[c].pc = call[c].pc
        /\ call'[c].asked = call[c].asked /\ call'[c].sent = call[c].sent
        /\ call'[c].wanted = call[c].wanted /\ call'[c].flying = call[c].flying
        /\ call'[c].confirmed = call[c].confirmed
        /\ call'[c].answer = IF c \in D THEN a ELSE call[c].answer
    BY <1>2 DEF CallRecords
  <2>3. Shape(call'[c])
    BY <2>1, <2>2 DEF Shape
  <2>4. Accounted(call'[c])
    BY <2>1, <2>2 DEF Accounted, Holds
  <2> QED  BY <2>3, <2>4
<1>5. \A c \in Calls : \A f, v : Backs(call[c], f, v) => Backs(call'[c], f, v)
  BY <1>2 DEF Backs
<1>6. Owned'
  BY <1>5 DEF IInv, Owned, Fields, Room
<1> QED  BY <1>3, <1>4, <1>6 DEF CallInv

LEMMA DeliverStep ==
    ASSUME IInv, Deliver
    PROVE  IInv'
<1> DEFINE m == Head(inbox)
           a == IF m.ok THEN "ok" ELSE "error"
           D == {c \in Calls : c = m.to /\ call[c].pc = "command" /\ call[c].answer = "none"}
<1>1. inbox \in Seq(Messages) /\ inbox # <<>> /\ entity \in Entities
      /\ call \in [Calls -> CallRecords]
  BY DEF IInv, Types, Deliver
<1>2. m \in Messages /\ 1 \in 1 .. Len(inbox) /\ m = inbox[1]
  BY <1>1
<1>3. /\ inbox' \in Seq(Messages) /\ Len(inbox') = Len(inbox) - 1
      /\ \A i \in 1 .. Len(inbox') : inbox'[i] = inbox[i + 1] /\ i + 1 \in 1 .. Len(inbox)
  BY <1>1 DEF Deliver
<1>4. live' \in Lives
  <2>1. m.dps \in Changes /\ DOMAIN m.dps \subseteq Fields /\ live \in [Fields -> Values]
    BY <1>2, ChangeDomain DEF Messages, IInv, Types, Lives
  <2>2. live' = m.dps ++ live
    BY DEF Deliver
  <2> QED  BY <2>1, <2>2, PutBefore DEF Lives
<1>5. entity' \in Entities /\ \A f \in Fields : entity'.pending[f] \in {None, entity.pending[f]}
  BY <1>1, RenderType DEF Deliver
<1>6. call' = [c \in Calls |-> IF c \in D THEN [call[c] EXCEPT !.answer = a] ELSE call[c]]
  <2>1. call' = [c \in Calls |-> IF c = m.to /\ call[c].pc = "command" /\ call[c].answer = "none"
                                   THEN [call[c] EXCEPT !.answer = a] ELSE call[c]]
    BY DEF Deliver
  <2> HIDE DEF m, a
  <2> QED  BY <2>1
<1>7. \A c \in D : call[c].pc = "command" /\ ~call[c].flying
  BY <1>2 DEF IInv, Told
<1>8. a \in {"ok", "error"} /\ D \in SUBSET Calls
  OBVIOUS
<1> HIDE DEF a, D
<1>9. call' \in [Calls -> CallRecords] /\ CallInv' /\ Owned'
  BY <1>5, <1>6, <1>7, <1>8, AnswerStep
<1>10. \A c \in Calls : call'[c].pc = call[c].pc /\ call'[c].flying = call[c].flying
  BY <1>1, <1>6 DEF CallRecords
<1>11. Told'
  BY <1>3, <1>10 DEF IInv, Told
<1> QED  BY <1>3, <1>4, <1>5, <1>9, <1>11 DEF IInv, Types, Deliver

LEMMA ChannelDownStep ==
    ASSUME IInv, ChannelDown
    PROVE  IInv'
<1> DEFINE D == {c \in Calls : call[c].pc = "command" /\ call[c].answer = "none"}
<1>1. entity \in Entities /\ call \in [Calls -> CallRecords]
  BY DEF IInv, Types
<1>2. entity' \in Entities /\ \A f \in Fields : entity'.pending[f] \in {None, entity.pending[f]}
  BY <1>1, RenderType DEF ChannelDown
<1>3. call' = [c \in Calls |-> IF c \in D THEN [call[c] EXCEPT !.answer = "error"] ELSE call[c]]
  <2>1. call' = [c \in Calls |-> IF call[c].pc = "command" /\ call[c].answer = "none"
                                   THEN [call[c] EXCEPT !.answer = "error"] ELSE call[c]]
    BY DEF ChannelDown
  <2> QED  BY <2>1
<1> D \in SUBSET Calls /\ \A c \in D : call[c].pc = "command"
  OBVIOUS
<1> HIDE DEF D
<1>4. call' \in [Calls -> CallRecords] /\ CallInv' /\ Owned'
  BY <1>2, <1>3, AnswerStep
<1>5. inbox' \in Seq(Messages) /\ Told'
  BY DEF ChannelDown, Told
<1> QED  BY <1>2, <1>4, <1>5 DEF IInv, Types, ChannelDown

LEMMA ChannelUpStep ==
    ASSUME IInv, ChannelUp
    PROVE  IInv'
<1> DEFINE m == [dps |-> device, to |-> None, ok |-> TRUE]
<1>1. device \in [Dps -> Values] /\ Dps \in SUBSET Fields
  BY DEF IInv, Types, Fields
<1>2. m \in Messages /\ m.to = None
  BY <1>1, ChangeIntro DEF Messages
<1>3. inbox' = <<m>>
  BY DEF ChannelUp
<1> HIDE DEF m
<1>4. inbox' \in Seq(Messages) /\ Told'
  BY <1>2, <1>3, NoneAssumption DEF Told
<1>5. entity' \in Entities /\ Owned' /\ CallInv'
  BY EntityStep DEF ChannelUp
<1> QED  BY <1>4, <1>5 DEF IInv, Types, ChannelUp

LEMMA PollStep ==
    ASSUME IInv, Poll
    PROVE  IInv'
<1>1. entity' \in Entities /\ Owned' /\ CallInv'
  BY EntityStep DEF Poll
<1>2. live' \in Lives
  BY DEF Poll, IInv, Types, Lives, ++, Fields
<1> QED  BY <1>1, <1>2 DEF IInv, Types, Told, Poll

LEMMA TickStep ==
    ASSUME IInv, Tick
    PROVE  IInv'
<1> DEFINE age == [f \in Fields |-> IF f \in PendingOf(entity) /\ entity.age[f] <= PendingTTL
                                     THEN entity.age[f] + 1 ELSE entity.age[f]]
<1>1. entity \in Entities /\ entity.age \in [Fields -> 0 .. PendingTTL + 1]
  BY DEF IInv, Types, Entities
<1>2. entity' = [entity EXCEPT !.age = age]
  BY <1>1 DEF Tick
<1>3. age \in [Fields -> 0 .. PendingTTL + 1]
  BY <1>1, BoundsAssumption
<1> HIDE DEF age
<1>4. entity' \in Entities /\ entity'.pending = entity.pending
  BY <1>1, <1>2, <1>3 DEF Entities
<1> QED  BY <1>4 DEF IInv, Types, CallInv, Told, Owned, Tick

-----------------------------------------------------------------------------
(* The theorems *)

LEMMA StepInv == IInv /\ [Next]_vars => IInv'
<1> SUFFICES ASSUME IInv, [Next]_vars PROVE IInv'
  OBVIOUS
<1>1. CASE UNCHANGED vars
  BY <1>1 DEF vars, IInv, Types, CallInv, Told, Owned
<1>2. ASSUME NEW c \in Calls, Begin(c) PROVE IInv'
  BY <1>2, BeginStep
<1>3. ASSUME NEW c \in Calls, RoomAnswer(c) PROVE IInv'
  BY <1>3, RoomAnswerStep
<1>4. ASSUME NEW c \in Calls, RoomFails(c) PROVE IInv'
  BY <1>4, RoomFailsStep
<1>5. ASSUME NEW c \in Calls, Resume(c) PROVE IInv'
  BY <1>5, ResumeStep
<1>6. ASSUME NEW c \in Calls, CommandFails(c) PROVE IInv'
  BY <1>6, CommandFailsStep
<1>7. ASSUME NEW c \in Calls, Handle(c) PROVE IInv'
  BY <1>7, HandleStep
<1>8. CASE AppChanges
  BY <1>8, AppChangesStep
<1>9. CASE Deliver
  BY <1>9, DeliverStep
<1>10. CASE ChannelDown
  BY <1>10, ChannelDownStep
<1>11. CASE ChannelUp
  BY <1>11, ChannelUpStep
<1>12. CASE Poll
  BY <1>12, PollStep
<1>13. CASE Tick
  BY <1>13, TickStep
<1> QED  BY <1>1, <1>2, <1>3, <1>4, <1>5, <1>6, <1>7, <1>8, <1>9, <1>10, <1>11, <1>12, <1>13 DEF Next

LEMMA Invariance == Spec => []IInv
BY InitInv, StepInv, PTL DEF Spec

\* Every variable keeps its type (V4Climate, TypeOK).
THEOREM TypeCorrect == Spec => []TypeOK
<1>1. IInv => TypeOK
  <2> SUFFICES ASSUME IInv PROVE TypeOK
    OBVIOUS
  <2>1. \A i \in DOMAIN inbox : inbox[i] \in [dps : Changes, to : Calls \cup {None}, ok : BOOLEAN]
    <3>1. inbox \in Seq(Messages)
      BY DEF IInv, Types
    <3>2. \A i \in DOMAIN inbox : inbox[i] \in Messages
      BY <3>1
    <3> QED  BY <3>2 DEF Messages
  <2>2. \A c \in Calls : call[c] \in CallRecords
    BY DEF IInv, Types
  <2> QED  BY <2>1, <2>2 DEF IInv, Types, TypeOK, Entities, Lives, CallRecords
<1> QED  BY <1>1, Invariance, PTL

\* However calls overlap and fail, and whatever is lost: what is shown against the
\* snapshot was asked for by a call that has not failed, or had it taken.
THEOREM RefusedNotKept == Spec => []FailureRestores
<1>1. IInv => FailureRestores
  <2> SUFFICES ASSUME IInv, NEW f \in Dps \cup Limits, Shown(entity, live, f) # live[f]
               PROVE  \E c \in Calls : /\ \/ call[c].pc # "failed" \/ f \in call[c].confirmed
                                          \/ call[c].request \in Presets
                                       /\ f \in DOMAIN call[c].asked
                                       /\ call[c].asked[f] = entity.pending[f]
    BY DEF FailureRestores
  <2>1. entity.pending[f] # None
    BY DEF Shown
  <2> QED  BY <2>1 DEF IInv, Owned, Backs
<1> QED  BY <1>1, Invariance, PTL

\* A call that returns without an error, but for a preset, had each of its values
\* taken or found it live.
THEOREM NothingLostSilently == Spec => []NoSilentLoss
<1>1. IInv => NoSilentLoss
  BY DEF IInv, CallInv, Accounted, NoSilentLoss
<1> QED  BY <1>1, Invariance, PTL

=============================================================================
