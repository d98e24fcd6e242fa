---------------------------- MODULE RoomAutoProofs ----------------------------
(***************************************************************************)
(* Proofs about RoomAuto, for any writers, fields, values and number of    *)
(* versions, and however wrong the client's estimate of the server's clock *)
(* is: the types, that an acknowledged write of ours is rolled back by no  *)
(* read and no event whose time tells it is older, and that our concurrent *)
(* writes then never undo each other.                                      *)
(***************************************************************************)
EXTENDS RoomAuto, TLAPS

\* An event's removal carries no settings, the others do.
KindsTrue ==
    \A i \in DOMAIN events : events[i].kind = "removed" <=> events[i].auto = Unset

\* A call between its send and its answer holds the room's lock.
LockHeld == \A w \in Writers : call[w].at \in {"sent", "applied"} => lock = w

\* A call in its turn has a full set to write.  If the last version is our last
\* acknowledged write, the set differs from it by the call's changes only,
\* unless a misleading event came since.
SentInv ==
    \A w \in Writers : call[w].at = "sent" =>
        /\ call[w].payload \in Autos
        /\ call[w].change \in Changes
        /\ acked # 0 /\ acked = Len(log) /\ ~misled
             => call[w].payload = Merged(call[w].change, log[acked])

\* A call the server answers knows the version it became.
AppliedInv ==
    \A w \in Writers : call[w].at = "applied" =>
        /\ call[w].payload \in Autos
        /\ call[w].version \in 2 .. Len(log)
        /\ log[call[w].version] = call[w].payload

\* A call that waits for the lock has changes.
ChangeInv == \A w \in Writers : call[w].at = "lock" => call[w].change \in Changes

\* With an acknowledged write the client's estimate of its time is remembered.
AckedInv ==
    acked # 0 => /\ acked >= 2 /\ log[acked] \in Autos
                 /\ writtenAt = clock /\ clock >= 1

\* A structure read that keeps no room is not older than our last write.
ReadInv == reading = "answered" /\ ~moved => snap >= acked /\ snap >= 1

IInv == /\ TypeOK /\ KindsTrue /\ LockHeld /\ SentInv /\ AppliedInv
        /\ ChangeInv /\ AckedInv /\ ReadInv /\ OwnWriteShown

-----------------------------------------------------------------------------
(* Lemmas about the values *)

\* Merging changes into an auto mode, or a full set of changes into none,
\* gives an auto mode.
LEMMA MergedType ==
    ASSUME NEW c \in Changes, NEW a \in Autos \cup {Unset},
           a # Unset \/ DOMAIN c = Fields
    PROVE  Merged(c, a) \in Autos
<1>1. PICK F \in SUBSET Fields \ {{}} : c \in [F -> Values]
  BY DEF Changes
<1>2. ASSUME NEW f \in Fields
      PROVE  (IF f \in DOMAIN c THEN c[f] ELSE a[f]) \in Values
  BY <1>1, <1>2 DEF Autos
<1> QED  BY <1>2 DEF Merged, Autos

\* Appending a version keeps the older ones.
LEMMA AppendKeeps ==
    ASSUME NEW S, NEW s \in Seq(S), NEW x \in S
    PROVE  /\ Append(s, x) \in Seq(S)
           /\ Len(Append(s, x)) = Len(s) + 1
           /\ Append(s, x)[Len(s) + 1] = x
           /\ \A i \in 1 .. Len(s) : Append(s, x)[i] = s[i]
  OBVIOUS

\* What is left of the events after the first one is delivered.
LEMMA TailKeeps ==
    ASSUME NEW S, NEW s \in Seq(S), s # <<>>
    PROVE  /\ Tail(s) \in Seq(S)
           /\ \A i \in DOMAIN Tail(s) : i + 1 \in DOMAIN s /\ Tail(s)[i] = s[i + 1]
           /\ 1 \in DOMAIN s /\ Head(s) = s[1] /\ Head(s) \in S
  OBVIOUS

\* A write is a new version, and the last event on its way tells of it.
LEMMA WriteFacts ==
    ASSUME IInv, NEW a \in Autos \cup {Unset}, Write(a)
    PROVE  /\ ServerTypes'
           /\ EventsTrue'
           /\ KindsTrue'
           /\ Len(log') = Len(log) + 1
           /\ log'[Len(log) + 1] = a
           /\ \A i \in 1 .. Len(log) : log'[i] = log[i]
<1> DEFINE E == [version : Nat, kind : {"params", "switch", "removed"},
                 auto : Autos \cup {Unset}, dated : BOOLEAN]
           n == Len(log) + 1
<1>1. log \in Seq(Autos \cup {Unset}) /\ Len(log) \in 1 .. MaxVersion /\ events \in Seq(E)
  BY DEF IInv, TypeOK, ServerTypes
<1>2. Len(log) < MaxVersion /\ log' = Append(log, a)
  BY DEF Write
<1>3. /\ Len(log') = Len(log) + 1
      /\ log'[Len(log) + 1] = a
      /\ \A i \in 1 .. Len(log) : log'[i] = log[i]
      /\ log' \in Seq(Autos \cup {Unset})
  BY <1>1, <1>2, AppendKeeps
<1>4. PICK e \in EventsOf(n, a, Current) : events' = Append(events, e)
  BY DEF Write
<1>5. e \in E /\ e.version = n /\ e.auto = a /\ (e.kind = "removed" <=> a = Unset)
  BY <1>1, <1>4 DEF EventsOf
<1>6. /\ events' \in Seq(E)
      /\ Len(events') = Len(events) + 1
      /\ events'[Len(events) + 1] = e
      /\ \A i \in 1 .. Len(events) : events'[i] = events[i]
  <2> HIDE DEF E
  <2> QED  BY <1>1, <1>4, <1>5, AppendKeeps
<1>7. ServerTypes'
  BY <1>1, <1>2, <1>3, <1>6, VersionAssumption DEF ServerTypes
<1>8. ASSUME NEW i \in DOMAIN events'
      PROVE  /\ events'[i].version \in 2 .. Len(log')
             /\ events'[i].auto = log'[events'[i].version]
             /\ events'[i].kind = "removed" <=> events'[i].auto = Unset
  <2>1. CASE i = Len(events) + 1
    BY <2>1, <1>1, <1>3, <1>5, <1>6
  <2>2. CASE i \in 1 .. Len(events)
    <3>1. /\ events[i].version \in 2 .. Len(log)
          /\ events[i].auto = log[events[i].version]
          /\ events[i].kind = "removed" <=> events[i].auto = Unset
      BY <2>2, <1>1 DEF IInv, TypeOK, EventsTrue, KindsTrue
    <3>2. events'[i] = events[i] /\ log'[events[i].version] = log[events[i].version]
      BY <2>2, <3>1, <1>1, <1>3, <1>6
    <3>3. events[i].version \in 2 .. Len(log')
      BY <3>1, <1>1, <1>3
    <3> QED  BY <3>1, <3>2, <3>3
  <2> QED  BY <2>1, <2>2, <1>1, <1>6, <1>8
<1> QED  BY <1>3, <1>7, <1>8 DEF EventsTrue, KindsTrue

-----------------------------------------------------------------------------
(* The inductive invariant *)

\* The first version is the room as it was read at the start.
LEMMA InitIInv == Init => IInv
<1> SUFFICES ASSUME Init PROVE IInv
  OBVIOUS
<1>1. PICK a \in Autos \cup {Unset} : log = <<a>>
  BY ValuesAssumption DEF Init
<1>2. log \in Seq(Autos \cup {Unset}) /\ Len(log) = 1 /\ log[1] = a
  BY <1>1
<1>3. TypeOK
  <2>1. ServerTypes /\ EventsTrue
    BY <1>2, VersionAssumption DEF Init, ServerTypes, EventsTrue
  <2>2. RoomTypes
    <3>1. auto = a
      BY <1>2 DEF Init, Current
    <3>2. {moved, misled} \subseteq BOOLEAN /\ reading \in {"idle", "asked", "answered"}
      BY DEF Init
    <3>3. /\ snap \in 0 .. Len(log) /\ acked \in 0 .. Len(log)
          /\ {writtenAt, clock} \subseteq 0 .. MaxVersion
      BY <1>2, VersionAssumption DEF Init
    <3> QED  BY <3>1, <3>2, <3>3 DEF RoomTypes
  <2>3. CallTypes
    BY DEF Init, CallTypes, NoCall
  <2> QED  BY <2>1, <2>2, <2>3 DEF TypeOK
<1>4. KindsTrue /\ LockHeld /\ SentInv /\ AppliedInv /\ ChangeInv
  BY DEF Init, KindsTrue, LockHeld, SentInv, AppliedInv, ChangeInv, NoCall
<1>5. AckedInv /\ ReadInv /\ OwnWriteShown
  BY DEF Init, AckedInv, ReadInv, OwnWriteShown
<1> QED  BY <1>3, <1>4, <1>5 DEF IInv

\* What a step of a call keeps when it neither writes nor answers.
LEMMA CallKeeps ==
    ASSUME IInv, UNCHANGED <<server, reader, room>>,
           CallTypes', LockHeld', SentInv', AppliedInv', ChangeInv'
    PROVE  IInv'
<1>1. ServerTypes' /\ RoomTypes' /\ EventsTrue' /\ KindsTrue'
  BY DEF IInv, TypeOK, ServerTypes, RoomTypes, EventsTrue, KindsTrue, server, reader, room
<1>2. AckedInv' /\ ReadInv' /\ OwnWriteShown'
  BY DEF IInv, AckedInv, ReadInv, OwnWriteShown, server, reader, room
<1> QED  BY <1>1, <1>2 DEF IInv, TypeOK

\* What a step keeps that leaves the calls and the server's history alone.
LEMMA RoomKeeps ==
    ASSUME IInv, UNCHANGED <<log, lock, call, acked, clock>>, misled => misled',
           events' \in Seq([version : Nat, kind : {"params", "switch", "removed"},
                           auto : Autos \cup {Unset}, dated : BOOLEAN]),
           RoomTypes', EventsTrue', KindsTrue', writtenAt' = writtenAt, ReadInv',
           OwnWriteShown'
    PROVE  IInv'
<1>1. ServerTypes' /\ CallTypes'
  BY DEF IInv, TypeOK, ServerTypes, CallTypes
<1>2. LockHeld' /\ SentInv' /\ AppliedInv' /\ ChangeInv' /\ AckedInv'
  BY DEF IInv, LockHeld, SentInv, AppliedInv, ChangeInv, AckedInv, TypeOK, RoomTypes
<1> QED  BY <1>1, <1>2 DEF IInv, TypeOK

\* Every step of a call preserves the invariant.
LEMMA CallStep ==
    ASSUME IInv, NEW w \in Writers, Call(w) \/ Send(w) \/ Reject(w) \/ CallFails(w)
    PROVE  IInv'
<1> USE DEF CallTypes, NoCall
<1>0. CallTypes
  BY DEF IInv, TypeOK
<1>1. CASE Call(w)
  <2>1. PICK c \in Changes : call' = [call EXCEPT ![w].at = "lock", ![w].change = c]
    BY <1>1, WishesAssumption DEF Call
  <2>2. CallTypes'
    <3>1. call' \in [Writers -> [at      : {"idle", "lock", "sent", "applied"},
                                change  : Changes \cup {<<>>},
                                payload : Autos \cup {Unset},
                                version : Nat]]
      BY <2>1, <1>0
    <3> QED  BY <3>1, <1>0, <1>1 DEF Call
  <2>3. LockHeld'
    BY <2>1, <1>0, <1>1 DEF Call, IInv, LockHeld
  <2>6. ChangeInv'
    BY <2>1, <1>0 DEF IInv, ChangeInv
  <2>4. SentInv'
    BY <2>1, <1>0, <1>1 DEF Call, IInv, SentInv, server, room
  <2>5. AppliedInv'
    BY <2>1, <1>0, <1>1 DEF Call, IInv, AppliedInv, server
  <2> QED  BY <2>2, <2>3, <2>4, <2>5, <2>6, <1>1, CallKeeps DEF Call
<1>2. CASE Send(w)
  <2>1. call[w].change \in Changes /\ auto \in Autos \cup {Unset}
    BY <1>2 DEF Send, IInv, ChangeInv, TypeOK, RoomTypes
  <2>2. Merged(call[w].change, auto) \in Autos
    BY <2>1, <1>2, MergedType DEF Send, Sendable
  <2>3. CallTypes'
    BY <2>2, <1>0, <1>2 DEF Send
  <2>4. LockHeld'
    BY <1>0, <1>2, NamesAssumption DEF Send, IInv, LockHeld
  <2>7. ChangeInv'
    BY <1>0, <1>2 DEF Send, IInv, ChangeInv
  <2>6. AppliedInv'
    BY <1>0, <1>2 DEF Send, IInv, AppliedInv, server
  <2>5. SentInv'
    BY <2>1, <2>2, <1>0, <1>2 DEF Send, IInv, SentInv, OwnWriteShown, server, room
  <2> QED  BY <2>3, <2>4, <2>5, <2>6, <2>7, <1>2, CallKeeps DEF Send
<1>3. CASE Reject(w) \/ CallFails(w)
  <2>1. call' = [call EXCEPT ![w] = NoCall] /\ UNCHANGED <<server, room, reader>>
    BY <1>3 DEF Reject, CallFails
  <2>2. CallTypes'
    BY <2>1, <1>0, <1>3 DEF Reject, CallFails
  <2>3. LockHeld'
    BY <2>1, <1>0, <1>3 DEF Reject, CallFails, IInv, LockHeld
  <2>4. SentInv' /\ AppliedInv' /\ ChangeInv'
    BY <2>1, <1>0 DEF IInv, SentInv, AppliedInv, ChangeInv, server, room
  <2> QED  BY <2>1, <2>2, <2>3, <2>4, CallKeeps
<1> QED  BY <1>1, <1>2, <1>3

\* A version is written: what refers to the older ones stays true.
LEMMA WriteStep ==
    ASSUME IInv, (\E w \in Writers : Applied(w)) \/ OtherWrites
    PROVE  IInv'
<1> USE DEF CallTypes
<1>0. /\ CallTypes /\ RoomTypes /\ Len(log) \in 1 .. MaxVersion
      /\ UNCHANGED <<room, reader, lock>>
  BY DEF IInv, TypeOK, ServerTypes, Applied, OtherWrites
<1>1. PICK a \in Autos \cup {Unset} :
        /\ Write(a)
        /\ \/ call' = call
           \/ \E w \in Writers :
                /\ call[w].at = "sent" /\ a = call[w].payload
                /\ call' = [call EXCEPT ![w].at = "applied", ![w].version = Len(log) + 1]
  BY <1>0, ValuesAssumption DEF Applied, OtherWrites
<1>2. /\ ServerTypes' /\ EventsTrue' /\ KindsTrue'
      /\ Len(log') = Len(log) + 1
      /\ log'[Len(log) + 1] = a
      /\ \A i \in 1 .. Len(log) : log'[i] = log[i]
  BY <1>1, WriteFacts
<1>3. RoomTypes'
  BY <1>0, <1>2 DEF RoomTypes, room, reader
<1>4. CallTypes'
  <2>1. CASE call' = call
    BY <2>1, <1>0
  <2>2. ASSUME NEW w \in Writers,
               call' = [call EXCEPT ![w].at = "applied", ![w].version = Len(log) + 1]
        PROVE  CallTypes'
    <3>1. Len(log) + 1 \in Nat
      BY <1>0
    <3> QED  BY <3>1, <2>2, <1>0
  <2> QED  BY <2>1, <2>2, <1>1
<1>5. ASSUME NEW u \in Writers
      PROVE  \/ call'[u] = call[u]
             \/ /\ call[u].at = "sent" /\ call'[u].at = "applied"
                /\ call'[u].version = Len(log) + 1
                /\ call'[u].payload = call[u].payload /\ a = call[u].payload
  <2>1. CASE call' = call
    BY <2>1
  <2>2. ASSUME NEW w \in Writers, call[w].at = "sent", a = call[w].payload,
               call' = [call EXCEPT ![w].at = "applied", ![w].version = Len(log) + 1]
        PROVE  u # w => call'[u] = call[u]
    BY <2>2, <1>0, <1>5
  <2>3. ASSUME call[u].at = "sent", a = call[u].payload,
               call' = [call EXCEPT ![u].at = "applied", ![u].version = Len(log) + 1]
        PROVE  /\ call'[u].at = "applied" /\ call'[u].version = Len(log) + 1
               /\ call'[u].payload = call[u].payload
    BY <2>3, <1>0, <1>5
  <2> QED  BY <2>1, <2>2, <2>3, <1>1
<1>6. LockHeld' /\ ChangeInv'
  BY <1>0, <1>5 DEF IInv, LockHeld, ChangeInv
<1>7. SentInv'
  <2>1. acked' # Len(log')
    BY <1>0, <1>2 DEF RoomTypes, room
  <2> QED  BY <2>1, <1>5 DEF IInv, SentInv
<1>9. AppliedInv'
  <2> SUFFICES ASSUME NEW u \in Writers, call'[u].at = "applied"
               PROVE  /\ call'[u].payload \in Autos
                      /\ call'[u].version \in 2 .. Len(log')
                      /\ log'[call'[u].version] = call'[u].payload
    BY DEF AppliedInv
  <2>1. CASE call'[u] = call[u]
    <3>1. /\ call[u].payload \in Autos /\ call[u].version \in 2 .. Len(log)
          /\ log[call[u].version] = call[u].payload
      BY <2>1 DEF IInv, AppliedInv
    <3> QED  BY <3>1, <2>1, <1>0, <1>2
  <2>2. CASE call[u].at = "sent" /\ call'[u].version = Len(log) + 1
             /\ call'[u].payload = call[u].payload /\ a = call[u].payload
    BY <2>2, <1>0, <1>2 DEF IInv, SentInv
  <2> QED  BY <2>1, <2>2, <1>5
<1>8. AckedInv' /\ ReadInv' /\ OwnWriteShown'
  BY <1>0, <1>2 DEF IInv, AckedInv, ReadInv, OwnWriteShown, RoomTypes, room, reader
<1> QED  BY <1>2, <1>3, <1>4, <1>6, <1>7, <1>8, <1>9 DEF IInv, TypeOK

\* The answer makes the write the room's auto mode.
LEMMA AnswerStep ==
    ASSUME IInv, NEW w \in Writers, Answer(w)
    PROVE  IInv'
<1> USE DEF CallTypes, NoCall
<1>0. /\ TypeOK /\ CallTypes /\ RoomTypes /\ ServerTypes /\ EventsTrue /\ KindsTrue
      /\ Len(log) \in 1 .. MaxVersion
  BY DEF IInv, TypeOK, ServerTypes
<1>1. /\ call[w].payload \in Autos
      /\ call[w].version \in 2 .. Len(log)
      /\ log[call[w].version] = call[w].payload
  BY DEF IInv, AppliedInv, Answer
<1>2. /\ acked' = call[w].version /\ auto' = call[w].payload
      /\ moved' = (reading # "idle")
      /\ clock' \in 1 .. MaxVersion /\ writtenAt' = clock' /\ misled' = FALSE
      /\ lock = w /\ lock' = None /\ call' = [call EXCEPT ![w] = NoCall]
      /\ UNCHANGED <<server, reader>>
  BY DEF IInv, LockHeld, Answer, UpdateRoom
<1>3. ServerTypes' /\ EventsTrue' /\ KindsTrue'
  BY <1>0, <1>2 DEF ServerTypes, EventsTrue, KindsTrue, server
<1>4. RoomTypes'
  <2>1. acked' \in 0 .. Len(log') /\ snap' \in 0 .. Len(log')
    BY <1>0, <1>1, <1>2 DEF RoomTypes, server, reader
  <2>2. {writtenAt', clock'} \subseteq 0 .. MaxVersion
    BY <1>2, VersionAssumption
  <2>3. /\ {moved', misled'} \subseteq BOOLEAN /\ auto' \in Autos \cup {Unset}
        /\ reading' \in {"idle", "asked", "answered"}
    BY <1>0, <1>1, <1>2 DEF RoomTypes, reader
  <2> QED  BY <2>1, <2>2, <2>3 DEF RoomTypes
<1>5. CallTypes' /\ ChangeInv'
  BY <1>0, <1>2 DEF IInv, ChangeInv
<1>6. LockHeld' /\ SentInv'
  BY <1>0, <1>2 DEF IInv, LockHeld, SentInv
<1>7. AppliedInv'
  BY <1>0, <1>2 DEF IInv, AppliedInv, server
<1>8. AckedInv' /\ OwnWriteShown'
  BY <1>0, <1>1, <1>2 DEF AckedInv, OwnWriteShown, server
<1>9. ReadInv'
  BY <1>2 DEF ReadInv, reader
<1> QED  BY <1>3, <1>4, <1>5, <1>6, <1>7, <1>8, <1>9 DEF IInv, TypeOK

\* An event that is not skipped is our last write's own, if that write is the
\* last version: applying it changes nothing.
LEMMA EventStep ==
    ASSUME IInv, Event \/ LoseEvents
    PROVE  IInv'
<1> DEFINE E == [version : Nat, kind : {"params", "switch", "removed"},
                 auto : Autos \cup {Unset}, dated : BOOLEAN]
           e == Head(events)
<1>0. /\ RoomTypes /\ EventsTrue /\ KindsTrue /\ events \in Seq(E) /\ events # <<>>
      /\ Len(log) \in 1 .. MaxVersion
      /\ UNCHANGED <<log, lock, call, acked, clock, writtenAt, reading, snap>>
  BY DEF IInv, TypeOK, ServerTypes, Event, LoseEvents, room, reader
<1>6. misled' \in BOOLEAN /\ (misled => misled')
  <2>1. misled \in BOOLEAN
    BY <1>0 DEF RoomTypes
  <2>2. misled' = misled \/ misled' = (misled \/ Misleading(e))
    BY DEF Event, LoseEvents, room
  <2> QED  BY <2>1, <2>2
<1>1. /\ Tail(events) \in Seq(E)
      /\ \A i \in DOMAIN Tail(events) :
            i + 1 \in DOMAIN events /\ Tail(events)[i] = events[i + 1]
      /\ 1 \in DOMAIN events /\ e = events[1] /\ e \in E
  <2> HIDE DEF E
  <2> QED  BY <1>0, TailKeeps
<1>2. /\ events' \in Seq(E)
      /\ EventsTrue' /\ KindsTrue'
  <2>1. CASE events' = Tail(events)
    BY <2>1, <1>0, <1>1 DEF EventsTrue, KindsTrue
  <2>2. CASE events' = <<>>
    BY <2>2 DEF EventsTrue, KindsTrue
  <2> QED  BY <2>1, <2>2 DEF Event, LoseEvents
<1>3. /\ e.version \in 2 .. Len(log)
      /\ e.auto = log[e.version]
      /\ e.kind = "removed" <=> e.auto = Unset
      /\ e \in E
  BY <1>0, <1>1 DEF EventsTrue, KindsTrue
<1>4. CASE auto' = auto /\ moved' = moved
  <2>1. RoomTypes' /\ ReadInv' /\ OwnWriteShown'
    BY <1>4, <1>0, <1>6 DEF IInv, RoomTypes, ReadInv, OwnWriteShown
  <2> QED  BY <2>1, <1>0, <1>2, <1>6, RoomKeeps
<1>5. CASE /\ ~Older(e) /\ UpdateRoom(Apply(e, auto))
           /\ misled' = (misled \/ Misleading(e))
  <2>1. Apply(e, auto) \in Autos \cup {Unset}
    BY <1>0, <1>3, FieldsAssumption DEF Apply, Autos, RoomTypes
  <2>2. RoomTypes' /\ ReadInv'
    BY <2>1, <1>5, <1>0, <1>6 DEF RoomTypes, ReadInv, UpdateRoom
  <2>3. ASSUME acked # 0, acked = Len(log), ~misled' PROVE auto' = log[acked]
    <3>1. /\ acked >= 2 /\ log[acked] \in Autos
          /\ writtenAt = clock /\ clock \in Nat \ {0}
      BY <2>3, <1>0, VersionAssumption DEF IInv, AckedInv, RoomTypes
    <3>0. ~misled /\ ~Misleading(e)
      BY <1>5, <2>3
    <3>2. e.version = acked
      BY <3>0, <3>1, <2>3, <1>0, <1>3, <1>5 DEF Older, Misleading
    <3>3. auto = log[acked] /\ e.auto = auto /\ auto \in Autos
      BY <3>0, <3>1, <3>2, <2>3, <1>3 DEF IInv, OwnWriteShown
    <3>4. Apply(e, auto) = auto
      BY <3>3, <1>3, NamesAssumption DEF Apply, Autos
    <3> QED  BY <3>3, <3>4, <1>5 DEF UpdateRoom
  <2>4. OwnWriteShown'
    BY <2>3, <1>0 DEF OwnWriteShown
  <2> QED  BY <2>2, <2>4, <1>0, <1>2, <1>6, RoomKeeps
<1> QED  BY <1>4, <1>5 DEF Event, LoseEvents, room

\* A read that keeps no room has seen our last acknowledged write.
LEMMA ReadStep ==
    ASSUME IInv, ReadBegin \/ ReadServed \/ ReadAgain \/ ReadFails \/ ReadDone
    PROVE  IInv'
<1>0. /\ RoomTypes /\ ServerTypes /\ EventsTrue /\ KindsTrue
      /\ Len(log) \in 1 .. MaxVersion
      /\ UNCHANGED <<log, events, lock, call, acked, clock, misled, writtenAt>>
  BY DEF IInv, TypeOK, ServerTypes, ReadBegin, ReadServed, ReadAgain, ReadFails,
         ReadDone, room, server
<1>1. EventsTrue' /\ KindsTrue'
  BY <1>0 DEF EventsTrue, KindsTrue
<1>2. events' \in Seq([version : Nat, kind : {"params", "switch", "removed"},
                      auto : Autos \cup {Unset}, dated : BOOLEAN])
  BY <1>0 DEF ServerTypes
<1>3. CASE ReadDone
  <2>1. ~moved => log[snap] \in Autos \cup {Unset} /\ snap >= acked
    BY <1>3, <1>0 DEF ReadDone, IInv, ReadInv, RoomTypes, ServerTypes
  <2>4. reading' = "idle" /\ snap' = 0 /\ moved' = FALSE /\ log' = log
        /\ auto' \in Autos \cup {Unset}
    BY <2>1, <1>3, <1>0 DEF ReadDone, KeepsNewer, RoomTypes
  <2>2. RoomTypes'
    <3>1. {moved', misled'} \subseteq BOOLEAN /\ reading' \in {"idle", "asked", "answered"}
      BY <2>4, <1>0 DEF RoomTypes
    <3>2. snap' \in 0 .. Len(log')
      BY <2>4, <1>0
    <3> QED  BY <3>1, <3>2, <2>4, <1>0 DEF RoomTypes
  <2>5. ReadInv'
    BY <2>4 DEF ReadInv
  <2>3. OwnWriteShown'
    BY <2>1, <1>3, <1>0 DEF ReadDone, KeepsNewer, RoomTypes, IInv, OwnWriteShown
  <2> QED  BY <2>2, <2>3, <2>5, <1>0, <1>1, <1>2, RoomKeeps
<1>4. CASE ReadBegin \/ ReadServed \/ ReadAgain \/ ReadFails
  <2>1. /\ auto' = auto
        /\ moved' = moved \/ moved' = FALSE
        /\ \/ reading' \in {"idle", "asked"} /\ snap' \in {snap, 0}
           \/ reading' = "answered" /\ snap' = Len(log)
    BY <1>4 DEF ReadBegin, ReadServed, ReadAgain, ReadFails, room
  <2>2. RoomTypes'
    <3>1. {moved', misled'} \subseteq BOOLEAN
      BY <2>1, <1>0 DEF RoomTypes
    <3>2. snap' \in 0 .. Len(log') /\ reading' \in {"idle", "asked", "answered"}
      BY <2>1, <1>0 DEF RoomTypes
    <3> QED  BY <3>1, <3>2, <2>1, <1>0 DEF RoomTypes
  <2>3. ReadInv'
    BY <2>1, <1>0 DEF RoomTypes, ReadInv
  <2>4. OwnWriteShown'
    BY <2>1, <1>0 DEF IInv, OwnWriteShown
  <2> QED  BY <2>2, <2>3, <2>4, <1>0, <1>1, <1>2, RoomKeeps
<1> QED  BY <1>3, <1>4

\* Every step preserves the invariant.
LEMMA StepIInv == IInv /\ [Next]_vars => IInv'
<1> SUFFICES ASSUME IInv, [Next]_vars PROVE IInv'
  OBVIOUS
<1>1. CASE UNCHANGED vars
  <2>1. CallTypes' /\ LockHeld' /\ SentInv' /\ AppliedInv' /\ ChangeInv'
    BY <1>1 DEF vars, IInv, TypeOK, CallTypes, LockHeld, SentInv, AppliedInv, ChangeInv
  <2> QED  BY <2>1, <1>1, CallKeeps DEF vars, server, room, reader
<1>2. CASE Next
  BY <1>2, CallStep, WriteStep, AnswerStep, EventStep, ReadStep DEF Next
<1> QED  BY <1>1, <1>2

LEMMA Invariant == Spec => []IInv
BY InitIInv, StepIInv, PTL DEF Spec

-----------------------------------------------------------------------------
(* The theorems *)

\* Every variable keeps its type, and every write sends a full set
\* (async_set_auto_control never sends less than the room's auto mode).
THEOREM TypeCorrect == Spec => []TypeOK
<1>1. IInv => TypeOK
  BY DEF IInv
<1> QED  BY <1>1, Invariant, PTL

\* Neither a structure read that was on its way (_keep_newer_autos) nor a late
\* event whose time is before our estimate of the write's (the check of
\* occurred_at in _on_location_event) rolls back a write of ours that the server
\* acknowledged and nobody has replaced, however far off the estimate is.
THEOREM OwnWritesShown == Spec => []OwnWriteShown
<1>1. IInv => OwnWriteShown
  BY DEF IInv
<1> QED  BY <1>1, Invariant, PTL

\* The per-room lock of async_set_auto_control: a write that follows our own
\* acknowledged one changes nothing but the fields it was called with, as long
\* as no event without a telling time came between.
THEOREM WritesKeepFields == Spec => FieldsKept
<1>1. IInv /\ [Next]_vars =>
        [\A w \in Writers :
           /\ call[w].at = "sent" /\ call'[w].at = "applied"
           /\ acked # 0 /\ acked = Len(log) /\ ~misled
           => Current' = Merged(call[w].change, Current)]_vars
  <2> SUFFICES ASSUME IInv, Next, NEW w \in Writers,
                      call[w].at = "sent", call'[w].at = "applied",
                      acked # 0, acked = Len(log), ~misled
               PROVE  Current' = Merged(call[w].change, Current)
    OBVIOUS
  <2>0. CallTypes
    BY DEF IInv, TypeOK
  <2>1. Applied(w)
    <3>1. ASSUME NEW u \in Writers, Call(u) \/ Send(u) \/ Reject(u) \/ CallFails(u) \/ Answer(u)
          PROVE  FALSE
      BY <2>0, <3>1 DEF Call, Send, Reject, CallFails, Answer, CallTypes, NoCall
    <3>2. ASSUME NEW u \in Writers, Applied(u) PROVE u = w
      BY <2>0, <3>2 DEF Applied, CallTypes
    <3>3. call' # call
      OBVIOUS
    <3> QED  BY <3>1, <3>2, <3>3
             DEF Next, OtherWrites, Event, LoseEvents, ReadBegin, ReadServed, ReadAgain,
                 ReadFails, ReadDone
  <2>2. /\ call[w].payload \in Autos
        /\ call[w].payload = Merged(call[w].change, Current)
    BY DEF IInv, SentInv, Current
  <2>3. Len(log') = Len(log) + 1 /\ log'[Len(log) + 1] = call[w].payload
    BY <2>1, <2>2, WriteFacts DEF Applied
  <2> QED  BY <2>2, <2>3 DEF Current
<1> QED  BY <1>1, Invariant, PTL DEF Spec, FieldsKept

=============================================================================
