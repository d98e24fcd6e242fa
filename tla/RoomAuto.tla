------------------------------- MODULE RoomAuto -------------------------------
(***************************************************************************)
(* A room's auto mode as TionCloud keeps it: our writes, the events other  *)
(* clients' writes cause, and the structure reads, racing each other.      *)
(*                                                                         *)
(* The server's history of the room is `log`; a version is an index into   *)
(* it, and server times are compared as versions are: an event of version  *)
(* v occurred when v was written.  The client knows the server's time from *)
(* a whole-second Date header only, so what it takes for the time of its   *)
(* own write may be that of any version, and an event may carry no time.   *)
(* One room, since rooms share nothing but the structure read; rooms are   *)
(* not created or deleted here.                                            *)
(***************************************************************************)
EXTENDS Naturals, Sequences

CONSTANTS
    Writers,       \* concurrent calls of async_set_auto_control
    Fields,        \* of AutoControl: the switch and the settings
    Enabled,       \* the switch
    Values,        \* of a field
    MaxVersion,    \* bound on the server's history
    Wishes,        \* what each of them may want to change
    Allowed,       \* the auto modes with speed_min <= speed_max
    Foreign,       \* what the room holds at first and other clients write
    Unset,         \* no auto mode is set up: auto is None, or an empty message
    None           \* nobody holds the room's lock

Autos == [Fields -> Values]

ASSUME FieldsAssumption == Enabled \in Fields
ASSUME VersionAssumption == MaxVersion \in Nat \ {0}
ASSUME ValuesAssumption == Allowed \subseteq Autos /\ Foreign \subseteq Autos \cup {Unset}
ASSUME NamesAssumption == Unset \notin Autos /\ None \notin Writers

\* What a call of async_set_auto_control changes.
Changes == UNION {[F -> Values] : F \in SUBSET Fields \ {{}}}

ASSUME WishesAssumption == Wishes \in [Writers -> SUBSET Changes]

VARIABLES
    log,         \* the server's versions of the room's auto mode
    events,      \* AutoControlChanged events on their way, in order
    auto,        \* the room's auto mode in self._locations
    reading,     \* _load_structure: idle, asked, answered
    snap,        \* the version the read's answer carries
    moved,       \* _room_auto_seq moved since the read in flight began
    writtenAt,   \* _room_written_at: versions up to this one are older, 0 if unset
    acked,       \* version of our last acknowledged write, 0 if none
    clock,       \* the version transport.server_time() was at when that was answered
    misled,      \* an older event has come since whose time does not tell it is older
    lock,        \* holder of the room's lock
    call         \* each writer's call: where it is, its changes, full set, version

vars == <<log, events, auto, reading, snap, moved, writtenAt, acked, clock, misled,
          lock, call>>

server == <<log, events>>
room   == <<auto, moved, writtenAt, acked, clock, misled>>
reader == <<reading, snap>>

Current == log[Len(log)]

NoCall == [at |-> "idle", change |-> <<>>, payload |-> Unset, version |-> 0]

Init ==
    /\ log \in {<<a>> : a \in Foreign}
    /\ events = <<>>
    /\ auto = Current
    /\ reading = "idle"
    /\ snap = 0
    /\ moved = FALSE
    /\ writtenAt = 0
    /\ acked = 0
    /\ clock = 0
    /\ misled = FALSE
    /\ lock = None
    /\ call = [w \in Writers |-> NoCall]

-----------------------------------------------------------------------------
(* The values *)

\* The full set a call sends: the current auto mode with its changes.
Merged(change, current) ==
    [f \in Fields |-> IF f \in DOMAIN change THEN change[f] ELSE current[f]]

\* An event carries the settings, only the switch, or the removal; occurred_at
\* may be missing.
EventsOf(v, a, before) ==
    LET switched == before # Unset /\ \A f \in Fields \ {Enabled} : a[f] = before[f]
        kinds == IF a = Unset THEN {"removed"}
                 ELSE IF switched THEN {"params", "switch"} ELSE {"params"}
    IN [version : {v}, kind : kinds, auto : {a}, dated : BOOLEAN]

\* AutoControlChange.apply
Apply(e, current) ==
    CASE e.kind = "removed" -> Unset
      [] e.kind = "params"  -> e.auto
      [] OTHER -> IF current = Unset THEN Unset
                  ELSE [current EXCEPT ![Enabled] = e.auto[Enabled]]

\* The server writes a version, and its event is on its way.
Write(a) ==
    /\ Len(log) < MaxVersion
    /\ log' = Append(log, a)
    /\ \E e \in EventsOf(Len(log) + 1, a, Current) : events' = Append(events, e)

\* _update_room: the sequence number moves whatever the value.
UpdateRoom(a) ==
    /\ auto' = a
    /\ moved' = (reading # "idle")

-----------------------------------------------------------------------------
(* Our writes *)

\* A call has a full set to send, its speeds in order.
Sendable(w) ==
    /\ auto # Unset \/ DOMAIN call[w].change = Fields
    /\ Merged(call[w].change, auto) \in Allowed

\* async_set_auto_control is called.
Call(w) ==
    /\ call[w].at = "idle"
    /\ Len(log) < MaxVersion
    /\ \E c \in Wishes[w] : call' = [call EXCEPT ![w].at = "lock", ![w].change = c]
    /\ UNCHANGED <<server, room, reader, lock>>

\* Faulty variant: the calls for a room are not serialized.
SendUnlocked(w) ==
    /\ call[w].at = "lock"
    /\ Sendable(w)
    /\ lock' = w
    /\ call' = [call EXCEPT ![w].at = "sent",
                            ![w].payload = Merged(call[w].change, auto)]
    /\ UNCHANGED <<server, room, reader>>

\* With the room's lock: the values not given come from the snapshot.
Send(w) ==
    /\ call[w].at = "lock"
    /\ lock = None
    /\ Sendable(w)
    /\ lock' = w
    /\ call' = [call EXCEPT ![w].at = "sent",
                            ![w].payload = Merged(call[w].change, auto)]
    /\ UNCHANGED <<server, room, reader>>

\* ValueError: a room without an auto mode needs every field, and speed_min
\* may not exceed speed_max.
Reject(w) ==
    /\ call[w].at = "lock"
    /\ lock = None
    /\ ~Sendable(w)
    /\ call' = [call EXCEPT ![w] = NoCall]
    /\ UNCHANGED <<server, room, reader, lock>>

\* The server writes the request.
Applied(w) ==
    /\ call[w].at = "sent"
    /\ Write(call[w].payload)
    /\ call' = [call EXCEPT ![w].at = "applied", ![w].version = Len(log) + 1]
    /\ UNCHANGED <<room, reader, lock>>

\* The call fails: the request or its answer is lost, or the server says no.
CallFails(w) ==
    /\ call[w].at \in {"sent", "applied"}
    /\ call' = [call EXCEPT ![w] = NoCall]
    /\ lock' = None
    /\ UNCHANGED <<server, room, reader>>

\* Faulty variant: the time of the write is not remembered.
AnswerUntimed(w) ==
    /\ call[w].at = "applied"
    /\ \E t \in 1 .. MaxVersion : clock' = t
    /\ acked' = call[w].version
    /\ misled' = FALSE
    /\ UpdateRoom(call[w].payload)
    /\ lock' = None
    /\ call' = [call EXCEPT ![w] = NoCall]
    /\ UNCHANGED <<server, reader, writtenAt>>

\* The answer.  The estimate of the server's clock that is remembered with it
\* lags by up to a second plus a call, or leads if a proxy's Date set it: it may
\* be the time of any version.
Answer(w) ==
    /\ call[w].at = "applied"
    /\ \E t \in 1 .. MaxVersion : clock' = t /\ writtenAt' = t
    /\ acked' = call[w].version
    /\ misled' = FALSE
    /\ UpdateRoom(call[w].payload)
    /\ lock' = None
    /\ call' = [call EXCEPT ![w] = NoCall]
    /\ UNCHANGED <<server, reader>>

-----------------------------------------------------------------------------
(* The other clients of the account, and their events *)

OtherWrites ==
    /\ \E a \in Foreign : a # Current /\ Write(a)
    /\ UNCHANGED <<room, reader, lock, call>>

\* The event carries a time, and it is before that of our last write.
Older(e) == e.dated /\ writtenAt # 0 /\ e.version <= writtenAt

\* The event tells of a version before our last write, and its time does not
\* show it: there is none, or it is past the server's time as we took it.
Misleading(e) == acked # 0 /\ e.version < acked /\ (e.dated => e.version > clock)

\* _on_location_event: an event older than our last write is skipped.
Event ==
    /\ events # <<>>
    /\ events' = Tail(events)
    /\ IF Older(Head(events))
         THEN UNCHANGED <<auto, moved>>
         ELSE UpdateRoom(Apply(Head(events), auto))
    /\ misled' = (misled \/ Misleading(Head(events)))
    /\ UNCHANGED <<log, reader, writtenAt, acked, clock, lock, call>>

\* The live channel is down: what is on its way is never delivered.
LoseEvents ==
    /\ events # <<>>
    /\ events' = <<>>
    /\ UNCHANGED <<log, room, reader, lock, call>>

-----------------------------------------------------------------------------
(* The structure reads; one at a time, under the structure lock *)

\* _load_structure remembers the sequence numbers and asks.
ReadBegin ==
    /\ reading = "idle"
    /\ reading' = "asked"
    /\ UNCHANGED <<server, room, snap, lock, call>>

\* The server takes the snapshot it answers with.
ReadServed ==
    /\ reading = "asked"
    /\ reading' = "answered"
    /\ snap' = Len(log)
    /\ UNCHANGED <<server, room, lock, call>>

\* An unknown profile: the structure is read again, against the same numbers.
ReadAgain ==
    /\ reading = "answered"
    /\ reading' = "asked"
    /\ snap' = 0
    /\ UNCHANGED <<server, room, lock, call>>

ReadFails ==
    /\ reading # "idle"
    /\ reading' = "idle"
    /\ snap' = 0
    /\ moved' = FALSE
    /\ UNCHANGED <<server, auto, writtenAt, acked, clock, misled, lock, call>>

\* Faulty variant: a room once written to never follows the structure again.
KeepsNewerAlways == moved \/ writtenAt # 0

\* _keep_newer_autos: a room that changed meanwhile keeps its auto mode.
KeepsNewer == moved

ReadDone ==
    /\ reading = "answered"
    /\ reading' = "idle"
    /\ snap' = 0
    /\ moved' = FALSE
    /\ auto' = IF KeepsNewer THEN auto ELSE log[snap]
    /\ UNCHANGED <<server, writtenAt, acked, clock, misled, lock, call>>

-----------------------------------------------------------------------------
(* The specification *)

Next ==
    \/ \E w \in Writers : \/ Call(w) \/ Send(w) \/ Reject(w) \/ Applied(w)
                          \/ CallFails(w) \/ Answer(w)
    \/ OtherWrites \/ Event \/ LoseEvents
    \/ ReadBegin \/ ReadServed \/ ReadAgain \/ ReadFails \/ ReadDone

Spec == Init /\ [][Next]_vars

\* The structure is read once a minute, and the cloud answers some of the reads.
Fairness ==
    /\ WF_vars(ReadBegin)
    /\ SF_vars(ReadServed)
    /\ SF_vars(ReadDone)

FairSpec == Spec /\ Fairness

-----------------------------------------------------------------------------
(* Properties *)

ServerTypes ==
    /\ log \in Seq(Autos \cup {Unset})
    /\ Len(log) \in 1 .. MaxVersion
    /\ events \in Seq([version : Nat, kind : {"params", "switch", "removed"},
                      auto : Autos \cup {Unset}, dated : BOOLEAN])

RoomTypes ==
    /\ auto \in Autos \cup {Unset}
    /\ reading \in {"idle", "asked", "answered"}
    /\ snap \in 0 .. Len(log)
    /\ {moved, misled} \subseteq BOOLEAN
    /\ acked \in 0 .. Len(log)
    /\ {writtenAt, clock} \subseteq 0 .. MaxVersion

CallTypes ==
    /\ lock \in Writers \cup {None}
    /\ call \in [Writers -> [at      : {"idle", "lock", "sent", "applied"},
                            change  : Changes \cup {<<>>},
                            payload : Autos \cup {Unset},
                            version : Nat]]

\* An event on its way tells of a version that was written.
EventsTrue ==
    \A i \in DOMAIN events :
        /\ events[i].version \in 2 .. Len(log)
        /\ events[i].auto = log[events[i].version]

\* Every variable keeps its type, and what is sent is always a full set.
TypeOK == ServerTypes /\ RoomTypes /\ CallTypes /\ EventsTrue

\* While the server's last version is a write of ours that was acknowledged,
\* the room shows it: neither a structure read that was on its way nor a late
\* event rolls it back, unless that event has no time, or one that the client's
\* estimate of the server's clock at the write had not reached.
OwnWriteShown ==
    acked # 0 /\ acked = Len(log) /\ ~misled => auto = log[acked]

\* A write that follows an acknowledged write of ours changes only the fields
\* it was called with: two concurrent calls never undo each other, unless such
\* an event came between.
FieldsKept ==
    [][\A w \in Writers :
         /\ call[w].at = "sent" /\ call'[w].at = "applied"
         /\ acked # 0 /\ acked = Len(log) /\ ~misled
         => Current' = Merged(call[w].change, Current)]_vars

\* Once nobody writes any more, the room shows the server's auto mode for good,
\* whatever events were lost or skipped.
Converges == <>[](auto = Current)

=============================================================================
