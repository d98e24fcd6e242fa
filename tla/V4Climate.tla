------------------------------- MODULE V4Climate -------------------------------
(***************************************************************************)
(* A climate entity of the v4 cloud: the calls of the user (climate.py),   *)
(* the adapter that keeps a value pending until the cloud confirms it      *)
(* (cloud_v4_devices.py), the command and its answer (cloud_v4/cloud.py).  *)
(*                                                                         *)
(* Four fields stand for the ways a value takes: "speed" goes with every   *)
(* command, "heater" (like the gate and the temperature) only when it      *)
(* differs, "limit" is the room's and follows the command, "mode" is the   *)
(* zone's and goes first.  The level that a stopped breezer keeps is left  *)
(* out: turning on means speed 1.                                          *)
(***************************************************************************)
EXTENDS Naturals, Sequences

CONSTANTS
    Calls,       \* the service calls the user makes
    Requests,    \* what each of them may ask for
    PendingTTL,  \* _PENDING_TTL, in ticks
    MaxApp,      \* bound on the changes made in the Tion app
    None         \* nothing pending, nobody's report

ASSUME BoundsAssumption == PendingTTL \in Nat /\ MaxApp \in Nat
ASSUME NoneAssumption == None \notin Calls /\ None \notin {0, 1, 2}
ASSUME RequestsAssumption ==
    Requests \in [Calls -> SUBSET {"off", "manual", "auto", "heat", "sleep", "eco"}]

Dps == {"speed", "heater"}
Limits == {"limit"}
Room == {"mode"} \cup Limits
Fields == Dps \cup Room
Values == 0 .. 2
Presets == {"sleep", "eco"}

Changes == UNION {[S -> Values] : S \in SUBSET Fields}
NoChange == [f \in {} |-> 0]
To(f, v) == [g \in {f} |-> v]
g ++ h == [f \in DOMAIN g \cup DOMAIN h |-> IF f \in DOMAIN g THEN g[f] ELSE h[f]]
Only(g, S) == [f \in S \cap DOMAIN g |-> g[f]]

VARIABLES
    device,      \* the breezer's values
    room,        \* the room's values on the server
    live,        \* the snapshot of both that the cloud object keeps
    inbox,       \* reports of the device on their way to us
    channel,     \* the live channel is up
    entity,      \* pending values, ticks since each was set, the preset shown
    call,        \* each call: what it asked, what is in flight, what became of it
    apps         \* changes made in the app

vars == <<device, room, live, inbox, channel, entity, call, apps>>

Init ==
    /\ device \in [Dps -> {0, 1}]
    /\ room \in [Room -> {0, 1}] /\ room["limit"] = 0
    /\ live = device ++ room
    /\ inbox = <<>>
    /\ channel = "up"
    /\ entity = [pending |-> [f \in Fields |-> None], age |-> [f \in Fields |-> 0],
                 preset |-> "none"]
    /\ call \in [Calls -> {[request |-> r, pc |-> "new", asked |-> NoChange,
                            sent |-> NoChange, wanted |-> NoChange, flying |-> FALSE,
                            answer |-> "none", confirmed |-> {}] :
                              r \in {"off", "manual", "auto", "heat", "sleep", "eco"}}]
    /\ \A c \in Calls : call[c].request \in Requests[c]
    /\ apps = 0

-----------------------------------------------------------------------------
(* The adapter: pending values *)

\* Faulty variant of _value: a pending value is shown until it is confirmed.
ShownForever(e, l, f) == IF e.pending[f] = None THEN l[f] ELSE e.pending[f]

\* _value: a pending value is shown until it is live or too old.
Shown(e, l, f) ==
    IF e.pending[f] = None \/ e.age[f] > PendingTTL THEN l[f] ELSE e.pending[f]

Forget(e, S) ==
    [e EXCEPT !.pending = [f \in Fields |-> IF f \in S THEN None ELSE @[f]],
              !.age = [f \in Fields |-> IF f \in S THEN 0 ELSE @[f]]]

Put(e, g) ==
    [e EXCEPT !.pending = g ++ @, !.age = [f \in DOMAIN g |-> 0] ++ @]

TooOld(e) == {f \in Fields : e.age[f] > PendingTTL}

\* The state is written: what is read and shown as it is live is pending no more;
\* the heater of a breezer that is off is not read.
Render(e, l) ==
    LET off == Shown(e, l, "mode") = 0 /\ Shown(e, l, "speed") = 0
        read == IF off THEN Fields \ {"heater"} ELSE Fields
    IN Forget(e, {f \in read : Shown(e, l, f) = l[f]})

PendingOf(e) == {f \in Fields : e.pending[f] # None}

-----------------------------------------------------------------------------
(* A call, from one await to the next: [call, entity] after it *)

\* A call is over; what it sent last may still be on its way.
Over(k, end) ==
    [k EXCEPT !.pc = end, !.wanted = NoChange, !.answer = "none",
              !.sent = IF k.flying THEN @ ELSE NoChange]

\* Faulty variant: the limits of a command that failed stay pending.
FailedKeepingLimits(k, e, S) ==
    [call |-> Over(k, "failed"), entity |-> Forget(e, S \ Limits)]

\* The values that were not taken are forgotten, and the call raises.
Failed(k, e, S) ==
    [call |-> Over(k, "failed"), entity |-> Forget(e, S)]

\* The call returns: a preset is shown from here on, and the state is written.
Done(k, e, l) ==
    [call |-> Over(k, "done"),
     entity |-> Render([e EXCEPT !.preset = IF k.request \in Presets THEN k.request ELSE @], l)]

\* What the call asked for and has found to be live.
Found(k, l, S) ==
    [k EXCEPT !.confirmed = @ \cup {f \in S \cap DOMAIN k.asked : k.asked[f] = l[f]}]

\* Faulty variant: the limits are looked up again after the command.
SendLimitsLate(k, e, l) ==
    LET S == {f \in Limits \cap PendingOf(e) : e.pending[f] # l[f]}
        q == Found(k, l, Limits)
    IN IF S = {} THEN Done(q, e, l)
       ELSE [call |-> [q EXCEPT !.pc = "limits", !.sent = Only(e.pending, S)], entity |-> e]

\* The limits that were pending before the command go to the room if they differ.
SendLimits(k, e, l) ==
    LET S == {f \in DOMAIN k.wanted : k.wanted[f] # l[f]}
        q == Found(k, l, Limits)
    IN IF S = {} THEN Done(q, e, l)
       ELSE [call |-> [q EXCEPT !.pc = "limits", !.sent = Only(k.wanted, S)], entity |-> e]

\* The fields a command carries.
Command(e, l) ==
    {f \in Dps \cap PendingOf(e) : f = "speed" \/ e.pending[f] # l[f]}

\* async_send of the breezer: whatever is pending and fresh goes along.
SendBreezer(k, e, l) ==
    LET fresh == Forget(e, TooOld(e))
        S == Command(fresh, l)
        q == [Found(k, l, Dps) EXCEPT !.wanted = Only(fresh.pending, Limits \cap PendingOf(fresh))]
    IN IF S = {} THEN SendLimits(q, fresh, l)
       ELSE IF channel = "down" THEN Failed(q, fresh, Dps \cup Limits)
       ELSE [call |-> [q EXCEPT !.pc = "command", !.sent = Only(fresh.pending, S), !.flying = TRUE],
             entity |-> fresh]

\* What the entity sets after the zone was sent.
Late(k, e, l) ==
    CASE k.request = "off"    -> To("speed", 0)
      [] k.request = "manual" -> To("speed", 2)
      [] k.request = "auto"   -> To("limit", 2) ++ To("heater", 0)
      [] k.request = "heat"   ->
           To("heater", 1) ++ (IF Shown(e, l, "speed") = 0 THEN To("speed", 1) ELSE NoChange)
      [] k.request \in Presets -> NoChange

ZoneSent(k, e, l) ==
    LET g == Late(k, e, l)
    IN SendBreezer([k EXCEPT !.asked = g ++ @], Put(e, g), l)

\* What the entity sets before.
Early(r) ==
    CASE r \in {"off", "manual"} -> To("mode", 0)
      [] r = "auto"  -> To("mode", 1)
      [] r = "sleep" -> To("heater", 0) ++ To("speed", 1) ++ To("mode", 0)
      [] r = "eco"   -> To("heater", 0) ++ To("limit", 1) ++ To("mode", 1)
      [] r = "heat"  -> NoChange

\* The call begins: the zone is sent if its mode differs.
Started(k, e, l) ==
    LET g == Early(k.request)
        p == Put(IF k.request \in Presets THEN e ELSE [e EXCEPT !.preset = "none"], g)
        q == Found([k EXCEPT !.asked = g], l, {"mode"})
    IN IF "mode" \in DOMAIN g /\ g["mode"] # l["mode"]
         THEN [call |-> [q EXCEPT !.pc = "zone", !.sent = Only(g, {"mode"})], entity |-> p]
         ELSE ZoneSent(q, p, l)

-----------------------------------------------------------------------------
(* The calls *)

Becomes(c, calls, r) ==
    /\ call' = [calls EXCEPT ![c] = r.call]
    /\ entity' = r.entity

Begin(c) ==
    /\ call[c].pc = "new"
    /\ Becomes(c, call, Started(call[c], entity, live))
    /\ UNCHANGED <<device, room, live, inbox, channel, apps>>

\* async_set_auto_control returns: the snapshot has the change, and is shown.
RoomAnswer(c) ==
    /\ call[c].pc \in {"zone", "limits"}
    /\ room' = call[c].sent ++ room
    /\ live' = call[c].sent ++ live
    /\ LET e == Render(entity, live')
           k == [call[c] EXCEPT !.confirmed = @ \cup
                   {f \in DOMAIN call[c].sent \cap DOMAIN call[c].asked :
                      call[c].sent[f] = call[c].asked[f]}]
       IN Becomes(c, call, IF k.pc = "zone" THEN ZoneSent(k, e, live') ELSE Done(k, e, live'))
    /\ UNCHANGED <<device, inbox, channel, apps>>

\* It raises; the room may have been changed all the same.
RoomFails(c) ==
    /\ call[c].pc \in {"zone", "limits"}
    /\ room' \in {room, call[c].sent ++ room}
    /\ Becomes(c, call, Failed(call[c], entity, IF call[c].pc = "zone" THEN {"mode"} ELSE Limits))
    /\ UNCHANGED <<device, live, inbox, channel, apps>>

\* async_command returns or raises what the device answered.
Resume(c) ==
    /\ call[c].pc = "command"
    /\ call[c].answer # "none"
    /\ LET k == [call[c] EXCEPT !.confirmed = @ \cup
                   {f \in DOMAIN call[c].sent \cap DOMAIN call[c].asked :
                      call[c].sent[f] = call[c].asked[f]}]
       IN Becomes(c, call, IF k.answer = "ok" THEN SendLimits(k, entity, live)
                           ELSE Failed(call[c], entity, Dps \cup Limits))
    /\ UNCHANGED <<device, room, live, inbox, channel, apps>>

\* REPLY_TIMEOUT, or a send that fails; the command may still reach the device.
CommandFails(c) ==
    /\ call[c].pc = "command"
    /\ call[c].answer = "none"
    /\ Becomes(c, call, Failed(call[c], entity, Dps \cup Limits))
    /\ UNCHANGED <<device, room, live, inbox, channel, apps>>

-----------------------------------------------------------------------------
(* The device, the cloud and the channel *)

Report(g, c, ok) ==
    inbox' = IF channel = "down" THEN inbox
             ELSE Append(inbox, [dps |-> g, to |-> c, ok |-> ok])

\* The device takes a command or rejects it, and answers.
Handle(c) ==
    /\ call[c].flying
    /\ call' = [call EXCEPT ![c].flying = FALSE,
                            ![c].sent = IF call[c].pc \in {"done", "failed"} THEN NoChange ELSE @]
    /\ \/ device' = call[c].sent ++ device /\ Report(call[c].sent, c, TRUE)
       \/ UNCHANGED device /\ Report(NoChange, c, FALSE)
    /\ UNCHANGED <<room, live, channel, entity, apps>>

\* Somebody changes the breezer in the app; it reports it.
AppChanges ==
    /\ apps < MaxApp
    /\ apps' = apps + 1
    /\ \E f \in Dps, v \in {0, 1} :
         /\ v # device[f]
         /\ device' = [device EXCEPT ![f] = v]
         /\ Report(To(f, v), None, TRUE)
    /\ UNCHANGED <<room, live, channel, entity, call>>

\* _on_device_message: the report is merged and shown, the answer resolved.
Deliver ==
    /\ inbox # <<>>
    /\ LET m == Head(inbox)
       IN /\ live' = m.dps ++ live
          /\ entity' = Render(entity, live')
          /\ call' = [c \in Calls |->
                        IF c = m.to /\ call[c].pc = "command" /\ call[c].answer = "none"
                          THEN [call[c] EXCEPT !.answer = IF m.ok THEN "ok" ELSE "error"]
                          ELSE call[c]]
    /\ inbox' = Tail(inbox)
    /\ UNCHANGED <<device, room, channel, apps>>

\* Reports on their way are lost and every command that waits fails.
ChannelDown ==
    /\ channel = "up"
    /\ channel' = "down"
    /\ inbox' = <<>>
    /\ call' = [c \in Calls |-> IF call[c].pc = "command" /\ call[c].answer = "none"
                                  THEN [call[c] EXCEPT !.answer = "error"] ELSE call[c]]
    /\ entity' = Render(entity, live)
    /\ UNCHANGED <<device, room, live, apps>>

\* The new channel queries the device.
ChannelUp ==
    /\ channel = "down"
    /\ channel' = "up"
    /\ inbox' = <<[dps |-> device, to |-> None, ok |-> TRUE]>>
    /\ entity' = Render(entity, live)
    /\ UNCHANGED <<device, room, live, call, apps>>

\* The minute's structure read.
Poll ==
    /\ live' = room ++ live
    /\ entity' = Render(entity, live')
    /\ UNCHANGED <<device, room, inbox, channel, call, apps>>

Tick ==
    /\ entity' = [entity EXCEPT !.age = [f \in Fields |->
                    IF f \in PendingOf(entity) /\ @[f] <= PendingTTL THEN @[f] + 1 ELSE @[f]]]
    /\ UNCHANGED <<device, room, live, inbox, channel, call, apps>>

-----------------------------------------------------------------------------
(* The specification *)

Next ==
    \/ \E c \in Calls :
         \/ Begin(c) \/ RoomAnswer(c) \/ RoomFails(c)
         \/ Resume(c) \/ CommandFails(c) \/ Handle(c)
    \/ AppChanges \/ Deliver \/ ChannelDown \/ ChannelUp \/ Poll \/ Tick

Spec == Init /\ [][Next]_vars

\* Every request fails in time if it is not answered, an answered one goes on, and
\* reports, the minute's poll and the clock never stop.
Fairness ==
    /\ \A c \in Calls : WF_vars(RoomFails(c)) /\ WF_vars(CommandFails(c)) /\ WF_vars(Resume(c))
    /\ WF_vars(Deliver) /\ WF_vars(Poll) /\ WF_vars(Tick)

FairSpec == Spec /\ Fairness

-----------------------------------------------------------------------------
(* Properties *)

\* Every variable keeps its type; only values are ever sent.
TypeOK ==
    /\ device \in [Dps -> Values] /\ room \in [Room -> Values] /\ live \in [Fields -> Values]
    /\ channel \in {"up", "down"} /\ apps \in 0 .. MaxApp
    /\ \A i \in DOMAIN inbox : inbox[i] \in [dps : Changes, to : Calls \cup {None}, ok : BOOLEAN]
    /\ entity \in [pending : [Fields -> Values \cup {None}],
                   age : [Fields -> 0 .. PendingTTL + 1], preset : Presets \cup {"none"}]
    /\ \A c \in Calls :
         /\ call[c].pc \in {"new", "zone", "command", "limits", "done", "failed"}
         /\ {call[c].asked, call[c].sent, call[c].wanted} \subseteq Changes
         /\ call[c].answer \in {"none", "ok", "error"} /\ call[c].confirmed \subseteq Fields

\* A value that was refused is not kept: what is shown against the snapshot, and
\* would be sent with the next command, was asked for by a call that has not failed,
\* or not before it found or got that value accepted.  Of a preset it does not hold:
\* its values are set before the room is written, and stay when that fails.
FailureRestores ==
    \A f \in Dps \cup Limits :
      Shown(entity, live, f) # live[f] =>
        \E c \in Calls : /\ \/ call[c].pc # "failed" \/ f \in call[c].confirmed
                            \/ call[c].request \in Presets
                         /\ f \in DOMAIN call[c].asked
                         /\ call[c].asked[f] = entity.pending[f]

\* No command is lost silently: a call that returns without an error found each
\* value it asked for live, or sent it and had it taken.  Of a preset it does not hold:
\* what it set may expire while the room is written.
NoSilentLoss ==
    \A c \in Calls : call[c].pc = "done" /\ call[c].request \notin Presets =>
      DOMAIN call[c].asked \subseteq call[c].confirmed

\* Whatever fails, is lost or is changed elsewhere: with the channel up, the entity
\* comes to show what the breezer and its room really have.
Converges ==
    <>[](channel = "up") =>
      <>[](\A f \in Fields : Shown(entity, live, f) = (device ++ room)[f])

=============================================================================
