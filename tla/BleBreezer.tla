------------------------------ MODULE BleBreezer ------------------------------
(***************************************************************************)
(* A breezer over Bluetooth (ble_breezer.py): the poll and the commands    *)
(* share one lock and one link, the link is dropped after a failure, after *)
(* a while of silence and when the entry is unloaded.                      *)
(*                                                                         *)
(* A key stands for one thing a command sets (power and speed, the gate,   *)
(* the heater, the temperature).  Calls come from entities, and those      *)
(* exist only once the first poll has read the state, so that async_send   *)
(* never finds it missing.                                                 *)
(***************************************************************************)
EXTENDS Naturals, Sequences

CONSTANTS
    Sends,       \* tasks that call the climate entity
    Twice,       \* those that may send twice: set_temperature with a mode
    Keys,        \* what a command sets
    Vals,        \* the values
    None         \* nothing set, no state, nobody

Poll == "poll"
Idle == "idle"
Shutdown == "shutdown"
Tasks == Sends \cup {Poll, Idle, Shutdown}

ASSUME NamesAssumption ==
    /\ Twice \subseteq Sends
    /\ {Poll, Idle, Shutdown, None} \cap Sends = {}
    /\ None \notin {Poll, Idle, Shutdown}
    /\ None \notin Vals \cup [Keys -> Vals]

\* The breezer's state, as a frame tells it, and what a set command changes of it.
State == [Keys -> Vals]
Partial == [Keys -> Vals \cup {None}]
Nothing == [k \in Keys |-> None]
Changes == Partial \ {Nothing}

\* g over h.
Over(g, h) == [k \in Keys |-> IF g[k] = None THEN h[k] ELSE g[k]]

VARIABLES
    device,      \* the breezer's state
    client,      \* self._client: none, bare (no notifications yet), up, down
    wire,        \* frames on their way to us
    closed,      \* self._closed
    timer,       \* the idle timer is armed
    lock,        \* self._lock: its holder and those who wait for it, in order
    step,        \* where each task waits
    request,     \* the holder's request: its future, the frame in it, taken by the breezer
    sent,        \* the snapshot of the command under way
    known,       \* self.state
    informed,    \* self.dev_info has been read
    pending,     \* self._pending
    again,       \* the calls that will send once more
    want,        \* history: what each call has set and nobody has settled
    refused      \* history: what of it went with a command that failed

vars == <<device, client, wire, closed, timer, lock, step, request, sent, known,
          informed, pending, again, want, refused>>

calls == <<again, want, refused>>

NoRequest == [future |-> "none", frame |-> None, taken |-> TRUE]
NewRequest == [future |-> "wait", frame |-> None, taken |-> FALSE]

Init ==
    /\ device \in State
    /\ client = "none"
    /\ wire = <<>>
    /\ closed = FALSE
    /\ timer = FALSE
    /\ lock = [holder |-> None, queue |-> <<>>]
    /\ step = [t \in Tasks |-> "rest"]
    /\ request = NoRequest
    /\ sent = Nothing
    /\ known = None
    /\ informed = FALSE
    /\ pending = Nothing
    /\ again = [t \in Sends |-> FALSE]
    /\ want = [t \in Sends |-> Nothing]
    /\ refused = [t \in Sends |-> {}]

Resting == {"rest", "returned", "raised"}
Working == {"connect", "notify", "info", "state", "command", "drop"}
Connected == client \in {"bare", "up"}

-----------------------------------------------------------------------------
(* Under the lock *)

Goes(t, s) == step' = [step EXCEPT ![t] = s]

Takes(t, q) == lock' = [holder |-> t, queue |-> q]

Frees(q) == Takes(None, q)

\* A task sends its first request.
Asks(t) ==
    /\ Goes(t, IF t # Poll THEN "command" ELSE IF informed THEN "state" ELSE "info")
    /\ request' = NewRequest

\* _ensure_connected
Connects(t) ==
    IF Connected THEN Asks(t) ELSE Goes(t, "connect") /\ request' = NoRequest

\* A command takes a snapshot p of what is pending.
Commands(t, q, p) == Takes(t, q) /\ sent' = p /\ Connects(t)

\* Faulty variant: a timer that is armed is left as it is.
SchedulesOnce == UNCHANGED timer

\* The timer is armed anew, unless the entry was unloaded.
Schedules == timer' = ~closed

\* _disconnect forgets the client at once and awaits its end, if there is one.
Forgets == client' = "none" /\ wire' = <<>> /\ request' = NoRequest

\* Faulty variant: the link is kept after a failure.
KeepsLink(t) ==
    /\ UNCHANGED <<client, wire>>
    /\ request' = NoRequest
    /\ Goes(t, "raised") /\ Frees(lock.queue) /\ Schedules

\* After a failure, then to raise.
Disconnects(t) ==
    /\ Forgets
    /\ IF client = "none" THEN Goes(t, "raised") /\ Frees(lock.queue) /\ Schedules
       ELSE Goes(t, "drop") /\ UNCHANGED <<lock, timer>>

\* With nothing else to do, for the timer and the unload; q waits for the lock.
Drops(t, q) ==
    /\ Forgets
    /\ IF client = "none" THEN Goes(t, "returned") /\ Frees(q)
       ELSE Goes(t, "drop") /\ Takes(t, q)

-----------------------------------------------------------------------------
(* The calls *)

\* A call sets g over p; w is what the calls want, less what g replaces.
Sets(t, g, p, w) ==
    /\ pending' = Over(g, p)
    /\ want' = [u \in Sends |-> [k \in Keys |->
                  IF g[k] = None THEN w[u][k]
                  ELSE IF u = t \/ w[u][k] = g[k] THEN g[k] ELSE None]]

\* async_send ends well, with q waiting for the lock and p pending.
Returns(t, q, p, w) ==
    \/ /\ ~again[t]
       /\ Goes(t, "returned")
       /\ Frees(q)
       /\ request' = NoRequest
       /\ pending' = p
       /\ want' = w
       /\ UNCHANGED <<sent, again>>
    \/ /\ again[t]
       /\ again' = [again EXCEPT ![t] = FALSE]
       /\ \E g \in Changes : Sets(t, g, p, w)
       /\ IF q = <<>> THEN Commands(t, q, pending')
          ELSE /\ Frees(Append(q, t))
               /\ Goes(t, "lock")
               /\ request' = NoRequest
               /\ UNCHANGED sent

\* Faulty variant of _forget: what was set meanwhile is forgotten, too.
RemainsNothing == Nothing

\* Faulty variant: nothing is forgotten.
RemainsAll == pending

\* _forget: what was not sent, or was set anew.
Remains == [k \in Keys |-> IF pending[k] = sent[k] THEN None ELSE pending[k]]

\* The command carries what call u wants of key k.
Carries(u, k) == sent[k] # None /\ want[u][k] = sent[k]

Unsettled == [u \in Sends |-> [k \in Keys |-> IF Carries(u, k) THEN None ELSE want[u][k]]]

\* An entity sets values and sends them.
Call(t) ==
    /\ step[t] \in Resting
    /\ ~closed
    /\ known # None
    /\ \E g \in Changes : Sets(t, g, pending, [want EXCEPT ![t] = Nothing])
    /\ \E more \in BOOLEAN : (more => t \in Twice) /\ again' = [again EXCEPT ![t] = more]
    /\ refused' = [refused EXCEPT ![t] = {}]
    /\ IF lock.holder = None /\ lock.queue = <<>>
         THEN Commands(t, <<>>, pending')
         ELSE /\ Takes(lock.holder, Append(lock.queue, t))
              /\ Goes(t, "lock")
              /\ UNCHANGED <<request, sent>>
    /\ UNCHANGED <<device, client, wire, closed, timer, known, informed>>

\* It gets the lock: what it set may have left with an earlier command.
WakeSend(t) ==
    /\ lock.holder = None
    /\ lock.queue # <<>> /\ Head(lock.queue) = t
    /\ IF pending = Nothing
         THEN Returns(t, Tail(lock.queue), pending, want)
         ELSE /\ Commands(t, Tail(lock.queue), pending)
              /\ UNCHANGED <<pending, again, want>>
    /\ UNCHANGED <<device, client, wire, closed, timer, known, informed, refused>>

\* The answer to its command.
CommandAnswered(t) ==
    /\ step[t] = "command"
    /\ request.future = "got"
    /\ known' = request.frame
    /\ Schedules
    /\ Returns(t, lock.queue, Remains, Unsettled)
    /\ UNCHANGED <<device, client, wire, closed, informed, refused>>

\* No link, a lost one, no answer in time or one that cannot be read: the values
\* sent are forgotten, the link is dropped.
SendFails(t) ==
    /\ step[t] \in {"connect", "notify", "command"}
    /\ pending' = Remains
    /\ want' = Unsettled
    /\ refused' = [u \in Sends |-> refused[u] \cup {k \in Keys : Carries(u, k)}]
    /\ again' = [again EXCEPT ![t] = FALSE]
    /\ Disconnects(t)
    /\ UNCHANGED <<device, closed, sent, known, informed>>

-----------------------------------------------------------------------------
(* The poll *)

\* The coordinator polls; it goes on polling once the first poll has succeeded.
StartPoll ==
    /\ step[Poll] \in Resting
    /\ ~closed
    /\ step[Poll] = "raised" => known # None
    /\ IF lock.holder = None /\ lock.queue = <<>>
         THEN Takes(Poll, <<>>) /\ Connects(Poll)
         ELSE /\ Takes(lock.holder, Append(lock.queue, Poll))
              /\ Goes(Poll, "lock")
              /\ UNCHANGED request
    /\ UNCHANGED <<device, client, wire, closed, timer, sent, known, informed, pending, calls>>

WakePoll ==
    /\ lock.holder = None
    /\ lock.queue # <<>> /\ Head(lock.queue) = Poll
    /\ Takes(Poll, Tail(lock.queue))
    /\ Connects(Poll)
    /\ UNCHANGED <<device, client, wire, closed, timer, sent, known, informed, pending, calls>>

\* The device information is asked for once, then the state.
InfoAnswered ==
    /\ step[Poll] = "info"
    /\ request.future = "got"
    /\ informed' = TRUE
    /\ Goes(Poll, "state")
    /\ request' = NewRequest
    /\ UNCHANGED <<device, client, wire, closed, timer, lock, sent, known, pending, calls>>

StateAnswered ==
    /\ step[Poll] = "state"
    /\ request.future = "got"
    /\ known' = request.frame
    /\ Goes(Poll, "returned")
    /\ request' = NoRequest
    /\ Frees(lock.queue)
    /\ Schedules
    /\ UNCHANGED <<device, client, wire, closed, sent, informed, pending, calls>>

PollFails ==
    /\ step[Poll] \in {"connect", "notify", "info", "state"}
    /\ Disconnects(Poll)
    /\ UNCHANGED <<device, closed, sent, known, informed, pending, calls>>

\* Unloading the entry cancels a background poll; its link stays.
PollCancelled ==
    /\ closed
    /\ step[Poll] \in {"lock", "connect", "notify", "info", "state"}
    /\ Goes(Poll, "raised")
    /\ IF step[Poll] = "lock"
         THEN /\ \E i \in DOMAIN lock.queue :
                   /\ lock.queue[i] = Poll
                   /\ Takes(lock.holder, SubSeq(lock.queue, 1, i - 1)
                                            \o SubSeq(lock.queue, i + 1, Len(lock.queue)))
              /\ UNCHANGED <<request, timer>>
         ELSE Frees(lock.queue) /\ request' = NoRequest /\ Schedules
    /\ UNCHANGED <<device, client, wire, closed, sent, known, informed, pending, calls>>

-----------------------------------------------------------------------------
(* The link *)

\* establish_connection returns.
Established(t) ==
    /\ step[t] = "connect"
    /\ client' = "bare"
    /\ Goes(t, "notify")
    /\ UNCHANGED <<device, wire, closed, timer, lock, request, sent, known, informed, pending, calls>>

\* start_notify returns.
Notifying(t) ==
    /\ step[t] = "notify"
    /\ client = "bare"
    /\ client' = "up"
    /\ Asks(t)
    /\ UNCHANGED <<device, wire, closed, timer, lock, sent, known, informed, pending, calls>>

\* Faulty variant: the lock is kept.
RaisesLocked(t) ==
    /\ step[t] = "drop"
    /\ t \in Sends \cup {Poll}
    /\ Goes(t, "raised")
    /\ UNCHANGED <<device, client, wire, closed, timer, lock, request, sent, known, informed,
                   pending, calls>>

\* client.disconnect() returns after a failure: the call or the poll raises.
Raises(t) ==
    /\ step[t] = "drop"
    /\ t \in Sends \cup {Poll}
    /\ Goes(t, "raised")
    /\ Frees(lock.queue)
    /\ Schedules
    /\ UNCHANGED <<device, client, wire, closed, request, sent, known, informed, pending, calls>>

\* It returns to the timer or to the unload.
Dropped(t) ==
    /\ step[t] = "drop"
    /\ t \in {Idle, Shutdown}
    /\ Goes(t, "returned")
    /\ Frees(lock.queue)
    /\ UNCHANGED <<device, client, wire, closed, timer, request, sent, known, informed, pending, calls>>

\* _idle_disconnect: whoever holds the lock will arm the timer again.
TimerFires ==
    /\ timer
    /\ timer' = FALSE
    /\ IF lock.holder # None THEN UNCHANGED <<client, wire, request, step, lock>>
       ELSE /\ step[Idle] \in Resting
            /\ IF lock.queue = <<>> THEN Drops(Idle, <<>>)
               ELSE /\ Frees(Append(lock.queue, Idle))
                    /\ Goes(Idle, "lock")
                    /\ UNCHANGED <<client, wire, request>>
    /\ UNCHANGED <<device, closed, sent, known, informed, pending, calls>>

\* async_shutdown: when the entry is unloaded, or its first poll has failed.
Unload ==
    /\ ~closed
    /\ known # None \/ step[Poll] = "raised"
    /\ step[Shutdown] \in Resting
    /\ closed' = TRUE
    /\ timer' = FALSE
    /\ IF lock.holder = None /\ lock.queue = <<>> THEN Drops(Shutdown, <<>>)
       ELSE /\ Takes(lock.holder, Append(lock.queue, Shutdown))
            /\ Goes(Shutdown, "lock")
            /\ UNCHANGED <<client, wire, request>>
    /\ UNCHANGED <<device, sent, known, informed, pending, calls>>

WakeDrop(t) ==
    /\ lock.holder = None
    /\ lock.queue # <<>> /\ Head(lock.queue) = t
    /\ t \in {Idle, Shutdown}
    /\ Drops(t, Tail(lock.queue))
    /\ UNCHANGED <<device, closed, timer, sent, known, informed, pending, calls>>

-----------------------------------------------------------------------------
(* The breezer and the radio *)

\* The breezer takes a request and answers; the answer may be lost.  A command
\* carries all the keys, those that are not pending as the last state has them.
Handle ==
    /\ request.future = "wait" /\ ~request.taken
    /\ Connected
    /\ request' = [request EXCEPT !.taken = TRUE]
    /\ device' = IF step[lock.holder] = "command" THEN Over(sent, known) ELSE device
    /\ LET m == IF step[lock.holder] = "info" THEN [type |-> "info", frame |-> None]
                ELSE [type |-> "state", frame |-> device']
       IN wire' = wire \/ (client = "up" /\ wire' = Append(wire, m))
    /\ UNCHANGED <<client, closed, timer, lock, step, sent, known, informed, pending, calls>>

\* _on_notify: a frame of the type that is waited for is the answer.
Notified ==
    /\ wire # <<>>
    /\ wire' = Tail(wire)
    /\ request' = IF request.future = "wait" /\ (Head(wire).type = "info") = (step[lock.holder] = "info")
                    THEN [request EXCEPT !.future = "got", !.frame = Head(wire).frame]
                    ELSE request
    /\ UNCHANGED <<device, client, closed, timer, lock, step, sent, known, informed, pending, calls>>

\* _on_disconnected
LinkLost ==
    /\ Connected
    /\ client' = "down"
    /\ wire' = <<>>
    /\ request' = [request EXCEPT !.future = IF @ = "wait" THEN "broken" ELSE @]
    /\ UNCHANGED <<device, closed, timer, lock, step, sent, known, informed, pending, calls>>

\* Somebody uses the remote control.
Remote ==
    /\ device' \in State \ {device}
    /\ UNCHANGED <<client, wire, closed, timer, lock, step, request, sent, known, informed,
                   pending, calls>>

-----------------------------------------------------------------------------
(* The specification *)

\* What a task waits for comes, or fails in time.
Proceeds(t) ==
    \/ Established(t) \/ Notifying(t) \/ Raises(t) \/ Dropped(t)
    \/ WakeDrop(t)
    \/ t \in Sends /\ (WakeSend(t) \/ CommandAnswered(t) \/ SendFails(t))
    \/ t = Poll /\ (WakePoll \/ InfoAnswered \/ StateAnswered \/ PollFails)

Next ==
    \/ \E t \in Tasks : Established(t) \/ Notifying(t) \/ Raises(t) \/ Dropped(t) \/ WakeDrop(t)
    \/ \E t \in Sends : Call(t) \/ WakeSend(t) \/ CommandAnswered(t) \/ SendFails(t)
    \/ StartPoll \/ WakePoll \/ InfoAnswered \/ StateAnswered \/ PollFails \/ PollCancelled
    \/ TimerFires \/ Unload
    \/ Handle \/ Notified \/ LinkLost \/ Remote

Spec == Init /\ [][Next]_vars

\* Connecting, disconnecting and requests end in time (bleak's and
\* RESPONSE_TIMEOUT), and the lock is handed on in order.
Fairness == \A t \in Tasks : WF_vars(Proceeds(t))

FairSpec == Spec /\ Fairness

-----------------------------------------------------------------------------
(* Properties *)

\* Every variable keeps its type, and a task works with the link only while it
\* holds the lock.
TypeOK ==
    /\ device \in State /\ known \in State \cup {None}
    /\ client \in {"none", "bare", "up", "down"}
    /\ wire \in Seq([type : {"info", "state"}, frame : State \cup {None}])
    /\ closed \in BOOLEAN /\ timer \in BOOLEAN /\ informed \in BOOLEAN
    /\ lock \in [holder : Tasks \cup {None}, queue : Seq(Tasks)]
    /\ step \in [Tasks -> Resting \cup Working \cup {"lock"}]
    /\ request \in [future : {"none", "wait", "got", "broken"}, frame : State \cup {None},
                    taken : BOOLEAN]
    /\ {pending, sent} \subseteq Partial
    /\ again \in [Sends -> BOOLEAN] /\ want \in [Sends -> Partial]
    /\ refused \in [Sends -> SUBSET Keys]
    /\ \A t \in Tasks : step[t] \in Working => lock.holder = t

\* CR-T-035: no change is lost while an earlier command is awaited: when a call
\* returns, each value it set has been answered, was refused to an earlier
\* command, or was replaced by a later call.
NotForgotten == \A t \in Sends : step[t] = "returned" => want[t] = Nothing

\* A value nobody is going to send is not shown over the breezer's state: with no
\* call under way, nothing is pending.
NothingMasked == (\A t \in Sends : step[t] \in Resting) => pending = Nothing

\* An answer is told apart by its type only; as every failure drops the link, no
\* command takes the late answer to an earlier request for its own.
AnswerIsOurs ==
    \A t \in Sends :
      (~closed /\ step[t] = "command" /\ request.future = "got") =>
        request.frame = Over(sent, known)

\* A link that nobody uses has a timer that will drop it.
LinkIsWatched ==
    (client # "none" /\ lock.holder = None /\ lock.queue = <<>> /\ ~closed) => timer

\* Every call, poll and disconnect comes to its end.
TasksEnd == \A t \in Tasks : step[t] \notin Resting ~> step[t] \in Resting

\* A call that returns without an error has had each of its values taken, or
\* replaced by a later call.
NoSilentLoss == \A t \in Sends : step[t] = "returned" => refused[t] = {}

=============================================================================
