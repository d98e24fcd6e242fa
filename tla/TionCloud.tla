------------------------------ MODULE TionCloud ------------------------------
(***************************************************************************)
(* The life of the live channel of TionCloud (cloud_v4/cloud.py): start,   *)
(* connect, disconnect, reconnect, structure refresh and stop, as the      *)
(* asyncio tasks interleave at their awaits.                               *)
(*                                                                         *)
(* A task's pc is the await it is suspended at; an action is what the      *)
(* event loop runs between two awaits.  A connection is the NatsConnection *)
(* of one _connect call, so the `attempt` object of the code, which is set *)
(* and cleared together with `_connection`, is that connection's identity. *)
(* The subscription dict belongs to a connection for the same reason: a    *)
(* fresh dict is made with it, and a task keeps the dict it started with.  *)
(***************************************************************************)
EXTENDS Naturals, FiniteSets

CONSTANTS
    Sids,        \* server ids of the account's locations
    Conns,       \* identities of NatsConnection objects, reused once forgotten
    None         \* Python's None, for a connection and for the lock's holder

Start     == "start"        \* async_start, run by the entry's setup
Reconnect == "reconnect"    \* the tion_cloud_reconnect task
Poll      == "poll"         \* the coordinator's periodic async_refresh
Structure == "structure"    \* the tion_cloud_structure task
Unload    == "unload"       \* async_stop, run by the entry's unload

Connectors == {Start, Reconnect}     \* the tasks that run _connect
Refreshers == {Poll, Structure}      \* the tasks that run async_refresh
Tasks      == Connectors \cup Refreshers \cup {Unload}

ASSUME NoneAssumption == None \notin Conns \cup Tasks

\* Awaits inside `async with self._structure_lock`.
Locked == {"token", "renew", "read", "open", "sync", "undo"}
\* Awaits of the poll that follows, outside the lock.
Asking == {"poll", "query"}
\* Awaits of a task that still refers to the connection it works on.
Holding == {"sync"} \cup Asking
Awaits == Locked \cup Asking \cup
          {"idle", "profiles", "delay", "backoff", "renew_wait", "lock",
           "discard", "stopping", "closing", "done"}

VARIABLES
    pc,          \* where each task is suspended
    conn,        \* the local `connection` of each task
    fresh,       \* the lock's holder is in _with_fresh_token: a refusal is final
    raised,      \* the error each task raises once its _abandon is over
    cancelled,   \* tasks whose cancel() has not been delivered yet
    lock,        \* the holder of _structure_lock
    connection,  \* self._connection
    status,      \* of each connection: unused, open, broken, closed
    subs,        \* keys of the subscription dict of each connection
    locations,   \* sids of self._locations
    pending,     \* the reply futures of each task's state queries
    connected,   \* self._account.connected
    started, stopped,
    refused,     \* TionAuth remembers a refusal to renew the session
    wakeup,      \* self._renew_wakeup is set
    stable       \* the environment has stopped failing

vars == <<pc, conn, fresh, raised, cancelled, lock, connection, status, subs,
          locations, pending, connected, started, stopped, refused, wakeup, stable>>

tasks   == <<pc, conn, raised>>
channel == <<connection, status, subs, connected>>
session == <<refused, wakeup>>
phase   == <<started, stopped>>

Init ==
    /\ pc = [t \in Tasks |-> IF t = Start THEN "profiles" ELSE "idle"]
    /\ conn = [t \in Tasks |-> None]
    /\ fresh = FALSE
    /\ raised = [t \in Tasks |-> "none"]
    /\ cancelled = {}
    /\ lock = None
    /\ connection = None
    /\ status = [c \in Conns |-> "unused"]
    /\ subs = [c \in Conns |-> {}]
    /\ locations = {}
    /\ pending = [t \in Tasks |-> "none"]
    /\ connected = FALSE
    /\ started = FALSE
    /\ stopped = FALSE
    /\ refused = FALSE
    /\ wakeup = FALSE
    /\ stable = FALSE

-----------------------------------------------------------------------------
(* Helpers shared by the tasks *)

At(t, p) == pc[t] = p /\ t \notin cancelled

Goto(t, p) == pc' = [pc EXCEPT ![t] = p]

\* A send succeeds on an open connection only.
CanSend(c) == status[c] = "open"

\* A connection object is alive until async_close or _lost marks it closed.
Alive(c) == status[c] \in {"open", "broken"}

\* _fail_pending: the unanswered futures get the error, the answered keep theirs.
Failed(futures) ==
    [t \in Tasks |-> IF futures[t] = "wait" THEN "failed" ELSE futures[t]]

\* The futures once a task has discarded its own.
Discarded(t) == [pending EXCEPT ![t] = "none"]

\* Where an error raised out of _connect or async_refresh takes the task.
Raise(t, e) ==
    /\ Goto(t, CASE t = Start -> "stopping"
                 [] t = Reconnect /\ e = "auth" -> "renew_wait"
                 [] t = Reconnect /\ e = "error" /\ ~stopped -> "backoff"
                 [] OTHER -> "idle")
    /\ conn' = [conn EXCEPT ![t] = None]
    /\ raised' = [raised EXCEPT ![t] = "none"]
    /\ wakeup' = IF t = Reconnect /\ e = "auth" THEN FALSE ELSE wakeup

\* An error raised inside the lock leaves it.
RaiseLocked(t, e) == Raise(t, e) /\ lock' = None /\ fresh' = FALSE

\* Faulty variant: the connection is forgotten but its socket stays open.
AbandonWithoutClose(t, e, p) ==
    /\ IF connection = conn[t]
         THEN connection' = None /\ pending' = Failed(Discarded(t))
         ELSE pending' = Discarded(t) /\ UNCHANGED connection
    /\ Goto(t, p)
    /\ conn' = [conn EXCEPT ![t] = None]
    /\ raised' = [raised EXCEPT ![t] = e]
    /\ UNCHANGED <<status, subs, connected>>

\* _abandon up to its await: forget the connection if it is still the current
\* one, and close it.  p is the await and e the error raised after it.
Abandon(t, e, p) ==
    /\ IF connection = conn[t]
         THEN connection' = None /\ pending' = Failed(Discarded(t))
         ELSE pending' = Discarded(t) /\ UNCHANGED connection
    /\ status' = [status EXCEPT ![conn[t]] = "closed"]
    /\ Goto(t, p)
    /\ conn' = [conn EXCEPT ![t] = None]
    /\ raised' = [raised EXCEPT ![t] = e]
    /\ UNCHANGED <<subs, connected>>

-----------------------------------------------------------------------------
(* Setup, the coordinator's refresh and the structure task: how they begin *)

\* async_start: the profile catalog is read before _connect.
LoadProfiles ==
    /\ At(Start, "profiles")
    /\ \/ Goto(Start, "lock") /\ UNCHANGED <<conn, raised, wakeup>>
       \/ ~stable /\ Raise(Start, "error")
    /\ UNCHANGED <<fresh, cancelled, lock, channel, locations,
                   pending, phase, refused, stable>>

\* The coordinator calls async_refresh once a minute while the entry is loaded.
PollBegin ==
    /\ pc[Poll] = "idle"
    /\ started
    /\ Goto(Poll, "lock")
    /\ UNCHANGED <<conn, fresh, raised, cancelled, lock, channel, locations,
                   pending, phase, session, stable>>

\* A location event other than an auto mode change; a refresh already
\* scheduled, or running, covers it.
LocationEvent ==
    /\ connection # None
    /\ Alive(connection)
    /\ subs[connection] # {}
    /\ pc[Structure] = "idle"
    /\ Goto(Structure, "delay")
    /\ UNCHANGED <<conn, fresh, raised, cancelled, lock, channel, locations,
                   pending, phase, session, stable>>

\* The sleep before a refresh or a reconnect attempt is over.
Wake(t) ==
    /\ \/ At(t, "delay")
       \/ At(t, "backoff")
    /\ Goto(t, "lock")
    /\ UNCHANGED <<conn, fresh, raised, cancelled, lock, channel, locations,
                   pending, phase, session, stable>>

\* Faulty variant: only a renewal ends the wait.
RenewWaitForever ==
    /\ At(Reconnect, "renew_wait")
    /\ wakeup
    /\ Goto(Reconnect, "backoff")
    /\ UNCHANGED <<conn, fresh, raised, cancelled, lock, channel, locations,
                   pending, phase, session, stable>>

\* _wait_renew_retry returns: the tokens were renewed or the interval is over.
RenewWaitOver ==
    /\ At(Reconnect, "renew_wait")
    /\ Goto(Reconnect, "backoff")
    /\ UNCHANGED <<conn, fresh, raised, cancelled, lock, channel, locations,
                   pending, phase, session, stable>>

-----------------------------------------------------------------------------
(* Inside the structure lock *)

\* Faulty variant: the structure lock is not waited for.
AcquireUnlocked(t) ==
    /\ At(t, "lock")
    /\ lock' = t
    /\ Goto(t, "token")
    /\ UNCHANGED <<conn, fresh, raised, cancelled, channel, locations, pending,
                   phase, session, stable>>

Acquire(t) ==
    /\ At(t, "lock")
    /\ lock = None
    /\ lock' = t
    /\ Goto(t, "token")
    /\ UNCHANGED <<conn, fresh, raised, cancelled, channel, locations, pending,
                   phase, session, stable>>

\* async_ensure_valid: a valid token, renewed on the way or not.
TokenOk(t) ==
    /\ At(t, "token")
    /\ Goto(t, "read")
    /\ \/ UNCHANGED session
       \/ refused' = FALSE /\ wakeup' = TRUE
    /\ UNCHANGED <<conn, fresh, raised, cancelled, lock, channel, locations,
                   pending, phase, stable>>

\* The session cannot be renewed.  _connect asks for a renewal once more, since
\* its `try` covers async_ensure_valid; async_refresh does not.
TokenRefused(t) ==
    /\ At(t, "token")
    /\ ~stable
    /\ refused' = TRUE
    /\ IF t \in Connectors
         THEN Goto(t, "renew") /\ UNCHANGED <<conn, fresh, raised, lock, wakeup>>
         ELSE RaiseLocked(t, "auth")
    /\ UNCHANGED <<cancelled, channel, locations, pending,
                   phase, stable>>

\* Any other failure of an RPC or of the WebSocket handshake under the lock.
CallFails(t) ==
    /\ \E p \in {"token", "renew", "read", "open"} : At(t, p)
    /\ ~stable
    /\ RaiseLocked(t, "error")
    /\ UNCHANGED <<cancelled, channel, locations, pending,
                   phase, refused, stable>>

\* async_renew_access in _with_fresh_token; the call is then made again.
RenewOk(t) ==
    /\ At(t, "renew")
    /\ Goto(t, "read")
    /\ fresh' = TRUE
    /\ refused' = FALSE
    /\ wakeup' = TRUE
    /\ UNCHANGED <<conn, raised, cancelled, lock, channel, locations, pending,
                   phase, stable>>

RenewRefused(t) ==
    /\ At(t, "renew")
    /\ ~stable
    /\ refused' = TRUE
    /\ RaiseLocked(t, "auth")
    /\ UNCHANGED <<cancelled, channel, locations, pending,
                   phase, stable>>

\* The server rejects the access token of the read or of the NATS handshake:
\* renew and retry once, a second rejection is a server fault.
CallRefused(t) ==
    /\ At(t, "read") \/ At(t, "open")
    /\ ~stable
    /\ IF fresh
         THEN RaiseLocked(t, "error")
         ELSE Goto(t, "renew") /\ UNCHANGED <<conn, fresh, raised, lock, wakeup>>
    /\ UNCHANGED <<cancelled, channel, locations, pending,
                   phase, refused, stable>>

\* _load_structure has its answer.  A connector opens the channel with it; a
\* refresher re-subscribes the current connection, if there is one.
ReadOk(t) ==
    /\ At(t, "read")
    /\ \E new \in SUBSET Sids : locations' = new
    /\ IF t \in Connectors
         THEN Goto(t, "open") /\ UNCHANGED <<conn, fresh, lock>>
       ELSE IF connection # None
         THEN /\ conn' = [conn EXCEPT ![t] = connection]
              /\ Goto(t, "sync")
              /\ fresh' = FALSE
              /\ UNCHANGED lock
       ELSE Goto(t, "idle") /\ lock' = None /\ fresh' = FALSE /\ UNCHANGED conn
    /\ UNCHANGED <<raised, cancelled, channel, pending, phase, session,
                   stable>>

\* The handshake is over and _connect makes the connection the current one.
\* A reader started eagerly may have lost it already: its report was stale.
OpenOk(t) ==
    /\ At(t, "open")
    /\ \E c \in Conns, s \in {"open", "closed"} :
         /\ ~Alive(c)
         /\ \A u \in Tasks : conn[u] = c => pc[u] \notin Holding
         /\ s = "closed" => ~stable
         /\ status' = [status EXCEPT ![c] = s]
         /\ subs' = [subs EXCEPT ![c] = {}]
         /\ connection' = c
         /\ conn' = [conn EXCEPT ![t] = c]
    /\ fresh' = FALSE
    /\ Goto(t, "sync")
    /\ UNCHANGED <<raised, cancelled, lock, connected, locations, pending,
                   phase, session, stable>>

Unsubscribe(t) ==
    /\ At(t, "sync")
    /\ CanSend(conn[t])
    /\ \E sid \in subs[conn[t]] \ locations :
         subs' = [subs EXCEPT ![conn[t]] = @ \ {sid}]
    /\ UNCHANGED <<tasks, fresh, cancelled, lock, connection, status, connected,
                   locations, pending, phase, session, stable>>

Subscribe(t) ==
    /\ At(t, "sync")
    /\ CanSend(conn[t])
    /\ subs[conn[t]] \subseteq locations
    /\ \E sid \in locations \ subs[conn[t]] :
         subs' = [subs EXCEPT ![conn[t]] = @ \cup {sid}]
    /\ UNCHANGED <<tasks, fresh, cancelled, lock, connection, status, connected,
                   locations, pending, phase, session, stable>>

\* A send of _sync_subscriptions raises; a vanished sid was popped before it.
SyncFails(t) ==
    /\ At(t, "sync")
    /\ ~CanSend(conn[t])
    /\ subs[conn[t]] # locations
    /\ IF t \in Connectors
         THEN Abandon(t, "error", "undo") /\ UNCHANGED <<fresh, lock, wakeup>>
         ELSE /\ RaiseLocked(t, "error")
              /\ IF subs[conn[t]] \subseteq locations
                   THEN UNCHANGED subs
                   ELSE \E sid \in subs[conn[t]] \ locations :
                          subs' = [subs EXCEPT ![conn[t]] = @ \ {sid}]
              /\ UNCHANGED <<connection, status, connected, pending>>
    /\ UNCHANGED <<cancelled, locations, phase, refused, stable>>

\* The lock is left; a refresher polls only if there still is a connection.
SyncDone(t) ==
    /\ At(t, "sync")
    /\ subs[conn[t]] = locations
    /\ lock' = None
    /\ conn' = [conn EXCEPT ![t] = IF t \in Connectors THEN @ ELSE None]
    /\ Goto(t, IF t \in Connectors \/ connection # None THEN "poll" ELSE "idle")
    /\ UNCHANGED <<fresh, raised, cancelled, channel, locations, pending,
                   phase, session, stable>>

-----------------------------------------------------------------------------
(* Polling the devices, outside the lock *)

\* Faulty variants: a loss during the poll, or before it, goes unnoticed.
KeptAnyway(t) == TRUE
KeptByIdentity(t) == connection = conn[t]

\* _poll_connecting's check: an eager reader can lose the connection while its
\* report still looks stale, and a loss during the poll forgets the connection.
Kept(t) == connection = conn[t] /\ status[conn[t]] # "closed"

\* The end of _connect, or of async_refresh.
PollOver(t) ==
    IF t \in Refreshers
      THEN /\ Goto(t, "idle")
           /\ pending' = Discarded(t)
           /\ UNCHANGED <<conn, channel, phase, raised>>
    ELSE IF ~Kept(t)
      THEN Abandon(t, "error", "discard") /\ UNCHANGED phase
    ELSE /\ connected' = TRUE
         /\ started' = (started \/ t = Start)
         /\ Goto(t, IF t = Start THEN "done" ELSE "idle")
         /\ conn' = [conn EXCEPT ![t] = None]
         /\ pending' = Discarded(t)
         /\ UNCHANGED <<connection, status, subs, raised, stopped>>

\* Nothing to ask, or _query finds no connection: silence is not an error.
QueryNothing(t) ==
    /\ At(t, "poll")
    /\ PollOver(t)
    /\ UNCHANGED <<fresh, cancelled, lock, locations, session, stable>>

\* The queries are published, or a publish raises.
Query(t) ==
    /\ At(t, "poll")
    /\ connection # None
    /\ locations # {}
    /\ IF CanSend(connection)
         THEN /\ pending' = [pending EXCEPT ![t] = "wait"]
              /\ Goto(t, "query")
              /\ UNCHANGED <<conn, channel, raised, wakeup>>
       ELSE IF t \in Connectors
         THEN Abandon(t, "error", "discard") /\ UNCHANGED wakeup
         ELSE Raise(t, "error") /\ pending' = Discarded(t) /\ UNCHANGED channel
    /\ UNCHANGED <<fresh, cancelled, lock, locations, phase, refused, stable>>

\* A device answers, or REPLY_TIMEOUT ends the wait: the future is settled, the
\* task resumes later.
QueryAnswered(t) ==
    /\ pc[t] = "query"
    /\ pending[t] = "wait"
    /\ pending' = [pending EXCEPT ![t] = "done"]
    /\ UNCHANGED <<tasks, fresh, cancelled, lock, channel, locations, phase, session, stable>>

QueryResume(t) ==
    /\ At(t, "query")
    /\ pending[t] = "done"
    /\ PollOver(t)
    /\ UNCHANGED <<fresh, cancelled, lock, locations, session, stable>>

\* The future was failed by a disconnect.
QueryRaises(t) ==
    /\ At(t, "query")
    /\ pending[t] = "failed"
    /\ IF t \in Connectors
         THEN Abandon(t, "error", "discard") /\ UNCHANGED wakeup
         ELSE Raise(t, "error") /\ pending' = Discarded(t) /\ UNCHANGED channel
    /\ UNCHANGED <<fresh, cancelled, lock, locations, phase, refused, stable>>

\* The close awaited by _abandon is over and the error goes on.
AbandonOver(t) ==
    /\ At(t, "undo") \/ At(t, "discard")
    /\ Raise(t, raised[t])
    /\ lock' = IF pc[t] = "undo" THEN None ELSE lock
    /\ UNCHANGED <<fresh, cancelled, channel, locations, pending,
                   phase, refused, stable>>

-----------------------------------------------------------------------------
(* The connection, the session and the end *)

\* The socket dies: sends fail from now on, the reader has yet to notice.
Break(c) ==
    /\ status[c] = "open"
    /\ ~stable
    /\ status' = [status EXCEPT ![c] = "broken"]
    /\ UNCHANGED <<tasks, fresh, cancelled, lock, connection, subs, connected, locations,
                   pending, phase, session, stable>>

\* The reader or the keepalive reports the loss: _on_disconnect of the current
\* connection.  A reconnect task that is still running will see the loss itself.
Disconnect(c) ==
    /\ Alive(c)
    /\ status[c] = "open" => ~stable
    /\ status' = [status EXCEPT ![c] = "closed"]
    /\ IF connection = c
         THEN /\ connection' = None
              /\ pending' = Failed(pending)
              /\ connected' = FALSE
              /\ IF started /\ pc[Reconnect] = "idle"
                   THEN Goto(Reconnect, "backoff")
                   ELSE UNCHANGED pc
         ELSE UNCHANGED <<connection, pending, connected, pc>>
    /\ UNCHANGED <<conn, fresh, raised, cancelled, lock, subs, locations, phase,
                   session, stable>>

\* Faulty variant: _on_tokens does not set the wakeup.
RenewUnnoticed ==
    /\ \/ refused' = FALSE
       \/ ~stable /\ refused' = TRUE
    /\ UNCHANGED <<tasks, fresh, cancelled, lock, channel, locations, pending,
                   phase, wakeup, stable>>

\* Another caller of TionAuth (a room's auto mode write) renews the session, or
\* is refused; _on_tokens is unsubscribed by async_stop.
RenewElsewhere ==
    /\ \/ refused' = FALSE /\ wakeup' = (wakeup \/ ~stopped)
       \/ ~stable /\ refused' = TRUE /\ UNCHANGED wakeup
    /\ UNCHANGED <<tasks, fresh, cancelled, lock, channel, locations, pending, phase, stable>>

\* Home Assistant cancels the entry's setup.
CancelSetup ==
    /\ pc[Start] \notin {"stopping", "closing", "done"}
    /\ cancelled' = cancelled \cup {Start}
    /\ UNCHANGED <<tasks, fresh, lock, channel, locations, pending, phase, session, stable>>

\* Faulty variant: the background tasks are left running.
StopWithoutCancel(t) ==
    /\ started' = FALSE
    /\ stopped' = TRUE
    /\ pending' = Failed(pending)
    /\ connection' = None
    /\ status' = [c \in Conns |-> IF c = connection THEN "closed" ELSE status[c]]
    /\ Goto(t, IF connection # None THEN "closing" ELSE "done")
    /\ connected' = (connected /\ connection # None)
    /\ UNCHANGED <<conn, fresh, raised, cancelled, lock, subs, locations, session,
                   stable>>

\* async_stop up to its await.
Stop(t) ==
    /\ started' = FALSE
    /\ stopped' = TRUE
    /\ cancelled' = cancelled \cup {u \in {Reconnect, Structure} : pc[u] # "idle"}
    /\ pending' = Failed(pending)
    /\ connection' = None
    /\ status' = [c \in Conns |-> IF c = connection THEN "closed" ELSE status[c]]
    /\ Goto(t, IF connection # None THEN "closing" ELSE "done")
    /\ connected' = (connected /\ connection # None)
    /\ UNCHANGED <<conn, fresh, raised, lock, subs, locations, session, stable>>

\* The entry is unloaded, or async_start stops the cloud because it failed.
UnloadBegin ==
    /\ pc[Unload] = "idle"
    /\ started
    /\ Stop(Unload)

StartFails(t) ==
    /\ At(t, "stopping")
    /\ Stop(t)

StopOver(t) ==
    /\ pc[t] = "closing"
    /\ connected' = FALSE
    /\ Goto(t, "done")
    /\ UNCHANGED <<conn, fresh, raised, cancelled, lock, connection, status, subs,
                   locations, pending, phase, session, stable>>

\* CancelledError is thrown at the task's await.  A connector that has a
\* connection abandons it first; every other task just unwinds.
CancelDelivered(t) ==
    /\ t \in cancelled
    /\ cancelled' = cancelled \ {t}
    /\ IF t \in Connectors /\ pc[t] = "sync"
         THEN Abandon(t, "cancel", "undo") /\ UNCHANGED <<fresh, lock, wakeup>>
       ELSE IF t \in Connectors /\ pc[t] \in Asking
         THEN Abandon(t, "cancel", "discard") /\ UNCHANGED <<fresh, lock, wakeup>>
       ELSE /\ IF pc[t] \in Locked
                 THEN RaiseLocked(t, "cancel")
                 ELSE Raise(t, "cancel") /\ UNCHANGED <<fresh, lock>>
            /\ pending' = Discarded(t)
            /\ UNCHANGED channel
    /\ UNCHANGED <<locations, phase, refused, stable>>

\* From here on the cloud accepts every call and the network holds.
Stabilise ==
    /\ ~stable
    /\ stable' = TRUE
    /\ UNCHANGED <<tasks, fresh, cancelled, lock, channel, locations, pending, phase, session>>

-----------------------------------------------------------------------------
(* The specification *)

\* What the task itself does next, once its await is over.
Step(t) ==
    \/ Wake(t) \/ Acquire(t)
    \/ TokenOk(t) \/ TokenRefused(t) \/ CallFails(t)
    \/ RenewOk(t) \/ RenewRefused(t) \/ CallRefused(t)
    \/ ReadOk(t) \/ OpenOk(t)
    \/ Unsubscribe(t) \/ Subscribe(t) \/ SyncFails(t) \/ SyncDone(t)
    \/ QueryNothing(t) \/ Query(t) \/ QueryAnswered(t)
    \/ QueryResume(t) \/ QueryRaises(t) \/ AbandonOver(t)
    \/ StartFails(t) \/ StopOver(t) \/ CancelDelivered(t)

Next ==
    \/ LoadProfiles \/ PollBegin \/ LocationEvent \/ RenewWaitOver
    \/ RenewElsewhere \/ CancelSetup \/ UnloadBegin \/ Stabilise
    \/ \E t \in Tasks : Step(t)
    \/ \E c \in Conns : Break(c) \/ Disconnect(c)

Spec == Init /\ [][Next]_vars

\* The event loop runs every task whose await is over, the structure lock is
\* first come first served, every call has a timeout, a dead socket is noticed,
\* and the environment fails for a while only.
Fairness ==
    /\ WF_vars(Stabilise)
    /\ WF_vars(LoadProfiles)
    /\ WF_vars(RenewWaitOver)
    /\ \A t \in Tasks : WF_vars(Step(t))
    /\ \A t \in Connectors : SF_vars(Acquire(t))
    /\ \A c \in Conns : WF_vars(Disconnect(c))

FairSpec == Spec /\ Fairness

-----------------------------------------------------------------------------
(* Properties *)

TaskTypes ==
    /\ pc \in [Tasks -> Awaits]
    /\ conn \in [Tasks -> Conns \cup {None}]
    /\ raised \in [Tasks -> {"none", "error", "cancel"}]
    /\ cancelled \subseteq Connectors \cup Refreshers
    /\ lock \in Tasks \cup {None}

ChannelTypes ==
    /\ connection \in Conns \cup {None}
    /\ status \in [Conns -> {"unused", "open", "broken", "closed"}]
    /\ subs \in [Conns -> SUBSET Sids]
    /\ locations \subseteq Sids

ReplyTypes ==
    /\ pending \in [Tasks -> {"none", "wait", "done", "failed"}]

FlagTypes ==
    /\ {fresh, connected, started, stopped, refused, wakeup, stable} \subseteq BOOLEAN

\* Every variable keeps its type; an error raised by _abandon is never a refusal.
TypeOK == TaskTypes /\ ChannelTypes /\ ReplyTypes /\ FlagTypes

\* There is a current connection, and it has not been lost.
Live == connection # None /\ Alive(connection)

\* The account is shown as connected only over a live channel; async_stop hides
\* it after its close only.
ConnectedIsLive ==
    connected /\ ~stopped => Live

\* Once started, a cloud without a live channel always has a reconnect task at
\* work: no order of losses, polls and refreshes leaves it down for good.
DownIsReconnecting ==
    started /\ ~Live => pc[Reconnect] # "idle"

\* A socket nobody refers to is never left open: at most the current
\* connection is alive, whatever failed, was cancelled or was stopped.
NoLeakedConnection ==
    \A c \in Conns : Alive(c) => c = connection

\* With the structure lock free, a working channel is subscribed to exactly
\* the locations of the structure that was read last.
SubscriptionsMatch ==
    lock = None /\ connection # None /\ status[connection] = "open"
        => subs[connection] = locations

\* The reconnect task waits for a renewal only while the session is refused or
\* the wakeup that ends the wait is already set.
NoLostWakeup ==
    pc[Reconnect] = "renew_wait" /\ ~stopped => refused \/ wakeup

\* A connection is never replaced by another one: it is lost or closed first.
NeverReplaced ==
    [][connection # None => connection' \in {connection, None}]_vars

\* The listeners' view of the cloud.
Phase ==
    IF stopped THEN "stopped" ELSE IF ~started THEN "starting"
    ELSE IF connected THEN "up" ELSE "down"

Channel == INSTANCE LiveChannel WITH phase <- Phase

\* The cloud implements the live channel its listeners rely on: it is only ever
\* shown down after it was up, it comes back, and a stop is final.
ImplementsLiveChannel == Channel!Spec

\* After async_stop no task keeps running and no socket stays open.
StopIsFinal ==
    stopped ~> [](/\ \A t \in Tasks : pc[t] \in {"idle", "done"}
                  /\ \A c \in Conns : ~Alive(c)
                  /\ ~connected)

=============================================================================
