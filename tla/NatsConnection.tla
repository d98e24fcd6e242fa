---------------------------- MODULE NatsConnection ----------------------------
(***************************************************************************)
(* One NatsConnection (cloud_v4/nats.py): the handshake of async_connect,  *)
(* the reader and keepalive tasks, the loss of the connection and its      *)
(* close by the owner, over a WebSocket that may break loudly or silently. *)
(*                                                                         *)
(* A WebSocket message is the set of the ops in it that change the state:  *)
(* a PONG, an -ERR, the close; MSG, PING and a permissions violation leave *)
(* it alone, so a message of those is the empty set.                       *)
(***************************************************************************)
EXTENDS Naturals, Sequences

CONSTANTS
    MaxWire      \* bound on the messages on their way to the client

ASSUME WireAssumption == MaxWire \in Nat \ {0}

Close == {"close"}
Messages == SUBSET {"pong", "err"} \cup {Close}

VARIABLES
    opener,      \* async_connect: ws, info, pong, starting, returned, failed
    ws,          \* the WebSocket: none, open, closed
    link,        \* up, or dead without anyone noticing
    wire,        \* messages on their way to the client
    owed,        \* PINGs the server has yet to answer
    closed,      \* self._closed
    reader,      \* the reader task: none, receive, done
    pinger,      \* the keepalive task: none, sleep, wait, done
    pong,        \* the future in self._pongs: none, wait, done
    shutdown,    \* the task _lost starts: none, begin, done
    closer,      \* async_close by the owner: none, closing, done
    reported     \* calls of on_disconnect

vars == <<opener, ws, link, wire, owed, closed, reader, pinger, pong, shutdown,
          closer, reported>>

network == <<link, wire, owed>>
tasks   == <<reader, pinger>>

Init ==
    /\ opener = "ws"
    /\ ws = "none"
    /\ link = "up"
    /\ wire = <<>>
    /\ owed = 0
    /\ closed = FALSE
    /\ reader = "none"
    /\ pinger = "none"
    /\ pong = "none"
    /\ shutdown = "none"
    /\ closer = "none"
    /\ reported = 0

-----------------------------------------------------------------------------
(* Helpers *)

\* A PONG settles the future that waits for it.
Settled(m) == IF "pong" \in m /\ pong = "wait" THEN "done" ELSE pong

\* The message ends a running connection.
Fatal(m) == m = Close \/ "err" \in m

\* Faulty variant: the tasks and the socket are not cleaned up.
LostUncleaned ==
    /\ closed' = TRUE
    /\ reported' = IF closed THEN reported ELSE reported + 1
    /\ UNCHANGED shutdown

\* _lost: the first one to notice reports.
Lost ==
    IF closed THEN UNCHANGED <<closed, reported, shutdown>>
    ELSE /\ closed' = TRUE
         /\ reported' = reported + 1
         /\ shutdown' = "begin"

\* _shutdown up to its await: the future and the tasks in _tasks are cancelled;
\* there are none before _start has made both.
Shutdown ==
    /\ reader' = IF pinger = "none" THEN reader ELSE "done"
    /\ pinger' = IF pinger = "none" THEN "none" ELSE "done"
    /\ pong' = "none"
    /\ ws' = "closed"

-----------------------------------------------------------------------------
(* async_connect *)

Fail ==
    /\ opener' = "failed"
    /\ ws' = IF ws = "none" THEN "none" ELSE "closed"

WsOpen ==
    /\ opener = "ws"
    /\ opener' = "info"
    /\ ws' = "open"
    /\ UNCHANGED <<network, closed, tasks, pong, shutdown, closer, reported>>

\* The server's first message has to be its INFO; then CONNECT and PING go out.
Info ==
    /\ opener = "info"
    /\ wire # <<>>
    /\ IF Head(wire) = {}
         THEN /\ opener' = "pong"
              /\ pong' = "wait"
              /\ owed' = owed + 1
              /\ UNCHANGED ws
         ELSE Fail /\ UNCHANGED <<pong, owed>>
    /\ wire' = Tail(wire)
    /\ UNCHANGED <<link, closed, tasks, shutdown, closer, reported>>

\* The rest of _handshake: an -ERR in the message of the PONG still counts.
Welcome ==
    /\ opener = "pong"
    /\ wire # <<>>
    /\ pong' = Settled(Head(wire))
    /\ IF Fatal(Head(wire)) THEN Fail
       ELSE opener' = (IF pong' = "done" THEN "starting" ELSE "pong") /\ UNCHANGED ws
    /\ wire' = Tail(wire)
    /\ UNCHANGED <<link, owed, closed, tasks, shutdown, closer, reported>>

\* Faulty variant: the handshake has no timeout.
ConnectHangs ==
    /\ opener = "ws"
    /\ Fail
    /\ UNCHANGED <<network, closed, tasks, pong, shutdown, closer, reported>>

\* A timeout, an error of ws_connect, or the cancellation of the caller.
ConnectFails ==
    /\ opener \in {"ws", "info", "pong"}
    /\ Fail
    /\ UNCHANGED <<network, closed, tasks, pong, shutdown, closer, reported>>

\* _start: an eager reader runs before the keepalive is made.
StartReader ==
    /\ opener = "starting"
    /\ reader = "none"
    /\ reader' = "receive"
    /\ pong' = "none"
    /\ UNCHANGED <<opener, ws, network, closed, pinger, shutdown, closer, reported>>

\* A keepalive of a connection that is already lost ends at once.
StartKeepalive ==
    /\ opener = "starting"
    /\ reader # "none" /\ pinger = "none"
    /\ pinger' = IF closed THEN "done" ELSE "sleep"
    /\ UNCHANGED <<opener, ws, network, closed, reader, pong, shutdown, closer, reported>>

Return ==
    /\ opener = "starting"
    /\ pinger # "none"
    /\ opener' = "returned"
    /\ UNCHANGED <<ws, network, closed, tasks, pong, shutdown, closer, reported>>

-----------------------------------------------------------------------------
(* The reader and the keepalive *)

\* _read_loop handles a message: what follows an -ERR in it still counts.
Read ==
    /\ reader = "receive"
    /\ wire # <<>> \/ ws = "closed"
    /\ LET m == IF wire = <<>> THEN Close ELSE Head(wire)
       IN /\ pong' = Settled(m)
          /\ IF Fatal(m) THEN Lost ELSE UNCHANGED <<closed, reported, shutdown>>
          /\ reader' = IF Fatal(m) \/ closed THEN "done" ELSE "receive"
    /\ wire' = IF wire = <<>> THEN <<>> ELSE Tail(wire)
    /\ UNCHANGED <<opener, ws, link, owed, pinger, closer>>

\* PING_INTERVAL is over.
Ping ==
    /\ pinger = "sleep"
    /\ ~closed
    /\ pinger' = "wait"
    /\ pong' = "wait"
    /\ owed' = IF link = "up" THEN owed + 1 ELSE owed
    /\ UNCHANGED <<opener, ws, link, wire, closed, reader, shutdown, closer, reported>>

\* The PING cannot be sent: we are closed, or the peer is closing.
PingFails ==
    /\ pinger = "sleep"
    /\ closed \/ Close \in {wire[i] : i \in DOMAIN wire}
    /\ Lost
    /\ pinger' = "done"
    /\ UNCHANGED <<opener, ws, network, reader, pong, closer>>

Ponged ==
    /\ pinger = "wait"
    /\ pong = "done"
    /\ pong' = "none"
    /\ pinger' = IF closed THEN "done" ELSE "sleep"
    /\ UNCHANGED <<opener, ws, network, closed, reader, shutdown, closer, reported>>

\* Faulty variant: the PONG is waited for without a timeout.
PongUntimed ==
    /\ pinger = "wait"
    /\ pong = "wait"
    /\ closed
    /\ pinger' = "done"
    /\ UNCHANGED <<opener, ws, network, closed, reader, pong, shutdown, closer, reported>>

\* PONG_TIMEOUT is over: nobody else would notice a peer that is silently gone.
PongTimeout ==
    /\ pinger = "wait"
    /\ pong = "wait"
    /\ pong' = "none"
    /\ Lost
    /\ pinger' = "done"
    /\ UNCHANGED <<opener, ws, network, reader, closer>>

\* The task _lost started.
ShutdownTask ==
    /\ shutdown = "begin"
    /\ shutdown' = "done"
    /\ Shutdown
    /\ UNCHANGED <<opener, network, closed, closer, reported>>

-----------------------------------------------------------------------------
(* The owner and the network *)

\* async_close; the owner may close a connection it was told is lost, too.
CloseBegin ==
    /\ opener = "returned"
    /\ closer = "none"
    /\ closer' = "closing"
    /\ closed' = TRUE
    /\ Shutdown
    /\ UNCHANGED <<opener, network, shutdown, reported>>

CloseDone ==
    /\ closer = "closing"
    /\ closer' = "done"
    /\ UNCHANGED <<opener, ws, network, closed, tasks, pong, shutdown, reported>>

\* The server speaks; a PONG answers a PING.
ServerSends ==
    /\ ws = "open" /\ link = "up"
    /\ Len(wire) < MaxWire
    /\ Close \notin {wire[i] : i \in DOMAIN wire}
    /\ \E m \in Messages :
         /\ "pong" \in m => owed > 0
         /\ wire' = Append(wire, m)
         /\ owed' = IF "pong" \in m THEN owed - 1 ELSE owed
    /\ UNCHANGED <<opener, ws, link, closed, tasks, pong, shutdown, closer, reported>>

\* The peer is gone, and nobody says so.
LinkDies ==
    /\ link = "up"
    /\ link' = "dead"
    /\ wire' = <<>>
    /\ owed' = 0
    /\ UNCHANGED <<opener, ws, closed, tasks, pong, shutdown, closer, reported>>

-----------------------------------------------------------------------------
(* The specification *)

Next ==
    \/ WsOpen \/ Info \/ Welcome \/ ConnectFails
    \/ StartReader \/ StartKeepalive \/ Return
    \/ Read \/ Ping \/ PingFails \/ Ponged \/ PongTimeout \/ ShutdownTask
    \/ CloseBegin \/ CloseDone
    \/ ServerSends \/ LinkDies

Spec == Init /\ [][Next]_vars

\* Tasks run when their await is over and every wait has a timeout; neither the
\* server nor the owner has to do anything.
Fairness ==
    /\ WF_vars(WsOpen \/ Info \/ Welcome \/ ConnectFails)
    /\ WF_vars(ConnectFails)
    /\ WF_vars(StartReader) /\ WF_vars(StartKeepalive) /\ WF_vars(Return)
    /\ WF_vars(Read)
    /\ WF_vars(Ping \/ PingFails) /\ WF_vars(Ponged) /\ WF_vars(PongTimeout)
    /\ WF_vars(ShutdownTask) /\ WF_vars(CloseDone)

FairSpec == Spec /\ Fairness

-----------------------------------------------------------------------------
(* Properties *)

\* Every variable keeps its type.
TypeOK ==
    /\ opener \in {"ws", "info", "pong", "starting", "returned", "failed"}
    /\ ws \in {"none", "open", "closed"}
    /\ link \in {"up", "dead"}
    /\ wire \in Seq(Messages)
    /\ owed \in Nat
    /\ closed \in BOOLEAN
    /\ reader \in {"none", "receive", "done"}
    /\ pinger \in {"none", "sleep", "wait", "done"}
    /\ pong \in {"none", "wait", "done"}
    /\ shutdown \in {"none", "begin", "done"}
    /\ closer \in {"none", "closing", "done"}
    /\ reported \in {0, 1}

\* A connection never ends without its owner knowing: whoever notices a loss
\* first reports it, unless the owner closed the connection before.
EndIsKnown ==
    closed => reported = 1 \/ closer # "none"

\* An answered keepalive is never taken for a missing one, nor the other way
\* round: while the keepalive sleeps, no PING of it is outstanding.
PingsMatched ==
    pinger = "sleep" => pong = "none"

\* The state the owner sees.
LinkState ==
    IF opener = "failed" THEN "failed"
    ELSE IF reported > 0 THEN "lost"
    ELSE IF closer # "none" THEN "closed"
    ELSE IF reader = "none" THEN "opening" ELSE "open"

Link == INSTANCE NatsLink WITH state <- LinkState

\* The connection keeps its promise to the owner.
ImplementsNatsLink == Link!Spec

\* However a connection ends, its tasks end and its socket is closed.
EndsClean ==
    closed ~> [](reader = "done" /\ pinger = "done" /\ ws = "closed")

\* A peer that is silently gone is noticed.
NoticesDeath ==
    (reader # "none" /\ link = "dead") ~> closed

=============================================================================
