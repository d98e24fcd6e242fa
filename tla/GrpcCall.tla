------------------------------- MODULE GrpcCall -------------------------------
(***************************************************************************)
(* Unary gRPC-Web calls of the transport (transport.py): the answer's      *)
(* bytes, which a proxy may replace and a connection may cut short, the    *)
(* error they are turned into, and the server's clock that is learned from *)
(* the headers of whatever comes, the server's own or a proxy's.           *)
(*                                                                         *)
(* A byte of a message is a small number; a line of trailers is one cell.  *)
(***************************************************************************)
EXTENDS Integers, Sequences, SequencesExt, FiniteSets

CONSTANTS
    Bodies,          \* the messages, each as what its frames have: flags and bytes
    Skews,           \* what the local clock may be behind the server's; ahead if negative
    Drifts,          \* what a proxy's clock may be behind the server's
    REQUEST_TIMEOUT, \* how long a call may take
    MaxTime          \* bound on the time

VARIABLES
    now,       \* the server's clock
    local,     \* time.time()
    call,      \* the call that is under way: when it was sent, the answer, when it was stamped
    offset,    \* server_time_offset
    learned,   \* whose clock that was learned from: none, server, proxy
    result     \* how the last call ended

vars == <<now, local, call, offset, learned, result>>

GRPC_OK == 0
GRPC_DEADLINE_EXCEEDED == 4
GRPC_UNAVAILABLE == 14
GRPC_UNAUTHENTICATED == 16
BAD_STATUS == 99    \* a grpc-status that is no number
NO_STATUS == 98     \* no grpc-status at all
FLAG_COMPRESSED == 1
FLAG_TRAILERS == 128

NoAnswer == [http |-> 0, stamp |-> "none", head |-> NO_STATUS, frames |-> <<>>, by |-> "none"]
Idle == [phase |-> "idle", sent |-> 0, stamped |-> 0, answer |-> NoAnswer, whole |-> FALSE]

Init ==
    /\ now = 0
    /\ local \in {-skew : skew \in Skews}
    /\ call = Idle
    /\ offset = 0
    /\ learned = "none"
    /\ result = [kind |-> "none", data |-> <<>>]

ServerTime == local + offset

-----------------------------------------------------------------------------
(* The server *)

Frame(flags, chunk) == <<flags, 0, 0, 0, Len(chunk)>> \o chunk
Trailers(status) == Frame(FLAG_TRAILERS, <<7>> \o IF status = NO_STATUS THEN <<>> ELSE <<100 + status>>)

Statuses == {GRPC_OK, GRPC_DEADLINE_EXCEEDED, GRPC_UNAVAILABLE, GRPC_UNAUTHENTICATED, 7, BAD_STATUS, NO_STATUS}

\* A message in its frames, then the trailers, which may tell that it failed after all;
\* an error may come in the headers alone; a proxy may answer for the server.
Framed(body) == [i \in DOMAIN body |-> Frame(body[i].flags, body[i].chunk)]
Answers ==
    LET Answer(http, stamp, head, frames, by) ==
          [http |-> http, stamp |-> stamp, head |-> head, frames |-> frames, by |-> by]
    IN {Answer(200, stamp, NO_STATUS, Framed(body) \o <<Trailers(status)>>, "server") :
          body \in Bodies, stamp \in {"ms", "date"}, status \in Statuses}
       \cup {Answer(200, "none", status, <<>>, "server") : status \in Statuses \ {GRPC_OK}}
       \cup {Answer(http, "date", NO_STATUS, <<>>, by) :
               http \in {401, 404, 503}, by \in {"server", "proxy"}}

\* Each stamps its answer by its own clock; a Date header counts whole seconds, two
\* ticks here.
Stamps(answer) ==
    LET clocks == IF answer.by = "proxy" THEN {now - drift : drift \in Drifts} ELSE {now}
    IN {IF answer.stamp = "date" THEN clock - (clock % 2) ELSE clock : clock \in clocks}

-----------------------------------------------------------------------------
(* The transport *)

\* Faulty variant: a call without a status went well.
StatusOrOk(head, trailers) == IF trailers # NO_STATUS THEN trailers
                              ELSE IF head # NO_STATUS THEN head ELSE GRPC_OK

\* The trailers' status is preferred to the headers'.
Status(head, trailers) == IF trailers # NO_STATUS THEN trailers ELSE head

\* unframe, of what is left from each place on: {} when a frame is truncated or compressed;
\* the last status that the trailers tell counts.
Unframe(body) ==
    LET from[at \in 1 .. Len(body) + 1] ==
          LET end == at + 4 + body[at + 4]
              chunk == SubSeq(body, at + 5, end)
              statuses == {c - 100 : c \in {chunk[i] : i \in DOMAIN chunk} \ 0 .. 99}
          IN IF at = Len(body) + 1 THEN {[data |-> <<>>, trailers |-> NO_STATUS]}
             ELSE IF at + 4 > Len(body) \/ end > Len(body) \/ body[at] = FLAG_COMPRESSED THEN {}
             ELSE IF body[at] = FLAG_TRAILERS
               THEN {[rest EXCEPT !.trailers = IF @ = NO_STATUS /\ statuses # {}
                                                 THEN CHOOSE s \in statuses : TRUE ELSE @] :
                       rest \in from[end + 1]}
             ELSE {[rest EXCEPT !.data = chunk \o @] : rest \in from[end + 1]}
    IN from[1]

\* async_call, from the response on.
Outcome(answer, body) ==
    LET Ends(kind, data) == [kind |-> kind, data |-> data]
        unframed == Unframe(body)
        told == CHOOSE u \in unframed : TRUE
        status == Status(answer.head, told.trailers)
    IN CASE answer.http = 401 -> Ends("auth", <<>>)
         [] answer.http >= 500 -> Ends("connection", <<>>)
         [] answer.http < 500 /\ answer.http \notin {200, 401} -> Ends("api", <<>>)
         [] answer.http = 200 /\ unframed = {} -> Ends("api", <<>>)
         [] OTHER -> CASE status = GRPC_OK -> Ends("ok", told.data)
                       [] status = GRPC_UNAUTHENTICATED -> Ends("auth", <<>>)
                       [] status \in {GRPC_DEADLINE_EXCEEDED, GRPC_UNAVAILABLE} -> Ends("connection", <<>>)
                       [] OTHER -> Ends("api", <<>>)

-----------------------------------------------------------------------------
(* Actions *)

Call ==
    /\ call.phase \in {"idle", "done"}
    /\ call' = [Idle EXCEPT !.phase = "sent", !.sent = now]
    /\ UNCHANGED <<now, local, offset, learned, result>>

Answer ==
    /\ call.phase = "sent"
    /\ \E answer \in Answers : \E stamped \in Stamps(answer) :
         call' = [call EXCEPT !.phase = "answered", !.answer = answer, !.stamped = stamped]
    /\ UNCHANGED <<now, local, offset, learned, result>>

\* Faulty variant: the clock was read when the call was made.
LearnsAtSend(c) == c.stamped - (local - (now - c.sent))

\* _update_server_time, before anybody looks who answered.
Learns(c) == c.stamped - local

Headers ==
    /\ call.phase = "answered"
    /\ call' = [call EXCEPT !.phase = "reading"]
    /\ IF call.answer.stamp = "none" THEN UNCHANGED <<offset, learned>>
                                     ELSE offset' = Learns(call) /\ learned' = call.answer.by
    /\ UNCHANGED <<now, local, result>>

\* The body ends where the server ended it, or where its connection did.
Read ==
    /\ call.phase = "reading"
    /\ LET body == FlattenSeq(call.answer.frames)
       IN \E end \in 0 .. Len(body) :
            /\ call' = [call EXCEPT !.phase = "done", !.whole = end = Len(body)]
            /\ result' = Outcome(call.answer, SubSeq(body, 1, end))
    /\ UNCHANGED <<now, local, offset, learned>>

\* ClientError, or REQUEST_TIMEOUT.
Fail ==
    /\ call.phase \in {"sent", "answered", "reading"}
    /\ call' = [call EXCEPT !.phase = "done"]
    /\ result' = [kind |-> "connection", data |-> <<>>]
    /\ UNCHANGED <<now, local, offset, learned>>

Tick ==
    /\ now < MaxTime
    /\ call.phase \in {"idle", "done"} \/ now < call.sent + REQUEST_TIMEOUT
    /\ now' = now + 1
    /\ local' = local + 1
    /\ UNCHANGED <<call, offset, learned, result>>

Next == Call \/ Answer \/ Headers \/ Read \/ Fail \/ Tick

Spec == Init /\ [][Next]_vars

-----------------------------------------------------------------------------
(* Properties *)

\* Wherever its body is cut: data is returned only if it is the whole message of a call
\* that the server says went well, and then always; the login is doubted only if the
\* server does.
WholeAnswer ==
    call.phase = "done" =>
      LET frames == call.answer.frames
          message == FlattenSeq([i \in DOMAIN frames |->
                       IF frames[i][1] = FLAG_TRAILERS THEN <<>> ELSE SubSeq(frames[i], 6, Len(frames[i]))])
          well == /\ frames # <<>> /\ Last(frames) = Trailers(GRPC_OK)
                  /\ \A i \in DOMAIN frames : frames[i][1] # FLAG_COMPRESSED
      IN /\ result.kind = "ok" => well /\ call.whole /\ result.data = message
         /\ well /\ call.whole => result.kind = "ok"
         /\ result.kind = "auth" =>
              \/ call.answer.http = 401 \/ call.answer.head = GRPC_UNAUTHENTICATED
              \/ frames # <<>> /\ Last(frames) = Trailers(GRPC_UNAUTHENTICATED)

\* Once an answer of the server has told it, the clock that signs requests and dates
\* room writes is never ahead of the server's, and behind it by no more than a call
\* takes and the second that a Date header rounds off, whether the local clock is
\* behind or ahead; and until an answer of a proxy tells another, however long that is.
ClockLags ==
    LET behind == now - ServerTime
    IN learned = "server" => behind >= 0 /\ behind <= REQUEST_TIMEOUT + 1

=============================================================================
