-------------------------------- MODULE MCWire --------------------------------
(***************************************************************************)
(* The three wires - a breezer's datapoints over NATS, the calls to the    *)
(* cloud, the frames of a BLE breezer - share nothing: each behaviour is   *)
(* one of one of them.                                                     *)
(***************************************************************************)
EXTENDS Integers, Sequences

CONSTANTS Cuts, CloudActs, Bodies, Skews, Drifts, REQUEST_TIMEOUT, MaxTime, BleActs

ASSUME TimeAssumption == {REQUEST_TIMEOUT, MaxTime} \subseteq Nat /\ Skews \cup Drifts \subseteq Int
ASSUME BodiesAssumption == Bodies \subseteq Seq([flags : {0, 1}, chunk : Seq(Nat)])
ASSUME BoundsAssumption == Cuts \subseteq Nat \ {0} /\ {CloudActs, BleActs} \subseteq Nat

\* No message, and one in a frame or two, empty or compressed.
SomeBodies ==
    LET Data(chunk) == [flags |-> 0, chunk |-> chunk]
    IN {<<>>, <<Data(<<1, 2, 3>>)>>, <<Data(<<1>>), Data(<<2, 3>>)>>, <<Data(<<>>)>>,
        <<Data(<<1>>), [flags |-> 1, chunk |-> <<2, 3>>]>>}

\* A local clock behind the server's and one ahead of it; a proxy's behind and ahead.
SomeSkews == {-7, 7}
SomeDrifts == {-5, 4}

VARIABLES side,
          breezer, link, client, told, orders,
          now, local, call, offset, learned, result,
          device, air, handset, past

nats == <<breezer, link, client, told, orders>>
grpc == <<now, local, call, offset, learned, result>>
ble == <<device, air, handset, past>>

Nats == INSTANCE NatsWire WITH MaxActs <- CloudActs
Grpc == INSTANCE GrpcCall
Ble == INSTANCE BleFraming WITH client <- handset, MaxActs <- BleActs

WireInit == side = "any" /\ Nats!Init /\ Grpc!Init /\ Ble!Init

On(name) == side \in {"any", name} /\ side' = name

WireNext ==
    \/ On("nats") /\ Nats!Next /\ UNCHANGED <<grpc, ble>>
    \/ On("grpc") /\ Grpc!Next /\ UNCHANGED <<nats, ble>>
    \/ On("ble") /\ Ble!Next /\ UNCHANGED <<nats, grpc>>

WireSpec == WireInit /\ [][WireNext]_<<side, nats, grpc, ble>>

-----------------------------------------------------------------------------

\* What the adapter shows is what the breezer last told in a message that has arrived
\* whole (nats.py, _feed; cloud.py, _merge; views.py).
ShownIsTold == Nats!ShownIsTold

\* A command that ends well was done by the breezer as it was asked (cloud.py,
\* async_command and _resolve; views.py, encode).
OkIsDone == Nats!OkIsDone

\* Data is returned only if it is the whole message of a call that went well, and the
\* login is doubted only if the server does (transport.py, unframe and async_call).
WholeAnswer == Grpc!WholeAnswer

\* The clock learned from an answer of the server is never ahead of its and little
\* behind it (transport.py, _update_server_time).
ClockLags == Grpc!ClockLags

\* Each state that is taken is one the breezer has reported, and it does no command but
\* one that was given (ble_protocol.py; ble_breezer.py, _request and _on_notify).
Genuine == Ble!Genuine

=============================================================================
