------------------------------ MODULE BleFraming ------------------------------
(***************************************************************************)
(* The frames of a Tion 4S byte by byte (ble_protocol.py) and the requests *)
(* that carry them (ble_breezer.py, _request and _on_notify): a frame is   *)
(* cut into packets of 19 bytes, every one of which may be lost, and one   *)
(* that lacks a piece, or is made of the pieces of two, must not be taken. *)
(***************************************************************************)
EXTENDS Integers, Sequences, FiniteSets, SequencesExt

CONSTANT MaxActs    \* bound on the breezer's own changes, the commands and the lost packets, together

VARIABLES
    device,   \* the breezer: its facts, the pieces of a request
    air,      \* packets on their way to the client and to the breezer
    client,   \* the pieces of a frame, the answer waited for, the state and the model known
    past      \* history: what the breezer has reported, the commands given, the last one it did

vars == <<device, air, client, past>>

FRAME_MAGIC == 58
FRAME_RANDOM == 173
STATE_SET == 12848
STATE_RSP == 12849
STATE_REQ == 12850
DEV_INFO_RSP == 13105
DEV_INFO_REQ == 13106

PACKET_FIRST == 0
PACKET_MIDDLE == 64
PACKET_SINGLE == 128
PACKET_LAST == 192
PACKET_DATA_SIZE == 19
HeaderSize == 10
StateSize == 35
DevInfoSize == 25

DEVICE_TYPE_4S == 32771
GATE_INDOOR == 1
GATE_OUTDOOR == 0

-----------------------------------------------------------------------------
(* Numbers as bytes *)

\* What a byte, and a bit, counts at each place.
ByteAt == <<1, 256, 65536, 16777216>>
BitAt == <<1, 2, 4, 8, 16, 32, 64, 128, 256, 512, 1024, 2048>>

Little(n, size) == [i \in 1 .. size |-> (n \div ByteAt[i]) % 256]
Unsigned16(bytes, at) == bytes[at + 1] + 256 * bytes[at + 2]
Unsigned32(bytes, at) == Unsigned16(bytes, at) + 65536 * Unsigned16(bytes, at + 2)
Signed(bytes, at) == IF bytes[at + 1] > 127 THEN bytes[at + 1] - 256 ELSE bytes[at + 1]
Bit(n, i) == (n \div BitAt[i + 1]) % 2 = 1
If(flag, n) == IF flag THEN n ELSE 0

\* crc16_ccitt_false: a number is the set of its bits that are 1.
Xor(a, b) == (a \ b) \cup (b \ a)
Shift(crc) ==
    LET up == {bit + 1 : bit \in crc \ {15}}
    IN IF 15 \in crc THEN Xor(up, {0, 5, 12}) ELSE up
\* What becomes of the upper byte in eight shifts.
Shifted ==
    [high \in SUBSET (8 .. 15) |->
       LET shifts[i \in 0 .. 8] == IF i = 0 THEN high ELSE Shift(shifts[i - 1])
       IN shifts[8]]
HighBits == [byte \in 0 .. 255 |-> {i \in 8 .. 15 : Bit(byte, i - 8)}]
ByteOf == [bits \in SUBSET (8 .. 15) |-> CHOOSE byte \in 0 .. 255 : HighBits[byte] = bits]
CrcByte(crc, byte) ==
    Xor(Shifted[Xor(crc \cap (8 .. 15), HighBits[byte])], {bit + 8 : bit \in crc \cap (0 .. 7)})
Crc(bytes) ==
    LET crc[i \in 0 .. Len(bytes)] ==
          IF i = 0 THEN 0 .. 15 ELSE UNION {CrcByte(c, bytes[i]) : c \in {crc[i - 1]}}
    IN crc[Len(bytes)]

-----------------------------------------------------------------------------
(* Frames *)

BuildFrame(type, payload) ==
    LET body == Little(HeaderSize + Len(payload) + 2, 2) \o <<FRAME_MAGIC, FRAME_RANDOM>>
                  \o Little(type, 2) \o Little(1, 4) \o payload
        crc == Crc(body)
    IN body \o <<ByteOf[crc \cap (8 .. 15)], ByteOf[{bit + 8 : bit \in crc \cap (0 .. 7)}]>>

SplitPackets(frame) ==
    LET n == (Len(frame) + PACKET_DATA_SIZE - 1) \div PACKET_DATA_SIZE
        Kind(i) == IF n = 1 THEN PACKET_SINGLE
                   ELSE IF i = 1 THEN PACKET_FIRST
                   ELSE IF i = n THEN PACKET_LAST ELSE PACKET_MIDDLE
        end == [i \in 1 .. n |-> IF i = n THEN Len(frame) ELSE i * PACKET_DATA_SIZE]
    IN [i \in 1 .. n |-> <<Kind(i)>> \o SubSeq(frame, (i - 1) * PACKET_DATA_SIZE + 1, end[i])]

\* PacketAssembler.feed: what is kept, and the frame once it has its last packet.
Feed(buf, packet) ==
    LET data == Tail(packet)
    IN CASE packet[1] = PACKET_SINGLE -> [buf |-> <<>>, frames |-> {data}]
         [] packet[1] = PACKET_FIRST -> [buf |-> data, frames |-> {}]
         [] packet[1] = PACKET_MIDDLE -> [buf |-> buf \o data, frames |-> {}]
         [] packet[1] = PACKET_LAST -> [buf |-> <<>>, frames |-> {buf \o data}]

\* Faulty variant: no check of the CRC.
ParseSized(frame) ==
    IF Len(frame) < HeaderSize + 2 \/ frame[3] # FRAME_MAGIC \/ Unsigned16(frame, 0) # Len(frame)
      THEN {}
      ELSE {[type |-> Unsigned16(frame, 4), payload |-> SubSeq(frame, HeaderSize + 1, Len(frame) - 2)]}

\* parse_frame: {} for a broken one.
ParseFrame(frame) ==
    IF Len(frame) < HeaderSize + 2 \/ frame[3] # FRAME_MAGIC \/ Unsigned16(frame, 0) # Len(frame)
         \/ Crc(frame) # {}
      THEN {}
      ELSE {[type |-> Unsigned16(frame, 4), payload |-> SubSeq(frame, HeaderSize + 1, Len(frame) - 2)]}

\* What one packet after some others comes to: [buf, frames].
Assembled(buf, packet) ==
    LET fed == Feed(buf, packet)
    IN [buf |-> fed.buf, frames |-> UNION {ParseFrame(frame) : frame \in fed.frames}]

-----------------------------------------------------------------------------
(* Payloads *)

HeaterPower == <<0, 1000, 1400>>

\* parse_state: {} if the size is another.
ParseState(payload) ==
    IF Len(payload) # StateSize THEN {}
    ELSE LET flags == Unsigned16(payload, 4)
             present == (flags \div 128) % 8
         IN {[request_id |-> Unsigned32(payload, 0),
              power |-> Bit(flags, 0), sound |-> Bit(flags, 1), led |-> Bit(flags, 2),
              heater_active |-> Bit(flags, 3), heater_enabled |-> ~Bit(flags, 4),
              filter_warning |-> Bit(flags, 6),
              heater_power_w |-> IF present \in 0 .. 2 THEN HeaterPower[present + 1] ELSE 0,
              ma_connected |-> Bit(flags, 10), ma_auto |-> Bit(flags, 11),
              gate |-> payload[7], target_temperature |-> Signed(payload, 7), fan_speed |-> payload[9],
              outdoor_temperature |-> Signed(payload, 9), current_temperature |-> Signed(payload, 10),
              work_time |-> Unsigned32(payload, 13), fan_time |-> Unsigned32(payload, 17),
              filter_time |-> Unsigned32(payload, 21), airflow_counter |-> Unsigned32(payload, 25),
              errors |-> Unsigned32(payload, 29), max_fan_speed |-> payload[34],
              heater_var |-> payload[35]]}

\* The state as the breezer packs it, after the two temperatures those of its boards.
PackState(s) ==
    LET present == CHOOSE i \in 0 .. 2 : HeaterPower[i + 1] = s.heater_power_w
        flags == If(s.power, 1) + If(s.sound, 2) + If(s.led, 4) + If(s.heater_active, 8)
                   + If(~s.heater_enabled, 16) + If(s.filter_warning, 64) + 128 * present
                   + If(s.ma_connected, 1024) + If(s.ma_auto, 2048)
    IN Little(s.request_id, 4) \o Little(flags, 2)
         \o <<s.gate, s.target_temperature % 256, s.fan_speed, s.outdoor_temperature % 256,
              s.current_temperature % 256, 30, 31>>
         \o Little(s.work_time, 4) \o Little(s.fan_time, 4) \o Little(s.filter_time, 4)
         \o Little(s.airflow_counter, 4) \o Little(s.errors, 4) \o <<s.max_fan_speed, s.heater_var>>

Clamp(low, value, high) == IF value < low THEN low ELSE IF value > high THEN high ELSE value

\* build_state_set, for a command of the user
BuildStateSet(request_id, want) ==
    LET flags == 16 + If(want.power, 1) + If(want.sound, 2) + If(want.led, 4) + If(~want.heater_enabled, 8)
    IN Little(request_id, 4)
         \o <<flags, 0, IF want.gate = GATE_INDOOR THEN GATE_INDOOR ELSE GATE_OUTDOOR,
              Clamp(1, want.target_temperature, 25), Clamp(1, want.fan_speed, 6), 0, 0>>

\* The breezer reads a command so.
UnpackSet(payload) ==
    [power |-> Bit(payload[5], 0), sound |-> Bit(payload[5], 1), led |-> Bit(payload[5], 2),
     heater_enabled |-> ~Bit(payload[5], 3), gate |-> payload[7],
     target_temperature |-> Signed(payload, 7), fan_speed |-> payload[9]]

\* parse_dev_info: {} if the size is another; the type of the device is what is used.
ParseDevInfo(payload) ==
    IF Len(payload) # DevInfoSize THEN {}
    ELSE {[work_mode |-> payload[1], device_type |-> Unsigned32(payload, 1),
           firmware_version |-> Unsigned16(payload, 5), hardware_version |-> Unsigned16(payload, 7)]}
PackDevInfo(info) ==
    <<info.work_mode>> \o Little(info.device_type, 4) \o Little(info.firmware_version, 2)
      \o Little(info.hardware_version, 2) \o [i \in 1 .. 16 |-> 0]

-----------------------------------------------------------------------------
(* The breezer *)

FirstState ==
    [request_id |-> 0, power |-> TRUE, sound |-> TRUE, led |-> FALSE, heater_active |-> FALSE,
     heater_enabled |-> TRUE, filter_warning |-> FALSE, heater_power_w |-> 1000, ma_connected |-> FALSE,
     ma_auto |-> FALSE, gate |-> GATE_OUTDOOR, target_temperature |-> 18, fan_speed |-> 3,
     outdoor_temperature |-> -5, current_temperature |-> 17, work_time |-> 70000, fan_time |-> 2000,
     filter_time |-> 10368000, airflow_counter |-> 3600, errors |-> 0, max_fan_speed |-> 6,
     heater_var |-> 42]

Info == [work_mode |-> 1, device_type |-> DEVICE_TYPE_4S, firmware_version |-> 722, hardware_version |-> 1]

\* What may change by itself or by the remote control.
Changed(s) ==
    { [s EXCEPT !.power = ~@, !.gate = 1 - @, !.heater_power_w = 1400, !.heater_active = TRUE,
                !.outdoor_temperature = 3, !.airflow_counter = 3601, !.heater_var = 0],
      [s EXCEPT !.ma_connected = TRUE, !.ma_auto = TRUE, !.filter_warning = TRUE, !.target_temperature = 20,
                !.current_temperature = -1, !.filter_time = 0, !.errors = 65537] }

Init ==
    /\ device = [state |-> FirstState, buf |-> <<>>]
    /\ air = [up |-> <<>>, down |-> <<>>]
    /\ client = [buf |-> <<>>, expect |-> 0, state |-> {}, info |-> {}, request_id |-> 1]
    /\ past = [acts |-> 0, reported |-> {FirstState}, given |-> {}, did |-> {}]

Acts == past.acts
StatePackets(s) == SplitPackets(BuildFrame(STATE_RSP, PackState(s)))

\* A change may be reported with no request for it.
Change ==
    /\ Acts < MaxActs
    /\ \E s \in Changed(device.state) :
         /\ device' = [device EXCEPT !.state = s]
         /\ air' = [air EXCEPT !.down = @ \o StatePackets(s)]
         /\ past' = [past EXCEPT !.acts = @ + 1, !.reported = @ \cup {s}]
    /\ UNCHANGED client

\* A packet reaches it; a request that is whole is done and answered.
Arrive ==
    /\ air.up # <<>>
    /\ LET got == Assembled(device.buf, Head(air.up))
           frame == CHOOSE f \in got.frames : TRUE
           set == UnpackSet(frame.payload)
           s == IF got.frames # {} /\ frame.type = STATE_SET
                  THEN [set @@ device.state EXCEPT !.request_id = Unsigned32(frame.payload, 0)]
                  ELSE device.state
           reply == CASE got.frames = {} -> <<>>
                      [] got.frames # {} /\ frame.type = DEV_INFO_REQ ->
                           SplitPackets(BuildFrame(DEV_INFO_RSP, PackDevInfo(Info)))
                      [] OTHER -> StatePackets(s)
       IN /\ device' = [state |-> s, buf |-> got.buf]
          /\ air' = [up |-> Tail(air.up), down |-> air.down \o reply]
          /\ past' = [past EXCEPT !.reported = @ \cup {s},
                                  !.did = IF s # device.state THEN {set} ELSE @]
    /\ UNCHANGED client

\* Neither a write without response nor a notification is acknowledged: a run of them
\* may be lost.
LosePackets ==
    /\ Acts < MaxActs
    /\ \/ air.up # <<>> /\ air' = [air EXCEPT !.up = Tail(@)]
       \/ \E n \in 1 .. Len(air.down) : air' = [air EXCEPT !.down = SubSeq(@, n + 1, Len(@))]
    /\ past' = [past EXCEPT !.acts = @ + 1]
    /\ UNCHANGED <<device, client>>

-----------------------------------------------------------------------------
(* The client *)

\* _request; the commands' ids stay far from their wrap.
Request(type, payload, expect) ==
    /\ client.expect = 0
    /\ client' = [client EXCEPT !.expect = expect, !.request_id = @ + If(type = STATE_SET, 2)]
    /\ air' = [air EXCEPT !.up = @ \o SplitPackets(BuildFrame(type, payload))]

\* async_load: the model is asked for once.
Load ==
    /\ IF client.info = {} THEN Request(DEV_INFO_REQ, <<>>, DEV_INFO_RSP)
                           ELSE Request(STATE_REQ, <<>>, STATE_RSP)
    /\ UNCHANGED <<device, past>>

\* async_send: what is not asked for stays as it is known.
Wants(s) ==
    LET known == [power |-> s.power, sound |-> s.sound, led |-> s.led, heater_enabled |-> s.heater_enabled,
                  gate |-> s.gate, target_temperature |-> s.target_temperature, fan_speed |-> s.fan_speed]
    IN { [known EXCEPT !.power = TRUE, !.fan_speed = 9, !.target_temperature = 30, !.heater_enabled = FALSE],
         [known EXCEPT !.power = FALSE, !.target_temperature = -3, !.gate = 2] }

Send ==
    /\ Acts < MaxActs
    /\ \E s \in client.state :
       \E want \in Wants(s) :
         /\ Request(STATE_SET, BuildStateSet(client.request_id + 2, want), STATE_RSP)
         /\ past' = [past EXCEPT !.acts = @ + 1, !.given = @ \cup {want}]
    /\ UNCHANGED device

\* _on_notify: a broken frame and one that nobody waits for are dropped.
OnNotify ==
    /\ air.down # <<>>
    /\ LET got == Assembled(client.buf, Head(air.down))
           Awaited(type) == {frame.payload : frame \in {f \in got.frames : f.type = type /\ type = client.expect}}
           states == UNION {ParseState(payload) : payload \in Awaited(STATE_RSP)}
           infos == UNION {ParseDevInfo(payload) : payload \in Awaited(DEV_INFO_RSP)}
       IN client' = [client EXCEPT !.buf = got.buf,
                                   !.expect = IF Awaited(@) = {} THEN @ ELSE 0,
                                   !.state = IF states = {} THEN @ ELSE states,
                                   !.info = IF infos = {} THEN @ ELSE infos]
    /\ air' = [air EXCEPT !.down = Tail(@)]
    /\ UNCHANGED <<device, past>>

\* RESPONSE_TIMEOUT, or the connection is lost: the next one starts with a new
\* assembler; the breezer may or may not forget its pieces.
Reconnect ==
    /\ client.expect # 0
    /\ client' = [client EXCEPT !.expect = 0, !.buf = <<>>]
    /\ air' = [up |-> <<>>, down |-> <<>>]
    /\ \E buf \in {device.buf, <<>>} : device' = [device EXCEPT !.buf = buf]
    /\ UNCHANGED past

Next == Change \/ Arrive \/ LosePackets \/ Load \/ Send \/ OnNotify \/ Reconnect

Spec == Init /\ [][Next]_vars

-----------------------------------------------------------------------------
(* Properties *)

\* Whatever packets are lost, and whatever is left of earlier frames: each state and
\* model that is taken is one that the breezer has reported, every field of it, and the
\* breezer does no command but one that was given, with its numbers brought into range.
Genuine ==
    /\ client.state \subseteq past.reported
    /\ client.info \subseteq {Info}
    /\ \A set \in past.did :
         \E want \in past.given :
           /\ \A key \in {"power", "sound", "led", "heater_enabled"} : set[key] = want[key]
           /\ set.gate = (IF want.gate = GATE_INDOOR THEN GATE_INDOOR ELSE GATE_OUTDOOR)
           /\ set.target_temperature \in 1 .. 25 /\ set.fan_speed \in 1 .. 6
           /\ want.target_temperature \in 1 .. 25 => set.target_temperature = want.target_temperature
           /\ want.fan_speed \in 1 .. 6 => set.fan_speed = want.fan_speed

=============================================================================
