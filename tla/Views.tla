--------------------------------- MODULE Views ---------------------------------
(***************************************************************************)
(* What a breezer's datapoints mean (views.py) and what its adapter makes  *)
(* of them (cloud_v4_devices.py), beside what the breezer itself means by  *)
(* them.  A temperature counts tenths of a degree.  As in Protobuf, what   *)
(* may be None, or raise ValueError, has a set for a result, of at most    *)
(* one element.                                                            *)
(***************************************************************************)
EXTENDS Datapoints

\* A text on the wire is one cell: its place here.
Products == <<"b4s_ble", "br3s_rf", "o2_rf">>
Codes == <<"on_off", "fan_speed_level", "fan_speed_maxavail", "target_temperature", "temp_outdoor",
           "temp_indoor", "climatic_flags", "heater_on_off", "flap_mode">>
Cell(texts, text) == <<CHOOSE i \in DOMAIN texts : texts[i] = text>>

OUTSIDE == 0
INSIDE == 1
MIXED == 2

-----------------------------------------------------------------------------
(* The breezers, as the profile catalogue recorded from the cloud has them *)

Aspects == {"on_off", "fan_speed_level", "fan_speed_maxavail", "target_temperature", "temp_outdoor",
            "temp_indoor", "climatic_flags", "heater_on_off", "flap_mode"}

\* A 4S has a level for its heater, and heats at level 0; the others have a switch.
DpId(product, code) ==
    CASE code = "on_off" -> 70
      [] code = "fan_speed_level" -> 140
      [] code = "fan_speed_maxavail" -> 150
      [] code = "target_temperature" -> 130
      [] code = "temp_outdoor" -> 100
      [] code = "temp_indoor" -> 101
      [] code = "climatic_flags" -> 11
      [] code = "flap_mode" -> 195
      [] code = "heater_on_off" -> IF product = "b4s_ble" THEN 84 ELSE 72

Kind(product, code) ==
    CASE code = "on_off" \/ (code = "heater_on_off" /\ product # "b4s_ble") -> BOOL
      [] code = "climatic_flags" -> FLAGS
      [] OTHER -> INT

\* A spec on the wire; the datapoints of a later firmware are of a type nobody knows.
EncodeSpec(id, code, type, access, low, high, scale) ==
    EncodeVarint(1, id) \o EncodeBytes(2, code) \o EncodeVarint(4, type) \o EncodeVarint(5, access)
      \o IF type # INT THEN <<>>
         ELSE EncodeBytes(8, EncodeInt64(1, low) \o EncodeInt64(2, high) \o EncodeInt64(4, scale))

Catalogue(product) ==
    LET Dp(code, access, low, high, scale) ==
          EncodeSpec(DpId(product, code), Cell(Codes, code), Kind(product, code), access, low, high, scale)
        specs == << EncodeSpec(11, <<Len(Codes) + 1>>, 9, READ_WRITE, 0, 0, 0),
                    Dp("on_off", READ_WRITE, 0, 0, 0),
                    Dp("heater_on_off", READ_WRITE, 0, 10, 0),
                    Dp("target_temperature", READ_WRITE, -1000, 1000, 1),
                    Dp("fan_speed_level", READ_WRITE, 0, 10, 0),
                    Dp("fan_speed_maxavail", READ_ONLY, 0, 10, 0),
                    Dp("flap_mode", READ_WRITE, 0, 2, 0),
                    Dp("temp_outdoor", READ_ONLY, -500, 500, 1),
                    Dp("temp_indoor", READ_ONLY, -500, 500, 1),
                    Dp("climatic_flags", READ_ONLY, 0, 0, 0) >>
    IN EncodeBytes(1, Cell(Products, product))
         \o FlattenSeq([i \in DOMAIN specs |-> EncodeBytes(13, specs[i])])

\* The number a breezer reports for what is the case, and what it takes a number for.
RawOf(product, code, fact) ==
    CASE code = "heater_on_off" /\ product = "b4s_ble" -> IF fact THEN 0 ELSE 1
      [] code \in {"on_off", "heater_on_off"} /\ Kind(product, code) = BOOL -> IF fact THEN 1 ELSE 0
      [] code = "climatic_flags" ->
           (IF "heater" \in fact THEN 1 ELSE 0) + (IF "filter" \in fact THEN 4 ELSE 0) + 2
      [] code = "flap_mode" -> [outside |-> OUTSIDE, inside |-> INSIDE, mixed |-> MIXED][fact]
      [] OTHER -> fact

SpeedMax(product) == IF product = "o2_rf" THEN 4 ELSE 6

\* A breezer does what it can: a 4S takes "mixed" for "inside", and a speed has a limit.
FactOf(product, code, raw) ==
    CASE code = "heater_on_off" /\ product = "b4s_ble" -> raw = 0
      [] code \in {"on_off", "heater_on_off"} /\ Kind(product, code) = BOOL -> raw # 0
      [] code = "flap_mode" -> IF raw = OUTSIDE THEN "outside"
                               ELSE IF raw = MIXED /\ product = "br3s_rf" THEN "mixed" ELSE "inside"
      [] code = "fan_speed_level" -> Min({raw, SpeedMax(product)})
      [] OTHER -> raw

-----------------------------------------------------------------------------
(* _DeviceView, of a device [profile, dps]; dps maps an id to its number *)

\* DeviceProfile.by_code
ByCode(d, code) ==
    LET found == {i \in DOMAIN d.profile.dps : d.profile.dps[i].code = Cell(Codes, code)}
    IN {d.profile.dps[i] : i \in {i \in found : \A j \in found : i <= j}}
Raw(d, code) == {d.dps[spec.id] : spec \in {spec \in ByCode(d, code) : spec.id \in DOMAIN d.dps}}
Product(d) == Products[d.profile.product[1]]
CanSet(d, code) == \E spec \in ByCode(d, code) : Writable(spec)

Number(d, code) ==
    {(10 * raw) \div 10^spec.scale : raw \in Raw(d, code), spec \in ByCode(d, code)}
Switch(d, code) == {raw # 0 : raw \in Raw(d, code)}
Flag(d, code, bit) == {(raw \div 2^bit) % 2 = 1 : raw \in Raw(d, code)}

\* Only a settable datapoint takes a number, in tenths here, and only in its range.
EncodeValue(spec, tenths) ==
    LET raw == (tenths * 10^spec.scale) \div 10
    IN CASE ~Writable(spec) -> {}
         [] Writable(spec) /\ spec.type = BOOL -> {[id |-> spec.id, kind |-> BOOL, value |-> IF tenths # 0 THEN 1 ELSE 0]}
         [] Writable(spec) /\ spec.type = INT ->
              IF spec.ranged /\ raw \notin spec.minimum .. spec.maximum THEN {}
              ELSE {[id |-> spec.id, kind |-> INT, value |-> raw]}
         [] Writable(spec) /\ spec.type = ENUM -> {[id |-> spec.id, kind |-> ENUM, value |-> tenths \div 10]}
         [] OTHER -> {}

-----------------------------------------------------------------------------
(* Breezer *)

BreezerSpeedMax(d) ==
    {IF raw # 0 THEN raw ELSE IF Product(d) = "o2_rf" THEN 4 ELSE 6 :
       raw \in IF Raw(d, "fan_speed_maxavail") = {} THEN {0} ELSE Raw(d, "fan_speed_maxavail")}

HeaterEnabled(d) ==
    {IF spec.type = INT THEN raw = 0 ELSE raw # 0 :
       raw \in Raw(d, "heater_on_off"), spec \in ByCode(d, "heater_on_off")}

Flap(d) == {raw \in Raw(d, "flap_mode") : raw \in {OUTSIDE, INSIDE, MIXED}}
FlapModes(d) ==
    IF ~CanSet(d, "flap_mode") THEN {}
    ELSE IF Product(d) = "br3s_rf" THEN {OUTSIDE, INSIDE, MIXED} ELSE {OUTSIDE, INSIDE}

\* One change, as a datapoint value.
Encode(d, name, value) ==
    CASE name = "speed" ->
           UNION {EncodeValue(spec, 10 * value) :
                    spec \in {spec \in ByCode(d, "fan_speed_level") :
                                \A top \in BreezerSpeedMax(d) : value \in 0 .. top}}
      [] name = "target_temperature" ->
           UNION {EncodeValue(spec, value) : spec \in {spec \in ByCode(d, name) : value \in 0 .. 300}}
      [] name = "heater_enabled" ->
           UNION {EncodeValue(spec, IF spec.type = INT THEN IF value THEN 0 ELSE 10
                                    ELSE IF value THEN 10 ELSE 0) :
                    spec \in ByCode(d, "heater_on_off")}
      [] name = "flap" ->
           UNION {EncodeValue(spec, 10 * value) :
                    spec \in {spec \in ByCode(d, "flap_mode") : value \in FlapModes(d)}}
      [] name = "is_on" ->
           UNION {EncodeValue(spec, IF value THEN 10 ELSE 0) : spec \in ByCode(d, "on_off")}

-----------------------------------------------------------------------------
(* TionV4Breezer *)

FlapToGate(flap) == CASE flap = INSIDE -> 0 [] flap = MIXED -> 1 [] flap = OUTSIDE -> 2
GateToFlap(gate) == CASE gate = 0 -> INSIDE [] gate = 1 -> MIXED [] gate = 2 -> OUTSIDE

\* What the adapter shows.
Shown(d) ==
    [speed |-> IF Switch(d, "on_off") = {FALSE} THEN {0} ELSE Raw(d, "fan_speed_level"),
     is_on |-> Switch(d, "on_off"),
     speed_max |-> BreezerSpeedMax(d),
     gate |-> {FlapToGate(flap) : flap \in Flap(d)},
     heater_installed |-> {Flag(d, "climatic_flags", 0) = {TRUE} /\ CanSet(d, "heater_on_off")},
     heater_enabled |-> HeaterEnabled(d),
     t_set |-> Number(d, "target_temperature"),
     t_in |-> Number(d, "temp_outdoor"),
     t_out |-> Number(d, "temp_indoor"),
     filter_need_replace |-> Flag(d, "climatic_flags", 2)]

=============================================================================
