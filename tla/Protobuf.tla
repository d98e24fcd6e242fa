------------------------------- MODULE Protobuf -------------------------------
(***************************************************************************)
(* The protobuf codec of the v4 cloud (protobuf.py), on sequences of bytes.*)
(* A text is one cell of its field, whatever its length, and a word is a   *)
(* little over two groups of seven bits wide, as the 64 bits of the code   *)
(* are a little over nine.                                                 *)
(*                                                                         *)
(* What may raise ProtobufDecodeError has a set for a result: empty when it*)
(* raises, and of one element when it does not.                            *)
(***************************************************************************)
EXTENDS Integers, SequencesExt, FiniteSetsExt

Word == 2^15              \* stands for 2^64
MaxVarintBytes == 3       \* stands for 10

VARINT == 0
FIXED64 == 1
BYTES == 2
FIXED32 == 5

-----------------------------------------------------------------------------
(* Encoding *)

\* What one stands for in each of the groups of seven bits.
Weight == <<1, 128, 128 * 128>>

\* As few groups as hold the number, all but the last with the upper bit set.
Varint(value) ==
    LET size == Min({n \in 1 .. MaxVarintBytes : n = MaxVarintBytes \/ value < Weight[n + 1]})
    IN [i \in 1 .. size |-> ((value \div Weight[i]) % 128) + IF i < size THEN 128 ELSE 0]

Tag(field, wireType) == Varint(8 * field + wireType)
EncodeVarint(field, value) == Tag(field, VARINT) \o Varint(value)
EncodeBytes(field, value) == Tag(field, BYTES) \o Varint(Len(value)) \o value

\* A negative number takes the longest varint there is (two's complement).
EncodeInt64(field, value) == Tag(field, VARINT) \o Varint(value % Word)

EncodePacked(field, values) == EncodeBytes(field, FlattenSeq([i \in DOMAIN values |-> Varint(values[i])]))

-----------------------------------------------------------------------------
(* Decoding *)

\* The varint at a place: its value and the place behind it.
ReadVarint(buf, pos) ==
    LET ends == {i \in pos .. pos + MaxVarintBytes - 1 : i <= Len(buf) /\ buf[i] < 128}
        last == Min(ends)
        Group(i) == IF pos + i > last + 1 THEN 0 ELSE (buf[pos + i - 1] % 128) * Weight[i]
        value == Group(1) + Group(2) + Group(3)
    IN IF ends = {} THEN {}
       ELSE IF value < Word THEN {[value |-> value, pos |-> last + 1]} ELSE {}

\* The field that begins with a key, and the place behind it.  No message that is
\* modelled has a field of fixed width that is read: its number is left out.
FieldOf(buf, key) ==
    LET wireType == key.value % 8
        Field(numeric, num, bytes, next) ==
            [field |-> key.value \div 8, numeric |-> numeric, num |-> num, bytes |-> bytes, pos |-> next]
        Fits(next) == next <= Len(buf) + 1
        Fixed(size) == {Field(TRUE, 0, <<>>, next) : next \in {n \in {key.pos + size} : Fits(n)}}
        varints == ReadVarint(buf, key.pos)
    IN CASE key.value < 8 -> {}
         [] key.value >= 8 /\ wireType = VARINT -> {Field(TRUE, v.value, <<>>, v.pos) : v \in varints}
         [] key.value >= 8 /\ wireType = BYTES ->
              {Field(FALSE, 0, SubSeq(buf, l.pos, l.pos + l.value - 1), l.pos + l.value) :
                 l \in {l \in varints : Fits(l.pos + l.value)}}
         [] key.value >= 8 /\ wireType = FIXED64 -> Fixed(8)
         [] key.value >= 8 /\ wireType = FIXED32 -> Fixed(4)
         [] OTHER -> {}

ReadField(buf, pos) == UNION {FieldOf(buf, key) : key \in ReadVarint(buf, pos)}

\* ProtoMessage.parse: the fields in their order; a nested message stays bytes.
Parse(buf) ==
    LET from[pos \in 1 .. Len(buf) + 1] ==
          IF pos = Len(buf) + 1 THEN {<<>>}
          ELSE UNION {{<<f>> \o rest : rest \in from[f.pos]} : f \in ReadField(buf, pos)}
    IN from[1]

All(message, field) ==
    FlattenSeq([i \in DOMAIN message |-> IF message[i].field = field THEN <<message[i]>> ELSE <<>>])
Has(message, field) == All(message, field) # <<>>

\* The first value of a field: a number, or else 0; bytes, or else none.
GetInt(message, field) ==
    IF ~Has(message, field) THEN {0}
    ELSE {f.num : f \in {f \in {All(message, field)[1]} : f.numeric}}
GetBytes(message, field) ==
    IF ~Has(message, field) THEN {<<>>}
    ELSE {f.bytes : f \in {f \in {All(message, field)[1]} : ~f.numeric}}

GetBool(message, field) == {value # 0 : value \in GetInt(message, field)}
GetSint64(message, field) ==
    {IF value >= Word \div 2 THEN value - Word ELSE value : value \in GetInt(message, field)}

\* The results of each in turn, if none of them raises.
Each(results) ==
    IF \E i \in DOMAIN results : results[i] = {} THEN {}
    ELSE {[i \in DOMAIN results |-> CHOOSE r \in results[i] : TRUE]}

\* Every value of a repeated message field, decoded.
GetMessages(message, field) ==
    LET values == All(message, field)
    IN Each([i \in DOMAIN values |-> IF values[i].numeric THEN {} ELSE Parse(values[i].bytes)])

\* A nested message, if it is there: none or one.
GetMessage(message, field) ==
    IF ~Has(message, field) THEN {<<>>}
    ELSE {<<nested>> : nested \in UNION {Parse(b) : b \in GetBytes(message, field)}}

Varints(buf) ==
    LET from[pos \in 1 .. Len(buf) + 1] ==
          IF pos = Len(buf) + 1 THEN {<<>>}
          ELSE UNION {{<<v.value>> \o rest : rest \in from[v.pos]} : v \in ReadVarint(buf, pos)}
    IN from[1]

\* A repeated number, packed or not.
GetPacked(message, field) ==
    LET values == All(message, field)
    IN {FlattenSeq(parts) : parts \in
          Each([i \in DOMAIN values |-> IF values[i].numeric THEN {<<values[i].num>>}
                                         ELSE Varints(values[i].bytes)])}

=============================================================================
