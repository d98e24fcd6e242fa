------------------------------ MODULE Datapoints ------------------------------
(***************************************************************************)
(* The messages of devices (datapoints.py), and the profile of a model,    *)
(* which says what its datapoints are (profiles.py).  The value of a       *)
(* datapoint is a number, with 0 and 1 for a switch; texts, raw bytes and  *)
(* floats are no value of a datapoint that is read here.                   *)
(***************************************************************************)
EXTENDS Protobuf

\* DPKind: the field that carries a value.
BOOL == 1
INT == 2
ENUM == 3
TEXT == 4
RAW == 5
FLAGS == 6
FLOAT == 7

DP_ID == 8
VALID == 10

-----------------------------------------------------------------------------
(* Messages *)

EncodeDpValue(dp) ==
    (IF dp.kind = INT THEN EncodeInt64(INT, dp.value) ELSE EncodeVarint(dp.kind, dp.value))
      \o EncodeVarint(DP_ID, dp.id) \o EncodeVarint(VALID, 1)

EncodeUpdateRequest(command, timestamp, values) ==
    EncodeVarint(2, command) \o EncodeVarint(3, timestamp)
      \o FlattenSeq([i \in DOMAIN values |-> EncodeBytes(4, EncodeDpValue(values[i]))])

EncodeStateQuery(ids, command) == EncodePacked(3, ids) \o EncodeVarint(4, command)

ReadValue(message, kind) ==
    CASE kind = BOOL -> {IF value THEN 1 ELSE 0 : value \in GetBool(message, kind)}
      [] kind = INT -> GetSint64(message, kind)
      [] kind \in {TEXT, RAW} -> {0 : value \in GetBytes(message, kind)}
      [] OTHER -> GetInt(message, kind)

\* None or one: a message may carry no value.
DecodeDpValue(message) ==
    LET kinds == {kind \in BOOL .. FLOAT : Has(message, kind)}
    IN IF kinds = {} THEN {<<>>}
       ELSE {<<[id |-> id, kind |-> Min(kinds), value |-> value]>> :
               id \in GetInt(message, DP_ID), value \in ReadValue(message, Min(kinds)),
               valid \in GetInt(message, VALID)}

DecodeValues(message, field) ==
    {FlattenSeq(dps) : dps \in
       UNION {Each([i \in DOMAIN nested |-> DecodeDpValue(nested[i])]) :
                nested \in GetMessages(message, field)}}

\* The command a report answers and its values; a report that was not asked for
\* answers none.
DecodeStateReport(payload) ==
    UNION {{[command |-> command, dps |-> dps] :
              command \in GetInt(message, 5), dps \in DecodeValues(message, 4),
              device \in GetBytes(message, 1)} :
             message \in Parse(payload)}

DecodeUpdateResponse(payload) ==
    UNION {{[command |-> command, success |-> success, dps |-> dps] :
              command \in GetInt(message, 2), success \in GetBool(message, 3),
              error \in GetInt(message, 4), dps \in DecodeValues(message, 6)} :
             message \in Parse(payload)}

-----------------------------------------------------------------------------
(* Profiles *)

READ_WRITE == 1
READ_ONLY == 2
WRITE_ONLY == 3

\* Of the properties of a datapoint those that the views use; a VALUE has them all.
DecodeProp(message) ==
    UNION {IF prop = <<>> THEN {[ranged |-> FALSE, minimum |-> 0, maximum |-> 0, scale |-> 0]}
           ELSE {[ranged |-> TRUE, minimum |-> low, maximum |-> high, scale |-> scale] :
                   low \in GetSint64(prop[1], 1), high \in GetSint64(prop[1], 2),
                   scale \in GetSint64(prop[1], 4)} :
             prop \in GetMessage(message, 8)}

\* None or one: a type or an access mode that the code predates is left out.
DecodeSpec(message) ==
    UNION {IF type \notin BOOL .. FLOAT \/ access \notin READ_WRITE .. WRITE_ONLY THEN {<<>>}
           ELSE {<<[id |-> id, code |-> code, type |-> type, access |-> access, ranged |-> prop.ranged,
                     minimum |-> prop.minimum, maximum |-> prop.maximum, scale |-> prop.scale]>> :
                   id \in GetInt(message, 1), code \in GetBytes(message, 2),
                   prop \in DecodeProp(message)} :
             type \in GetInt(message, 4), access \in GetInt(message, 5)}

DecodeProfile(data) ==
    UNION {{[product |-> product, dps |-> FlattenSeq(specs)] :
              product \in GetBytes(source, 1),
              specs \in UNION {Each([i \in DOMAIN items |-> DecodeSpec(items[i])]) :
                                 items \in GetMessages(source, 13)}} :
             source \in Parse(data)}

Writable(spec) == spec.access # READ_ONLY

=============================================================================
