------------------------------- MODULE NatsWire -------------------------------
(***************************************************************************)
(* What a breezer says and what it is told, through every byte between the *)
(* breezer and its adapter: reports and answers in protobuf, NATS messages *)
(* that come cut into WebSocket messages wherever the network likes        *)
(* (nats.py, _feed), the datapoints the cloud keeps (cloud.py), what the   *)
(* adapter shows, and the commands that go the other way, with their       *)
(* answers, late answers and timeouts.                                     *)
(*                                                                         *)
(* Bytes are numbers below 256; a header line of NATS is one cell above.   *)
(***************************************************************************)
EXTENDS Views, TLC

CONSTANTS
    Cuts,          \* how many bytes a WebSocket message brings at most
    MaxActs        \* bound on the changes at the breezer, the commands and the losses, together

VARIABLES
    breezer,       \* the model and the facts of the breezer
    link,          \* bytes to the client, requests to the breezer
    client,        \* profile, datapoints, buffer of the connection, the command waited for
    told,          \* history: the facts of which a report was delivered whole
    orders         \* history: what each command asked for, and the facts once it was done

vars == <<breezer, link, client, told, orders>>

Empty == [i \in {} |-> 0]

\* What f says, and g where f says nothing: TLC's @@, in a form that provers know.
Over(f, g) == [x \in DOMAIN f \cup DOMAIN g |-> IF x \in DOMAIN f THEN f[x] ELSE g[x]]

FirstFacts == [on_off |-> TRUE, fan_speed_level |-> 3, fan_speed_maxavail |-> 6, target_temperature |-> 215,
               temp_outdoor |-> -105, temp_indoor |-> 215, climatic_flags |-> {"heater"},
               heater_on_off |-> TRUE, flap_mode |-> "outside"]

Init ==
    /\ breezer = [product |-> "none", facts |-> FirstFacts, changes |-> 0]
    /\ link = [up |-> FALSE, bytes |-> <<>>, mail |-> <<>>, cut |-> 0, requests |-> <<>>, losses |-> 0]
    /\ client = [profile |-> [product |-> <<>>, dps |-> <<>>], dps |-> Empty, buffer |-> <<>>,
                 waiting |-> 0, result |-> "none"]
    /\ told = Empty
    /\ orders = [made |-> 0, asked |-> Empty, done |-> Empty]

Acts == breezer.changes + orders.made + link.losses

Device == [profile |-> client.profile, dps |-> client.dps]

-----------------------------------------------------------------------------
(* NATS messages and their parser *)

CR == 13
LF == 10
CRLF == <<CR, LF>>
MSG == 1
HMSG == 2
PING == 3

\* The cell of a header line: op, subject, length of the headers, length with them.
Line(op, subject, head, total) == 10^6 + op + 10 * subject + 100 * head + 1000 * total
REPORT == 1
ANSWER == 2
OTHER_SERVICE == 3

\* How a message may come: with headers, in a protobuf that nobody can read, of a
\* service nobody knows (after a PING).
Styles == {"plain", "headers", "unreadable", "other"}
Message(style, subject, payload) ==
    LET headers == <<78, 13, 10, 13, 10>>
        body == IF style = "unreadable" THEN payload \o Tag(15, 3) ELSE payload
    IN CASE style = "headers" -> <<Line(HMSG, subject, 5, 5 + Len(body))>> \o CRLF \o headers \o body \o CRLF
         [] style = "other" -> <<Line(PING, 0, 0, 0)>> \o CRLF
                                 \o <<Line(MSG, OTHER_SERVICE, 0, Len(body))>> \o CRLF \o body \o CRLF
         [] OTHER -> <<Line(MSG, subject, 0, Len(body))>> \o CRLF \o body \o CRLF

\* A line whose headers are longer than the message: no NATS.
Broken == <<Line(HMSG, REPORT, 5, 2)>> \o CRLF
NoNats == [broken |-> TRUE]

\* TionCloud._merge
Merge(dps, values) ==
    LET Latest(id) == Max({i \in DOMAIN values : values[i].id = id})
    IN Over([id \in {values[i].id : i \in DOMAIN values} |-> values[Latest(id)].value], dps)

\* Faulty variant: whatever answer comes is the one that is waited for.
ResolveAny(c, command, success) ==
    IF c.waiting # 0 THEN [c EXCEPT !.waiting = 0, !.result = IF success THEN "ok" ELSE "refused"] ELSE c

\* TionCloud._resolve, and the end of async_command
Resolve(c, command, success) ==
    IF c.waiting # 0 /\ c.waiting = command
      THEN [c EXCEPT !.waiting = 0, !.result = IF success THEN "ok" ELSE "refused"] ELSE c

\* _on_device_message: what cannot be read is skipped.
OnDeviceMessage(c, subject, body) ==
    LET reports == IF subject = REPORT THEN DecodeStateReport(body) ELSE {}
        answers == IF subject = ANSWER THEN DecodeUpdateResponse(body) ELSE {}
    IN CASE reports # {} -> LET report == CHOOSE r \in reports : TRUE
                            IN [c EXCEPT !.dps = Merge(@, report.dps)]
         [] answers # {} -> LET answer == CHOOSE a \in answers : TRUE
                            IN Resolve([c EXCEPT !.dps = IF answer.success THEN Merge(@, answer.dps) ELSE @],
                                       answer.command, answer.success)
         [] OTHER -> c

\* Faulty variant: the headers are taken for a part of the message.
BodyWithHeaders(buffer, start, head, total) == SubSeq(buffer, start, start + total - 1)

Body(buffer, start, head, total) == SubSeq(buffer, start + head, start + total - 1)

\* The messages that have arrived whole, from each place of the buffer on, and where
\* what has not begins; a message waits for its payload, and a line that is no NATS
\* ends it all.
Ops(buffer) ==
    LET from[at \in 1 .. Len(buffer) + 1] ==
          LET ends == {i \in at .. Len(buffer) - 1 : buffer[i] = CR /\ buffer[i + 1] = LF}
              start == Min(ends) + 2
              cell == IF start = at + 3 THEN buffer[at] ELSE 0
              op == cell % 10
              subject == (cell \div 10) % 10
              head == IF op = HMSG THEN (cell \div 100) % 10 ELSE 0
              total == (cell \div 1000) % 1000
              Stop(broken) == [messages |-> <<>>, rest |-> at, broken |-> broken]
              message == [subject |-> subject, body |-> Body(buffer, start, head, total)]
          IN IF ends = {} THEN Stop(FALSE)
             ELSE IF op \notin {MSG, HMSG} THEN from[start]
             ELSE IF head > total THEN Stop(TRUE)
             ELSE IF Len(buffer) < start + total + 1 THEN Stop(FALSE)
             ELSE [from[start + total + 2] EXCEPT !.messages = <<message>> \o @]
    IN from[1]

\* _feed: each message is taken in its turn, those before a line that is no NATS too.
Feed(c) ==
    LET ops == Ops(c.buffer)
        after[i \in 0 .. Len(ops.messages)] ==
          IF i = 0 THEN [c EXCEPT !.buffer = SubSeq(@, ops.rest, Len(@))]
          ELSE OnDeviceMessage(after[i - 1], ops.messages[i].subject, ops.messages[i].body)
    IN [client |-> after[Len(ops.messages)], broken |-> ops.broken]

-----------------------------------------------------------------------------
(* The breezer and the server *)

\* The datapoints of some facts, and the messages that carry them.
Dps(codes, facts) ==
    LET Dp(code) == [id |-> DpId(breezer.product, code), kind |-> Kind(breezer.product, code),
                     value |-> RawOf(breezer.product, code, facts[code])]
    IN FlattenSeq([i \in DOMAIN Codes |-> IF Codes[i] \in codes THEN <<Dp(Codes[i])>> ELSE <<>>])
Values(field, dps) == FlattenSeq([i \in DOMAIN dps |-> EncodeBytes(field, EncodeDpValue(dps[i]))])
Report(dps, command) ==
    EncodeBytes(1, <<1>>) \o Values(4, dps) \o IF command = 0 THEN <<>> ELSE EncodeVarint(5, command)
Response(command, success, dps) ==
    EncodeVarint(2, command) \o EncodeVarint(3, IF success THEN 1 ELSE 0)
      \o EncodeVarint(4, IF success THEN 0 ELSE 7) \o Values(6, dps)

\* The link once the server has sent some bytes that tell some facts.
Sent(l, bytes, tells) ==
    [l EXCEPT !.bytes = @ \o bytes, !.mail = Append(@, [left |-> Len(bytes), tells |-> tells])]
Facts(codes, facts) == [code \in codes |-> facts[code]]

\* At the breezer somebody turns it, or the air changes; it reports what has changed.
\* How a report comes does not depend on what it tells: one fact of it is enough.
FactsOf(code) ==
    CASE code \in {"on_off", "heater_on_off"} -> BOOLEAN
      [] code = "fan_speed_level" -> {4}
      [] code = "target_temperature" -> {0}
      [] code = "temp_outdoor" -> {3, 300}
      [] code = "temp_indoor" -> {-7}
      [] code = "climatic_flags" -> {{}, {"heater", "filter"}}
      [] code = "flap_mode" -> IF breezer.product = "br3s_rf" THEN {"inside", "mixed"} ELSE {"inside"}
      [] OTHER -> {}

Change ==
    /\ Acts < MaxActs /\ breezer.product # "none"
    /\ \E code \in Aspects :
       \E fact \in FactsOf(code), style \in IF code = "on_off" THEN Styles ELSE {"plain"} :
           LET facts == [breezer.facts EXCEPT ![code] = fact]
               tells == IF style \in {"unreadable", "other"} THEN Empty ELSE Facts({code}, facts)
           IN /\ breezer' = [breezer EXCEPT !.facts = facts, !.changes = @ + 1]
              /\ link' = IF ~link.up THEN link
                         ELSE Sent(link, Message(style, REPORT, Report(Dps({code}, facts), 0)), tells)
    /\ UNCHANGED <<client, told, orders>>

\* The server breaks its own protocol.
Break ==
    /\ link.up /\ Acts < MaxActs
    /\ link' = [Sent(link, Broken, NoNats) EXCEPT !.losses = @ + 1]
    /\ UNCHANGED <<breezer, client, told, orders>>

\* The breezer takes a request, does what it can of it and says how it went; or it
\* refuses all of it.
Serve ==
    /\ link.requests # <<>>
    /\ \E request \in Parse(link.requests[1]) :
       \E command \in GetInt(request, 2), dps \in DecodeValues(request, 4), success \in BOOLEAN :
         LET CodeOf(dp) == CHOOSE code \in Aspects : DpId(breezer.product, code) = dp.id
             codes == {CodeOf(dps[i]) : i \in DOMAIN dps}
             Latest(code) == Max({i \in DOMAIN dps : CodeOf(dps[i]) = code})
             facts == [code \in Aspects |->
                         IF code \in codes THEN FactOf(breezer.product, code, dps[Latest(code)].value)
                         ELSE breezer.facts[code]]
             sent == IF success THEN Response(command, TRUE, Dps(codes, facts))
                     ELSE Response(command, FALSE, dps)
             rest == [link EXCEPT !.requests = Tail(@)]
         IN /\ breezer' = IF success THEN [breezer EXCEPT !.facts = facts] ELSE breezer
            /\ orders' = IF success THEN [orders EXCEPT !.done = Over([c \in {command} |-> facts], @)] ELSE orders
            /\ link' = IF ~link.up THEN rest
                       ELSE Sent(rest, Message("plain", ANSWER, sent),
                                 IF success THEN Facts(codes, facts) ELSE Empty)
    /\ UNCHANGED <<client, told>>

-----------------------------------------------------------------------------
(* The client *)

\* The catalogue of profiles is read at the start.
LoadProfile ==
    /\ breezer.product = "none"
    /\ \E i \in DOMAIN Products, cut \in Cuts :
         LET product == Products[i]
         IN /\ breezer' = [breezer EXCEPT !.product = product,
                                          !.facts.fan_speed_maxavail = SpeedMax(product)]
            /\ link' = [link EXCEPT !.cut = cut]
            /\ \E profile \in DecodeProfile(Catalogue(product)) : client' = [client EXCEPT !.profile = profile]
    /\ UNCHANGED <<told, orders>>

\* query_dp_ids: the features and fan_speed_maxavail.
QueryIds ==
    LET known == SelectSeq(client.profile.dps, LAMBDA spec : \E code \in Aspects : spec.code = Cell(Codes, code))
    IN SortSeq([i \in DOMAIN known |-> known[i].id], <)

\* A connection begins with an empty buffer and a query; a silent breezer is no error.
Connect ==
    /\ ~link.up /\ breezer.product # "none"
    /\ \E asked \in UNION {GetPacked(query, 3) : query \in Parse(EncodeStateQuery(QueryIds, 9))} :
         LET codes == {code \in Aspects : Contains(asked, DpId(breezer.product, code))}
             up == [link EXCEPT !.up = TRUE]
         IN \/ link' = Sent(up, Message("plain", REPORT, Report(Dps(codes, breezer.facts), 9)),
                            Facts(codes, breezer.facts))
            \/ link' = up
    /\ client' = [client EXCEPT !.buffer = <<>>]
    /\ UNCHANGED <<breezer, told, orders>>

\* The connection is lost: the command that is waited for fails, and what is on its way
\* is gone; a request may still reach the breezer.
Lost(c, losses) ==
    /\ \E requests \in {link.requests, <<>>} :
         link' = [link EXCEPT !.up = FALSE, !.bytes = <<>>, !.mail = <<>>,
                              !.requests = requests, !.losses = @ + losses]
    /\ client' = [c EXCEPT !.buffer = <<>>, !.waiting = 0,
                           !.result = IF c.waiting # 0 THEN "lost" ELSE @]

Lose ==
    /\ link.up /\ Acts < MaxActs
    /\ Lost(client, 1)
    /\ UNCHANGED <<breezer, told, orders>>

\* A WebSocket message brings the next bytes.
Receive ==
    /\ link.up /\ link.bytes # <<>>
    /\ LET n == Min({link.cut, Len(link.bytes)})
           through[k \in 0 .. Len(link.mail)] == IF k = 0 THEN 0 ELSE through[k - 1] + link.mail[k].left
           whole == Max({k \in 0 .. Len(link.mail) : through[k] <= n})
           read == Max({k \in 0 .. whole : \A i \in 1 .. k : link.mail[i].tells # NoNats})
           codes == UNION {DOMAIN link.mail[i].tells : i \in 1 .. read}
           Latest(code) == Max({i \in 1 .. read : code \in DOMAIN link.mail[i].tells})
           rest == SubSeq(link.mail, whole + 1, Len(link.mail))
           fed == Feed([client EXCEPT !.buffer = @ \o SubSeq(link.bytes, 1, n)])
       IN /\ told' = Over([code \in codes |-> link.mail[Latest(code)].tells[code]], told)
          /\ IF fed.broken THEN Lost(fed.client, 0)
             ELSE /\ client' = fed.client
                  /\ link' = [link EXCEPT !.bytes = SubSeq(@, n + 1, Len(@)),
                                !.mail = IF rest = <<>> THEN <<>>
                                         ELSE [rest EXCEPT ![1].left = @ - (n - through[whole])]]
    /\ UNCHANGED <<breezer, orders>>

\* What the user may ask for.
Wishes ==
    {[speed |-> speed] : speed \in {0, 2, 6}} \cup {[gate |-> gate] : gate \in 0 .. 2}
      \cup {[heater_enabled |-> TRUE], [heater_enabled |-> FALSE, t_set |-> 55], [t_set |-> 310]}

\* TionV4Breezer.async_send: of a wish what is not so already, as far as is known.
Changes(wish) ==
    LET Wished(name) == name \in DOMAIN wish
        If(condition, name, value) == IF condition THEN << <<name, value>> >> ELSE <<>>
        on == Wished("speed") /\ wish.speed > 0
    IN If(Wished("speed"), "is_on", on)
         \o If(on /\ Raw(Device, "fan_speed_level") # {wish.speed}, "speed", wish.speed)
         \o If(Wished("gate") /\ Flap(Device) # {GateToFlap(wish.gate)}, "flap", GateToFlap(wish.gate))
         \o If(Wished("heater_enabled") /\ CanSet(Device, "heater_on_off")
                 /\ HeaterEnabled(Device) # {wish.heater_enabled}, "heater_enabled", wish.heater_enabled)
         \o If(Wished("t_set") /\ CanSet(Device, "target_temperature")
                 /\ Number(Device, "target_temperature") # {wish.t_set}, "target_temperature", wish.t_set)

\* A command: out of range it is not sent at all.
Command ==
    /\ link.up /\ client.waiting = 0 /\ Acts < MaxActs
    /\ \E ask \in {Changes(wish) : wish \in Wishes} \ {<<>>} :
       \E dps \in Each([i \in DOMAIN ask |-> Encode(Device, ask[i][1], ask[i][2])]) :
         LET command == orders.made + 1
         IN /\ orders' = [orders EXCEPT !.made = command, !.asked = Over([c \in {command} |-> ask], @)]
            /\ link' = [link EXCEPT !.requests = Append(@, EncodeUpdateRequest(command, 1, dps))]
            /\ client' = [client EXCEPT !.waiting = command, !.result = "none"]
    /\ UNCHANGED <<breezer, told>>

\* REPLY_TIMEOUT: the answer may still come.
Timeout ==
    /\ client.waiting # 0
    /\ client' = [client EXCEPT !.waiting = 0, !.result = "timeout"]
    /\ UNCHANGED <<breezer, link, told, orders>>

Next ==
    \/ LoadProfile \/ Connect \/ Lose \/ Receive \/ Command \/ Timeout
    \/ Change \/ Break \/ Serve

Spec == Init /\ [][Next]_vars

-----------------------------------------------------------------------------
(* Properties *)

\* However the bytes are cut, mixed with other ops, unreadable, or lost with their
\* connection: what the adapter shows is what the breezer last told in a message that
\* has arrived whole.
ShownIsTold ==
    LET shown == Shown(Device)
        off == "on_off" \in DOMAIN told /\ ~told["on_off"]
    IN \A code \in DOMAIN told :
         LET fact == told[code]
         IN CASE code = "on_off" -> shown.is_on = {fact}
              [] code = "fan_speed_level" -> shown.speed = {IF off THEN 0 ELSE fact}
              [] code = "fan_speed_maxavail" -> shown.speed_max = {fact}
              [] code = "target_temperature" -> shown.t_set = {fact}
              [] code = "temp_outdoor" -> shown.t_in = {fact}
              [] code = "temp_indoor" -> shown.t_out = {fact}
              [] code = "heater_on_off" -> shown.heater_enabled = {fact}
              [] code = "climatic_flags" -> /\ shown.heater_installed = {"heater" \in fact}
                                            /\ shown.filter_need_replace = {"filter" \in fact}
              [] code = "flap_mode" ->
                   shown.gate = {CASE fact = "inside" -> 0 [] fact = "mixed" -> 1 [] fact = "outside" -> 2}

\* A command that ends well was done by the breezer as it was asked, whatever answers
\* came late to commands before it.
OkIsDone ==
    client.result = "ok" =>
      /\ orders.made \in DOMAIN orders.done
      /\ LET ask == orders.asked[orders.made]
             facts == orders.done[orders.made]
         IN \A i \in DOMAIN ask :
              LET value == ask[i][2]
              IN CASE ask[i][1] = "is_on" -> facts.on_off = value
                   [] ask[i][1] = "speed" -> facts.fan_speed_level = value
                   [] ask[i][1] = "target_temperature" -> facts.target_temperature = value
                   [] ask[i][1] = "heater_enabled" -> facts.heater_on_off = value
                   [] ask[i][1] = "flap" -> RawOf(breezer.product, "flap_mode", facts.flap_mode) = value

=============================================================================
