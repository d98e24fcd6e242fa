# Tion integration: a TLA+ verification project

The repository is a Home Assistant integration for Tion breezers.  Everything
runs on one asyncio event loop, so two pieces of code interleave only at
`await`; what makes the code hard is that nearly everything awaits: RPCs, NATS
sends, locks, BLE writes, timers and cancellations.  The models here keep that
structure: **an action is what the event loop runs between two awaits of one
task**, and a task's program counter is the await it is suspended at.

Paths below are relative to `src/custom_components/tion/`.

## 1. Inventory

| component | code | state | operations | talks to |
|---|---|---|---|---|
| Live channel of `TionCloud` | `cloud_v4/cloud.py` | `_connection`, `_attempt`, `_subscriptions`, `_structure_lock`, `_reconnect_task`, `_structure_task`, `_started`, `_stopped`, `_renew_wakeup`, `_account.connected` | `async_start`, `async_refresh`, `async_stop`, `_connect`, `_abandon`, `_reconnect`, `_on_disconnect`, `_sync_subscriptions`, `_query_all` | `TionAuth` (tokens, listener), `NatsConnection`, listeners (coordinator) |
| Rooms' auto mode | `cloud_v4/cloud.py`, `cloud_v4/structure.py` | `_locations`, `_room_written_at`, `_room_auto_seq`, `_room_locks` | `async_set_auto_control`, `_on_location_event`, `_load_structure`, `_keep_newer_autos`, `_update_room` | RPCs, location events |
| Commands and queries | `cloud_v4/cloud.py` | `_pending_commands`, `_pending_queries`, `_dps` | `async_command`, `_query`, `_on_device_message`, `_fail_pending` | NATS, adapters |
| `TionAuth` | `cloud_v4/auth.py` | tokens, lock, remembered refusal, stale streak, code request | `async_ensure_valid`, `async_renew_access`, code login | transport, listeners (cloud, token saving) |
| `NatsConnection` | `cloud_v4/nats.py` | buffer, pongs, callbacks, closed/running flags, reader and ping tasks | connect/handshake, subscribe, publish, ping, close | WebSocket, `on_disconnect` |
| `TionTransport` | `cloud_v4/transport.py` | server time offset | `async_call`, `unframe` | HTTP |
| V4 coordinator, adapters | `cloud_v4_devices.py` | `channel_up`, grace timer, `_reauth_opened`, pending values | cloud update, grace, reauth, refresh, send | `TionCloud`, HA flows and timers |
| BLE breezer | `ble_breezer.py`, `ble_protocol.py` | client, lock, response queue, idle timer, desired values | load, send, pair, shutdown, notify | bleak client, HA timers |
| Climate, sensors | `climate.py`, `sensor.py` | preset, saved speed range | set mode, fan, preset, temperature | zone/breezer adapters |
| Config flow, captcha | `config_flow.py`, `captcha_view.py` | step, auth in progress, captcha in flight | user, import, options, code, reauth, BLE | `TionAuth`, the old cloud's login, HA |
| Entry setup, migration | `__init__.py`, `cloud_v4_migration.py` | the entry, the device and entity registries, saved tokens | setup of either cloud, unload, migrate ids, add entities | all of the above |
| Codecs, views | `cloud_v4/protobuf.py`, `datapoints.py`, `profiles.py`, `views.py`, `structure.py`, `model.py`, `device_key.py` | none | encode, decode, show | NATS, adapters |
| BLE frames | `ble_protocol.py` | the pieces of a frame | build, split, assemble, parse | BLE breezer |

What makes each correct, and what is hard about it, is in `PROJECT.json` under
"hazards", at the line where it bites.

In a sentence each, what has to be true:

- **Live channel**: the account is shown connected only over a live socket, a
  lost channel always has somebody bringing it back, no socket is leaked, and a
  stop is final at whatever await it finds the tasks.
- **Rooms**: an acknowledged write of ours is not rolled back by a structure read
  that was under way, nor by an event that tells it is older, and two of our calls
  then never undo each other; whatever came, the minute's read repairs it.
- **`TionAuth`**: an expired token is renewed once, however many callers found it
  so; while a refusal is remembered the server is asked once in an interval, by
  whoever asks; an error is forgotten when it is over.
- **`NatsConnection`**: it ends once, its owner knows, nothing is left running.
- **Adapters and climate entity**: a refused value is not shown, an accepted one
  is not lost, the entity comes to show what the device has.
- **BLE breezer**: no change is forgotten while another command is awaited, no
  answer is taken for another's, the single link is never left unwatched.
- **Entry, coordinator, login**: the login that is asked for is there, one
  e-mail is asked for per login, entities outlive a lost channel by the grace
  time only.
- **Migration**: a breezer keeps its history over the move to the new cloud, gets
  nobody else's, and nothing that is registered is lost.
- **Wires**: what is shown, or returned, is what the other side said in a message
  that came whole, and success means that it did what was asked.

## 2. Modules

| module | models | abstract spec | TLC module |
|---|---|---|---|
| `TionCloud` | the live channel of `cloud_v4/cloud.py` | `LiveChannel` | `MCTionCloud` |
| `TionAuth` | the session of `cloud_v4/auth.py` | - | `TionAuth` itself |
| `NatsConnection` | one connection of `cloud_v4/nats.py` | `NatsLink` | `NatsConnection` itself |
| `RoomAuto` | a room's auto mode in `cloud_v4/cloud.py`, `structure.py` | - | `MCRoomAuto` |
| `V4Climate` | `climate.py` over `cloud_v4_devices.py` and the commands of `cloud_v4/cloud.py` | - | `MCV4Climate` |
| `V4Entry` | the v4 entry of `__init__.py`, the coordinator, the reauth of `config_flow.py`, `captcha_view.py` | - | `MCV4Entry` |
| `BleBreezer` | `ble_breezer.py`, its entity's calls and the poll of `__init__.py` | - | `BleBreezer` itself |
| `Migration` | an account's move from the old cloud: the flows of `config_flow.py`, the setups of `__init__.py`, `cloud_v4_migration.py`, the platforms | - | `Migration` itself |
| `NatsWire` over `Views`, `Datapoints`, `Protobuf` | the bytes between a breezer and its adapter: `nats.py` (`_feed`), `protobuf.py`, `datapoints.py`, `profiles.py`, `views.py`, the commands and messages of `cloud.py` | - | `MCWire` |
| `GrpcCall` | `transport.py` | - | `MCWire` |
| `BleFraming` | `ble_protocol.py`, the requests of `ble_breezer.py` | - | `MCWire` |
| `…Proofs` | theorems about the module of that name; `TionCloudProofs` also about `NatsConnection`, `WireProofs` about `NatsWire`, `GrpcCall` and `BleFraming`, `CommandProofs` about what a command rests on: the session of `TionAuth` and the wire of `NatsWire` | | |

The modules meet at promises, not by sharing variables.  `NatsConnection`
implements `NatsLink`, and `TionCloud` takes of a connection what `NatsLink`
says: it opens or fails, breaks, is reported once, is closed.  `TionCloud`
implements `LiveChannel`, whose up and down is the channel of `V4Climate` and
`V4Entry`.  What `TionAuth` decides (a token, a refusal, a failure) is a choice
in `TionCloud` and `V4Entry`; `RoomAuto` decides in what order writes, events and
reads of a room take effect, so `V4Climate` may do a room's write in one step.  The wire
modules are below all of these: that a message arrives whole or not at all, that
an answer is its own command's and that an outcome is one of a few kinds is what
`NatsConnection`, `TionCloud`, `TionAuth`, `V4Climate` and `BleBreezer` take for
granted and `NatsWire`, `GrpcCall` and `BleFraming` show.  `Migration` goes
through the entry's whole life and leaves out what `V4Entry` has: a login's
steps, tokens and the coordinator.  `MCWire` lets each behaviour be one of one
wire; the three share nothing.

Definitions that start with a comment "Faulty variant" are not part of any
specification: each is a plausible bug of the definition after it, kept to show
that the properties see it.

### State and actions

**`TionCloud`.** `pc[t]` is the await task `t` is suspended at; the tasks are the
setup (`async_start`), the reconnect task, the coordinator's poll, the task that
reads the structure after a location event, and the unload (`async_stop`).
`connection`, `lock`, `connected`, `started`, `stopped`, `wakeup` are the fields
of those names; `subs` the subscription dict that belongs to each connection;
`conn`, `fresh`, `raised` a task's locals.  `attempt` needs no variable: it is
set and reset together with `_connection`.  An action is named for what the
await returned (`TokenOk`, `CallFails`, `OpenOk`, `QueryAnswered`, ...).  A
cancellation is first requested (`cancelled`) and then delivered at the task's
await.  What is abstract: RPC contents; a call's outcome is an answer, a refused
token or another failure (`transport.async_call` raises exactly these kinds).

**`TionAuth`.** Callers run `async_ensure_valid` or `async_renew_access`; times
are counted down from when they are set.  The server may rotate the session with
any renewal, revoke it, lose an answer, ask for a repeated proof.  `Relogin` is
a reload with the session of a new login.  `sinceRenewal` and `sinceRefusal` are
history: how long ago any caller renewed, or learned a refusal.  `_renew_retry_at`
and the token's own time are other variables, which a wrong branch may leave
behind or not set.

**`NatsConnection`.** The opener, the reader, the keepalive, the task of `_lost`
and the owner's close; a message is the set of the ops in it that change the
state.  A link dies with or without the socket's noticing.

**`RoomAuto`.** `log` is the server's history of one room; `writtenAt` is a
version, since server times order as versions do.  `auto`, `_room_auto_seq`
(as `moved`), `_room_written_at` and the room's lock are the code's.  The code
stores `server_time()`, a clock learned from a `Date` of whole seconds, so `Answer`
gives it the time of any version: one of before our write, its own, or a later one
(a proxy's `Date` is learned too).  An event may have no `occurred_at`; it is
applied whatever its age, as a test of the repository wants it
(`tests/cloud_v4/test_cloud.py:328`).  Two variables are history: `clock`, what the
clock said when our last write was answered, and `misled`, that since then an older
event has come which does not tell that it is older, because it has no time or one
that is not before that clock.  `OwnWriteShown` and `FieldsKept` are about the
behaviours before such an event, `Converges` about all.  `Allowed` are the auto
modes whose speeds are in order (`Send` raises the code's two `ValueError`s for the
others), `Foreign` what other clients write.

**`V4Climate`.** A call walks through `climate.py` (`Begin`, `ZoneSent`, `Early`,
`Late`), the adapter (`SendBreezer`, `SendLimits`, `Failed`) and the command
(`Command`, `Resume`, `CommandFails`); reports come back through `inbox`.  Four
fields stand for the ways a value travels.  Left out: a zone that is invalid, the
level a stopped breezer keeps, swing and temperature (they go the heater's way),
rejections that open a login (these are in `V4Entry`), a room whose auto mode was
never set up, to which `_async_set_auto` sends every field
(`cloud_v4_devices.py:524`), and the cap of an O2's limits at its four speeds
(`cloud_v4_devices.py:509`).  The last two change which values are sent, not who
sends or forgets them.

**`BleBreezer`.** `step[t]` is where a task is; `lock.queue` the order asyncio's
lock hands itself on; `client`, `timer`, `closed`, `request` the client, the idle
timer, `_closed`, the response future; `pending` the desired values.  `want` and
`refused` are history: what a call set and has not been settled, and what was in
a command that failed.  `async_send`'s branch for a missing state is left out:
entities exist only after the first poll succeeded.  Pairing uses an object of
its own; frames are whole, assembled messages; service calls are not cancelled.

**`V4Entry`.** `entry` is the config entry as Home Assistant sees it, `cloud` its
session in memory, `coord` the coordinator's `channel_up`, grace timer and
`_reauth_opened`; `flow` the reauth flow with its `self._auth`, `posts` the
captcha tokens at their awaits, `submit` the codes at theirs.  A flow that ends
does not end what it awaits: those go on with the auth they had (`left`).  `gone`
is history.  Home Assistant is external and modelled as the code's comments
describe it: one reauth flow per entry; a reload ends it and unloads the
platforms before the `on_unload` callbacks run; `ConfigEntryAuthFailed` opens one
in any state.  Left out: what outlives an unload in the old coordinator (a
command or a refresh whose answer comes after it), the first login and every
other kind of entry.

**`Migration`.** `home` is the account in the two clouds, `entry` the config entry
with the reloads scheduled for it, `flow` the flows under way, `registry` and
`entity` Home Assistant's two registries, `pass` the locals of the setup under
way.  A device's entities are one entry of `entity`: under which id it is, and
for which it was made.  `MigrateDevice` is one round of the loop in
`async_migrate_old_ids` with its helpers (`_current_ids_by_mac`,
`_current_ids_by_name`, `_mac_values`), `MigrateEntities` the pass over the
entities; no event comes between them, because they await nothing.  `Reason` is
`_probe_auth`.  Home Assistant's registries are external (`AddDevice`, the
collision): a device is found by id, or else by a MAC as it is written.
`history` is what the properties need to remember: whose MAC the old cloud told,
and in `named` the devices matched by name, with all that share a registry entry
with one: a name is no proof, and the MAC of such an entry may be that of either.
Assumed of the old cloud: it says `invalid_grant` to the saved password only once
the account has moved.  A restart ends every flow, as Home Assistant keeps them in
memory only, and `asked` with them: what `LoginAsked` promises begins anew with it.
A login that the cloud asked for is asked for again by the next setup, which is
refused as the one before was; one that the user asked for with the migration
option is lost with the restart, and nothing brings it back but the user's asking
again.  `LoginAsked` excuses both, and says nothing of the time between a restart
and that setup.

**`NatsWire`, `Views`, `Datapoints`, `Protobuf`.** A breezer has facts; it tells
them in protobuf, the server wraps them in NATS messages, the network cuts those
anywhere, and `Feed`, `OnDeviceMessage`, `Merge` and the views of the adapter
make of them what is shown.  `Changes` and `Encode` go the other way.  A decoder
that may raise gives a set, which is empty when it raises.  Bytes are numbers
below 256; a text of the profile and the header line of a NATS message are one
cell each.

**`GrpcCall`.** One call at a time: what the server or a proxy answers (`answer`),
cut short or not, `unframe` with its errors, the status from the trailers or the
headers, and the clock learned from `Date`, which has seconds only.  The local clock
may be behind the server's or ahead of it.  A proxy stamps with a clock of its own,
and `_update_server_time` learns from it as from the server, before the status is
looked at; `learned` is history and says whose clock it was.  `ClockLags` is about
the server's: after an answer of a proxy nothing is known until the server answers.

**`BleFraming`.** Frames byte by byte with their CRC, packets of 19 bytes that may
be lost each, `_on_notify` with its assembly, `_request`, the state, the set
command and the device information.

## 3. Runs

Distinct states and seconds are of two workers on a small machine.

| run | question | bounds | states | s |
|---|---|---|---|---|
| `cloud_safety` | Can any interleaving of setup, reconnect, poll, structure task, unload and losses show a dead channel as live, leave it down, leak a socket, miss a subscription or a wakeup? | 2 locations, 2 connections | 759 044 | 16 |
| `cloud_liveness` | Does it implement `LiveChannel`, liveness included, and does a stop leave nothing? | 1, 1 | 82 108 | 35 |
| `room` | Is an acknowledged write ever rolled back, do our calls undo each other, unless an older event hides its age; does the room follow the server whatever events come or are lost? | 2 writers, 3 fields, 4 versions | 2 645 988 | 135 |
| `auth` | Renewals by two callers under rotation, revocation, lost answers and failures: one for one expiry, one request in an interval of refusals, errors forgotten, recovery | 3 sessions, times 2, 2, 4 ticks | 208 944 | 15 |
| `nats_connection` | Does it implement `NatsLink`, end cleanly, notice a silent death? | 2 messages on the wire | 683 | 1 |
| `climate` | Is a refused value kept, an accepted one lost, does the entity come to show the device and the room? | 2 calls of 4 kinds, 1 change in the app | 707 735 | 70-120 |
| `ble_breezer` | Forgotten changes, foreign answers, unwatched links, tasks that never end | 2 callers, one sending twice, 1 key, 2 values | 406 504 | 80 |
| `ble_lost_quietly` | (violation) does every call that returns have its values taken? | as above | | 1 |
| `v4_entry` | Is a login asked for once, is the latch right, is the grace timer right? | 4 keys, 2 captcha pages, 2 submissions | 727 193 | 35 |
| `migration` | Does every breezer keep its own history, is nothing registered lost, is the login there? | 2 devices, names and MACs, 4 slots, 1 change in the app | 3 173 232 | 45 |
| `migration_by_name` | (violation) does a known MAC decide, as the changelog says? | as above | | 15 |
| `wire` | Is what is taken from the bytes what was sent, however they are cut, lost or broken? | cuts of 11 and 200 bytes, 2 acts; time 7, clocks 7 and 5 off; 3 BLE acts | 1 250 102 | 125 |

Why these bounds. *Two locations* are what `_sync_subscriptions` needs to
subscribe and unsubscribe in one pass; *two connections* suffice since an identity
is reused once nobody refers to it, and at most one is current while one is given
up. *Two writers* and *four versions* give the first state, our write, another
client's just before or after it, and one more of either; three fields are the
switch and the two speeds whose order is checked. The auth run's times are two
ticks to a token and to a refusal, so that some of each interval can have passed
when something happens, and a longer streak. `climate` has a manual call against
one of the room's auto mode or a preset, which is every pair of kinds whose writes
overlap, and one change in the app. *One key* suffices for BLE because every
operator works on each key alone; the proofs cover any number. *Two posts and two
submissions* give every duplicate; *four keys* are the entry's, the running
cloud's, the flow's and that of a submission left behind. *Two devices, names and
MACs* are what it takes to confuse one with another, and four slots of the
registry hold both under both ids; one change in the app is before, between or
after any step. A third device could matter, as the one in whose registry entry
two others meet; for that `OneBreezer` and `HistoryKept` are proved for any
number.

On the wires: `Word` is 2^15 for 2^64 and three bytes for ten, so that a varint
can be too long and a number too wide; the cuts are 200 bytes, more than any
message, and 11, which falls inside every one, at a place that moves along; a
report changes one fact, and there are two changes, commands or losses after the
query's answer, so that a late answer meets the next command. In `GrpcCall` the
answer has no message, or one of three bytes or none, in one frame or two, plain
or compressed (`SomeBodies`); the local clock is 7 ticks behind the server's or
ahead of it, a proxy's 5 behind or 4 ahead, two ticks are the second that `Date`
shows, a call takes 3 at most and the run 7. BLE has 3 changes, commands or lost
packets: enough to make one frame of the right size from two.

Symmetry is used in safety runs only.  `CHECK_DEADLOCK FALSE` stands where the
modelled object really ends or its bound is used up: a stopped cloud, a closed
connection, an account that has been moved and changed, a wire after its acts.
No run checks the types of the modules that have proofs: the theorems do, for
every value of the constants.

**Mutants.** For every property of every passing run `PROJECT.json` names a
faulty variant that it finds.

### Fairness

Nothing fails for ever by assumption of the code, only of the environment, and
each fairness condition is a timeout, the event loop or a lock:

- a task whose await is over runs (`WF` of each task's step): the event loop;
- the await of every RPC, BLE request, PING and close is over in time: they all
  have timeouts (`REQUEST_TIMEOUT`, `RESPONSE_TIMEOUT`, `PONG_TIMEOUT`, bleak's);
- `SF` of acquiring a lock (`TionCloud`, `TionAuth`): asyncio's lock is first come
  first served.  `BleBreezer` has the queue itself and needs `WF` only;
- the poll and the clock go on (`Poll`, `Tick`, `ReadDone`): Home Assistant's
  minute timer;
- where a property is about recovery, the environment stops failing
  (`Stabilise` in `TionCloud`; a premise of the property in `TionAuth` and
  `V4Climate`), since a network that is always down refutes nothing.  `RoomAuto`
  assumes less, `SF` of `ReadServed` and `ReadDone`: the structure is read once a
  minute, any read may fail, and of those the cloud goes on answering some.

### Findings

- `ble_lost_quietly`: two calls overlap; the second's value leaves with the first's
  command, which fails.  The first raises; the second finds nothing pending and
  returns as if its change were made (`ble_breezer.py:226`).
- `migration_by_name`: the changelog says that devices are matched by MAC
  (`CHANGELOG.md:22`), and the code that the name is a fallback.  The pass
  decides device by device in the registry's order (`cloud_v4_migration.py:47`):
  one without a known MAC that comes first takes its namesake's new id, and the
  namesake, whose MAC is known, collides and stays behind with its history.

Met while modelling, true of the models, without a run of their own:

- a preset sets the breezer's values before it writes the zone (`climate.py:366`);
  if that write fails, nobody forgets them: they are shown until they expire, or
  sent with the next command.  For plain commands a test says the opposite is
  wanted (`tests/test_cloud_v4_ha.py:523`).  `FailureRestores` therefore speaks of
  calls other than presets;
- a preset whose room write takes longer than `_PENDING_TTL` loses its speed and
  says nothing; `NoSilentLoss` leaves presets out for it.  One that ends after a
  manual call that overtook it is shown over it;
- an event of another client's write that the server took after ours, and before
  it answered ours, is skipped (`cloud.py:493`); the next structure read repairs it;
- `written_at` is the time of the answer on a clock estimated from its headers
  (`cloud.py:265`), up to a second and a call's time behind the server's, as
  `ClockLags` bounds it, or on a proxy's clock.  An event of another client's write
  of just before ours is then not skipped, nor is one without a time: it shows the
  other's write until the minute's read, and a call of ours in between, which fills
  up its set from the snapshot, sends the old values of our first call.
  `OwnWriteShown` and `FieldsKept` are about the others;
- "off" finds the room manual while a write that makes it auto is under way, and
  does not send the change;
- a BLE send that gets the lock after the unload's disconnect connects again, and
  no timer watches that link (`ble_breezer.py:292`); answers are matched by the
  frame's type, the request's number in it is not looked at;
- tokens of the old session that are renewed between a login's save and the
  unload are saved beside the new key (`__init__.py:321`), and a code submitted
  twice may save the tokens of one login with the key of another
  (`config_flow.py:432`);
- a duplicate code's late answer pulls a login that was started again back to the
  code's form;
- a refresh refused during an unload opens a login that outlives the reload
  (`cloud_v4_devices.py:171`);
- options saved while the move to v4 is asked for reload the entry and end the
  login (`config_flow.py:549`); `LoginAsked` leaves that case out;
- the old cloud's user step looks for the entry before it probes the password and
  not after; Home Assistant's own check at the end is what `NothingLost` rests on.

## 4. Proofs

All theorems hold for every value of the constants under the ASSUMEs of the
modules: names are distinct (`None` is no key, no task), times and bounds are
positive.  Each safety theorem follows from an inductive invariant; what is in it
beyond the property says why the property holds.

| module | theorems | invariant, and why it is needed |
|---|---|---|
| `TionCloudProofs` | types, the five channel invariants, `NeverReplaced`, `Channel!Safety` | `TaskInv`: awaits belong to their tasks, the lock's holder is the task inside it, phases exclude each other. `ChannelInv`: a connector works on the current connection or has none; subscriptions differ from the structure only while somebody syncs. `NoLeakedConnection` is not inductive without knowing who may still hold a socket. |
| `CommandProofs` | of the session: types, `InStep`, `StaleMeansStreak`, `NoGhostError`, `OneRenewal`, `RefusalsApart` | whoever waits for an answer holds the lock and asked with the session that is still ours; the server knows that one or the one in the answer. `Ages`: a token that lives yet was renewed as long ago as it has lived, and a remembered refusal was learned as long ago as its interval has run. `Asking`: who has asked did so after both. |
| `TionCloudProofs` | of a connection: types, `EndIsKnown`, `PingsMatched`, `Link!Safety` | what each stage of the connection rules out (`Stages`, `Ends`). |
| `RoomAutoProofs` | types, `OwnWriteShown`, `FieldsKept` | the set a writer with the lock has sent differs from our last write by its changes only; a read that keeps no room is not older than our write; an event of before it, when it comes, is skipped or counts as misleading. |
| `V4ClimateProofs` | types, `FailureRestores`, `NoSilentLoss` | `Accounted`: each value a call has asked for was found or taken, is being sent, or is a limit that goes after the command. `Owned`: somebody answers for each pending value, so that forgetting by name takes nothing from another. `Shape` and `Told`: a message to a call is the answer to its command, which is over. |
| `BleBreezerProofs` | types, `LinkIsWatched`, `AnswerIsOurs` | `Shape`: whoever has the lock works, only it has a request. Answers: with at most one unanswered request on a link, the type tells them apart. |
| | `NotForgotten`, `NothingMasked` | `Calls`: what a call wants is pending or under way, and what is pending is under way or somebody waits to send it. |
| `V4EntryProofs` | types, `OneRequest`, `GraceHonest`, `ReauthAsked` | `Flows`: at most one token is asked with, before its login's e-mail; what a login awaits belongs to the flow or was left behind. `Entries`: only a loaded entry renews for more than its start, nothing of the coordinator outlives it. |
| `MigrationProofs` | types (no id in two registry entries), `NothingLost`, `OneBreezer`, `HistoryKept`, `LoginAsked` | `Kin`, `Makers`, `Moves`: in what no match by name has touched, a registry entry has the MAC of each of its devices, an entity is under an id of its maker's MAC, and the pass gives an id only to the one device that has that MAC. `Pure`: who has a MAC of its own shares no entry. `Kept`: told, it has one entry, which knows the MAC, and its entities are under the old id until they are under the new; in the pass its entry is still to come or has the new id. `Phases`: before the first v4 setup nothing has a new id. |
| `WireProofs` | of a call: `ClockLags` | the two clocks go on alike; an answer of the server is stamped within its call, a second early at most; what the learned clock is behind by stays as it was when it was learned. |
| | of a call: `WholeAnswer` | bytes that are cut short never parse to as many whole frames; the call under way is one of the answers there can be. |
| | of the bytes over NATS: `CutsDoNotMatter`, `FedInPieces`, `SentIsRead`, `WrittenIsRead`, `ReportsAreRead`, `RequestsAreRead`, `ResponsesAreRead` | no step: what the parsers return, for all bytes. |
| | of the bytes over BLE: `FramesAreAssembled`, `FramesAreRead`, `MessagesAreTaken`, `CommandsAreRead`, `StatesAreRead` | no step: what the assembler and the codecs return, for all frames, commands and states. |
| `CommandProofs` | of the commands over NATS: `OkIsDone` | `Commands`: the buffer and the bytes under way come to whole messages, and an answer among them that says a command was done is about one that was; each request under way was made and asks for what it was made for; the profile is that of the model; the highest speed that is known or told is the model's. Without the last two a command would be written by another breezer's table. |

The wires are proved about as functions.  The parsers read until the bytes end, as
the code's loops do; they are recursive functions on the places of a buffer, read
from the back, and the CRC is one on prefixes, read from the front.  What such a
function is at each place follows from its definition (`RecursionUp`,
`RecursionDown`), by an induction that needs no operator for a parameter: over the
set of the places where the claim holds (`Induction`, from the least number outside
of a set).  From there `CutsDoNotMatter` takes what is left of a buffer as the
state between two messages of the WebSocket; `SentIsRead` and `WrittenIsRead` show
that a decoder steps over what an encoder wrote, whatever stands behind it; with
what `FlattenSeq` does to sequences (`Together`), whole messages of any number of
datapoints are read as they were written (`WrittenAreRead`, `AmongOthers`).
`CommandProofs` goes on from there: what is sent keeps the stream good, by
`SentIsRead`; what is read of it keeps what the client knows true
(`ReceiveCommands`); the catalogue, encoded and decoded field by field, yields the
specs of the model (`CatalogueFits`); what the adapter makes of a wish by those specs
asks for just that (`AskedForIs`), and a breezer that serves it has it made
(`ServedIs`).  `OkCommandsAreDone` takes `CloudActs < Word` for a
hypothesis.  The code draws a command's id at random from 2^32 numbers and hopes
that no two that matter are equal; the model numbers the commands instead, and the
numbers have to fit in a word as the ids do, or an old answer would pass for a new
one's.
`FramesAreRead` rests on the CRC of a text and its own CRC being zero (`OwnCrc`).

Only model-checked: every liveness property (`StopIsFinal`, `Converges` of
`RoomAuto` and of `V4Climate`, `Recovers`, `EndsClean`, `NoticesDeath`,
`TasksEnd`, and the liveness halves of `ImplementsLiveChannel` and
`ImplementsNatsLink`), which need fairness and with it ENABLED; and of the wires
`ShownIsTold` and `Genuine`. `ShownIsTold` goes through every view of the adapter:
that what arrives is what was sent, and that the profile is the model's, is
proved; what each view makes of each datapoint is what the run adds. `Genuine` is
not true of any number of lost packets: a CRC of 16 bits misses an error now and
then, and two frames of one size that share packets may be such a case. It holds
for the losses of the run; what is true of all is that frames which come whole are
taken as they were built, and that is proved.

The proof of `Migration` corrected it.  `OneBreezer` used to excuse only devices
that were matched by name themselves; its invariant would not be inductive, and a
run with three devices showed why.  One device is matched by name and gets the
registry entry of another, to which its own MAC is then added; the account loses it
and gains a third device with that MAC, and the next pass hands the entry on by the
MAC, to a device that was never matched by name, with the first one's entities.
`named` is therefore passed on to all that share an
entry with a device matched by name.

## 5. Not modelled

- of the codecs: the stations' view, texts, raw bytes, floats and labels; the
  decoding of the structure (`structure.py`, `model.py`) is taken for the values
  it yields in `TionCloud` and `RoomAuto`; `device_key.py`, a request's own
  headers and the certificates are cryptography;
- the BLE steps of the config flow and its choice of a station; `async_pair`,
  whose object is the flow's own;
- of the sensors, what they show: they read the adapters and keep no state;
- rooms that are created or deleted while we write to them;
- what outlives an unload in the old coordinator (a command or a refresh whose
  answer comes after it);
- the legacy cloud's client, a package outside the repository; its entities'
  refresh and sends run in threads over that client, and the legacy and BLE
  adapters' ends of a climate call are theirs.

## 6. Plan

Done, in this order: `TionCloud` with `LiveChannel`, `RoomAuto`, `TionAuth`,
`NatsConnection` with `NatsLink`, `V4Climate`, `BleBreezer`, `V4Entry`,
`Migration`, the wires, and proofs about all of these.

Next, most important first:

1. the commands and refreshes that outlive an unload in `V4Entry`, and the key and
   the session that are saved together;
2. lemmas about the views, and with them `ShownIsTold`;
3. the legacy and BLE adapters' ends of the climate calls.
