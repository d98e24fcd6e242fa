------------------------------ MODULE Migration ------------------------------
(***************************************************************************)
(* The config entry of an account that moves from the old Tion cloud to v4:*)
(* the flows that add it and turn it into a v4 entry (config_flow.py), its *)
(* two setups (__init__.py), and the pass that moves what Home Assistant   *)
(* has registered under the old ids to the new ones                        *)
(* (cloud_v4_migration.py), so that the entities keep their history.       *)
(*                                                                         *)
(* A device has one id in each cloud; all they share is its MAC, which the *)
(* old cloud may write in the reverse byte order.  Everything of a device  *)
(* is one entity here, named by the id it is registered under; its value   *)
(* is the id it was first made for.  The pass over the registries awaits   *)
(* nothing, so nothing else happens while it runs.                         *)
(***************************************************************************)
EXTENDS Integers, FiniteSets

CONSTANTS
    Devices,     \* the breezers and stations of the account
    Names,       \* what the user calls them
    Macs,
    Slots,       \* bound on the device registry: the entries it may come to hold
    MaxApp,      \* bound on the changes made in the Tion app
    None         \* no MAC, no name, no entity

ASSUME BoundsAssumption == Slots \in Nat \ {0} /\ MaxApp \in Nat

Ids == Devices \X {"old", "new"}
OldId(d) == <<d, "old">>
NewId(d) == <<d, "new">>

ASSUME NoneAssumption == None \notin Macs \cup Names \cup Ids

VARIABLES
    home,        \* the account in the Tion clouds
    entry,       \* the config entry, and the reloads scheduled for it
    flow,        \* flows under way that would add the entry; the reauth flow
    registry,    \* the device registry
    entity,      \* the entity registry
    pass,        \* the setup's pass under way
    history      \* whose MAC the old cloud told; who was matched by name, or with one who was

vars == <<home, entry, flow, registry, entity, pass, history>>

Vacant == [ids |-> {}, macs |-> {}, name |-> None]
NoPass == [todo |-> {}, taken |-> {}, moves |-> [i \in {} |-> None], seen |-> {}, macs |-> FALSE]
NoEntry == [kind |-> "none", state |-> "none", reload |-> 0]

\* Nothing is set up yet; or a release before 1.4.0, which wrote no MACs, has been
\* running with some of the devices of the old cloud.
Init ==
    /\ home \in [old : SUBSET Devices, mac : [Devices -> Macs \cup {None}],
                 reversed : BOOLEAN, moved : {FALSE}, account : SUBSET Devices,
                 name : [Devices -> Names], changes : {0}]
    /\ flow = [adding |-> {}, reauth |-> FALSE, asked |-> "no"]
    /\ pass = NoPass
    /\ history = [told |-> {}, named |-> {}]
    /\ \/ /\ entry = NoEntry
          /\ registry = [k \in 1 .. Slots |-> Vacant]
          /\ entity = [i \in Ids |-> None]
       \/ \E f \in [1 .. Cardinality(home.old) -> home.old] :
            /\ \A d \in home.old : \E k \in DOMAIN f : f[k] = d
            /\ \A k, l \in DOMAIN f : f[k] = f[l] => k = l
            /\ entry = [kind |-> "cloud", state |-> "cloud", reload |-> 0]
            /\ registry = [k \in 1 .. Slots |->
                             IF k \in DOMAIN f
                               THEN [Vacant EXCEPT !.ids = {OldId(f[k])}, !.name = home.name[f[k]]]
                               ELSE Vacant]
            /\ entity = [i \in Ids |-> IF i[2] = "old" /\ i[1] \in home.old THEN i ELSE None]

-----------------------------------------------------------------------------
(* The Tion clouds *)

\* In the app the user moves the account, after which the old cloud refuses it; and
\* adds, removes or renames a device.
AppChanges ==
    /\ entry.state \notin {"devices", "entities"}
    /\ home.changes < MaxApp
    /\ \/ ~home.moved /\ home' = [home EXCEPT !.moved = TRUE]
       \/ \E d \in Devices :
            \/ home' = [home EXCEPT !.account = @ \cup {d}, !.changes = @ + 1]
            \/ home' = [home EXCEPT !.account = @ \ {d}, !.changes = @ + 1]
            \/ \E n \in Names : home' = [home EXCEPT !.name[d] = n, !.changes = @ + 1]
    /\ UNCHANGED <<entry, flow, registry, entity, pass, history>>

\* The MACs of its devices: the old cloud's may be missing, and one that two devices
\* share is left out; v4 tells them all.
OldMacs(d, known) ==
    IF known /\ home.mac[d] # None /\ \A e \in home.old \ {d} : home.mac[e] # home.mac[d]
      THEN {<<home.mac[d], home.reversed>>} ELSE {}
NewMacs(d) == IF home.mac[d] # None THEN {<<home.mac[d], FALSE>>} ELSE {}

\* What the old cloud may answer to a login: a page of a proxy or of a captcha, an
\* error, or nothing; the password is refused once the account has moved.
Answers ==
    {a \in [status : {200, 400, 404, 410}, page : BOOLEAN,
            error : {"invalid_grant", "invalid_client", "unauthorized_client",
                     "unsupported_grant_type", "other"}] :
       /\ a.status = 200 => ~home.moved
       /\ a.error = "invalid_grant" => home.moved} \cup {None}

\* Faulty variant: whatever is no success is taken for a refusal.
ReasonRefused(a) == IF a # None /\ a.status = 200 THEN "ok" ELSE "invalid_credentials"

\* _probe_auth
Reason(a) ==
    IF a = None THEN "network"
    ELSE CASE a.status = 200 -> "ok"
           [] a.status \in {404, 410} -> "endpoint_gone"
           [] a.status = 400 /\ a.page -> "captcha"
           [] OTHER -> CASE a.error = "invalid_grant" -> "invalid_credentials"
                         [] a.error \in {"invalid_client", "unauthorized_client"} -> "client_rejected"
                         [] a.error = "unsupported_grant_type" -> "grant_deprecated"
                         [] OTHER -> "unknown"

-----------------------------------------------------------------------------
(* The flows that add the entry *)

\* Faulty variant: an entry of the old cloud is no reason to stop.
ConfiguredForV4 == entry.kind = "v4"

\* _abort_if_v4_unavailable, _abort_if_unique_id_configured
Configured == entry.kind # "none"

\* A user's flow is past its first form; the old cloud's waits for no other flow of
\* the account to be under way.
StartAdd ==
    /\ ~Configured
    /\ \/ flow.adding = {} /\ flow' = [flow EXCEPT !.adding = {"cloud"}]
       \/ flow' = [flow EXCEPT !.adding = @ \cup {"v4"}]
    /\ UNCHANGED <<home, entry, registry, entity, pass, history>>

\* Home Assistant adds the entry and ends the account's other flows; an entry that
\* the account had would be removed, and all that is registered for it.
Added(kind) ==
    /\ entry' = [kind |-> kind, state |-> kind, reload |-> 0]
    /\ flow' = [flow EXCEPT !.adding = {}]
    /\ IF entry.kind = "none" THEN UNCHANGED <<registry, entity>>
       ELSE /\ registry' = [k \in 1 .. Slots |-> Vacant]
            /\ entity' = [i \in Ids |-> None]

\* The login succeeds; the old cloud's only if the probe of the password does.
FinishAdd ==
    /\ ~Configured
    /\ \E kind \in flow.adding :
         /\ kind = "cloud" => \E a \in Answers : Reason(a) = "ok"
         /\ Added(kind)
    /\ UNCHANGED <<home, pass, history>>

\* async_step_import: the YAML section is imported as it is, unless a flow is under way.
ImportYaml ==
    /\ ~Configured /\ flow.adding = {}
    /\ Added("cloud")
    /\ UNCHANGED <<home, pass, history>>

\* The login fails, or the user closes the flow.
FailAdd ==
    /\ \E kind \in flow.adding : flow' = [flow EXCEPT !.adding = @ \ {kind}]
    /\ UNCHANGED <<home, entry, registry, entity, pass, history>>

-----------------------------------------------------------------------------
(* The reauth flow, options and reloads *)

\* A reload that is scheduled begins before the user's next step.
Settled == entry.state \in {"loaded", "login", "retry"}
AtRest == Settled /\ entry.reload = 0
Ask(who) == flow' = [flow EXCEPT !.reauth = TRUE, !.asked = IF @ = "no" THEN who ELSE @]
Unask == flow' = [flow EXCEPT !.reauth = FALSE, !.asked = "no"]

\* Faulty variant: the options are saved as well.
MigrateAndSave ==
    /\ entry.kind = "cloud" /\ AtRest
    /\ Ask("user")
    /\ entry' = [entry EXCEPT !.reload = IF entry.state = "loaded" THEN 1 ELSE @]
    /\ UNCHANGED <<home, registry, entity, pass, history>>

\* The option to move to v4 opens the reauth flow and leaves the options alone.
Migrate ==
    /\ entry.kind = "cloud" /\ AtRest
    /\ Ask("user")
    /\ UNCHANGED <<home, entry, registry, entity, pass, history>>

\* The user saves other options: a loaded entry hears of it and is reloaded.
SaveOptions ==
    /\ entry.kind = "cloud" /\ entry.state = "loaded" /\ AtRest
    /\ entry' = [entry EXCEPT !.reload = 1]
    /\ flow' = [flow EXCEPT !.asked = "no"]
    /\ UNCHANGED <<home, registry, entity, pass, history>>

\* The user closes the reauth flow.
Dismiss ==
    /\ flow.reauth
    /\ Unask
    /\ UNCHANGED <<home, entry, registry, entity, pass, history>>

\* Faulty variant: the listener reloads the entry that has just become v4.
ReloadsOnUpdate(kind) == 1

\* _async_update_listener: the reload of a v4 entry is the login's own.
ReloadsAfter(kind) == IF kind = "v4" THEN 0 ELSE 1

\* _finish_v4_login of the reauth flow: the entry is a v4 entry from here on.
Login ==
    /\ flow.reauth /\ entry.reload = 0
    /\ entry' = [entry EXCEPT !.kind = "v4",
                   !.reload = @ + 1 + IF entry.kind = "cloud" /\ entry.state = "loaded"
                                        THEN ReloadsAfter("v4") ELSE 0]
    /\ Unask
    /\ UNCHANGED <<home, registry, entity, pass, history>>

\* A scheduled reload ends the entry's reauth flows; after a login nobody needs them.
Reload ==
    /\ entry.reload > 0 /\ Settled
    /\ entry' = [entry EXCEPT !.state = entry.kind, !.reload = @ - 1]
    /\ flow' = [flow EXCEPT !.reauth = FALSE, !.asked = IF entry.kind = "cloud" THEN @ ELSE "no"]
    /\ pass' = NoPass
    /\ UNCHANGED <<home, registry, entity, history>>

\* Home Assistant restarts, also between the pass and the platforms.
Restart ==
    /\ entry.kind # "none" /\ entry.state # "devices"
    /\ entry' = [entry EXCEPT !.state = entry.kind, !.reload = 0]
    /\ flow' = [adding |-> {}, reauth |-> FALSE, asked |-> "no"]
    /\ pass' = NoPass
    /\ UNCHANGED <<home, registry, entity, history>>

\* async_setup_entry has read which cloud the entry is of.
SettingUp == entry.state \in {"cloud", "v4"}

\* No connection: Home Assistant tries again.
SetupFails ==
    /\ SettingUp
    /\ entry' = [entry EXCEPT !.state = "retry"]
    /\ UNCHANGED <<home, flow, registry, entity, pass, history>>

SetupAgain ==
    /\ entry.state = "retry"
    /\ entry' = [entry EXCEPT !.state = entry.kind]
    /\ UNCHANGED <<home, flow, registry, entity, pass, history>>

\* The old cloud refuses the password, or v4 the saved session: Home Assistant asks for
\* a login.  What else the old cloud says of the password has it try again.
SetupRefused ==
    /\ SettingUp
    /\ entry.state = "cloud" => \E a \in Answers : Reason(a) = "invalid_credentials"
    /\ entry' = [entry EXCEPT !.state = "login"]
    /\ Ask("cloud")
    /\ UNCHANGED <<home, registry, entity, pass, history>>

\* The old cloud lists its devices, with or without their MACs.
SetupCloud ==
    /\ entry.state = "cloud" /\ ~home.moved
    /\ entry' = [entry EXCEPT !.state = "platforms"]
    /\ \E known \in BOOLEAN :
         pass' = [NoPass EXCEPT !.todo = {OldId(d) : d \in home.old}, !.macs = known]
    /\ UNCHANGED <<home, flow, registry, entity, history>>

-----------------------------------------------------------------------------
(* async_migrate_old_ids *)

Used == {k \in 1 .. Slots : registry[k].ids # {}}
Holder(i) == {k \in Used : i \in registry[k].ids}

\* The v4 setup begins with the pass over the entry's devices.
SetupV4 ==
    /\ entry.state = "v4"
    /\ entry' = [entry EXCEPT !.state = "devices"]
    /\ pass' = [NoPass EXCEPT !.todo = Used, !.seen = home.account,
                              !.taken = UNION {registry[k].ids : k \in Used}]
    /\ UNCHANGED <<home, flow, registry, entity, history>>

\* Faulty variant: of the devices that share a MAC, any will do.
OwnersAny(mac) == {d \in pass.seen : home.mac[d] = mac}

\* _current_ids_by_mac: a MAC that two devices share is skipped.
Owners(mac) ==
    {d \in pass.seen : home.mac[d] = mac /\ \A e \in pass.seen \ {d} : home.mac[e] # mac}

\* Faulty variant: the MAC is compared as it is written.
SameOrder(macs) == {m \in Macs : <<m, FALSE>> \in macs}

\* _mac_values: as numbers, in either byte order.
EitherOrder(macs) == {m[1] : m \in macs}

ByMac(k) == UNION {Owners(m) : m \in EitherOrder(registry[k].macs)}

\* _current_ids_by_name: a name that two devices share is skipped.
ByName(k) ==
    {d \in pass.seen : /\ home.name[d] = registry[k].name
                       /\ \A e \in pass.seen \ {d} : home.name[e] # home.name[d]
                       /\ NewId(d) \notin pass.taken}

\* The ids of a registry entry that the account does not have.
Gone(k) == {i \in registry[k].ids : i[2] = "old" \/ i[1] \notin pass.seen}

\* The MAC decides, or else the name; an id that another entry holds is a collision.
Found(k) == IF ByMac(k) # {} THEN ByMac(k) ELSE ByName(k)
Collides(k, d) == ~(Holder(NewId(d)) \subseteq {k})

\* Whoever was matched by name, or has shared an entry with one who was.
Named(k, d) ==
    IF ByMac(k) # {} /\ \A i \in registry[k].ids : i[1] \notin history.named THEN {}
    ELSE {d} \cup {i[1] : i \in registry[k].ids}

\* One device: it gets the id of the one that is found, or stays what it is.
MigrateDevice ==
    /\ entry.state = "devices"
    /\ \E k \in pass.todo :
         \/ /\ Gone(k) = {} \/ Found(k) = {} \/ \E d \in Found(k) : Collides(k, d)
            /\ pass' = [pass EXCEPT !.todo = @ \ {k}]
            /\ UNCHANGED <<registry, history>>
         \/ \E d \in Found(k) :
              /\ Gone(k) # {} /\ ~Collides(k, d)
              /\ registry' = [registry EXCEPT ![k].ids = (@ \ Gone(k)) \cup {NewId(d)}]
              /\ pass' = [pass EXCEPT !.todo = @ \ {k}, !.taken = @ \cup {NewId(d)},
                            !.moves = [i \in DOMAIN @ \cup Gone(k) |->
                                         IF i \in Gone(k) THEN NewId(d) ELSE @[i]]]
              /\ history' = [history EXCEPT !.named = @ \cup Named(k, d)]
    /\ UNCHANGED <<home, entry, flow, entity>>

\* Faulty variant: an entity that has the new id already is written over.
MoversAnyway(i) == {j \in DOMAIN pass.moves : pass.moves[j] = i /\ entity[j] # None}

\* The entities that would get the id: none if one has it already.
Movers(i) ==
    {j \in DOMAIN pass.moves : pass.moves[j] = i /\ entity[j] # None /\ entity[i] = None}

\* The entities of the devices that moved get their new ids, the first of those that
\* want the same one.
MigrateEntities ==
    /\ entry.state = "devices" /\ pass.todo = {}
    /\ LET wanted == {i \in Ids : Movers(i) # {}}
       IN \E first \in [wanted -> Ids] :
            /\ \A i \in wanted : first[i] \in Movers(i)
            /\ entity' = [i \in Ids |->
                            IF i \in wanted THEN entity[first[i]]
                            ELSE IF \E j \in wanted : first[j] = i THEN None ELSE entity[i]]
    /\ entry' = [entry EXCEPT !.state = "platforms"]
    /\ pass' = [pass EXCEPT !.todo = {NewId(d) : d \in pass.seen}]
    /\ UNCHANGED <<home, flow, registry, history>>

-----------------------------------------------------------------------------
(* The platforms *)

\* Home Assistant finds a device by its id, or else by a MAC as it is written, and
\* adds what it is told; or makes a new one.
AddDevice(i, macs, name) ==
    LET byMac == {k \in Used : registry[k].macs \cap macs # {}}
        known == IF Holder(i) # {} THEN Holder(i) ELSE byMac
        fresh == (1 .. Slots) \ Used
    IN IF known # {}
         THEN \E k \in known :
                registry' = [registry EXCEPT ![k] = [ids |-> @.ids \cup {i}, macs |-> @.macs \cup macs,
                                                     name |-> name]]
         ELSE \E k \in fresh :
                /\ \A j \in fresh : k <= j
                /\ registry' = [registry EXCEPT ![k] = [ids |-> {i}, macs |-> macs, name |-> name]]

\* A device comes with its name and MACs as the account has them by now, if it has it.
There(i) == i[2] = "old" \/ i[1] \in home.account
MacsOf(i) ==
    IF i[2] = "old" THEN OldMacs(i[1], pass.macs) ELSE IF There(i) THEN NewMacs(i[1]) ELSE {}

AddEntities ==
    /\ entry.state = "platforms"
    /\ \E i \in pass.todo :
         /\ AddDevice(i, MacsOf(i), IF There(i) THEN home.name[i[1]] ELSE None)
         /\ entity' = [entity EXCEPT ![i] = IF @ = None THEN i ELSE @]
         /\ pass' = [pass EXCEPT !.todo = @ \ {i}]
         /\ history' = IF i[2] = "old" /\ MacsOf(i) # {} THEN [history EXCEPT !.told = @ \cup {i[1]}]
                       ELSE history
    /\ UNCHANGED <<home, entry, flow>>

Loaded ==
    /\ entry.state = "platforms" /\ pass.todo = {}
    /\ entry' = [entry EXCEPT !.state = "loaded"]
    /\ UNCHANGED <<home, flow, registry, entity, pass, history>>

-----------------------------------------------------------------------------
(* The specification *)

Next ==
    \/ AppChanges
    \/ StartAdd \/ FinishAdd \/ ImportYaml \/ FailAdd
    \/ Migrate \/ SaveOptions \/ Dismiss \/ Login \/ Reload \/ Restart
    \/ SetupFails \/ SetupAgain \/ SetupRefused \/ SetupCloud \/ SetupV4
    \/ MigrateDevice \/ MigrateEntities \/ AddEntities \/ Loaded

Spec == Init /\ [][Next]_vars

-----------------------------------------------------------------------------
(* Properties *)

\* Every variable keeps its type, no login costs more than one reload, and no id is
\* that of two registry entries.
TypeOK ==
    /\ home \in [old : SUBSET Devices, mac : [Devices -> Macs \cup {None}],
                 reversed : BOOLEAN, moved : BOOLEAN, account : SUBSET Devices,
                 name : [Devices -> Names], changes : 0 .. MaxApp]
    /\ entry \in [kind : {"none", "cloud", "v4"}, reload : 0 .. 1,
                  state : {"none", "cloud", "v4", "devices", "platforms", "loaded", "login", "retry"}]
    /\ flow \in [adding : SUBSET {"cloud", "v4"}, reauth : BOOLEAN, asked : {"no", "user", "cloud"}]
    /\ registry \in [1 .. Slots -> [ids : SUBSET Ids, macs : SUBSET (Macs \X BOOLEAN),
                                    name : Names \cup {None}]]
    /\ \A k, l \in 1 .. Slots : registry[k].ids \cap registry[l].ids # {} => k = l
    /\ entity \in [Ids -> Ids \cup {None}]
    /\ pass.todo \subseteq IF entry.state = "devices" THEN 1 .. Slots ELSE Ids
    /\ pass \in [todo : {pass.todo}, taken : SUBSET Ids, seen : SUBSET Devices,
                 moves : UNION {[S -> Ids] : S \in SUBSET Ids}, macs : BOOLEAN]
    /\ history \in [told : SUBSET Devices, named : SUBSET Devices]

OwnMac(d) == home.mac[d] # None /\ \A e \in Devices \ {d} : home.mac[e] # home.mac[d]

\* A device whose MAC the old cloud told, and which the account has, keeps its entities
\* when the entry moves to v4; unless its name made another device pass for it.
HistoryKept ==
    entry.kind = "v4" /\ entry.state = "loaded" =>
      \A d \in history.told \cap pass.seen :
        OwnMac(d) => entity[NewId(d)] = OldId(d) \/ d \in history.named

\* No device is given the entities of another, unless they were matched by name (or their
\* registry entry was, and a MAC in it is another's), or the account has no device of
\* theirs and the two share a MAC.
OneBreezer ==
    [][\A i \in Ids : entity'[i] \notin {None, entity[i]} =>
         LET d == entity'[i][1]
         IN \/ d = i[1] \/ i[1] \in history.named
            \/ home.mac[d] = home.mac[i[1]] /\ d \notin pass.seen]_vars

\* A login that was asked for can be made until the user makes or closes it, or saves
\* other options; and the old cloud's entry asks only if the cloud refuses the password:
\* the login leads to v4, which is no remedy for a failing network.
LoginAsked ==
    /\ flow.asked # "no" => flow.reauth
    /\ flow.asked = "cloud" /\ entry.kind = "cloud" => home.moved

\* Whatever is added, moved or collides, no entity is lost: it keeps its id, or gets one
\* that no entity had.
NothingLost ==
    [][\A i \in Ids : entity[i] # None =>
         entity'[i] = entity[i] \/ \E j \in Ids : entity[j] = None /\ entity'[j] = entity[i]]_vars

\* What the code says of itself: a device is matched by its MAC, and by its name only
\* if none was told.  The name of a device the account has lost, or of one without a MAC,
\* can take the id of another whose MAC is known, if its entry comes first.
HistoryByMac ==
    entry.kind = "v4" /\ entry.state = "loaded" =>
      \A d \in history.told \cap pass.seen : OwnMac(d) => entity[NewId(d)] = OldId(d)

=============================================================================
