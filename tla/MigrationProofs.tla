-------------------------- MODULE MigrationProofs --------------------------
(***************************************************************************)
(* Theorems about Migration, for every number of devices, names, MACs and  *)
(* changes in the app: the login that was asked for is there, nothing that *)
(* is registered is lost, no breezer gets another's entities, and each     *)
(* keeps its own.                                                          *)
(***************************************************************************)
EXTENDS Migration, TLAPS

-----------------------------------------------------------------------------
(* The inductive invariant *)

\* The setup of the old cloud's devices, and what comes before the first of v4.
OldTodo == entry.state = "platforms" /\ \E i \in pass.todo : i[2] = "old"
BeforeV4 == entry.kind # "v4" \/ entry.state = "cloud" \/ OldTodo

\* Which setup is under way, and for which ids.
Setups ==
    /\ entry.kind = "none" <=> entry.state = "none"
    /\ entry.kind = "none" => ~flow.reauth
    /\ entry.state \in {"v4", "devices"} => entry.kind = "v4"
    /\ entry.state = "platforms" =>
         \/ pass.seen = {} /\ \A i \in pass.todo : i[2] = "old"
         \/ entry.kind = "v4" /\ pass.todo \subseteq {NewId(d) : d \in pass.seen}
Phases ==
    /\ Setups
    /\ BeforeV4 => /\ \A k \in 1 .. Slots : \A i \in registry[k].ids : i[2] = "old"
                   /\ \A d \in Devices : entity[NewId(d)] = None

\* A login that was asked for; an entry of the old cloud is reloaded for options only.
Logins ==
    /\ entry.kind = "none" => flow.asked = "no" /\ entry.reload = 0
    /\ entry.kind = "cloud" /\ entry.reload > 0 => entry.state = "loaded" /\ flow.asked = "no"
    /\ LoginAsked

\* An entry in which no match by name has left its mark has the MAC of each of its
\* devices, and has one if it has two devices.
Clean(k) == \A i \in registry[k].ids : i[1] \notin history.named
Kin ==
    \A k \in 1 .. Slots : Clean(k) =>
      /\ \A i \in registry[k].ids, m \in registry[k].macs : home.mac[i[1]] = m[1]
      /\ \A i, j \in registry[k].ids : i[1] # j[1] => registry[k].macs # {}

\* Whose entities are under an id.
Makers ==
    \A i \in Ids : entity[i] # None =>
      /\ i[2] = "old" => entity[i] = i
      /\ \/ entity[i][1] = i[1] \/ i[1] \in history.named
         \/ home.mac[entity[i][1]] = home.mac[i[1]]

\* What the pass is about to give an id to.
Alone(d) == \A e \in pass.seen : home.mac[e] = home.mac[d] => e = d
Moves ==
    entry.state = "devices" =>
      \A j \in DOMAIN pass.moves : \E d \in pass.seen :
        /\ pass.moves[j] = NewId(d)
        /\ j[2] = "old" \/ j[1] \notin pass.seen
        /\ \/ d \in history.named
           \/ Alone(d) /\ (entity[j] = None \/ home.mac[entity[j][1]] = home.mac[d])

\* A device that has a MAC of its own, and was matched with nobody by name, shares no
\* registry entry.
Own(d) == {OldId(d), NewId(d)}
At(d, k) == registry[k].ids \cap Own(d) # {}
Sole(d) == OwnMac(d) /\ d \notin history.named
Sole1(d) ==
      /\ \A k \in 1 .. Slots :
           /\ At(d, k) => registry[k].ids \subseteq Own(d) /\ EitherOrder(registry[k].macs) \subseteq {home.mac[d]}
           /\ home.mac[d] \in EitherOrder(registry[k].macs) => At(d, k)
      /\ entry.state = "devices" =>
           \A j \in DOMAIN pass.moves :
             j \in Own(d) \/ pass.moves[j] = NewId(d) => j = OldId(d) /\ pass.moves[j] = NewId(d)
Pure == \A d \in Devices : Sole(d) => Sole1(d)

\* Once its MAC was told it has one entry, which knows it, and its entities are under
\* the old id until they are under the new.
Told1(d) ==
      /\ \E k \in 1 .. Slots : At(d, k)
      /\ \A k \in 1 .. Slots : At(d, k) => home.mac[d] \in EitherOrder(registry[k].macs)
      /\ \A k, l \in 1 .. Slots : At(d, k) /\ At(d, l) => k = l
      /\ \/ entity[NewId(d)] = OldId(d)
         \/ /\ entity[NewId(d)] = None /\ entity[OldId(d)] = OldId(d)
            /\ \/ \E k \in 1 .. Slots : OldId(d) \in registry[k].ids
               \/ entry.state = "devices" /\ OldId(d) \in DOMAIN pass.moves
      /\ d \in pass.seen =>
           /\ entry.state = "devices" =>
                \A k \in 1 .. Slots : At(d, k) => k \in pass.todo \/ registry[k].ids = {NewId(d)}
           /\ entry.state \in {"platforms", "loaded"} =>
                /\ entity[NewId(d)] = OldId(d)
                /\ \E k \in 1 .. Slots : NewId(d) \in registry[k].ids
Kept == \A d \in history.told : Sole(d) => Told1(d)

IInv == TypeOK /\ Phases /\ Logins /\ Kin /\ Makers /\ Moves /\ Pure /\ Kept

-----------------------------------------------------------------------------
(* Types *)

LEMMA NoPassType ==
    /\ NoPass.todo = {} /\ NoPass.seen = {} /\ DOMAIN NoPass.moves = {}
    /\ NoPass.moves \in UNION {[S -> Ids] : S \in SUBSET Ids}
    /\ NoPass \in [todo : {{}}, taken : SUBSET Ids, seen : SUBSET Devices,
                   moves : UNION {[S -> Ids] : S \in SUBSET Ids}, macs : BOOLEAN]
<1>1. NoPass.moves \in [{} -> Ids]
  BY DEF NoPass
<1>2. [{} -> Ids] \in {[S -> Ids] : S \in SUBSET Ids}
  OBVIOUS
<1>3. NoPass.moves \in UNION {[S -> Ids] : S \in SUBSET Ids}
  BY <1>1, <1>2
<1> QED
  BY <1>3 DEF NoPass

\* The registry of a release before 1.4.0.
LEMMA OldRegistry ==
    ASSUME home.name \in [Devices -> Names], home.old \in SUBSET Devices,
           NEW f \in [1 .. Cardinality(home.old) -> home.old],
           \A k, l \in DOMAIN f : f[k] = f[l] => k = l,
           registry = [k \in 1 .. Slots |->
                         IF k \in DOMAIN f
                           THEN [Vacant EXCEPT !.ids = {OldId(f[k])}, !.name = home.name[f[k]]]
                           ELSE Vacant]
    PROVE  /\ registry \in [1 .. Slots -> [ids : SUBSET Ids, macs : SUBSET (Macs \X BOOLEAN),
                                           name : Names \cup {None}]]
           /\ \A k \in 1 .. Slots : registry[k].ids = (IF k \in DOMAIN f THEN {OldId(f[k])} ELSE {})
                                    /\ registry[k].macs = {}
           /\ \A k, l \in 1 .. Slots : registry[k].ids \cap registry[l].ids # {} => k = l
<1>1. \A k \in DOMAIN f : f[k] \in Devices /\ OldId(f[k]) \in Ids /\ home.name[f[k]] \in Names
  BY DEF OldId, Ids
<1>2. \A k \in 1 .. Slots : /\ registry[k] \in [ids : SUBSET Ids, macs : SUBSET (Macs \X BOOLEAN),
                                        name : Names \cup {None}]
                            /\ registry[k].ids = IF k \in DOMAIN f THEN {OldId(f[k])} ELSE {}
                            /\ registry[k].macs = {}
  BY <1>1 DEF Vacant
<1>3. \A k, l \in 1 .. Slots : registry[k].ids \cap registry[l].ids # {} => k = l
  <2> SUFFICES ASSUME NEW k \in 1 .. Slots, NEW l \in 1 .. Slots, registry[k].ids \cap registry[l].ids # {}
               PROVE  k = l
    OBVIOUS
  <2>1. k \in DOMAIN f /\ l \in DOMAIN f
    BY <1>2
  <2>2. OldId(f[k]) = OldId(f[l])
    BY <1>2, <2>1
  <2> QED
    BY <2>1, <2>2 DEF OldId
<1>4. registry \in [1 .. Slots -> [ids : SUBSET Ids, macs : SUBSET (Macs \X BOOLEAN),
                                    name : Names \cup {None}]]
  BY <1>2
<1> QED
  BY <1>2, <1>3, <1>4

LEMMA InitType == Init => TypeOK
<1> SUFFICES ASSUME Init PROVE TypeOK
  OBVIOUS
<1>1. home \in [old : SUBSET Devices, mac : [Devices -> Macs \cup {None}],
                reversed : BOOLEAN, moved : {FALSE}, account : SUBSET Devices,
                name : [Devices -> Names], changes : {0}]
  BY DEF Init
<1>2. home \in [old : SUBSET Devices, mac : [Devices -> Macs \cup {None}],
                reversed : BOOLEAN, moved : BOOLEAN, account : SUBSET Devices,
                name : [Devices -> Names], changes : 0 .. MaxApp]
  <2>1. \A x \in {0} : x \in 0 .. MaxApp
    BY BoundsAssumption
  <2>2. home.changes \in 0 .. MaxApp /\ home.moved \in BOOLEAN
    BY <1>1, <2>1
  <2> QED
    BY <1>1, <2>2
<1>3. /\ flow \in [adding : SUBSET {"cloud", "v4"}, reauth : BOOLEAN, asked : {"no", "user", "cloud"}]
      /\ history \in [told : SUBSET Devices, named : SUBSET Devices]
  <2>1. flow = [adding |-> {}, reauth |-> FALSE, asked |-> "no"] /\ history = [told |-> {}, named |-> {}]
    BY DEF Init
  <2> QED
    BY <2>1
<1>4. pass = NoPass
  BY DEF Init
<1>5. CASE /\ entry = NoEntry
           /\ registry = [k \in 1 .. Slots |-> Vacant]
           /\ entity = [i \in Ids |-> None]
  <2>1. /\ entry \in [kind : {"none", "cloud", "v4"}, reload : 0 .. 1,
                       state : {"none", "cloud", "v4", "devices", "platforms", "loaded", "login", "retry"}]
        /\ entry.state # "devices"
    BY <1>5 DEF NoEntry
  <2>2. /\ registry \in [1 .. Slots -> [ids : SUBSET Ids, macs : SUBSET (Macs \X BOOLEAN),
                                        name : Names \cup {None}]]
        /\ \A k, l \in 1 .. Slots : registry[k].ids \cap registry[l].ids # {} => k = l
        /\ entity \in [Ids -> Ids \cup {None}]
    BY <1>5 DEF Vacant
  <2> QED
    BY <1>2, <1>3, <1>4, <2>1, <2>2, NoPassType DEF TypeOK
<1>6. ASSUME NEW f \in [1 .. Cardinality(home.old) -> home.old],
             \A k, l \in DOMAIN f : f[k] = f[l] => k = l,
             entry = [kind |-> "cloud", state |-> "cloud", reload |-> 0],
             registry = [k \in 1 .. Slots |->
                           IF k \in DOMAIN f
                             THEN [Vacant EXCEPT !.ids = {OldId(f[k])}, !.name = home.name[f[k]]]
                             ELSE Vacant],
             entity = [i \in Ids |-> IF i[2] = "old" /\ i[1] \in home.old THEN i ELSE None]
      PROVE  TypeOK
  <2>1. /\ entry \in [kind : {"none", "cloud", "v4"}, reload : 0 .. 1,
                       state : {"none", "cloud", "v4", "devices", "platforms", "loaded", "login", "retry"}]
        /\ entry.state # "devices"
    <3>1. entry = [kind |-> "cloud", state |-> "cloud", reload |-> 0]
      BY <1>6
    <3> QED
      BY <3>1
  <2>2. /\ registry \in [1 .. Slots -> [ids : SUBSET Ids, macs : SUBSET (Macs \X BOOLEAN),
                                        name : Names \cup {None}]]
        /\ \A k, l \in 1 .. Slots : registry[k].ids \cap registry[l].ids # {} => k = l
    <3>1. home.name \in [Devices -> Names] /\ home.old \in SUBSET Devices
      BY <1>1
    <3> QED
      BY <1>6, <3>1, OldRegistry
  <2>3. entity \in [Ids -> Ids \cup {None}]
    BY <1>6
  <2> QED
    BY <1>2, <1>3, <1>4, <2>1, <2>2, <2>3, NoPassType DEF TypeOK
<1> QED
  BY <1>5, <1>6 DEF Init

LEMMA AddedUnchanged ==
    ASSUME ~Configured, NEW kind \in {"cloud", "v4"}, Added(kind)
    PROVE  /\ entry' = [kind |-> kind, state |-> kind, reload |-> 0]
           /\ flow' = [flow EXCEPT !.adding = {}]
           /\ UNCHANGED <<registry, entity>>
BY DEF Added, Configured

\* What a round of the pass over the devices does when it finds one.
LEMMA DeviceMoves ==
    ASSUME TypeOK, entry.state = "devices", NEW k \in pass.todo, NEW d \in Found(k),
           ~Collides(k, d),
           registry' = [registry EXCEPT ![k].ids = (@ \ Gone(k)) \cup {NewId(d)}],
           pass' = [pass EXCEPT !.todo = @ \ {k}, !.taken = @ \cup {NewId(d)},
                      !.moves = [i \in DOMAIN @ \cup Gone(k) |->
                                   IF i \in Gone(k) THEN NewId(d) ELSE @[i]]],
           history' = [history EXCEPT !.named = @ \cup Named(k, d)]
    PROVE  /\ k \in 1 .. Slots /\ d \in pass.seen /\ d \in Devices /\ NewId(d) \in Ids
           /\ registry'[k].ids = (registry[k].ids \ Gone(k)) \cup {NewId(d)}
           /\ registry'[k].macs = registry[k].macs
           /\ \A l \in 1 .. Slots \ {k} : registry'[l] = registry[l]
           /\ \A l \in 1 .. Slots \ {k} : NewId(d) \notin registry[l].ids
           /\ pass'.todo = pass.todo \ {k} /\ pass'.seen = pass.seen
           /\ DOMAIN pass'.moves = DOMAIN pass.moves \cup Gone(k)
           /\ \A i \in Gone(k) : pass'.moves[i] = NewId(d)
           /\ \A i \in DOMAIN pass.moves \ Gone(k) : pass'.moves[i] = pass.moves[i]
           /\ history'.named = history.named \cup Named(k, d) /\ history'.told = history.told
           /\ Gone(k) \subseteq Ids
<1>1. k \in 1 .. Slots
  BY DEF TypeOK
<1>2. d \in pass.seen /\ d \in Devices
  BY DEF TypeOK, Found, ByMac, Owners, ByName
<1>3. NewId(d) \in Ids
  BY <1>2 DEF NewId, Ids
<1>4. /\ registry'[k].ids = (registry[k].ids \ Gone(k)) \cup {NewId(d)}
      /\ registry'[k].macs = registry[k].macs
      /\ \A l \in 1 .. Slots \ {k} : registry'[l] = registry[l]
  BY <1>1 DEF TypeOK
<1>5. \A l \in 1 .. Slots \ {k} : NewId(d) \notin registry[l].ids
  BY DEF Collides, Holder, Used
<1>6. Gone(k) \subseteq Ids
  BY <1>1 DEF Gone, TypeOK
<1> DEFINE after == [i \in DOMAIN pass.moves \cup Gone(k) |->
                       IF i \in Gone(k) THEN NewId(d) ELSE pass.moves[i]]
<1>7. /\ pass'.todo = pass.todo \ {k} /\ pass'.seen = pass.seen
      /\ pass'.moves = after
  BY DEF TypeOK
<1>8. history'.named = history.named \cup Named(k, d) /\ history'.told = history.told
  BY DEF TypeOK
<1> QED
  BY <1>1, <1>2, <1>3, <1>4, <1>5, <1>6, <1>7, <1>8

\* What the entity registry becomes.
LEMMA EntitiesMove ==
    ASSUME TypeOK, MigrateEntities
    PROVE  /\ entity' \in [Ids -> Ids \cup {None}]
           /\ \A i \in Ids :
                \/ entity'[i] = entity[i]
                \/ /\ entity'[i] = None /\ entity[i] # None
                   /\ \E j \in Ids : i \in Movers(j) /\ entity'[j] = entity[i] /\ entity[j] = None
                \/ \E j \in Movers(i) : entity'[i] = entity[j] /\ entity[i] = None
           /\ \A i \in Ids : Movers(i) # {} => \E j \in Movers(i) : entity'[i] = entity[j]
<1> DEFINE wanted == {i \in Ids : Movers(i) # {}}
<1>1. PICK first \in [wanted -> Ids] :
        /\ \A i \in wanted : first[i] \in Movers(i)
        /\ entity' = [i \in Ids |->
                        IF i \in wanted THEN entity[first[i]]
                        ELSE IF \E j \in wanted : first[j] = i THEN None ELSE entity[i]]
  BY DEF MigrateEntities
<1>2. \A i \in Ids : \A j \in Movers(i) : entity[j] # None /\ entity[i] = None
  BY DEF Movers
<1>3. \A i \in wanted : first[i] \in Ids /\ entity[first[i]] \in Ids \cup {None} /\ entity[first[i]] # None
  BY <1>1, <1>2 DEF TypeOK
<1>4. entity' \in [Ids -> Ids \cup {None}]
  BY <1>1, <1>3 DEF TypeOK
<1>5. \A i \in Ids \ wanted : (\E j \in wanted : first[j] = i) =>
        /\ entity'[i] = None /\ entity[i] # None
        /\ \E j \in Ids : i \in Movers(j) /\ entity'[j] = entity[i] /\ entity[j] = None
  BY <1>1, <1>2, <1>3
<1>6. \A i \in wanted : \E j \in Movers(i) : entity'[i] = entity[j] /\ entity[i] = None
  BY <1>1, <1>2
<1>7. \A i \in Ids \ wanted : ~(\E j \in wanted : first[j] = i) => entity'[i] = entity[i]
  BY <1>1
<1> QED
  BY <1>4, <1>5, <1>6, <1>7

\* The registry entry that a platform's device joins: the one that has its id, or else
\* one that knows a MAC of it as it is written, or else a new one.
Joins(i, k) ==
    \/ i \in registry[k].ids
    \/ /\ \A l \in 1 .. Slots : i \notin registry[l].ids
       /\ registry[k].macs \cap MacsOf(i) # {} /\ registry[k].ids # {}
    \/ /\ \A l \in 1 .. Slots : i \notin registry[l].ids
       /\ \A l \in 1 .. Slots : registry[l].ids # {} => registry[l].macs \cap MacsOf(i) = {}
       /\ registry[k].ids = {}

\* What the platform adds, to both registries.
LEMMA EntitiesAdded ==
    ASSUME TypeOK, AddEntities
    PROVE  \E i \in pass.todo, k \in 1 .. Slots :
             /\ i \in Ids /\ i[1] \in Devices /\ entry.state = "platforms" /\ UNCHANGED <<home, entry, flow>>
             /\ \A m \in MacsOf(i) : m[1] = home.mac[i[1]]
             /\ Joins(i, k)
             /\ registry'[k].ids = registry[k].ids \cup {i}
             /\ registry'[k].macs = IF registry[k].ids = {} THEN MacsOf(i) ELSE registry[k].macs \cup MacsOf(i)
             /\ registry' \in [1 .. Slots -> [ids : SUBSET Ids, macs : SUBSET (Macs \X BOOLEAN),
                                             name : Names \cup {None}]]
             /\ \A l \in 1 .. Slots \ {k} : registry'[l] = registry[l]
             /\ entity' \in [Ids -> Ids \cup {None}]
             /\ entity'[i] = (IF entity[i] = None THEN i ELSE entity[i])
             /\ \A j \in Ids \ {i} : entity'[j] = entity[j]
             /\ pass' = [pass EXCEPT !.todo = @ \ {i}]
             /\ history'.named = history.named
             /\ history'.told = IF i[2] = "old" /\ MacsOf(i) # {} THEN history.told \cup {i[1]} ELSE history.told
             /\ history' \in [told : SUBSET Devices, named : SUBSET Devices]
<1>1. PICK i \in pass.todo :
        /\ AddDevice(i, MacsOf(i), IF There(i) THEN home.name[i[1]] ELSE None)
        /\ entity' = [entity EXCEPT ![i] = IF @ = None THEN i ELSE @]
        /\ pass' = [pass EXCEPT !.todo = @ \ {i}]
        /\ history' = IF i[2] = "old" /\ MacsOf(i) # {} THEN [history EXCEPT !.told = @ \cup {i[1]}]
                      ELSE history
  BY DEF AddEntities
<1>2. entry.state = "platforms" /\ UNCHANGED <<home, entry, flow>>
  BY DEF AddEntities
<1>3. i \in Ids /\ i[1] \in Devices
  BY <1>2 DEF TypeOK, Ids
<1>4. home.mac[i[1]] \in Macs \cup {None} /\ home.name[i[1]] \in Names
  BY <1>3 DEF TypeOK
<1>5. home.reversed \in BOOLEAN
  BY DEF TypeOK
<1>6. MacsOf(i) \subseteq {<<home.mac[i[1]], home.reversed>>, <<home.mac[i[1]], FALSE>>}
      /\ (home.mac[i[1]] = None => MacsOf(i) = {})
  BY DEF MacsOf, OldMacs, NewMacs
<1>7. MacsOf(i) \in SUBSET (Macs \X BOOLEAN) /\ \A m \in MacsOf(i) : m[1] = home.mac[i[1]]
  <2>1. CASE home.mac[i[1]] = None
    BY <1>6, <2>1
  <2>2. CASE home.mac[i[1]] \in Macs
    <3>1. PICK mac \in Macs : mac = home.mac[i[1]]
      BY <2>2
    <3>2. PICK r \in BOOLEAN : r = home.reversed
      BY <1>5
    <3>3. /\ <<mac, r>> \in Macs \X BOOLEAN /\ <<mac, FALSE>> \in Macs \X BOOLEAN
          /\ <<mac, r>>[1] = mac /\ <<mac, FALSE>>[1] = mac
      OBVIOUS
    <3>4. MacsOf(i) \subseteq {<<mac, r>>, <<mac, FALSE>>}
      BY <1>6, <3>1, <3>2, Zenon
    <3>5. \A m \in MacsOf(i) : m \in Macs \X BOOLEAN /\ m[1] = mac
      BY <3>3, <3>4
    <3> QED
      BY <3>1, <3>5
  <2> QED
    BY <1>4, <2>1, <2>2
<1>8. PICK macs \in SUBSET (Macs \X BOOLEAN) : macs = MacsOf(i)
  BY <1>7
<1>9. PICK name \in Names \cup {None} : name = IF There(i) THEN home.name[i[1]] ELSE None
  BY <1>4
<1>10. AddDevice(i, macs, name)
  BY <1>1, <1>8, <1>9 DEF AddDevice
<1>11. \E k \in 1 .. Slots :
             /\ \/ i \in registry[k].ids
                \/ /\ \A l \in 1 .. Slots : i \notin registry[l].ids
                   /\ registry[k].macs \cap macs # {} /\ registry[k].ids # {}
                \/ /\ \A l \in 1 .. Slots : i \notin registry[l].ids
                   /\ \A l \in 1 .. Slots : registry[l].ids # {} => registry[l].macs \cap macs = {}
                   /\ registry[k].ids = {}
             /\ registry'[k].ids = registry[k].ids \cup {i}
             /\ registry'[k].macs = IF registry[k].ids = {} THEN macs ELSE registry[k].macs \cup macs
             /\ registry'[k].name = name
             /\ registry' \in [1 .. Slots -> [ids : SUBSET Ids, macs : SUBSET (Macs \X BOOLEAN),
                                             name : Names \cup {None}]]
             /\ \A l \in 1 .. Slots \ {k} : registry'[l] = registry[l]
  <2> DEFINE byMac == {k \in Used : registry[k].macs \cap macs # {}}
             known == IF Holder(i) # {} THEN Holder(i) ELSE byMac
             fresh == (1 .. Slots) \ Used
  <2>1. \A l \in 1 .. Slots : i \in registry[l].ids <=> l \in Holder(i)
    BY DEF Holder, Used
  <2>2. CASE known # {}
    <3>1. PICK k \in known :
            registry' = [registry EXCEPT ![k] = [ids |-> @.ids \cup {i}, macs |-> @.macs \cup macs,
                                                 name |-> name]]
      BY <1>10, <2>2 DEF AddDevice
    <3>2. k \in 1 .. Slots /\ registry[k].ids # {}
      BY DEF Holder, Used
    <3>3. registry' \in [1 .. Slots -> [ids : SUBSET Ids, macs : SUBSET (Macs \X BOOLEAN),
                                       name : Names \cup {None}]]
      BY <1>3, <3>1, <3>2 DEF TypeOK
    <3>4. /\ registry'[k].ids = registry[k].ids \cup {i}
          /\ registry'[k].macs = registry[k].macs \cup macs
          /\ registry'[k].name = name
          /\ \A l \in 1 .. Slots \ {k} : registry'[l] = registry[l]
      BY <1>3, <3>1, <3>2 DEF TypeOK
    <3> QED
      BY <2>1, <3>2, <3>3, <3>4
  <2>3. CASE known = {}
    <3>1. PICK k \in fresh :
            registry' = [registry EXCEPT ![k] = [ids |-> {i}, macs |-> macs, name |-> name]]
      BY <1>10, <2>3 DEF AddDevice
    <3>2. k \in 1 .. Slots /\ registry[k].ids = {}
      BY DEF Used
    <3>3. registry' \in [1 .. Slots -> [ids : SUBSET Ids, macs : SUBSET (Macs \X BOOLEAN),
                                       name : Names \cup {None}]]
      BY <1>3, <3>1, <3>2 DEF TypeOK
    <3>4. /\ registry'[k] = [ids |-> {i}, macs |-> macs, name |-> name]
          /\ \A l \in 1 .. Slots \ {k} : registry'[l] = registry[l]
      BY <1>3, <3>1, <3>2 DEF TypeOK
    <3>5. /\ \A l \in 1 .. Slots : i \notin registry[l].ids
          /\ \A l \in 1 .. Slots : registry[l].ids # {} => registry[l].macs \cap macs = {}
      BY <2>1, <2>3 DEF Used
    <3> QED
      BY <3>2, <3>3, <3>4, <3>5
  <2> QED
    BY <2>2, <2>3
<1>12. /\ entity' \in [Ids -> Ids \cup {None}]
       /\ entity'[i] = (IF entity[i] = None THEN i ELSE entity[i])
       /\ \A j \in Ids \ {i} : entity'[j] = entity[j]
  BY <1>1, <1>3 DEF TypeOK
<1>13. /\ history'.named = history.named
       /\ history'.told = IF i[2] = "old" /\ MacsOf(i) # {} THEN history.told \cup {i[1]} ELSE history.told
       /\ history' \in [told : SUBSET Devices, named : SUBSET Devices]
  BY <1>1, <1>3 DEF TypeOK
<1> QED
  BY <1>1, <1>2, <1>3, <1>7, <1>8, <1>11, <1>12, <1>13 DEF Joins

Homes == [old : SUBSET Devices, mac : [Devices -> Macs \cup {None}], reversed : BOOLEAN,
          moved : BOOLEAN, account : SUBSET Devices, name : [Devices -> Names], changes : 0 .. MaxApp]

LEMMA AppType == TypeOK /\ AppChanges => home' \in Homes /\ home'.mac = home.mac
<1> SUFFICES ASSUME TypeOK, AppChanges PROVE home' \in Homes /\ home'.mac = home.mac
  OBVIOUS
<1>1. home.changes + 1 \in 0 .. MaxApp /\ home \in Homes
  <2>1. home \in Homes /\ home.changes \in 0 .. MaxApp /\ home.changes < MaxApp
    BY DEF AppChanges, TypeOK, Homes
  <2> QED
    BY <2>1, BoundsAssumption
<1>2. CASE home' = [home EXCEPT !.moved = TRUE]
  BY <1>1, <1>2 DEF Homes
<1>3. ASSUME NEW S \in SUBSET Devices, home' = [home EXCEPT !.account = S, !.changes = @ + 1]
      PROVE  home' \in Homes /\ home'.mac = home.mac
  BY <1>1, <1>3 DEF Homes
<1>5. ASSUME NEW d \in Devices, \/ home' = [home EXCEPT !.account = @ \cup {d}, !.changes = @ + 1]
                                \/ home' = [home EXCEPT !.account = @ \ {d}, !.changes = @ + 1]
      PROVE  home' \in Homes /\ home'.mac = home.mac
  <2>1. home.account \cup {d} \in SUBSET Devices /\ home.account \ {d} \in SUBSET Devices
    BY <1>1 DEF Homes
  <2> QED
    BY <1>3, <1>5, <2>1
<1>4. ASSUME NEW d \in Devices, NEW n \in Names, home' = [home EXCEPT !.name[d] = n, !.changes = @ + 1]
      PROVE  home' \in Homes /\ home'.mac = home.mac
  BY <1>1, <1>4 DEF Homes
<1> QED
  BY <1>2, <1>4, <1>5 DEF AppChanges

LEMMA NextType == TypeOK /\ Phases /\ [Next]_vars => TypeOK'
<1> SUFFICES ASSUME TypeOK, Phases, [Next]_vars PROVE TypeOK'
  OBVIOUS
<1> USE DEF TypeOK
<1>1. CASE AppChanges
  BY <1>1, AppType DEF AppChanges, Homes
<1>2. CASE StartAdd
  BY <1>2 DEF StartAdd
<1>3. CASE FinishAdd
  <2>1. PICK kind \in flow.adding : Added(kind)
    BY <1>3 DEF FinishAdd
  <2>2. kind \in {"cloud", "v4"}
    OBVIOUS
  <2>3. /\ entry' = [kind |-> kind, state |-> kind, reload |-> 0]
        /\ flow' = [flow EXCEPT !.adding = {}]
        /\ UNCHANGED <<registry, entity>>
    BY <1>3, <2>1, <2>2, AddedUnchanged DEF FinishAdd
  <2>4. /\ entry' \in [kind : {"none", "cloud", "v4"}, reload : 0 .. 1,
                       state : {"none", "cloud", "v4", "devices", "platforms", "loaded", "login", "retry"}]
        /\ entry'.state # "devices"
    BY <2>2, <2>3
  <2>5. entry.state # "devices"
    BY <1>3 DEF FinishAdd, Configured, Phases, Setups
  <2> QED
    BY <1>3, <2>3, <2>4, <2>5 DEF FinishAdd
<1>4. CASE ImportYaml
  <2>1. /\ entry' = [kind |-> "cloud", state |-> "cloud", reload |-> 0]
        /\ flow' = [flow EXCEPT !.adding = {}]
        /\ UNCHANGED <<registry, entity>>
    BY <1>4, AddedUnchanged DEF ImportYaml
  <2>2. entry.state # "devices"
    BY <1>4 DEF ImportYaml, Configured, Phases, Setups
  <2> QED
    BY <1>4, <2>1, <2>2 DEF ImportYaml
<1>5. CASE FailAdd
  BY <1>5 DEF FailAdd
<1>6. CASE Migrate
  BY <1>6 DEF Migrate, Ask
<1>7. CASE SaveOptions
  BY <1>7 DEF SaveOptions
<1>8. CASE Dismiss
  BY <1>8 DEF Dismiss, Unask
<1>9. CASE Login
  <2>1. entry' = [entry EXCEPT !.kind = "v4", !.reload = 1]
    BY <1>9 DEF Login, ReloadsAfter
  <2>2. flow' = [flow EXCEPT !.reauth = FALSE, !.asked = "no"]
    BY <1>9 DEF Login, Unask
  <2>3. /\ entry' \in [kind : {"none", "cloud", "v4"}, reload : 0 .. 1,
                       state : {"none", "cloud", "v4", "devices", "platforms", "loaded", "login", "retry"}]
        /\ entry'.state = entry.state
    <3>1. entry' = [kind |-> "v4", reload |-> 1, state |-> entry.state]
      BY <2>1
    <3>2. 1 \in 0 .. 1
      OBVIOUS
    <3> QED
      BY <3>1, <3>2
  <2> QED
    BY <1>9, <2>2, <2>3 DEF Login
<1>10. CASE Reload
  <2>1. /\ entry.reload - 1 \in 0 .. 1 /\ entry.kind \in {"cloud", "v4"} \cup {"none"}
        /\ entry' = [entry EXCEPT !.state = entry.kind, !.reload = entry.reload - 1]
    BY <1>10 DEF Reload
  <2> QED
    BY <1>10, <2>1, NoPassType DEF Reload
<1>11. CASE Restart
  <2>1. entry' = [entry EXCEPT !.state = entry.kind, !.reload = 0] /\ pass' = NoPass
    BY <1>11 DEF Restart
  <2>2. flow' = [adding |-> {}, reauth |-> FALSE, asked |-> "no"]
    BY <1>11 DEF Restart
  <2>3. /\ entry' \in [kind : {"none", "cloud", "v4"}, reload : 0 .. 1,
                       state : {"none", "cloud", "v4", "devices", "platforms", "loaded", "login", "retry"}]
        /\ entry'.state # "devices"
    <3>1. entry' = [kind |-> entry.kind, reload |-> 0, state |-> entry.kind]
      BY <2>1
    <3>2. entry.kind \in {"none", "cloud", "v4"} /\ 0 \in 0 .. 1
      OBVIOUS
    <3> QED
      BY <3>1, <3>2
  <2>4. flow' \in [adding : SUBSET {"cloud", "v4"}, reauth : BOOLEAN, asked : {"no", "user", "cloud"}]
    BY <2>2
  <2> QED
    BY <1>11, <2>1, <2>3, <2>4, NoPassType DEF Restart
<1>12. CASE SetupFails
  BY <1>12 DEF SetupFails, SettingUp
<1>13. CASE SetupAgain
  BY <1>13 DEF SetupAgain
<1>14. CASE SetupRefused
  BY <1>14 DEF SetupRefused, SettingUp, Ask
<1>15. CASE SetupCloud
  <2>1. PICK known \in BOOLEAN :
          pass' = [NoPass EXCEPT !.todo = {OldId(d) : d \in home.old}, !.macs = known]
    BY <1>15 DEF SetupCloud
  <2>2. {OldId(d) : d \in home.old} \subseteq Ids
    BY DEF OldId, Ids
  <2> QED
    BY <1>15, <2>1, <2>2, NoPassType DEF SetupCloud
<1>16. CASE SetupV4
  <2>1. Used \subseteq 1 .. Slots /\ UNION {registry[k].ids : k \in Used} \subseteq Ids
    BY DEF Used
  <2>2. pass' = [NoPass EXCEPT !.todo = Used, !.seen = home.account,
                               !.taken = UNION {registry[k].ids : k \in Used}]
    BY <1>16 DEF SetupV4
  <2>3. /\ pass'.todo = Used
        /\ pass' \in [todo : {Used}, taken : SUBSET Ids, seen : SUBSET Devices,
                      moves : UNION {[S -> Ids] : S \in SUBSET Ids}, macs : BOOLEAN]
    BY <2>1, <2>2, NoPassType
  <2> QED
    BY <1>16, <2>1, <2>3 DEF SetupV4
<1>17. CASE MigrateDevice
  <2>1. PICK k \in pass.todo :
          \/ /\ pass' = [pass EXCEPT !.todo = @ \ {k}]
             /\ UNCHANGED <<registry, history>>
          \/ \E d \in Found(k) :
              /\ Gone(k) # {} /\ ~Collides(k, d)
              /\ registry' = [registry EXCEPT ![k].ids = (@ \ Gone(k)) \cup {NewId(d)}]
              /\ pass' = [pass EXCEPT !.todo = @ \ {k}, !.taken = @ \cup {NewId(d)},
                            !.moves = [i \in DOMAIN @ \cup Gone(k) |->
                                         IF i \in Gone(k) THEN NewId(d) ELSE @[i]]]
              /\ history' = [history EXCEPT !.named = @ \cup Named(k, d)]
    BY <1>17 DEF MigrateDevice
  <2>2. CASE pass' = [pass EXCEPT !.todo = @ \ {k}] /\ UNCHANGED <<registry, history>>
    BY <1>17, <2>2 DEF MigrateDevice
  <2>3. ASSUME NEW d \in Found(k), Gone(k) # {}, ~Collides(k, d),
               registry' = [registry EXCEPT ![k].ids = (@ \ Gone(k)) \cup {NewId(d)}],
               pass' = [pass EXCEPT !.todo = @ \ {k}, !.taken = @ \cup {NewId(d)},
                            !.moves = [i \in DOMAIN @ \cup Gone(k) |->
                                         IF i \in Gone(k) THEN NewId(d) ELSE @[i]]],
               history' = [history EXCEPT !.named = @ \cup Named(k, d)]
        PROVE  TypeOK'
    <3>1. entry.state = "devices" /\ UNCHANGED <<home, entry, flow, entity>>
      BY <1>17 DEF MigrateDevice
    <3>2. /\ k \in 1 .. Slots /\ d \in pass.seen /\ d \in Devices /\ NewId(d) \in Ids
          /\ registry'[k].ids = (registry[k].ids \ Gone(k)) \cup {NewId(d)}
          /\ \A l \in 1 .. Slots \ {k} : registry'[l] = registry[l]
          /\ \A l \in 1 .. Slots \ {k} : NewId(d) \notin registry[l].ids
          /\ pass'.todo = pass.todo \ {k}
          /\ Gone(k) \subseteq Ids
      BY <2>3, <3>1, DeviceMoves
    <3>3. registry' \in [1 .. Slots -> [ids : SUBSET Ids, macs : SUBSET (Macs \X BOOLEAN),
                                        name : Names \cup {None}]]
      BY <2>3, <3>2
    <3>4. \A l, n \in 1 .. Slots : registry'[l].ids \cap registry'[n].ids # {} => l = n
      BY <3>2
    <3> DEFINE after == [i \in DOMAIN pass.moves \cup Gone(k) |->
                           IF i \in Gone(k) THEN NewId(d) ELSE pass.moves[i]]
    <3>5. after \in UNION {[S -> Ids] : S \in SUBSET Ids}
      <4>1. PICK S \in SUBSET Ids : pass.moves \in [S -> Ids]
        OBVIOUS
      <4>2. after \in [S \cup Gone(k) -> Ids] /\ S \cup Gone(k) \in SUBSET Ids
        BY <3>2, <4>1
      <4> QED
        BY <4>2
    <3>6. pass' = [pass EXCEPT !.todo = @ \ {k}, !.taken = @ \cup {NewId(d)}, !.moves = after]
      BY <2>3
    <3> HIDE DEF after
    <3>7. pass' \in [todo : {pass'.todo}, taken : SUBSET Ids, seen : SUBSET Devices,
                     moves : UNION {[S -> Ids] : S \in SUBSET Ids}, macs : BOOLEAN]
      BY <3>2, <3>5, <3>6
    <3>8. Named(k, d) \subseteq Devices
      BY <3>2 DEF Named, Ids
    <3>9. history' \in [told : SUBSET Devices, named : SUBSET Devices]
      BY <2>3, <3>8
    <3> QED
      BY <3>1, <3>2, <3>3, <3>4, <3>7, <3>9
  <2> QED
    BY <2>1, <2>2, <2>3
<1>18. CASE MigrateEntities
  <2>1. entity' \in [Ids -> Ids \cup {None}]
    BY <1>18, EntitiesMove
  <2>2. entry' = [entry EXCEPT !.state = "platforms"]
        /\ pass' = [pass EXCEPT !.todo = {NewId(d) : d \in pass.seen}]
        /\ UNCHANGED <<home, flow, registry, history>>
    BY <1>18 DEF MigrateEntities
  <2>3. {NewId(d) : d \in pass.seen} \subseteq Ids
    BY DEF NewId, Ids
  <2>4. /\ pass'.todo = {NewId(d) : d \in pass.seen}
        /\ pass' \in [todo : {pass'.todo}, taken : SUBSET Ids, seen : SUBSET Devices,
                      moves : UNION {[S -> Ids] : S \in SUBSET Ids}, macs : BOOLEAN]
    BY <2>2, <2>3
  <2>5. /\ entry' \in [kind : {"none", "cloud", "v4"}, reload : 0 .. 1,
                       state : {"none", "cloud", "v4", "devices", "platforms", "loaded", "login", "retry"}]
        /\ entry'.state # "devices"
    BY <2>2
  <2> QED
    BY <2>1, <2>2, <2>3, <2>4, <2>5
<1>19. CASE AddEntities
  <2>1. PICK i \in pass.todo, k \in 1 .. Slots :
          /\ entry.state = "platforms" /\ UNCHANGED <<home, entry, flow>>
          /\ Joins(i, k)
          /\ registry'[k].ids = registry[k].ids \cup {i}
          /\ registry' \in [1 .. Slots -> [ids : SUBSET Ids, macs : SUBSET (Macs \X BOOLEAN),
                                          name : Names \cup {None}]]
          /\ \A l \in 1 .. Slots \ {k} : registry'[l] = registry[l]
          /\ entity' \in [Ids -> Ids \cup {None}]
          /\ pass' = [pass EXCEPT !.todo = @ \ {i}]
          /\ history' \in [told : SUBSET Devices, named : SUBSET Devices]
    BY <1>19, EntitiesAdded
  <2>2. \A l, n \in 1 .. Slots : registry'[l].ids \cap registry'[n].ids # {} => l = n
    BY <2>1 DEF Joins
  <2> QED
    BY <2>1, <2>2
<1>20. CASE Loaded
  BY <1>20 DEF Loaded
<1>21. CASE UNCHANGED vars
  BY <1>21 DEF vars
<1> QED
  BY <1>1, <1>2, <1>3, <1>4, <1>5, <1>6, <1>7, <1>8, <1>9, <1>10, <1>11, <1>12, <1>13, <1>14,
     <1>15, <1>16, <1>17, <1>18, <1>19, <1>20, <1>21 DEF Next

-----------------------------------------------------------------------------
(* The phases and the logins *)

\* What a step that registers nothing and ends no pass leaves as it is.
Quiet ==
    /\ home'.mac = home.mac /\ UNCHANGED <<registry, entity, history>>
    /\ entry.state = "devices" \/ entry'.state = "devices" =>
         entry'.state = entry.state /\ pass' = pass
    /\ entry'.state \in {"platforms", "loaded"} =>
         \/ pass'.seen = {}
         \/ entry.state \in {"platforms", "loaded"} /\ pass' = pass
    /\ Setups'
    /\ BeforeV4' => BeforeV4

LEMMA QuietSteps ==
    ASSUME TypeOK, Phases, [Next]_vars
    PROVE  SetupV4 \/ MigrateDevice \/ MigrateEntities \/ AddEntities \/ Quiet
<1> USE DEF Quiet, Setups, Phases, BeforeV4, OldTodo, Ask, Unask
<1>0. entry \in [kind : {"none", "cloud", "v4"}, reload : 0 .. 1,
                 state : {"none", "cloud", "v4", "devices", "platforms", "loaded", "login", "retry"}]
  BY DEF TypeOK
<1>18. flow \in [adding : SUBSET {"cloud", "v4"}, reauth : BOOLEAN, asked : {"no", "user", "cloud"}]
  BY DEF TypeOK
<1>1. CASE AppChanges
  <2>1. home'.mac = home.mac
    BY <1>1, AppType
  <2> QED
    BY <1>1, <2>1 DEF AppChanges
<1>2. CASE StartAdd
  BY <1>2, <1>18 DEF StartAdd
<1>3. CASE FinishAdd
  <2>1. PICK kind \in flow.adding : Added(kind)
    BY <1>3 DEF FinishAdd
  <2>2. kind \in {"cloud", "v4"}
    BY DEF TypeOK
  <2>3. /\ entry' = [kind |-> kind, state |-> kind, reload |-> 0]
        /\ UNCHANGED <<registry, entity>>
    BY <1>3, <2>1, <2>2, AddedUnchanged DEF FinishAdd
  <2> QED
    BY <1>3, <2>2, <2>3 DEF FinishAdd, Configured
<1>4. CASE ImportYaml
  <2>1. /\ entry' = [kind |-> "cloud", state |-> "cloud", reload |-> 0]
        /\ UNCHANGED <<registry, entity>>
    BY <1>4, AddedUnchanged DEF ImportYaml
  <2> QED
    BY <1>4, <2>1 DEF ImportYaml, Configured
<1>5. CASE FailAdd
  BY <1>5 DEF FailAdd
<1>6. CASE Migrate
  BY <1>6 DEF Migrate
<1>7. CASE SaveOptions
  BY <1>0, <1>7 DEF SaveOptions
<1>8. CASE Dismiss
  BY <1>8 DEF Dismiss
<1>9. CASE Login
  <2>1. entry'.kind = "v4" /\ entry'.state = entry.state
    BY <1>0, <1>9 DEF Login
  <2>2. entry.state # "none"
    BY <1>0, <1>9 DEF Login
  <2> QED
    BY <1>0, <1>9, <2>1, <2>2 DEF Login
<1>10. CASE Reload
  <2>1. entry'.kind = entry.kind /\ entry'.state = entry.kind
    BY <1>0, <1>10 DEF Reload
  <2> QED
    BY <1>0, <1>10, <2>1 DEF Reload, Settled
<1>11. CASE Restart
  <2>1. entry'.kind = entry.kind /\ entry'.state = entry.kind
    BY <1>0, <1>11 DEF Restart
  <2> QED
    BY <1>0, <1>11, <2>1 DEF Restart
<1>12. CASE SetupFails
  BY <1>0, <1>12 DEF SetupFails, SettingUp
<1>13. CASE SetupAgain
  BY <1>0, <1>13 DEF SetupAgain
<1>14. CASE SetupRefused
  BY <1>0, <1>14 DEF SetupRefused, SettingUp
<1>15. CASE SetupCloud
  <2>1. PICK known \in BOOLEAN :
          pass' = [NoPass EXCEPT !.todo = {OldId(d) : d \in home.old}, !.macs = known]
    BY <1>15 DEF SetupCloud
  <2>2. pass'.seen = {} /\ \A i \in pass'.todo : i[2] = "old"
    BY <2>1, NoPassType DEF OldId
  <2>3. /\ entry.state = "cloud" /\ entry' = [entry EXCEPT !.state = "platforms"]
        /\ UNCHANGED <<home, flow, registry, entity, history>>
    BY <1>15 DEF SetupCloud
  <2>4. entry'.state = "platforms" /\ entry'.kind = entry.kind
    BY <1>0, <2>3
  <2>5. Setups'
    BY <1>0, <2>2, <2>3, <2>4
  <2>6. BeforeV4
    BY <2>3
  <2> QED
    BY <2>2, <2>3, <2>4, <2>5, <2>6
<1>16. CASE Loaded
  BY <1>0, <1>16 DEF Loaded
<1>17. CASE UNCHANGED vars
  BY <1>17 DEF vars
<1> QED
  BY <1>1, <1>2, <1>3, <1>4, <1>5, <1>6, <1>7, <1>8, <1>9, <1>10, <1>11, <1>12, <1>13, <1>14,
     <1>15, <1>16, <1>17 DEF Next

\* The old cloud refuses the password only of an account that has moved.
LEMMA RefusedMoved ==
    ASSUME NEW a \in Answers, Reason(a) = "invalid_credentials"
    PROVE  home.moved
<1>1. a # None
  BY DEF Reason
<1>2. a.error = "invalid_grant" => home.moved
  BY <1>1 DEF Answers
<1>3. a.error = "invalid_grant"
  BY <1>1 DEF Reason
<1> QED
  BY <1>2, <1>3

LEMMA NextLogins ==
    ASSUME TypeOK, Phases, Logins, [Next]_vars
    PROVE  Logins'
<1> USE DEF Logins, LoginAsked
<1>0. /\ entry \in [kind : {"none", "cloud", "v4"}, reload : 0 .. 1,
                 state : {"none", "cloud", "v4", "devices", "platforms", "loaded", "login", "retry"}]
      /\ flow \in [adding : SUBSET {"cloud", "v4"}, reauth : BOOLEAN, asked : {"no", "user", "cloud"}]
  BY DEF TypeOK
<1>1. CASE AppChanges
  <2>1. home.moved => home'.moved
    <3>1. home \in Homes
      BY DEF TypeOK, Homes
    <3> QED
      BY <1>1, <3>1 DEF AppChanges, Homes
  <2> QED
    BY <1>1, <2>1 DEF AppChanges
<1>2. CASE StartAdd
  BY <1>0, <1>2 DEF StartAdd
<1>3. CASE FinishAdd
  <2>1. PICK kind \in flow.adding : Added(kind)
    BY <1>3 DEF FinishAdd
  <2>2. kind \in {"cloud", "v4"}
    BY <1>0
  <2>3. /\ entry' = [kind |-> kind, state |-> kind, reload |-> 0]
        /\ flow' = [flow EXCEPT !.adding = {}]
    BY <1>3, <2>1, <2>2, AddedUnchanged DEF FinishAdd
  <2> QED
    BY <1>0, <1>3, <2>2, <2>3 DEF FinishAdd, Configured
<1>4. CASE ImportYaml
  <2>1. /\ entry' = [kind |-> "cloud", state |-> "cloud", reload |-> 0]
        /\ flow' = [flow EXCEPT !.adding = {}]
    BY <1>4, AddedUnchanged DEF ImportYaml
  <2> QED
    BY <1>0, <1>4, <2>1 DEF ImportYaml, Configured
<1>5. CASE FailAdd
  BY <1>0, <1>5 DEF FailAdd
<1>6. CASE Migrate
  BY <1>0, <1>6 DEF Migrate, Ask, AtRest
<1>7. CASE SaveOptions
  BY <1>0, <1>7 DEF SaveOptions
<1>8. CASE Dismiss
  BY <1>0, <1>8 DEF Dismiss, Unask
<1>9. CASE Login
  <2>1. entry'.kind = "v4" /\ flow'.asked = "no"
    BY <1>0, <1>9 DEF Login, Unask
  <2> QED
    BY <2>1
<1>10. CASE Reload
  <2>1. entry'.kind = entry.kind /\ entry'.reload = entry.reload - 1 /\ entry.reload > 0
    BY <1>0, <1>10 DEF Reload
  <2>2. entry'.reload = 0
    BY <1>0, <2>1
  <2>3. entry.kind = "cloud" => flow.asked = "no"
    BY <2>1
  <2>4. flow'.asked = IF entry.kind = "cloud" THEN flow.asked ELSE "no"
    BY <1>0, <1>10 DEF Reload
  <2> QED
    BY <2>1, <2>2, <2>3, <2>4
<1>11. CASE Restart
  <2>1. entry'.reload = 0 /\ flow'.asked = "no"
    BY <1>0, <1>11 DEF Restart
  <2> QED
    BY <2>1
<1>12. CASE SetupFails
  BY <1>0, <1>12 DEF SetupFails, SettingUp
<1>13. CASE SetupAgain
  BY <1>0, <1>13 DEF SetupAgain
<1>14. CASE SetupRefused
  <2>1. /\ entry.state \in {"cloud", "v4"} /\ home' = home
        /\ entry'.kind = entry.kind /\ entry'.reload = entry.reload
        /\ flow'.reauth /\ flow'.asked = IF flow.asked = "no" THEN "cloud" ELSE flow.asked
    BY <1>0, <1>14 DEF SetupRefused, SettingUp, Ask
  <2>2. entry.state = "cloud" => home.moved
    BY <1>14, RefusedMoved DEF SetupRefused
  <2>3. entry.state = "v4" => entry.kind = "v4"
    BY DEF Phases, Setups
  <2>4. entry.kind # "none"
    BY <2>1 DEF Phases, Setups
  <2> QED
    BY <2>1, <2>2, <2>3, <2>4
<1>15. CASE SetupCloud
  BY <1>0, <1>15 DEF SetupCloud
<1>16. CASE SetupV4
  BY <1>0, <1>16 DEF SetupV4
<1>17. CASE MigrateDevice
  BY <1>17 DEF MigrateDevice
<1>18. CASE MigrateEntities
  BY <1>0, <1>18 DEF MigrateEntities
<1>19. CASE AddEntities
  BY <1>19 DEF AddEntities
<1>20. CASE Loaded
  BY <1>0, <1>20 DEF Loaded
<1>21. CASE UNCHANGED vars
  BY <1>21 DEF vars
<1> QED
  BY <1>1, <1>2, <1>3, <1>4, <1>5, <1>6, <1>7, <1>8, <1>9, <1>10, <1>11, <1>12, <1>13, <1>14,
     <1>15, <1>16, <1>17, <1>18, <1>19, <1>20, <1>21 DEF Next

LEMMA NextPhases ==
    ASSUME TypeOK, Phases, [Next]_vars
    PROVE  Phases'
<1>0. entry \in [kind : {"none", "cloud", "v4"}, reload : 0 .. 1,
                 state : {"none", "cloud", "v4", "devices", "platforms", "loaded", "login", "retry"}]
  BY DEF TypeOK
<1>1. CASE SetupV4
  BY <1>0, <1>1 DEF SetupV4, Phases, Setups, BeforeV4, OldTodo
<1>2. CASE MigrateDevice
  BY <1>0, <1>2 DEF MigrateDevice, Phases, Setups, BeforeV4, OldTodo
<1>3. CASE MigrateEntities
  <2>1. /\ entry'.state = "platforms" /\ entry.kind = "v4" /\ entry'.kind = entry.kind /\ flow' = flow
    BY <1>0, <1>3 DEF MigrateEntities, Phases, Setups
  <2>2. pass'.todo = {NewId(d) : d \in pass.seen} /\ pass'.seen = pass.seen
    BY <1>3 DEF MigrateEntities, TypeOK
  <2>3. \A i \in pass'.todo : i[2] = "new"
    BY <2>2 DEF NewId
  <2>4. ~BeforeV4'
    BY <2>1, <2>3 DEF BeforeV4, OldTodo
  <2>5. Setups'
    BY <2>1, <2>2 DEF Setups
  <2> QED
    BY <2>4, <2>5 DEF Phases
<1>4. CASE AddEntities
  <2>1. PICK i \in pass.todo, k \in 1 .. Slots :
          /\ i \in Ids /\ entry.state = "platforms" /\ UNCHANGED <<home, entry, flow>>
          /\ registry'[k].ids = registry[k].ids \cup {i}
          /\ \A l \in 1 .. Slots \ {k} : registry'[l] = registry[l]
          /\ \A j \in Ids \ {i} : entity'[j] = entity[j]
          /\ pass' = [pass EXCEPT !.todo = @ \ {i}]
    BY <1>4, EntitiesAdded
  <2>2. pass'.todo = pass.todo \ {i} /\ pass'.seen = pass.seen
    BY <2>1 DEF TypeOK
  <2>3. Setups'
    BY <2>1, <2>2 DEF Phases, Setups
  <2>4. ASSUME BeforeV4'
        PROVE  /\ \A l \in 1 .. Slots : \A j \in registry'[l].ids : j[2] = "old"
               /\ \A d \in Devices : entity'[NewId(d)] = None
    <3>1. BeforeV4
      BY <2>1, <2>2, <2>4 DEF BeforeV4, OldTodo
    <3>2. i[2] = "old"
      BY <2>1, <3>1 DEF BeforeV4, OldTodo, Phases, Setups, NewId
    <3>3. \A d \in Devices : NewId(d) \in Ids \ {i}
      BY <3>2 DEF NewId, Ids
    <3> QED
      BY <2>1, <3>1, <3>2, <3>3 DEF Phases
  <2> QED
    BY <2>3, <2>4 DEF Phases
<1>5. CASE Quiet
  BY <1>5 DEF Quiet, Phases
<1> QED
  BY <1>1, <1>2, <1>3, <1>4, <1>5, QuietSteps

-----------------------------------------------------------------------------
(* Before anything happens *)

\* What is registered to begin with: at most one old id in each entry, and no MACs.
LEMMA InitRegistered ==
    ASSUME Init
    PROVE  /\ entry.kind = entry.state /\ entry.state \in {"none", "cloud"} /\ entry.reload = 0
           /\ \A k \in 1 .. Slots : registry[k].macs = {}
           /\ \A k \in 1 .. Slots : \A i, j \in registry[k].ids : i = j
           /\ \A k \in 1 .. Slots : \A i \in registry[k].ids : i[2] = "old"
           /\ \A i \in Ids : entity[i] # None => entity[i] = i /\ i[2] = "old"
<1>1. CASE /\ entry = NoEntry
           /\ registry = [k \in 1 .. Slots |-> Vacant]
           /\ entity = [i \in Ids |-> None]
  BY <1>1 DEF NoEntry, Vacant
<1>2. ASSUME NEW f \in [1 .. Cardinality(home.old) -> home.old],
             \A k, l \in DOMAIN f : f[k] = f[l] => k = l,
             entry = [kind |-> "cloud", state |-> "cloud", reload |-> 0],
             registry = [k \in 1 .. Slots |->
                           IF k \in DOMAIN f
                             THEN [Vacant EXCEPT !.ids = {OldId(f[k])}, !.name = home.name[f[k]]]
                             ELSE Vacant],
             entity = [i \in Ids |-> IF i[2] = "old" /\ i[1] \in home.old THEN i ELSE None]
      PROVE  /\ entry.kind = entry.state /\ entry.state \in {"none", "cloud"} /\ entry.reload = 0
             /\ \A k \in 1 .. Slots : registry[k].macs = {}
             /\ \A k \in 1 .. Slots : \A i, j \in registry[k].ids : i = j
             /\ \A k \in 1 .. Slots : \A i \in registry[k].ids : i[2] = "old"
             /\ \A i \in Ids : entity[i] # None => entity[i] = i /\ i[2] = "old"
  <2>1. home.name \in [Devices -> Names] /\ home.old \in SUBSET Devices
    BY DEF Init
  <2>2. \A k \in 1 .. Slots : registry[k].ids = (IF k \in DOMAIN f THEN {OldId(f[k])} ELSE {})
                              /\ registry[k].macs = {}
    BY <1>2, <2>1, OldRegistry
  <2>3. ASSUME NEW k \in 1 .. Slots
        PROVE  /\ \A i, j \in registry[k].ids : i = j
               /\ \A i \in registry[k].ids : i[2] = "old"
    <3>1. CASE k \in DOMAIN f
      <4>1. registry[k].ids = {OldId(f[k])}
        BY <2>2, <3>1
      <4>2. OldId(f[k])[2] = "old"
        BY DEF OldId
      <4> QED
        BY <4>1, <4>2
    <3>2. CASE k \notin DOMAIN f
      BY <2>2, <3>2
    <3> QED
      BY <3>1, <3>2
  <2>4. \A i \in Ids : entity[i] # None => entity[i] = i /\ i[2] = "old"
    BY <1>2
  <2>5. entry.kind = entry.state /\ entry.state \in {"none", "cloud"} /\ entry.reload = 0
    BY <1>2
  <2>6. \A k \in 1 .. Slots : registry[k].macs = {}
    BY <2>2
  <2> QED
    BY <2>3, <2>4, <2>5, <2>6
<1> QED
  BY <1>1, <1>2 DEF Init

LEMMA InitInvariant == Init => IInv
<1> SUFFICES ASSUME Init PROVE IInv
  OBVIOUS
<1>1. TypeOK
  BY InitType
<1>2. /\ flow = [adding |-> {}, reauth |-> FALSE, asked |-> "no"]
      /\ history = [told |-> {}, named |-> {}]
  BY DEF Init
<1>3. Phases
  <2>1. \A d \in Devices : NewId(d) \in Ids /\ NewId(d)[2] = "new"
    BY DEF NewId, Ids
  <2>2. \A d \in Devices : entity[NewId(d)] = None
    BY <2>1, InitRegistered
  <2>3. Setups
    BY <1>2, InitRegistered DEF Setups
  <2> QED
    BY <2>2, <2>3, InitRegistered DEF Phases
<1>4. Logins
  BY <1>2, InitRegistered DEF Logins, LoginAsked
<1>5. Kin
  BY InitRegistered DEF Kin
<1>6. Makers
  BY InitRegistered DEF Makers
<1>7. Moves
  BY InitRegistered DEF Moves
<1>8. Pure
  <2> SUFFICES ASSUME NEW d \in Devices, Sole(d) PROVE Sole1(d)
    BY DEF Pure
  <2>1. \A k \in 1 .. Slots : EitherOrder(registry[k].macs) = {}
    BY InitRegistered DEF EitherOrder
  <2>2. \A k \in 1 .. Slots : At(d, k) => registry[k].ids \subseteq Own(d)
    BY InitRegistered DEF At
  <2> QED
    BY <2>1, <2>2, InitRegistered DEF Sole1
<1>9. Kept
  BY <1>2 DEF Kept
<1> QED
  BY <1>1, <1>3, <1>4, <1>5, <1>6, <1>7, <1>8, <1>9 DEF IInv

-----------------------------------------------------------------------------
(* The pass over the devices *)

\* A device that keeps the ids it has, and one that gets the id of d.
Stays(k) ==
    /\ Gone(k) = {} \/ Found(k) = {} \/ \E d \in Found(k) : Collides(k, d)
    /\ UNCHANGED <<registry, history>>
    /\ pass'.todo = pass.todo \ {k} /\ pass'.seen = pass.seen /\ pass'.moves = pass.moves
Moved(k, d) ==
    /\ d \in pass.seen /\ d \in Found(k) /\ Gone(k) # {}
    /\ registry'[k].ids = (registry[k].ids \ Gone(k)) \cup {NewId(d)}
    /\ registry'[k].macs = registry[k].macs
    /\ \A l \in 1 .. Slots \ {k} : registry'[l] = registry[l]
    /\ pass'.todo = pass.todo \ {k} /\ pass'.seen = pass.seen
    /\ DOMAIN pass'.moves = DOMAIN pass.moves \cup Gone(k)
    /\ \A i \in Gone(k) : pass'.moves[i] = NewId(d)
    /\ \A i \in DOMAIN pass.moves \ Gone(k) : pass'.moves[i] = pass.moves[i]
    /\ history'.named = history.named \cup Named(k, d) /\ history'.told = history.told
    /\ Gone(k) \subseteq Ids

LEMMA DeviceSteps ==
    ASSUME TypeOK, MigrateDevice
    PROVE  /\ entry.state = "devices" /\ UNCHANGED <<home, entry, flow, entity>>
           /\ \E k \in 1 .. Slots : k \in pass.todo /\ (Stays(k) \/ \E d \in Devices : Moved(k, d))
<1>1. entry.state = "devices" /\ UNCHANGED <<home, entry, flow, entity>>
  BY DEF MigrateDevice
<1>2. PICK k \in pass.todo :
        \/ /\ Gone(k) = {} \/ Found(k) = {} \/ \E d \in Found(k) : Collides(k, d)
           /\ pass' = [pass EXCEPT !.todo = @ \ {k}]
           /\ UNCHANGED <<registry, history>>
        \/ \E d \in Found(k) :
            /\ Gone(k) # {} /\ ~Collides(k, d)
            /\ registry' = [registry EXCEPT ![k].ids = (@ \ Gone(k)) \cup {NewId(d)}]
            /\ pass' = [pass EXCEPT !.todo = @ \ {k}, !.taken = @ \cup {NewId(d)},
                          !.moves = [i \in DOMAIN @ \cup Gone(k) |->
                                       IF i \in Gone(k) THEN NewId(d) ELSE @[i]]]
            /\ history' = [history EXCEPT !.named = @ \cup Named(k, d)]
  BY DEF MigrateDevice
<1>3. k \in 1 .. Slots
  BY <1>1 DEF TypeOK
<1>4. CASE /\ Gone(k) = {} \/ Found(k) = {} \/ \E d \in Found(k) : Collides(k, d)
           /\ pass' = [pass EXCEPT !.todo = @ \ {k}]
           /\ UNCHANGED <<registry, history>>
  <2>1. pass'.todo = pass.todo \ {k} /\ pass'.seen = pass.seen /\ pass'.moves = pass.moves
    BY <1>4 DEF TypeOK
  <2> QED
    BY <1>1, <1>3, <1>4, <2>1 DEF Stays
<1>5. ASSUME NEW d \in Found(k), Gone(k) # {}, ~Collides(k, d),
             registry' = [registry EXCEPT ![k].ids = (@ \ Gone(k)) \cup {NewId(d)}],
             pass' = [pass EXCEPT !.todo = @ \ {k}, !.taken = @ \cup {NewId(d)},
                          !.moves = [i \in DOMAIN @ \cup Gone(k) |->
                                       IF i \in Gone(k) THEN NewId(d) ELSE @[i]]],
             history' = [history EXCEPT !.named = @ \cup Named(k, d)]
      PROVE  d \in Devices /\ Moved(k, d)
  BY <1>1, <1>5, DeviceMoves DEF Moved
<1> QED
  BY <1>1, <1>2, <1>3, <1>4, <1>5

\* Who is found leaves no mark only if it is the MAC that tells, and that of no other.
LEMMA MatchedByMac ==
    ASSUME TypeOK, NEW k \in 1 .. Slots, NEW d \in Found(k), d \notin Named(k, d)
    PROVE  /\ Named(k, d) = {} /\ d \in ByMac(k) /\ Clean(k)
           /\ d \in pass.seen /\ Alone(d)
           /\ \E m \in registry[k].macs : m[1] = home.mac[d]
<1>1. Named(k, d) = {} /\ ByMac(k) # {} /\ \A i \in registry[k].ids : i[1] \notin history.named
  BY DEF Named
<1>2. d \in ByMac(k)
  BY <1>1 DEF Found
<1>3. PICK m \in registry[k].macs : d \in Owners(m[1])
  BY <1>2 DEF ByMac, EitherOrder
<1> QED
  BY <1>1, <1>2, <1>3 DEF Owners, Alone, Clean

LEMMA NextKin ==
    ASSUME TypeOK, Phases, Kin, [Next]_vars
    PROVE  Kin'
<1>1. CASE SetupV4
  BY <1>1 DEF SetupV4, Kin, Clean
<1>2. CASE MigrateDevice
  <2>1. PICK k \in 1 .. Slots : Stays(k) \/ \E d \in Devices : Moved(k, d)
    BY <1>2, DeviceSteps
  <2>2. home' = home
    BY <1>2, DeviceSteps
  <2>3. CASE Stays(k)
    BY <2>2, <2>3 DEF Stays, Kin, Clean
  <2>4. ASSUME NEW d \in Devices, Moved(k, d) PROVE Kin'
    <3> SUFFICES ASSUME NEW l \in 1 .. Slots, Clean(l)'
                 PROVE  /\ \A i \in registry'[l].ids, m \in registry'[l].macs : home.mac[i[1]] = m[1]
                        /\ \A i, j \in registry'[l].ids : i[1] # j[1] => registry'[l].macs # {}
      BY <2>2 DEF Kin
    <3>1. CASE l # k
      <4>1. Clean(l)
        BY <2>4, <3>1 DEF Moved, Clean
      <4> QED
        BY <2>4, <3>1, <4>1 DEF Moved, Kin
    <3>2. CASE l = k
      <4>1. NewId(d) \in registry'[k].ids /\ NewId(d)[1] = d
        BY <2>4 DEF Moved, NewId
      <4>2. d \notin Named(k, d)
        BY <2>4, <3>2, <4>1 DEF Moved, Clean
      <4>3. Clean(k) /\ \E m \in registry[k].macs : m[1] = home.mac[d]
        BY <2>4, <4>2, MatchedByMac DEF Moved
      <4>4. PICK j \in registry[k].ids : TRUE
        BY <2>4 DEF Moved, Gone
      <4>5. \A i \in registry[k].ids, m \in registry[k].macs : home.mac[i[1]] = m[1]
        BY <4>3 DEF Kin
      <4>6. \A m \in registry[k].macs : home.mac[d] = m[1]
        BY <4>3, <4>4, <4>5
      <4>7. \A i \in registry'[k].ids : i = NewId(d) \/ i \in registry[k].ids
        BY <2>4 DEF Moved
      <4> QED
        BY <2>4, <3>2, <4>1, <4>3, <4>5, <4>6, <4>7 DEF Moved
    <3> QED
      BY <3>1, <3>2
  <2> QED
    BY <2>1, <2>3, <2>4
<1>3. CASE MigrateEntities
  BY <1>3 DEF MigrateEntities, Kin, Clean
<1>4. CASE AddEntities
  <2>1. PICK i \in pass.todo, k \in 1 .. Slots :
          /\ i \in Ids /\ i[1] \in Devices /\ UNCHANGED <<home, entry, flow>>
          /\ \A m \in MacsOf(i) : m[1] = home.mac[i[1]]
          /\ Joins(i, k)
          /\ registry'[k].ids = registry[k].ids \cup {i}
          /\ registry'[k].macs = IF registry[k].ids = {} THEN MacsOf(i) ELSE registry[k].macs \cup MacsOf(i)
          /\ \A l \in 1 .. Slots \ {k} : registry'[l] = registry[l]
          /\ history'.named = history.named
    BY <1>4, EntitiesAdded
  <2> SUFFICES ASSUME NEW l \in 1 .. Slots, Clean(l)'
               PROVE  /\ \A j \in registry'[l].ids, m \in registry'[l].macs : home.mac[j[1]] = m[1]
                      /\ \A j, n \in registry'[l].ids : j[1] # n[1] => registry'[l].macs # {}
    BY <2>1 DEF Kin
  <2>2. Clean(l) \/ l = k
    BY <2>1 DEF Clean
  <2>3. CASE l # k
    BY <2>1, <2>2, <2>3 DEF Kin
  <2>4. CASE l = k /\ registry[k].ids = {}
    BY <2>1, <2>4
  <2>5. CASE l = k /\ registry[k].ids # {}
    <3>1. Clean(k)
      BY <2>1, <2>5 DEF Clean
    <3>2. /\ \A j \in registry[k].ids, m \in registry[k].macs : home.mac[j[1]] = m[1]
          /\ \A j, n \in registry[k].ids : j[1] # n[1] => registry[k].macs # {}
      BY <3>1 DEF Kin
    <3>3. CASE i \in registry[k].ids
      BY <2>1, <2>5, <3>2, <3>3
    <3>4. CASE registry[k].macs \cap MacsOf(i) # {}
      <4>1. PICK m \in registry[k].macs : m[1] = home.mac[i[1]]
        BY <2>1, <3>4
      <4>2. \A j \in registry[k].ids : home.mac[j[1]] = home.mac[i[1]]
        BY <3>2, <4>1
      <4>3. \A n \in registry[k].macs : n[1] = home.mac[i[1]]
        BY <2>5, <3>2, <4>2
      <4> QED
        BY <2>1, <2>5, <4>1, <4>2, <4>3
    <3> QED
      BY <2>1, <2>5, <3>3, <3>4 DEF Joins
  <2> QED
    BY <2>3, <2>4, <2>5
<1>5. CASE Quiet
  BY <1>5 DEF Quiet, Kin, Clean
<1> QED
  BY <1>1, <1>2, <1>3, <1>4, <1>5, QuietSteps

LEMMA NextMakers ==
    ASSUME TypeOK, Phases, Makers, Moves, [Next]_vars
    PROVE  Makers'
<1>1. CASE SetupV4
  BY <1>1 DEF SetupV4, Makers
<1>2. CASE MigrateDevice
  <2>1. PICK k \in 1 .. Slots : Stays(k) \/ \E d \in Devices : Moved(k, d)
    BY <1>2, DeviceSteps
  <2>2. UNCHANGED <<home, entity>>
    BY <1>2, DeviceSteps
  <2>3. history.named \subseteq history'.named
    BY <2>1 DEF Stays, Moved
  <2> QED
    BY <2>2, <2>3 DEF Makers
<1>3. CASE MigrateEntities
  <2>1. entry.state = "devices" /\ UNCHANGED <<home, history>>
    BY <1>3 DEF MigrateEntities
  <2> SUFFICES ASSUME NEW i \in Ids, entity'[i] # None
               PROVE  /\ i[2] = "old" => entity'[i] = i
                      /\ \/ entity'[i][1] = i[1] \/ i[1] \in history.named
                         \/ home.mac[entity'[i][1]] = home.mac[i[1]]
    BY <2>1 DEF Makers
  <2>2. CASE entity'[i] = entity[i]
    BY <2>2 DEF Makers
  <2>3. CASE \E j \in Movers(i) : entity'[i] = entity[j]
    <3>1. PICK j \in Movers(i) : entity'[i] = entity[j]
      BY <2>3
    <3>2. j \in DOMAIN pass.moves /\ pass.moves[j] = i /\ entity[j] # None
      BY <3>1 DEF Movers
    <3>3. PICK d \in pass.seen : /\ i = NewId(d)
                                 /\ \/ d \in history.named
                                    \/ home.mac[entity[j][1]] = home.mac[d]
      BY <2>1, <3>2 DEF Moves
    <3> QED
      BY <3>1, <3>3 DEF NewId
  <2> QED
    BY <1>3, <2>2, <2>3, EntitiesMove
<1>4. CASE AddEntities
  <2>1. PICK i \in Ids :
          /\ UNCHANGED home
          /\ entity'[i] = (IF entity[i] = None THEN i ELSE entity[i])
          /\ \A j \in Ids \ {i} : entity'[j] = entity[j]
          /\ history'.named = history.named
    BY <1>4, EntitiesAdded
  <2> QED
    BY <2>1 DEF Makers
<1>5. CASE Quiet
  BY <1>5 DEF Quiet, Makers
<1> QED
  BY <1>1, <1>2, <1>3, <1>4, <1>5, QuietSteps

LEMMA NextMoves ==
    ASSUME TypeOK, Phases, Kin, Makers, Moves, [Next]_vars
    PROVE  Moves'
<1>1. CASE SetupV4
  <2>1. DOMAIN pass'.moves = {}
    BY <1>1, NoPassType DEF SetupV4
  <2> QED
    BY <2>1 DEF Moves
<1>2. CASE MigrateDevice
  <2>1. PICK k \in 1 .. Slots : Stays(k) \/ \E d \in Devices : Moved(k, d)
    BY <1>2, DeviceSteps
  <2>2. UNCHANGED <<home, entity, entry>> /\ entry.state = "devices"
    BY <1>2, DeviceSteps
  <2>3. CASE Stays(k)
    BY <2>2, <2>3 DEF Stays, Moves, Alone
  <2>4. ASSUME NEW d \in Devices, Moved(k, d) PROVE Moves'
    <3> SUFFICES ASSUME NEW j \in DOMAIN pass'.moves
                 PROVE  \E e \in pass.seen :
                          /\ pass'.moves[j] = NewId(e)
                          /\ j[2] = "old" \/ j[1] \notin pass.seen
                          /\ \/ e \in history'.named
                             \/ Alone(e) /\ (entity[j] = None \/ home.mac[entity[j][1]] = home.mac[e])
      BY <2>2, <2>4 DEF Moved, Moves, Alone
    <3>1. CASE j \in Gone(k)
      <4>1. pass'.moves[j] = NewId(d) /\ d \in pass.seen
        BY <2>4, <3>1 DEF Moved
      <4>2. j \in registry[k].ids /\ j \in Ids /\ (j[2] = "old" \/ j[1] \notin pass.seen)
        BY <2>4, <3>1 DEF Gone, Moved
      <4>3. ASSUME d \notin history'.named
            PROVE  Alone(d) /\ (entity[j] = None \/ home.mac[entity[j][1]] = home.mac[d])
        <5>1. Clean(k) /\ Alone(d) /\ \E m \in registry[k].macs : m[1] = home.mac[d]
          BY <2>4, <4>3, MatchedByMac DEF Moved
        <5>2. home.mac[j[1]] = home.mac[d]
          BY <4>2, <5>1 DEF Kin
        <5>3. j[1] \notin history.named
          BY <4>2, <5>1 DEF Clean
        <5> QED
          BY <4>2, <5>1, <5>2, <5>3 DEF Makers
      <4> QED
        BY <4>1, <4>2, <4>3
    <3>2. CASE j \notin Gone(k)
      <4>1. j \in DOMAIN pass.moves /\ pass'.moves[j] = pass.moves[j] /\ history.named \subseteq history'.named
        BY <2>4, <3>2 DEF Moved
      <4> QED
        BY <2>2, <4>1 DEF Moves
    <3> QED
      BY <3>1, <3>2
  <2> QED
    BY <2>1, <2>3, <2>4
<1>3. CASE MigrateEntities
  BY <1>3 DEF MigrateEntities, Moves, TypeOK
<1>4. CASE AddEntities
  BY <1>4 DEF AddEntities, Moves
<1>5. CASE Quiet
  BY <1>5 DEF Quiet, Moves, Alone
<1> QED
  BY <1>1, <1>2, <1>3, <1>4, <1>5, QuietSteps

-----------------------------------------------------------------------------
(* A device with a MAC of its own *)

\* Of such a device's entries, the pass finds that device and no other.
LEMMA MovesOwn ==
    ASSUME TypeOK, NEW k \in 1 .. Slots, NEW d \in Devices, Sole(d), Sole1(d),
           NEW e \in Devices, e \in Found(k), d \notin Named(k, e)
    PROVE  At(d, k) <=> e = d
<1>1. ASSUME e = d PROVE At(d, k)
  <2>1. \E m \in registry[k].macs : m[1] = home.mac[d]
    BY <1>1, MatchedByMac
  <2> QED
    BY <2>1 DEF Sole1, EitherOrder
<1>2. ASSUME At(d, k), e # d PROVE FALSE
  <2>1. PICK i \in registry[k].ids : i[1] = d
    BY <1>2 DEF At, Own, OldId, NewId
  <2>2. Named(k, e) = {}
    BY <2>1 DEF Named
  <2>3. PICK m \in registry[k].macs : m[1] = home.mac[e]
    BY <2>2, MatchedByMac
  <2>4. home.mac[e] = home.mac[d]
    BY <1>2, <2>3 DEF Sole1, EitherOrder
  <2> QED
    BY <1>2, <2>4 DEF Sole, OwnMac
<1> QED
  BY <1>1, <1>2

\* And a platform's device joins one of them only as that device.
LEMMA JoinsOwn ==
    ASSUME TypeOK, NEW k \in 1 .. Slots, NEW d \in Devices, Sole(d), Sole1(d),
           NEW i \in Ids, i[1] \in Devices, Joins(i, k), \A m \in MacsOf(i) : m[1] = home.mac[i[1]]
    PROVE  /\ i[1] = d => At(d, k) \/ registry[k].ids = {}
           /\ i[1] # d => ~At(d, k)
<1>1. ASSUME i[1] = d, registry[k].ids # {} PROVE At(d, k)
  <2>1. i \in Own(d)
    BY <1>1 DEF Own, OldId, NewId, Ids
  <2>2. CASE i \in registry[k].ids
    BY <2>1, <2>2 DEF At
  <2>3. CASE registry[k].macs \cap MacsOf(i) # {}
    <3>1. PICK m \in registry[k].macs : m[1] = home.mac[d]
      BY <1>1, <2>3
    <3> QED
      BY <3>1 DEF Sole1, EitherOrder
  <2> QED
    BY <1>1, <2>2, <2>3 DEF Joins
<1>2. ASSUME i[1] # d, At(d, k) PROVE FALSE
  <2>1. registry[k].ids \subseteq Own(d) /\ registry[k].ids # {}
        /\ \A m \in registry[k].macs : m[1] = home.mac[d]
    BY <1>2 DEF Sole1, EitherOrder, At
  <2>2. i \notin registry[k].ids
    BY <1>2, <2>1 DEF Own, OldId, NewId
  <2>3. PICK m \in registry[k].macs : m \in MacsOf(i)
    BY <2>1, <2>2 DEF Joins
  <2>4. home.mac[i[1]] = home.mac[d]
    BY <2>1, <2>3
  <2> QED
    BY <1>2, <2>4 DEF Sole, OwnMac
<1> QED
  BY <1>1, <1>2

LEMMA NextPure ==
    ASSUME TypeOK, Phases, Pure, [Next]_vars
    PROVE  Pure'
<1>1. CASE SetupV4
  <2>1. DOMAIN pass'.moves = {}
    BY <1>1, NoPassType DEF SetupV4
  <2> QED
    BY <1>1, <2>1 DEF SetupV4, Pure, Sole, OwnMac, Sole1, At
<1>2. CASE MigrateDevice
  <2>1. PICK k \in 1 .. Slots : Stays(k) \/ \E e \in Devices : Moved(k, e)
    BY <1>2, DeviceSteps
  <2>2. UNCHANGED <<home, entity, entry>> /\ entry.state = "devices"
    BY <1>2, DeviceSteps
  <2>3. CASE Stays(k)
    BY <2>2, <2>3 DEF Stays, Pure, Sole, OwnMac, Sole1, At
  <2>4. ASSUME NEW e \in Devices, Moved(k, e) PROVE Pure'
    <3> SUFFICES ASSUME NEW d \in Devices, Sole(d)' PROVE Sole1(d)'
      BY DEF Pure
    <3>1. Sole(d) /\ d \notin Named(k, e)
      BY <2>2, <2>4 DEF Sole, OwnMac, Moved
    <3>2. Sole1(d)
      BY <3>1 DEF Pure
    <3>3. At(d, k) <=> e = d
      BY <2>4, <3>1, <3>2, MovesOwn DEF Moved
    <3>4. e \in pass.seen
      BY <2>4 DEF Moved
    <3>5. \A l \in 1 .. Slots \ {k} :
            /\ At(d, l)' => registry'[l].ids \subseteq Own(d) /\ EitherOrder(registry'[l].macs) \subseteq {home.mac[d]}
            /\ home.mac[d] \in EitherOrder(registry'[l].macs) => At(d, l)'
      BY <2>4, <3>2 DEF Moved, Sole1, At
    <3>6. CASE e = d
      <4>1. registry'[k].ids \subseteq Own(d) /\ NewId(d) \in registry'[k].ids
        BY <2>4, <3>2, <3>3, <3>6 DEF Moved, Sole1, Own
      <4>2. At(d, k)' /\ EitherOrder(registry'[k].macs) \subseteq {home.mac[d]}
        BY <2>4, <3>2, <3>3, <3>6, <4>1 DEF Moved, Sole1, At, Own
      <4>3. \A j \in Gone(k) : j = OldId(d)
        <5>1. Gone(k) \subseteq Own(d)
          BY <3>2, <3>3, <3>6 DEF Gone, Sole1
        <5>2. NewId(d) \notin Gone(k)
          BY <3>4, <3>6 DEF Gone, NewId
        <5> QED
          BY <5>1, <5>2 DEF Own
      <4>4. \A j \in DOMAIN pass'.moves :
              j \in Own(d) \/ pass'.moves[j] = NewId(d) => j = OldId(d) /\ pass'.moves[j] = NewId(d)
        BY <2>2, <2>4, <3>2, <3>6, <4>3 DEF Moved, Sole1
      <4> QED
        BY <2>2, <3>5, <4>1, <4>2, <4>4 DEF Sole1
    <3>7. CASE e # d
      <4>1. registry[k].ids \cap Own(d) = {} /\ home.mac[d] \notin EitherOrder(registry[k].macs)
        BY <3>2, <3>3, <3>7 DEF Sole1, At
      <4>2. NewId(e) \notin Own(d)
        BY <3>7 DEF Own, OldId, NewId
      <4>3. registry'[k].ids \cap Own(d) = {} /\ home.mac[d] \notin EitherOrder(registry'[k].macs)
        BY <2>4, <4>1, <4>2 DEF Moved
      <4>4. \A j \in Gone(k) : j \notin Own(d) /\ pass'.moves[j] # NewId(d)
        BY <2>4, <4>1, <4>2 DEF Moved, Gone, Own
      <4>5. \A j \in DOMAIN pass'.moves :
              j \in Own(d) \/ pass'.moves[j] = NewId(d) => j = OldId(d) /\ pass'.moves[j] = NewId(d)
        BY <2>2, <2>4, <3>2, <4>4 DEF Moved, Sole1
      <4> QED
        BY <2>2, <3>5, <4>3, <4>5 DEF Sole1, At
    <3> QED
      BY <3>6, <3>7
  <2> QED
    BY <2>1, <2>3, <2>4
<1>3. CASE MigrateEntities
  <2>1. entry'.state # "devices" /\ UNCHANGED <<home, registry, history>>
    BY <1>3 DEF MigrateEntities, TypeOK
  <2> QED
    BY <2>1 DEF Pure, Sole, OwnMac, Sole1, At
<1>4. CASE AddEntities
  <2>1. PICK i \in pass.todo, k \in 1 .. Slots :
          /\ i \in Ids /\ i[1] \in Devices /\ entry.state = "platforms" /\ UNCHANGED <<home, entry, flow>>
          /\ \A m \in MacsOf(i) : m[1] = home.mac[i[1]]
          /\ Joins(i, k)
          /\ registry'[k].ids = registry[k].ids \cup {i}
          /\ registry'[k].macs = IF registry[k].ids = {} THEN MacsOf(i) ELSE registry[k].macs \cup MacsOf(i)
          /\ \A l \in 1 .. Slots \ {k} : registry'[l] = registry[l]
          /\ history'.named = history.named
    BY <1>4, EntitiesAdded
  <2> SUFFICES ASSUME NEW d \in Devices, Sole(d)' PROVE Sole1(d)'
    BY DEF Pure
  <2>2. Sole(d) /\ Sole1(d)
    BY <2>1 DEF Sole, OwnMac, Pure
  <2>3. /\ i[1] = d => At(d, k) \/ registry[k].ids = {}
        /\ i[1] # d => ~At(d, k)
    BY <2>1, <2>2, JoinsOwn
  <2>4. \A l \in 1 .. Slots \ {k} :
          /\ At(d, l)' => registry'[l].ids \subseteq Own(d) /\ EitherOrder(registry'[l].macs) \subseteq {home.mac[d]}
          /\ home.mac[d] \in EitherOrder(registry'[l].macs) => At(d, l)'
    BY <2>1, <2>2 DEF Sole1, At
  <2>5. CASE i[1] = d
    <3>1. i \in Own(d)
      BY <2>1, <2>5 DEF Own, OldId, NewId, Ids
    <3>2. registry'[k].ids \subseteq Own(d) /\ At(d, k)'
      BY <2>1, <2>2, <2>3, <2>5, <3>1 DEF Sole1, At
    <3>3. EitherOrder(registry'[k].macs) \subseteq {home.mac[d]}
      BY <2>1, <2>2, <2>3, <2>5 DEF Sole1, EitherOrder
    <3> QED
      BY <2>1, <2>4, <3>2, <3>3 DEF Sole1
  <2>6. CASE i[1] # d
    <3>1. i \notin Own(d) /\ home.mac[i[1]] # home.mac[d]
      BY <2>1, <2>2, <2>6 DEF Own, OldId, NewId, Sole, OwnMac
    <3>2. ~At(d, k)' /\ ~At(d, k)
      BY <2>1, <2>3, <2>6, <3>1 DEF At
    <3>3. \A m \in registry[k].macs : m[1] # home.mac[d]
      BY <2>2, <3>2 DEF Sole1, EitherOrder
    <3>4. home.mac[d] \notin EitherOrder(registry'[k].macs)
      BY <2>1, <3>1, <3>3 DEF EitherOrder
    <3> QED
      BY <2>1, <2>4, <3>2, <3>4 DEF Sole1
  <2> QED
    BY <2>5, <2>6
<1>5. CASE Quiet
  BY <1>5 DEF Quiet, Pure, Sole, OwnMac, Sole1, At
<1> QED
  BY <1>1, <1>2, <1>3, <1>4, <1>5, QuietSteps

\* A device of the account that is told, and whose entry the pass leaves as it is, has
\* its new id already.
LEMMA StaysOwn ==
    ASSUME TypeOK, NEW k \in 1 .. Slots, NEW d \in Devices, Sole(d), Sole1(d), Told1(d),
           d \in pass.seen, At(d, k), Gone(k) = {} \/ Found(k) = {} \/ \E e \in Found(k) : Collides(k, e)
    PROVE  registry[k].ids = {NewId(d)}
<1>1. CASE Gone(k) = {}
  <2>1. \A i \in registry[k].ids : i = NewId(d)
    BY <1>1 DEF Sole1, Own, OldId, Gone
  <2> QED
    BY <2>1 DEF At
<1>2. CASE Gone(k) # {}
  <2>1. home.mac[d] \in EitherOrder(registry[k].macs) /\ EitherOrder(registry[k].macs) \subseteq {home.mac[d]}
    BY DEF Told1, Sole1
  <2>2. Owners(home.mac[d]) = {d}
    BY DEF Owners, Sole, OwnMac, TypeOK
  <2>3. ByMac(k) = {d}
    BY <2>1, <2>2 DEF ByMac
  <2>4. Found(k) = {d}
    BY <2>3 DEF Found
  <2>5. \A l \in 1 .. Slots : NewId(d) \in registry[l].ids => l = k
    BY DEF Told1, At, Own
  <2>6. ~Collides(k, d)
    BY <2>5 DEF Collides, Holder, Used
  <2> QED
    BY <1>2, <2>4, <2>6
<1> QED
  BY <1>1, <1>2

LEMMA NextKept ==
    ASSUME TypeOK, Phases, Makers, Pure, Kept, [Next]_vars
    PROVE  Kept'
<1> USE DEF Sole, OwnMac
<1>0. history.told \subseteq Devices
  BY DEF TypeOK
<1>1. CASE SetupV4
  <2>1. /\ UNCHANGED <<home, registry, entity, history>>
        /\ entry.state = "v4" /\ entry'.state = "devices" /\ pass'.todo = Used
    BY <1>1, NoPassType DEF SetupV4, TypeOK
  <2> SUFFICES ASSUME NEW d \in history.told, Sole(d) PROVE Told1(d)'
    BY <2>1 DEF Kept
  <2>2. Told1(d)
    BY DEF Kept
  <2>3. \A k \in 1 .. Slots : At(d, k) => k \in pass'.todo
    BY <2>1 DEF At, Used
  <2> QED
    BY <2>1, <2>2, <2>3 DEF Told1, At
<1>2. CASE MigrateDevice
  <2>1. PICK k \in 1 .. Slots : Stays(k) \/ \E e \in Devices : Moved(k, e)
    BY <1>2, DeviceSteps
  <2>2. UNCHANGED <<home, entity, entry>> /\ entry.state = "devices"
    BY <1>2, DeviceSteps
  <2>3. CASE Stays(k)
    <3> SUFFICES ASSUME NEW d \in history.told, Sole(d) PROVE Told1(d)'
      BY <2>2, <2>3 DEF Kept, Stays
    <3>1. Told1(d) /\ Sole1(d) /\ d \in Devices
      BY <1>0 DEF Kept, Pure
    <3>2. d \in pass.seen /\ At(d, k) => registry[k].ids = {NewId(d)}
      BY <2>3, <3>1, StaysOwn DEF Stays
    <3> QED
      BY <2>2, <2>3, <3>1, <3>2 DEF Told1, At, Stays
  <2>4. ASSUME NEW e \in Devices, Moved(k, e) PROVE Kept'
    <3> SUFFICES ASSUME NEW d \in history.told, Sole(d)' PROVE Told1(d)'
      BY <2>4 DEF Kept, Moved
    <3>1. Sole(d) /\ d \notin Named(k, e) /\ d \in Devices
      BY <1>0, <2>2, <2>4 DEF Moved
    <3>2. Told1(d) /\ Sole1(d)
      BY <3>1 DEF Kept, Pure
    <3>3. At(d, k) <=> e = d
      BY <2>4, <3>1, <3>2, MovesOwn DEF Moved
    <3>4. \A l \in 1 .. Slots \ {k} : registry'[l] = registry[l] /\ (At(d, l)' <=> At(d, l))
      BY <2>4 DEF Moved, At
    <3>5. At(d, k)' <=> At(d, k)
      <4>1. CASE e = d
        BY <2>4, <3>3, <4>1 DEF Moved, At, Own
      <4>2. CASE e # d
        <5>1. NewId(e) \notin Own(d)
          BY <4>2 DEF Own, OldId, NewId
        <5> QED
          BY <2>4, <3>3, <4>2, <5>1 DEF Moved, At
      <4> QED
        BY <4>1, <4>2
    <3>6. e = d => OldId(d) \notin registry'[k].ids /\ registry'[k].ids = {NewId(d)}
      <4> SUFFICES ASSUME e = d PROVE OldId(d) \notin registry'[k].ids /\ registry'[k].ids = {NewId(d)}
        OBVIOUS
      <4>1. registry[k].ids \subseteq {OldId(d), NewId(d)}
        BY <3>2, <3>3 DEF Sole1, Own
      <4>2. OldId(d) \in registry[k].ids => OldId(d) \in Gone(k)
        BY DEF Gone, OldId
      <4>3. registry'[k].ids = (registry[k].ids \ Gone(k)) \cup {NewId(d)}
        BY <2>4 DEF Moved
      <4>4. OldId(d) # NewId(d)
        BY DEF OldId, NewId
      <4> QED
        BY <4>1, <4>2, <4>3, <4>4
    <3>7. /\ \E l \in 1 .. Slots : At(d, l)'
          /\ \A l, n \in 1 .. Slots : At(d, l)' /\ At(d, n)' => l = n
      BY <3>2, <3>4, <3>5 DEF Told1
    <3>8. \A l \in 1 .. Slots : At(d, l)' => home.mac[d] \in EitherOrder(registry'[l].macs)
      BY <2>4, <3>2, <3>4, <3>5 DEF Told1, Moved
    <3>9. ASSUME NEW l \in 1 .. Slots, OldId(d) \in registry[l].ids
          PROVE  OldId(d) \in registry'[l].ids \/ OldId(d) \in DOMAIN pass'.moves
      <4>1. CASE l # k
        BY <3>4, <3>9, <4>1
      <4>2. CASE l = k
        <5>1. OldId(d) \in Gone(k)
          BY <3>9, <4>2 DEF Gone, OldId
        <5> QED
          BY <2>4, <5>1 DEF Moved
      <4> QED
        BY <4>1, <4>2
    <3>10. DOMAIN pass.moves \subseteq DOMAIN pass'.moves
      BY <2>4 DEF Moved
    <3>11. \/ entity'[NewId(d)] = OldId(d)
           \/ /\ entity'[NewId(d)] = None /\ entity'[OldId(d)] = OldId(d)
              /\ \/ \E l \in 1 .. Slots : OldId(d) \in registry'[l].ids
                 \/ entry'.state = "devices" /\ OldId(d) \in DOMAIN pass'.moves
      BY <2>2, <3>2, <3>9, <3>10 DEF Told1
    <3>12. ASSUME d \in pass'.seen, NEW l \in 1 .. Slots, At(d, l)'
           PROVE  l \in pass'.todo \/ registry'[l].ids = {NewId(d)}
      <4>1. CASE l # k
        BY <2>2, <2>4, <3>2, <3>4, <3>12, <4>1 DEF Told1, Moved
      <4>2. CASE l = k
        BY <3>3, <3>5, <3>6, <3>12, <4>2
      <4> QED
        BY <4>1, <4>2
    <3> QED
      BY <2>2, <3>7, <3>8, <3>11, <3>12 DEF Told1
  <2> QED
    BY <2>1, <2>3, <2>4
<1>5. CASE Quiet
  <2> SUFFICES ASSUME NEW d \in history.told, Sole(d) PROVE Told1(d)'
    BY <1>5 DEF Kept, Quiet
  <2>1. Told1(d)
    BY DEF Kept
  <2> QED
    BY <1>5, <2>1 DEF Quiet, Told1, At
<1>3. CASE MigrateEntities
  <2>1. /\ entry.state = "devices" /\ pass.todo = {} /\ UNCHANGED <<home, registry, history>>
        /\ entry'.state = "platforms" /\ pass'.seen = pass.seen
    BY <1>3 DEF MigrateEntities, TypeOK
  <2> SUFFICES ASSUME NEW d \in history.told, Sole(d) PROVE Told1(d)'
    BY <2>1 DEF Kept
  <2>2. Told1(d) /\ Sole1(d) /\ d \in Devices
    BY <1>0 DEF Kept, Pure
  <2>3. /\ OldId(d) \in Ids /\ NewId(d) \in Ids /\ OldId(d) # NewId(d)
        /\ OldId(d) \in Own(d) /\ NewId(d) \in Own(d) /\ OldId(d) # None
    BY <2>2, NoneAssumption DEF OldId, NewId, Ids, Own
  <2>4. \A j \in DOMAIN pass.moves :
          j \in Own(d) \/ pass.moves[j] = NewId(d) => j = OldId(d) /\ pass.moves[j] = NewId(d)
    BY <2>1, <2>2 DEF Sole1
  <2>5. \A i \in Ids : NewId(d) \notin Movers(i)
    BY <2>3, <2>4 DEF Movers
  <2>6. \A i \in Ids : OldId(d) \in Movers(i) => OldId(d) \in DOMAIN pass.moves
    BY DEF Movers
  <2>7. \A j \in Movers(NewId(d)) : j = OldId(d) /\ j \in DOMAIN pass.moves
    BY <2>4 DEF Movers
  <2>8. CASE entity[NewId(d)] = OldId(d)
    <3>1. entity'[NewId(d)] = OldId(d)
      BY <1>3, <2>3, <2>5, <2>8, EntitiesMove
    <3> QED
      BY <2>1, <2>2, <3>1 DEF Told1, At, Own
  <2>9. CASE entity[NewId(d)] = None /\ entity[OldId(d)] = OldId(d) /\ OldId(d) \in DOMAIN pass.moves
    <3>1. OldId(d) \in Movers(NewId(d))
      BY <2>3, <2>4, <2>9 DEF Movers
    <3>2. entity'[NewId(d)] = OldId(d)
      BY <1>3, <2>3, <2>7, <2>9, <3>1, EntitiesMove
    <3> QED
      BY <2>1, <2>2, <3>2 DEF Told1, At, Own
  <2>10. CASE entity[NewId(d)] = None /\ entity[OldId(d)] = OldId(d) /\ OldId(d) \notin DOMAIN pass.moves
    <3>1. PICK k \in 1 .. Slots : OldId(d) \in registry[k].ids
      BY <2>2, <2>3, <2>10 DEF Told1
    <3>2. d \notin pass.seen
      <4>1. At(d, k) /\ registry[k].ids # {NewId(d)}
        BY <2>3, <3>1 DEF At
      <4> QED
        BY <2>1, <2>2, <4>1 DEF Told1
    <3>3. entity'[NewId(d)] = None
      BY <1>3, <2>3, <2>7, <2>10, EntitiesMove
    <3>4. entity'[OldId(d)] = OldId(d)
      BY <1>3, <2>3, <2>6, <2>10, EntitiesMove
    <3> QED
      BY <2>1, <2>2, <3>1, <3>2, <3>3, <3>4 DEF Told1, At
  <2> QED
    BY <2>2, <2>8, <2>9, <2>10 DEF Told1
<1>4. CASE AddEntities
  <2>1. PICK i \in pass.todo, k \in 1 .. Slots :
          /\ i \in Ids /\ i[1] \in Devices /\ entry.state = "platforms" /\ UNCHANGED <<home, entry, flow>>
          /\ \A m \in MacsOf(i) : m[1] = home.mac[i[1]]
          /\ Joins(i, k)
          /\ registry'[k].ids = registry[k].ids \cup {i}
          /\ registry'[k].macs = IF registry[k].ids = {} THEN MacsOf(i) ELSE registry[k].macs \cup MacsOf(i)
          /\ \A l \in 1 .. Slots \ {k} : registry'[l] = registry[l]
          /\ entity'[i] = (IF entity[i] = None THEN i ELSE entity[i])
          /\ \A j \in Ids \ {i} : entity'[j] = entity[j]
          /\ pass' = [pass EXCEPT !.todo = @ \ {i}]
          /\ history'.named = history.named
          /\ history'.told = IF i[2] = "old" /\ MacsOf(i) # {} THEN history.told \cup {i[1]} ELSE history.told
    BY <1>4, EntitiesAdded
  <2> SUFFICES ASSUME NEW d \in history'.told, Sole(d)' PROVE Told1(d)'
    BY DEF Kept
  <2>2. pass'.seen = pass.seen
    BY <2>1 DEF TypeOK
  <2>3. d \in Devices /\ Sole(d) /\ Sole1(d)
    <3>1. d \in Devices
      BY <1>0, <2>1
    <3>2. Sole(d)
      BY <2>1
    <3> QED
      BY <3>1, <3>2 DEF Pure
  <2>4. /\ i[1] = d => At(d, k) \/ registry[k].ids = {}
        /\ i[1] # d => ~At(d, k)
    BY <2>1, <2>3, JoinsOwn
  <2>5. /\ OldId(d) \in Ids /\ NewId(d) \in Ids /\ OldId(d) # NewId(d)
        /\ OldId(d) \in Own(d) /\ NewId(d) \in Own(d) /\ OldId(d) # None
    BY <2>3, NoneAssumption DEF OldId, NewId, Ids, Own
  <2>6. \A l \in 1 .. Slots \ {k} : At(d, l)' <=> At(d, l)
    BY <2>1 DEF At
  <2>7. i[1] = d => i \in {OldId(d), NewId(d)}
    BY <2>1 DEF OldId, NewId, Ids
  <2>8. i[2] = "old" => BeforeV4 /\ pass.seen = {}
    BY <2>1 DEF BeforeV4, OldTodo, Phases, Setups, NewId
  <2>9. CASE i[1] # d
    <3>1. i \notin Own(d) /\ d \in history.told
      BY <2>1, <2>9 DEF Own, OldId, NewId
    <3>2. Told1(d)
      BY <2>3, <3>1 DEF Kept
    <3>3. ~At(d, k) /\ ~At(d, k)'
      BY <2>1, <2>4, <2>9, <3>1 DEF At
    <3>4. entity'[OldId(d)] = entity[OldId(d)] /\ entity'[NewId(d)] = entity[NewId(d)]
      BY <2>1, <2>5, <3>1
    <3>5. \A l \in 1 .. Slots : (OldId(d) \in registry[l].ids <=> OldId(d) \in registry'[l].ids)
                                /\ (NewId(d) \in registry[l].ids <=> NewId(d) \in registry'[l].ids)
      BY <2>1, <2>5, <3>1
    <3> QED
      BY <2>1, <2>2, <2>6, <3>2, <3>3, <3>4, <3>5 DEF Told1
  <2>10. CASE i[1] = d /\ d \in history.told
    <3>1. Told1(d)
      BY <2>3, <2>10 DEF Kept
    <3>2. registry[k].ids # {}
      <4>1. PICK l \in 1 .. Slots : At(d, l)
        BY <3>1 DEF Told1
      <4>2. CASE i = OldId(d)
        <5>1. i \in registry[l].ids
          BY <2>8, <4>1, <4>2 DEF Phases, At, Own, OldId, NewId
        <5> QED
          BY <2>1, <5>1 DEF Joins
      <4>3. CASE i = NewId(d)
        <5>1. d \in pass.seen
          BY <2>1, <4>3 DEF Phases, Setups, NewId
        <5>2. \E n \in 1 .. Slots : i \in registry[n].ids
          BY <2>1, <3>1, <4>3, <5>1 DEF Told1
        <5> QED
          BY <2>1, <5>2 DEF Joins
      <4> QED
        BY <2>7, <2>10, <4>2, <4>3
    <3>3. At(d, k) /\ At(d, k)'
      BY <2>1, <2>4, <2>10, <3>2 DEF At
    <3>4. \A l \in 1 .. Slots : At(d, l)' => home.mac[d] \in EitherOrder(registry'[l].macs)
      BY <2>1, <2>6, <3>1, <3>2, <3>3 DEF Told1, EitherOrder
    <3>5. \A l \in 1 .. Slots : registry[l].ids \subseteq registry'[l].ids
      BY <2>1
    <3>6. d \in pass.seen => i = NewId(d) /\ entity[NewId(d)] = OldId(d)
      BY <2>1, <2>7, <2>8, <2>10, <3>1 DEF Told1, OldId
    <3>7. i = NewId(d) => d \in pass.seen
      BY <2>1 DEF Phases, Setups, NewId
    <3>8. /\ entity[NewId(d)] = OldId(d) => entity'[NewId(d)] = OldId(d)
          /\ entity[OldId(d)] = OldId(d) => entity'[OldId(d)] = OldId(d)
          /\ i # NewId(d) => entity'[NewId(d)] = entity[NewId(d)]
      BY <2>1, <2>5
    <3>9. \/ entity'[NewId(d)] = OldId(d)
          \/ /\ entity'[NewId(d)] = None /\ entity'[OldId(d)] = OldId(d)
             /\ \E l \in 1 .. Slots : OldId(d) \in registry'[l].ids
      BY <2>1, <3>1, <3>5, <3>6, <3>7, <3>8 DEF Told1
    <3> QED
      BY <2>1, <2>2, <2>6, <3>1, <3>3, <3>4, <3>5, <3>8, <3>9 DEF Told1
  <2>11. CASE i[1] = d /\ d \notin history.told
    <3>1. i[2] = "old" /\ MacsOf(i) # {} /\ i = OldId(d)
      BY <2>1, <2>7, <2>11 DEF OldId, NewId
    <3>2. /\ \A l \in 1 .. Slots : \A j \in registry[l].ids : j[2] = "old"
          /\ entity[NewId(d)] = None /\ pass.seen = {}
      BY <2>3, <2>8, <3>1 DEF Phases
    <3>3. \A l \in 1 .. Slots : At(d, l) => i \in registry[l].ids
      BY <3>1, <3>2 DEF At, Own, NewId
    <3>4. \A l \in 1 .. Slots : At(d, l)' => l = k
      BY <2>1, <2>6, <3>3 DEF Joins, TypeOK
    <3>5. At(d, k)' /\ i \in registry'[k].ids
      BY <2>1, <2>5, <3>1 DEF At
    <3>6. home.mac[d] \in EitherOrder(registry'[k].macs)
      <4>1. PICK m \in MacsOf(i) : m[1] = home.mac[d]
        BY <2>1, <2>11, <3>1
      <4> QED
        BY <2>1, <4>1 DEF EitherOrder
    <3>7. entity'[NewId(d)] = None /\ entity'[OldId(d)] = OldId(d)
      BY <2>1, <2>5, <3>1, <3>2 DEF Makers
    <3> QED
      BY <2>1, <2>2, <3>1, <3>2, <3>4, <3>5, <3>6, <3>7 DEF Told1
  <2> QED
    BY <2>9, <2>10, <2>11
<1> QED
  BY <1>1, <1>2, <1>3, <1>4, <1>5, QuietSteps

-----------------------------------------------------------------------------
(* What follows *)

LEMMA NextInvariant == IInv /\ [Next]_vars => IInv'
BY NextType, NextPhases, NextLogins, NextKin, NextMakers, NextMoves, NextPure, NextKept DEF IInv

LEMMA Invariant == Spec => []IInv
<1>1. Init => IInv
  BY InitInvariant
<1>2. IInv /\ [Next]_vars => IInv'
  BY NextInvariant
<1> QED
  BY <1>1, <1>2, PTL DEF Spec

\* Every variable keeps its type, whatever the number of devices and changes: a login
\* costs one reload and no more, and no id is ever that of two registry entries.
THEOREM TypeCorrect == Spec => []TypeOK
<1>1. IInv => TypeOK
  BY DEF IInv
<1> QED
  BY <1>1, Invariant, PTL

\* A login that was asked for can be made, and the old cloud's entry asks only when the
\* account has moved.
THEOREM LoginsAsked == Spec => []LoginAsked
<1>1. IInv => LoginAsked
  BY DEF IInv, Logins
<1> QED
  BY <1>1, Invariant, PTL

\* A device whose MAC was told, and is of no other, has its entities under the new id
\* once its v4 entry is loaded, if no match by name has touched it.
THEOREM HistoryIsKept == Spec => []HistoryKept
<1>1. IInv => HistoryKept
  <2> SUFFICES ASSUME IInv, entry.state = "loaded", NEW d \in history.told \cap pass.seen, OwnMac(d),
                      d \notin history.named
               PROVE  entity[NewId(d)] = OldId(d)
    BY DEF HistoryKept
  <2>1. Told1(d)
    BY DEF IInv, Kept, Sole
  <2> QED
    BY <2>1 DEF Told1
<1> QED
  BY <1>1, Invariant, PTL

\* The pass gives the entities of one breezer to another only by name, or for want of
\* any device of theirs that shares the MAC.
THEOREM OwnEntities == Spec => OneBreezer
<1>1. ASSUME IInv, [Next]_vars, NEW i \in Ids, entity'[i] \notin {None, entity[i]}
      PROVE  LET d == entity'[i][1]
             IN \/ d = i[1] \/ i[1] \in history.named
                \/ home.mac[d] = home.mac[i[1]] /\ d \notin pass.seen
  <2>0. TypeOK /\ Phases /\ Moves
    BY <1>1 DEF IInv
  <2>1. CASE MigrateEntities
    <3>1. PICK j \in Movers(i) : entity'[i] = entity[j]
      BY <1>1, <2>0, <2>1, EntitiesMove
    <3>2. j \in DOMAIN pass.moves /\ pass.moves[j] = i /\ entity[j] # None
      BY <3>1 DEF Movers
    <3>3. PICK e \in pass.seen : /\ i = NewId(e)
                                 /\ \/ e \in history.named
                                    \/ Alone(e) /\ home.mac[entity[j][1]] = home.mac[e]
      BY <2>0, <2>1, <3>2 DEF MigrateEntities, Moves
    <3> QED
      BY <3>1, <3>3 DEF Alone, NewId
  <2>2. CASE AddEntities
    <3>1. PICK j \in Ids : /\ entity'[j] = (IF entity[j] = None THEN j ELSE entity[j])
                           /\ \A n \in Ids \ {j} : entity'[n] = entity[n]
      BY <2>0, <2>2, EntitiesAdded
    <3>2. entity'[i] = i
      BY <1>1, <3>1
    <3> QED
      BY <3>2
  <2>3. CASE SetupV4 \/ MigrateDevice \/ Quiet
    BY <1>1, <2>3 DEF SetupV4, MigrateDevice, Quiet
  <2> QED
    BY <1>1, <2>0, <2>1, <2>2, <2>3, QuietSteps
<1>2. IInv /\ [Next]_vars =>
        [\A i \in Ids : entity'[i] \notin {None, entity[i]} =>
           LET d == entity'[i][1]
           IN \/ d = i[1] \/ i[1] \in history.named
              \/ home.mac[d] = home.mac[i[1]] /\ d \notin pass.seen]_vars
  BY <1>1
<1> QED
  BY <1>2, Invariant, PTL DEF Spec, OneBreezer

\* No entity is lost, whatever is added, moved or collides: it keeps its id, or gets one
\* that was free.
THEOREM NothingIsLost == Spec => NothingLost
<1>1. ASSUME IInv, [Next]_vars, NEW i \in Ids, entity[i] # None
      PROVE  entity'[i] = entity[i] \/ \E j \in Ids : entity[j] = None /\ entity'[j] = entity[i]
  <2>0. TypeOK /\ Phases
    BY <1>1 DEF IInv
  <2>1. CASE MigrateEntities
    BY <1>1, <2>0, <2>1, EntitiesMove
  <2>2. CASE AddEntities
    <3>1. PICK j \in Ids : /\ entity'[j] = (IF entity[j] = None THEN j ELSE entity[j])
                           /\ \A n \in Ids \ {j} : entity'[n] = entity[n]
      BY <2>0, <2>2, EntitiesAdded
    <3> QED
      BY <1>1, <3>1
  <2>3. CASE SetupV4 \/ MigrateDevice \/ Quiet
    BY <2>3 DEF SetupV4, MigrateDevice, Quiet
  <2> QED
    BY <1>1, <2>0, <2>1, <2>2, <2>3, QuietSteps
<1>2. IInv /\ [Next]_vars =>
        [\A i \in Ids : entity[i] # None =>
           entity'[i] = entity[i] \/ \E j \in Ids : entity[j] = None /\ entity'[j] = entity[i]]_vars
  BY <1>1
<1> QED
  BY <1>2, Invariant, PTL DEF Spec, NothingLost

=============================================================================
