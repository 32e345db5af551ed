------------------------------ MODULE Migration ------------------------------
(***************************************************************************)
(* The three migrations of async_setup_entry (__init__.py) and the         *)
(* entities and devices that are registered after them.  Versions up to    *)
(* 0.3.x registered them under the speaker's hardware name; now they are    *)
(* registered under its serial, once that is known.  Home Assistant keeps  *)
(* config entries, devices and entities in three files, each written some  *)
(* time after it changed: a crash may lose any of the three migrations and *)
(* keep the others.                                                        *)
(*                                                                         *)
(* The three migrations run without an await in between, so they are one   *)
(* step.  The platforms add the entities later, one at a time.             *)
(***************************************************************************)
EXTENDS Functions

CONSTANTS
  Entries,   \* config entries
  Speakers,
  Keys,      \* what a speaker's entities control
  Removable  \* entries the user may remove

ASSUME MigrationAssumption == Removable \subseteq Entries

VARIABLES
  speakerOf, \* the speaker of each entry, which is always the same; a speaker
             \* may have two
  told,     \* speakers that report their serials
  configs,  \* of each entry there is: whether its unique id is the serial
  devices,  \* the device registry
  entities, \* the entity registry
  disk,     \* what is written of configs, devices and entities
  state,    \* "off", "adding" (async_forward_entry_setups) or "loaded"
  base,     \* AdamAudioCoordinator.entity_unique_id_base of an entry that is up
  provided  \* the entities that entries provide: pairs of entry and key

registries == <<configs, devices, entities>>
worldVars == <<speakerOf, told>>
vars == <<worldVars, registries, disk, state, base, provided>>

\* Hardware names are taken to be unique, as serials are.
Name(e)   == <<"name", speakerOf[e]>>
Serial(e) == <<"serial", speakerOf[e]>>
Bases     == {"name", "serial"} \X Speakers

\* An entity keeps its entity_id for ever.  "old" ones were there at the start
\* under the name, "left" ones under the serial: "a leftover from a previous
\* partial migration".  Devices likewise.
Ages == {"old", "left", "new"}
Entity(e, k, age, b) == [of |-> e, key |-> k, age |-> age, entry |-> e, base |-> b]
Device(e, age, b)    == [age |-> age, entry |-> e, base |-> b]

\* AdamAudioCoordinator.device_serial after async_setup is not empty: a serial
\* that is stored has been reported.
SerialKnown(e) == speakerOf[e] \in told

SameSpeaker(e, f) == speakerOf[e] = speakerOf[f]

Up(e)   == state[e] \in {"adding", "loaded"}
OnDisk  == [configs |-> configs, devices |-> devices, entities |-> entities]

\* Nothing is under a serial that was never known.
Init ==
  /\ speakerOf \in [Entries -> Speakers]
  /\ told \in SUBSET Speakers
  /\ configs \in [Entries -> BOOLEAN]
  /\ \A e \in Entries : configs[e] =>
       speakerOf[e] \in told /\ \A f \in Entries : SameSpeaker(e, f) /\ configs[f] => e = f
  /\ devices \in SUBSET ({Device(e, "old", Name(e)) : e \in Entries}
                           \cup {Device(e, "left", Serial(e)) : e \in {x \in Entries : SerialKnown(x)}})
  /\ entities \in SUBSET
       ({Entity(e, k, "old", Name(e)) : e \in Entries, k \in Keys}
          \cup {Entity(e, k, "left", Serial(e)) : e \in {x \in Entries : SerialKnown(x)}, k \in Keys})
  /\ \A x, y \in entities : x.key = y.key /\ x.base = y.base => x = y
  /\ disk = OnDisk
  /\ state = [e \in Entries |-> "off"]
  /\ base = [e \in Entries |-> Name(e)]
  /\ provided = {}

----------------------------------------------------------------------------
\* Mutant: the device follows the entry's unique id: if that is the serial
\* already, so must be the device's.
_async_migrate_device_identifiers_Once(e) ==
  devices' =
    IF ~SerialKnown(e) \/ configs[e] \/ \E d \in devices : d.entry = e /\ d.base = Serial(e)
      THEN devices
      ELSE {IF d.entry = e /\ d.base = Name(e) THEN [d EXCEPT !.base = Serial(e)] ELSE d :
              d \in devices}

_async_migrate_device_identifiers(e) ==
  devices' =
    IF ~SerialKnown(e) \/ \E d \in devices : d.entry = e /\ d.base = Serial(e)
      THEN devices
      ELSE {IF d.entry = e /\ d.base = Name(e) THEN [d EXCEPT !.base = Serial(e)] ELSE d :
              d \in devices}

_async_migrate_entry_unique_id(e) ==
  configs' =
    IF ~SerialKnown(e) \/ \E f \in DOMAIN configs : SameSpeaker(e, f) /\ configs[f]
      THEN configs
      ELSE [configs EXCEPT ![e] = TRUE]

\* Mutant: an entity that has the new id already is not looked for.
_async_migrate_entity_unique_ids_Blind(e) ==
  entities' =
    IF ~SerialKnown(e) THEN entities
    ELSE {IF x.entry = e /\ x.base = Name(e) THEN [x EXCEPT !.base = Serial(e)] ELSE x :
            x \in entities}

\* Mutant: all the integration's entities are gone through.
_async_migrate_entity_unique_ids_All(e) ==
  entities' =
    IF ~SerialKnown(e) THEN entities
    ELSE {IF x.base = Name(e) /\ ~\E y \in entities : y.key = x.key /\ y.base = Serial(e)
            THEN [x EXCEPT !.base = Serial(e)] ELSE x : x \in entities}

\* Mutant: the entities are gone through only when the entry's unique id is not
\* the serial yet.
_async_migrate_entity_unique_ids_Once(e) ==
  entities' =
    IF ~SerialKnown(e) \/ configs[e] THEN entities
    ELSE {IF /\ x.entry = e /\ x.base = Name(e)
             /\ ~\E y \in entities : y.key = x.key /\ y.base = Serial(e)
            THEN [x EXCEPT !.base = Serial(e)] ELSE x : x \in entities}

_async_migrate_entity_unique_ids(e) ==
  entities' =
    IF ~SerialKnown(e) THEN entities
    ELSE {IF /\ x.entry = e /\ x.base = Name(e)
             /\ ~\E y \in entities : y.key = x.key /\ y.base = Serial(e)
            THEN [x EXCEPT !.base = Serial(e)] ELSE x : x \in entities}

\* async_setup_entry, from the end of coordinator.async_setup to the platforms.
Load(e) ==
  /\ e \in DOMAIN configs /\ state[e] = "off"
  /\ _async_migrate_device_identifiers(e)
  /\ _async_migrate_entry_unique_id(e)
  /\ _async_migrate_entity_unique_ids(e)
  /\ state' = [state EXCEPT ![e] = "adding"]
  /\ base' = [base EXCEPT ![e] = IF SerialKnown(e) THEN Serial(e) ELSE Name(e)]
  /\ UNCHANGED <<worldVars, disk, provided>>

\* A platform adds an entity: unless one with its id is there for another
\* entry, it takes the registered one over, or registers it, and its device.
AddEntity(e, k) ==
  LET same == {x \in entities : x.base = base[e] /\ x.key = k} IN
  /\ state[e] = "adding" /\ <<e, k>> \notin provided
  /\ ~\E f \in Entries : f # e /\ Up(f) /\ base[f] = base[e] /\ <<f, k>> \in provided
  /\ entities' = IF same = {} THEN entities \cup {Entity(e, k, "new", base[e])}
                 ELSE (entities \ same) \cup {[x EXCEPT !.entry = e] : x \in same}
  /\ devices' = IF \E d \in devices : d.entry = e /\ d.base = base[e] THEN devices
                ELSE devices \cup {Device(e, "new", base[e])}
  /\ provided' = provided \cup {<<e, k>>}
  /\ UNCHANGED <<worldVars, configs, disk, state, base>>

\* async_forward_entry_setups returns; entities whose id another entry's have
\* are ignored.
Added(e) ==
  /\ state[e] = "adding"
  /\ \A k \in Keys : \E f \in Entries : Up(f) /\ base[f] = base[e] /\ <<f, k>> \in provided
  /\ state' = [state EXCEPT ![e] = "loaded"]
  /\ UNCHANGED <<worldVars, registries, disk, base, provided>>

Without(e) == {p \in provided : p[1] # e}

\* Mutant: the entry's entities stay.
Unload_Keeps(e) ==
  /\ state[e] = "loaded"
  /\ state' = [state EXCEPT ![e] = "off"]
  /\ UNCHANGED <<worldVars, registries, disk, base, provided>>

Unload(e) ==
  /\ state[e] = "loaded"
  /\ state' = [state EXCEPT ![e] = "off"]
  /\ provided' = Without(e)
  /\ UNCHANGED <<worldVars, registries, disk, base>>

DevicesWithout(e, ds)  == {d \in ds : d.entry # e}
EntitiesWithout(e, xs) == {x \in xs : x.entry # e}
ConfigsWithout(e, cs)  == Restrict(cs, DOMAIN cs \ {e})

\* The user removes an entry; its devices and entities go with it.  A removal
\* that a crash undoes is left out.
Remove(e) ==
  /\ e \in Removable \cap DOMAIN configs /\ state[e] # "adding"
  /\ state' = [state EXCEPT ![e] = "off"]
  /\ provided' = Without(e)
  /\ configs' = ConfigsWithout(e, configs)
  /\ devices' = DevicesWithout(e, devices)
  /\ entities' = EntitiesWithout(e, entities)
  /\ disk' = [configs  |-> ConfigsWithout(e, disk.configs),
              devices  |-> DevicesWithout(e, disk.devices),
              entities |-> EntitiesWithout(e, disk.entities)]
  /\ UNCHANGED <<worldVars, base>>

\* One of the files is written.
Save ==
  /\ \E file \in DOMAIN disk : disk' = [disk EXCEPT ![file] = OnDisk[file]]
  /\ UNCHANGED <<worldVars, registries, state, base, provided>>

\* Home Assistant stops, cleanly or not, and starts again.
Start(saved) ==
  /\ configs' = saved.configs /\ devices' = saved.devices /\ entities' = saved.entities
  /\ disk' = saved
  /\ state' = [e \in Entries |-> "off"]
  /\ provided' = {}
  /\ UNCHANGED <<worldVars, base>>

Restart == Start(OnDisk)
Crash   == Start(disk)

\* A speaker begins to report its serial.
Identify(s) ==
  /\ told' = told \cup {s}
  /\ UNCHANGED <<speakerOf, registries, disk, state, base, provided>>

SetUp(e) == Load(e) \/ Added(e) \/ \E k \in Keys : AddEntity(e, k)

Next ==
  \/ \E e \in Entries : SetUp(e) \/ Unload(e) \/ Remove(e)
  \/ Save \/ Restart \/ Crash
  \/ \E s \in Speakers : Identify(s)

Spec == Init /\ [][Next]_vars

----------------------------------------------------------------------------
EntityOk(x) == x.of \in Entries /\ x.key \in Keys /\ x.age \in Ages
                 /\ x.entry \in Entries /\ x.base \in Bases
DeviceOk(d) == d.age \in Ages /\ d.entry \in Entries /\ d.base \in Bases

TypeOK ==
  /\ speakerOf \in [Entries -> Speakers] /\ told \subseteq Speakers
  /\ DOMAIN configs \subseteq Entries
  /\ \A e \in DOMAIN configs : configs[e] \in BOOLEAN
  /\ \A d \in devices : DeviceOk(d)
  /\ \A x \in entities : EntityOk(x)
  /\ state \in [Entries -> {"off", "adding", "loaded"}]
  /\ base \in [Entries -> Bases]
  /\ provided \subseteq Entries \X Keys
  /\ \A e \in Entries : state[e] = "off" => Without(e) = provided

\* No two registered entities have the same unique id, and no two devices of an
\* entry the same identifier, whichever migration was lost: "renaming the stale
\* entity onto it would silently merge two distinct registry entries".
UniqueEntities ==
  /\ \A x, y \in entities : x.base = y.base /\ x.key = y.key => x = y
  /\ \A x, y \in devices : x.base = y.base /\ x.entry = y.entry => x = y

\* Entries whose speaker has no other entry.
Alone == {e \in Entries : \A f \in Entries : SameSpeaker(e, f) => f = e}

\* "Renaming the existing entries in place keeps their entity_id (and history)
\* intact", "preserves the device id": what an entry provides is what was there
\* before, if anything was; "a duplicate set of entities" is never made.
KeepsRegistrations ==
  /\ \A x, y \in entities :
       x.of = y.of /\ x.key = y.key /\ x.of \in Alone /\ x.age = "new" => x = y
  /\ \A x, y \in devices : x.entry = y.entry /\ x.age = "new" => x = y

\* What an entry provides stays registered, under its id and under the entry,
\* although entries of the same speaker take entities over from each other.
ProvidedIsOwn ==
  \A p \in provided : \E x \in entities :
    x.entry = p[1] /\ x.key = p[2] /\ x.base = base[p[1]]

\* Once an entry is set up with its serial nothing of it is left behind under
\* the name, whatever an earlier attempt left half done, but entities and
\* devices whose place is taken.
Completes ==
  [][ \A e \in Entries : Load(e) /\ base'[e] = Serial(e) =>
        /\ \A x \in entities' : x.entry = e /\ x.base = Name(e)
              => \E y \in entities' : y.base = Serial(e) /\ y.key = x.key
        /\ \A x \in devices' : x.entry = e /\ x.base = Name(e)
              => \E y \in devices' : y.base = Serial(e) /\ y.entry = e
        /\ \E f \in DOMAIN configs' : SameSpeaker(e, f) /\ configs'[f] ]_vars
=============================================================================
