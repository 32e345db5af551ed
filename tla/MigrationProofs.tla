--------------------------- MODULE MigrationProofs ---------------------------
(***************************************************************************)
(* Proofs about Migration, for any number of entries, speakers and keys.   *)
(* The invariant has three parts: the types; what each of the two          *)
(* registries may hold, which is the same in memory and on disk, as a      *)
(* crash makes the one the other and knows nothing of the third file; and  *)
(* that an entry which is up looks where its devices and entities are.     *)
(***************************************************************************)
EXTENDS Migration, TLAPS

EntityType == [of : Entries, key : Keys, age : Ages, entry : Entries, base : Bases]
DeviceType == [age : Ages, entry : Entries, base : Bases]
ConfigType == UNION {[E -> BOOLEAN] : E \in SUBSET Entries}
FileType   ==
  [configs : ConfigType, devices : SUBSET DeviceType, entities : SUBSET EntityType]

TypeInv ==
  /\ speakerOf \in [Entries -> Speakers]
  /\ told \subseteq Speakers
  /\ OnDisk \in FileType
  /\ disk \in FileType
  /\ state \in [Entries -> {"off", "adding", "loaded"}]
  /\ base \in [Entries -> Bases]
  /\ provided \subseteq Entries \X Keys
  /\ \A p \in provided : Up(p[1])

\* What is registered for an entry is registered under the name or the serial
\* of its speaker, and under the serial only if that is known.
OfSpeaker(e, b) ==
  \/ b = Name(e)
  \/ b = Serial(e) /\ SerialKnown(e)

\* What the entity registry may hold at any moment of any migration.
EntitiesInv(xs) ==
  /\ \A x \in xs : OfSpeaker(x.of, x.base) /\ SameSpeaker(x.of, x.entry)
  /\ \A x, y \in xs : x.base = y.base /\ x.key = y.key => x = y
  /\ \A x, y \in xs :
       x.of = y.of /\ x.key = y.key /\ x.of \in Alone /\ x.age = "new" => x = y

\* What the device registry may hold.
DevicesInv(ds) ==
  /\ \A d \in ds : OfSpeaker(d.entry, d.base)
  /\ \A c, d \in ds : c.base = d.base /\ c.entry = d.entry => c = d
  /\ \A c, d \in ds : c.entry = d.entry /\ c.age = "new" => c = d

FilesInv ==
  /\ EntitiesInv(entities) /\ EntitiesInv(disk.entities)
  /\ DevicesInv(devices) /\ DevicesInv(disk.devices)

\* An entry that is up looks for its devices and entities where they are: there
\* is none anywhere unless there is one where it looks.
DevicesFound(e) ==
  \A d \in devices : d.entry = e =>
    \E c \in devices : c.entry = e /\ c.base = base[e]

EntitiesFound(e) ==
  \A x \in entities : x.of = e =>
    \E y \in entities : y.of = e /\ y.key = x.key /\ y.base = base[e]

UpInv ==
  \A e \in Entries : Up(e) =>
    /\ OfSpeaker(e, base[e])
    /\ DevicesFound(e)
    /\ e \in Alone => EntitiesFound(e)

----------------------------------------------------------------------------
(* Names and types. *)

\* Names are no serials, and those of two speakers differ.
LEMMA NamesDiffer ==
  ASSUME TypeInv, NEW e \in Entries, NEW f \in Entries
  PROVE  /\ Name(e) \in Bases /\ Serial(e) \in Bases
         /\ Name(e) # Serial(f)
         /\ Name(e) = Name(f) <=> SameSpeaker(e, f)
         /\ Serial(e) = Serial(f) <=> SameSpeaker(e, f)
  BY DEF Name, Serial, Bases, SameSpeaker, TypeInv

\* The speakers of the entries never change, and those that have told their
\* serials have told them.
LEMMA NextWorld ==
  [Next]_vars => UNCHANGED speakerOf /\ told \subseteq told'
<1> SUFFICES ASSUME [Next]_vars PROVE UNCHANGED speakerOf /\ told \subseteq told'
  OBVIOUS
<1>1. CASE \E e \in Entries : SetUp(e) \/ Unload(e) \/ Remove(e)
  BY <1>1 DEF SetUp, Load, Added, AddEntity, Unload, Remove, worldVars
<1>2. CASE Save \/ Restart \/ Crash
  BY <1>2 DEF Save, Restart, Crash, Start, worldVars
<1>3. CASE \E s \in Speakers : Identify(s)
  BY <1>3 DEF Identify
<1>4. CASE UNCHANGED vars
  BY <1>4 DEF vars, worldVars
<1> QED
  BY <1>1, <1>2, <1>3, <1>4 DEF Next

LEMMA TypeInvTypes == TypeInv => TypeOK
<1> SUFFICES ASSUME TypeInv PROVE TypeOK
  OBVIOUS
<1>1. configs \in ConfigType /\ devices \subseteq DeviceType /\ entities \subseteq EntityType
  BY DEF TypeInv, OnDisk, FileType
<1>2. DOMAIN configs \subseteq Entries /\ \A e \in DOMAIN configs : configs[e] \in BOOLEAN
  BY <1>1 DEF ConfigType
<1>3. \A d \in devices : DeviceOk(d)
  BY <1>1 DEF DeviceOk, DeviceType
<1>4. \A x \in entities : EntityOk(x)
  BY <1>1 DEF EntityOk, EntityType
<1>5. \A e \in Entries : state[e] = "off" => Without(e) = provided
  BY DEF TypeInv, Up, Without
<1> QED
  BY <1>2, <1>3, <1>4, <1>5 DEF TypeInv, TypeOK

LEMMA InitTypeInv == Init => TypeInv
<1> SUFFICES ASSUME Init PROVE TypeInv
  OBVIOUS
<1>1. configs \in ConfigType
  BY DEF Init, ConfigType
<1>2. \A e \in Entries : Name(e) \in Bases /\ Serial(e) \in Bases
  BY DEF Init, Name, Serial, Bases
<1>3. devices \subseteq DeviceType
  BY <1>2 DEF Init, Device, DeviceType, Ages
<1>4. entities \subseteq EntityType
  BY <1>2 DEF Init, Entity, EntityType, Ages
<1>5. OnDisk \in FileType
  BY <1>1, <1>3, <1>4 DEF OnDisk, FileType
<1> QED
  BY <1>2, <1>5 DEF Init, TypeInv

----------------------------------------------------------------------------
(* The three migrations keep the types. *)

LEMMA LoadType ==
  ASSUME TypeInv, NEW e \in Entries, Load(e) PROVE TypeInv'
<1>1. configs \in ConfigType /\ devices \subseteq DeviceType /\ entities \subseteq EntityType
  BY DEF TypeInv, OnDisk, FileType
<1>2. Serial(e) \in Bases /\ Name(e) \in Bases
  BY NamesDiffer
<1>3. devices' \subseteq DeviceType
  BY <1>1, <1>2 DEF Load, _async_migrate_device_identifiers, DeviceType
<1>4. entities' \subseteq EntityType
  BY <1>1, <1>2 DEF Load, _async_migrate_entity_unique_ids, EntityType
<1>5. configs' \in ConfigType
  BY <1>1 DEF Load, _async_migrate_entry_unique_id, ConfigType
<1>6. OnDisk' \in FileType
  BY <1>3, <1>4, <1>5 DEF OnDisk, FileType
<1>7. base' \in [Entries -> Bases]
  BY <1>2 DEF Load, TypeInv
<1>8. state' \in [Entries -> {"off", "adding", "loaded"}] /\ \A p \in provided : Up(p[1])'
  BY DEF Load, TypeInv, Up
<1> QED
  BY <1>6, <1>7, <1>8 DEF Load, worldVars, TypeInv

LEMMA AddEntityType ==
  ASSUME TypeInv, NEW e \in Entries, NEW k \in Keys, AddEntity(e, k) PROVE TypeInv'
<1>1. configs \in ConfigType /\ devices \subseteq DeviceType /\ entities \subseteq EntityType
  BY DEF TypeInv, OnDisk, FileType
<1>2. base[e] \in Bases
  BY DEF TypeInv
<1>3. entities' \subseteq EntityType
  BY <1>1, <1>2 DEF AddEntity, Entity, EntityType, Ages
<1>4. devices' \subseteq DeviceType
  BY <1>1, <1>2 DEF AddEntity, Device, DeviceType, Ages
<1>5. OnDisk' \in FileType
  BY <1>1, <1>3, <1>4 DEF AddEntity, OnDisk, FileType
<1> QED
  BY <1>5 DEF AddEntity, worldVars, TypeInv, Up

LEMMA RemoveType ==
  ASSUME TypeInv, NEW e \in Entries, Remove(e) PROVE TypeInv'
<1>1. ASSUME NEW cs \in ConfigType PROVE ConfigsWithout(e, cs) \in ConfigType
  <2>1. PICK E \in SUBSET Entries : cs \in [E -> BOOLEAN]
    BY <1>1 DEF ConfigType
  <2>2. E \ {e} \in SUBSET Entries
    OBVIOUS
  <2>3. ConfigsWithout(e, cs) \in [E \ {e} -> BOOLEAN]
    BY <2>1 DEF ConfigsWithout, Restrict
  <2> QED
    BY <2>2, <2>3 DEF ConfigType
<1>2. \A ds \in SUBSET DeviceType : DevicesWithout(e, ds) \in SUBSET DeviceType
  BY DEF DevicesWithout
<1>3. \A xs \in SUBSET EntityType : EntitiesWithout(e, xs) \in SUBSET EntityType
  BY DEF EntitiesWithout
<1>4. OnDisk' \in FileType
  BY <1>1, <1>2, <1>3 DEF Remove, TypeInv, OnDisk, FileType
<1>5. disk' \in FileType
  BY <1>1, <1>2, <1>3 DEF Remove, TypeInv, FileType
<1> QED
  BY <1>4, <1>5 DEF Remove, worldVars, TypeInv, Without, Up

LEMMA SaveType == ASSUME TypeInv, Save PROVE TypeInv'
<1>1. PICK file \in DOMAIN disk : disk' = [disk EXCEPT ![file] = OnDisk[file]]
  BY DEF Save
<1>2. file \in {"configs", "devices", "entities"}
  BY DEF TypeInv, FileType
<1>3. disk' \in FileType
  BY <1>1, <1>2 DEF TypeInv, FileType
<1> QED
  BY <1>3 DEF Save, worldVars, registries, TypeInv, OnDisk, Up

LEMMA StartType == ASSUME TypeInv, Restart \/ Crash PROVE TypeInv'
<1>1. ASSUME NEW saved \in FileType, Start(saved) PROVE TypeInv'
  <2>1. OnDisk' \in FileType
    BY <1>1 DEF Start, OnDisk, FileType
  <2> QED
    BY <1>1, <2>1 DEF Start, worldVars, TypeInv
<1>2. CASE Restart
  <2>1. PICK saved : saved = OnDisk
    OBVIOUS
  <2>2. saved \in FileType /\ Start(saved)
    BY <1>2, <2>1 DEF Restart, TypeInv
  <2> QED
    BY <1>1, <2>2
<1>3. CASE Crash
  <2>1. PICK saved : saved = disk
    OBVIOUS
  <2>2. saved \in FileType /\ Start(saved)
    BY <1>3, <2>1 DEF Crash, TypeInv
  <2> QED
    BY <1>1, <2>2
<1> QED
  BY <1>2, <1>3

LEMMA NextTypeInv == TypeInv /\ [Next]_vars => TypeInv'
<1> SUFFICES ASSUME TypeInv, [Next]_vars PROVE TypeInv'
  OBVIOUS
<1>1. CASE \E e \in Entries : Load(e)
  BY <1>1, LoadType
<1>2. CASE \E e \in Entries, k \in Keys : AddEntity(e, k)
  BY <1>2, AddEntityType
<1>3. CASE \E e \in Entries : Added(e)
  BY <1>3 DEF Added, worldVars, registries, TypeInv, OnDisk, Up
<1>4. CASE \E e \in Entries : Unload(e)
  BY <1>4 DEF Unload, worldVars, registries, TypeInv, OnDisk, Up, Without
<1>5. CASE \E e \in Entries : Remove(e)
  BY <1>5, RemoveType
<1>6. CASE Save \/ Restart \/ Crash
  BY <1>6, SaveType, StartType
<1>7. CASE \E s \in Speakers : Identify(s)
  BY <1>7 DEF Identify, registries, TypeInv, OnDisk, Up
<1>8. CASE UNCHANGED vars
  BY <1>8 DEF vars, worldVars, registries, TypeInv, OnDisk, Up
<1> QED
  BY <1>1, <1>2, <1>3, <1>4, <1>5, <1>6, <1>7, <1>8 DEF Next, SetUp

\* The types of Migration hold for any number of entries, speakers and keys,
\* and an entry that is off provides nothing.
THEOREM MigrationTypeCorrect == Spec => []TypeOK
  BY InitTypeInv, NextTypeInv, TypeInvTypes, PTL DEF Spec

----------------------------------------------------------------------------
(* What an entry provides is its own. *)

LEMMA NextProvided == TypeInv /\ ProvidedIsOwn /\ [Next]_vars => ProvidedIsOwn'
<1> SUFFICES ASSUME TypeInv, ProvidedIsOwn, [Next]_vars PROVE ProvidedIsOwn'
  OBVIOUS
<1> USE DEF ProvidedIsOwn
<1>1. entities \subseteq EntityType
  BY DEF TypeInv, OnDisk, FileType
<1>2. ASSUME NEW e \in Entries, Load(e) PROVE ProvidedIsOwn'
  \* Only entities of e, which provides nothing, are renamed.
  <2>1. \A x \in entities : x.entry # e => x \in entities'
    BY <1>2 DEF Load, _async_migrate_entity_unique_ids
  <2>2. \A p \in provided : p[1] \in Entries /\ p[1] # e
    BY <1>2 DEF Load, TypeInv, Up
  <2>3. \A p \in provided : base'[p[1]] = base[p[1]]
    BY <1>2, <2>2 DEF Load, TypeInv
  <2> QED
    BY <1>2, <2>1, <2>2, <2>3 DEF Load
<1>3. ASSUME NEW e \in Entries, NEW k \in Keys, AddEntity(e, k) PROVE ProvidedIsOwn'
  <2> DEFINE same == {x \in entities : x.base = base[e] /\ x.key = k}
  <2>1. UNCHANGED base /\ provided' = provided \cup {<<e, k>>}
    BY <1>3 DEF AddEntity
  <2>2. \E x \in entities' : x.entry = e /\ x.key = k /\ x.base = base[e]
    <3>1. CASE same = {}
      <4>1. Entity(e, k, "new", base[e]) \in entities'
        BY <1>3, <3>1 DEF AddEntity
      <4> QED
        BY <4>1 DEF Entity
    <3>2. CASE same # {}
      <4>1. PICK x \in same : TRUE
        BY <3>2
      <4>2. [x EXCEPT !.entry = e] \in entities'
        BY <1>3, <3>2, <4>1 DEF AddEntity
      <4> QED
        BY <1>1, <4>1, <4>2 DEF EntityType
    <3> QED
      BY <3>1, <3>2
  <2>3. ASSUME NEW p \in provided
        PROVE  \E x \in entities' : x.entry = p[1] /\ x.key = p[2] /\ x.base = base[p[1]]
    <3>1. PICK x \in entities : x.entry = p[1] /\ x.key = p[2] /\ x.base = base[p[1]]
      OBVIOUS
    <3>2. p = <<p[1], p[2]>> /\ Up(p[1]) /\ p[1] \in Entries
      BY DEF TypeInv
    <3>3. x \notin same
      BY <1>3, <3>1, <3>2 DEF AddEntity
    <3>4. x \in entities'
      BY <1>3, <3>3 DEF AddEntity
    <3> QED
      BY <3>1, <3>4
  <2> QED
    BY <2>1, <2>2, <2>3
<1>4. ASSUME NEW e \in Entries, Unload(e) PROVE ProvidedIsOwn'
  BY <1>4 DEF Unload, registries, Without
<1>5. ASSUME NEW e \in Entries, Remove(e) PROVE ProvidedIsOwn'
  BY <1>5 DEF Remove, Without, EntitiesWithout
<1>6. CASE Restart \/ Crash
  BY <1>6 DEF Restart, Crash, Start
<1>7. ASSUME UNCHANGED <<entities, base, provided>> PROVE ProvidedIsOwn'
  BY <1>7
<1>8. CASE (\E e \in Entries : Added(e)) \/ Save
  BY <1>7, <1>8 DEF Added, Save, registries
<1>9. CASE (\E s \in Speakers : Identify(s)) \/ UNCHANGED vars
  BY <1>7, <1>9 DEF Identify, vars, registries
<1> QED
  BY <1>2, <1>3, <1>4, <1>5, <1>6, <1>8, <1>9 DEF Next, SetUp

\* Entries of one speaker take registrations over from each other, and
\* migrations rename them, but never one that is provided: it stays registered
\* for the entry that provides it, under the id it provides it by.
THEOREM ProvidedStaysOwn == Spec => []ProvidedIsOwn
<1>1. Init => ProvidedIsOwn
  BY DEF Init, ProvidedIsOwn
<1> QED
  BY <1>1, InitTypeInv, NextTypeInv, NextProvided, PTL DEF Spec

----------------------------------------------------------------------------
(* What the migrations of a set-up do. *)

\* The entities that are renamed, and the devices.
Renames(e, x) ==
  /\ SerialKnown(e) /\ x.entry = e /\ x.base = Name(e)
  /\ ~\E y \in entities : y.key = x.key /\ y.base = Serial(e)

Moves(e, d) ==
  /\ SerialKnown(e) /\ d.entry = e /\ d.base = Name(e)
  /\ ~\E c \in devices : c.entry = e /\ c.base = Serial(e)

OnSerial(e, r) == [r EXCEPT !.base = Serial(e)]

\* Renaming changes the unique id, and that alone.
LEMMA RenamedFields ==
  ASSUME NEW e \in Entries
  PROVE  /\ \A x \in EntityType :
              /\ OnSerial(e, x).of = x.of /\ OnSerial(e, x).key = x.key
              /\ OnSerial(e, x).age = x.age /\ OnSerial(e, x).entry = x.entry
              /\ OnSerial(e, x).base = Serial(e)
         /\ \A d \in DeviceType :
              /\ OnSerial(e, d).age = d.age /\ OnSerial(e, d).entry = d.entry
              /\ OnSerial(e, d).base = Serial(e)
  BY DEF OnSerial, EntityType, DeviceType

LEMMA MigratedEntities ==
  ASSUME NEW e \in Entries, Load(e)
  PROVE  entities' = {IF Renames(e, x) THEN OnSerial(e, x) ELSE x : x \in entities}
  BY DEF Load, _async_migrate_entity_unique_ids, Renames, OnSerial

LEMMA MigratedDevices ==
  ASSUME NEW e \in Entries, Load(e)
  PROVE  devices' = {IF Moves(e, d) THEN OnSerial(e, d) ELSE d : d \in devices}
  BY DEF Load, _async_migrate_device_identifiers, Moves, OnSerial

\* A set-up uses the serial if it is known, and that is the only way to it.
LEMMA LoadBase ==
  ASSUME TypeInv, NEW e \in Entries, Load(e)
  PROVE  /\ base' = [base EXCEPT ![e] = IF SerialKnown(e) THEN Serial(e) ELSE Name(e)]
         /\ base'[e] = Serial(e) <=> SerialKnown(e)
         /\ \A f \in Entries \ {e} : base'[f] = base[f]
         /\ UNCHANGED <<speakerOf, told>>
  BY NamesDiffer DEF Load, TypeInv, worldVars

\* Set up with a serial, an entry leaves nothing behind under the name, in none
\* of the three files, except where an earlier migration was there first.
THEOREM MigrationCompletes == Spec => Completes
<1>1. ASSUME TypeInv, NEW e \in Entries, Load(e), base'[e] = Serial(e)
      PROVE  /\ \A x \in entities' : x.entry = e /\ x.base = Name(e)
                   => \E y \in entities' : y.base = Serial(e) /\ y.key = x.key
             /\ \A x \in devices' : x.entry = e /\ x.base = Name(e)
                   => \E y \in devices' : y.base = Serial(e) /\ y.entry = e
             /\ \E f \in DOMAIN configs' : SameSpeaker(e, f) /\ configs'[f]
  <2>1. configs \in ConfigType /\ devices \subseteq DeviceType /\ entities \subseteq EntityType
    BY <1>1 DEF TypeInv, OnDisk, FileType
  <2>2. SerialKnown(e)
    BY <1>1, LoadBase
  <2>3. Name(e) # Serial(e)
    BY <1>1, NamesDiffer
  <2>4. ASSUME NEW x \in entities', x.entry = e, x.base = Name(e)
        PROVE  \E y \in entities' : y.base = Serial(e) /\ y.key = x.key
    <3>1. x \in entities /\ ~Renames(e, x)
      BY <1>1, <2>1, <2>3, <2>4, MigratedEntities, RenamedFields
    <3>2. PICK y \in entities : y.key = x.key /\ y.base = Serial(e)
      BY <2>2, <2>4, <3>1 DEF Renames
    <3>3. ~Renames(e, y)
      BY <2>3, <3>2 DEF Renames
    <3> QED
      BY <1>1, <3>2, <3>3, MigratedEntities
  <2>5. ASSUME NEW x \in devices', x.entry = e, x.base = Name(e)
        PROVE  \E y \in devices' : y.base = Serial(e) /\ y.entry = e
    <3>1. x \in devices /\ ~Moves(e, x)
      BY <1>1, <2>1, <2>3, <2>5, MigratedDevices, RenamedFields
    <3>2. PICK y \in devices : y.entry = e /\ y.base = Serial(e)
      BY <2>2, <2>5, <3>1 DEF Moves
    <3>3. ~Moves(e, y)
      BY <2>3, <3>2 DEF Moves
    <3> QED
      BY <1>1, <3>2, <3>3, MigratedDevices
  <2>6. \E f \in DOMAIN configs' : SameSpeaker(e, f) /\ configs'[f]
    <3>1. CASE \E f \in DOMAIN configs : SameSpeaker(e, f) /\ configs[f]
      BY <1>1, <3>1 DEF Load, _async_migrate_entry_unique_id
    <3>2. CASE ~\E f \in DOMAIN configs : SameSpeaker(e, f) /\ configs[f]
      <4>1. configs' = [configs EXCEPT ![e] = TRUE] /\ e \in DOMAIN configs
        BY <1>1, <2>2, <3>2 DEF Load, _async_migrate_entry_unique_id
      <4>2. e \in DOMAIN configs' /\ configs'[e] = TRUE
        BY <2>1, <4>1 DEF ConfigType
      <4>3. SameSpeaker(e, e)
        BY DEF SameSpeaker
      <4> QED
        BY <4>2, <4>3
    <3> QED
      BY <3>1, <3>2
  <2> QED
    BY <2>4, <2>5, <2>6
<1>2. TypeInv /\ [Next]_vars =>
        [ \A e \in Entries : Load(e) /\ base'[e] = Serial(e) =>
            /\ \A x \in entities' : x.entry = e /\ x.base = Name(e)
                  => \E y \in entities' : y.base = Serial(e) /\ y.key = x.key
            /\ \A x \in devices' : x.entry = e /\ x.base = Name(e)
                  => \E y \in devices' : y.base = Serial(e) /\ y.entry = e
            /\ \E f \in DOMAIN configs' : SameSpeaker(e, f) /\ configs'[f] ]_vars
  BY <1>1
<1> QED
  BY <1>2, InitTypeInv, NextTypeInv, PTL DEF Spec, Completes

----------------------------------------------------------------------------
(* What the registries may hold. *)

\* Nothing that was learnt makes a registration wrong, and taking some away
\* does not either: memory and disk may be set to a part of what they may hold.
LEMMA EntitiesKept ==
  ASSUME UNCHANGED speakerOf, told \subseteq told', NEW xs, EntitiesInv(xs)
  PROVE  /\ entities' \subseteq xs => EntitiesInv(entities)'
         /\ disk'.entities \subseteq xs => EntitiesInv(disk.entities)'
  BY DEF EntitiesInv, OfSpeaker, Name, Serial, SerialKnown, SameSpeaker, Alone

LEMMA DevicesKept ==
  ASSUME UNCHANGED speakerOf, told \subseteq told', NEW ds, DevicesInv(ds)
  PROVE  /\ devices' \subseteq ds => DevicesInv(devices)'
         /\ disk'.devices \subseteq ds => DevicesInv(disk.devices)'
  BY DEF DevicesInv, OfSpeaker, Name, Serial, SerialKnown

\* Two entries that are registered under the same id have the same speaker.
LEMMA SameBase ==
  ASSUME TypeInv, NEW e \in Entries, NEW f \in Entries, NEW b,
         OfSpeaker(e, b), OfSpeaker(f, b)
  PROVE  SameSpeaker(e, f)
  BY NamesDiffer DEF OfSpeaker

\* Renaming onto the serial keeps ids distinct, as an id in use is left alone.
LEMMA LoadEntities ==
  ASSUME TypeInv, EntitiesInv(entities), NEW e \in Entries, Load(e)
  PROVE  EntitiesInv(entities)'
<1>1. entities \subseteq EntityType
  BY DEF TypeInv, OnDisk, FileType
<1> DEFINE Img(x) == IF Renames(e, x) THEN OnSerial(e, x) ELSE x
<1>2. entities' = {Img(x) : x \in entities}
  BY MigratedEntities
<1>3. \A x \in entities :
        /\ Img(x).of = x.of /\ Img(x).key = x.key /\ Img(x).age = x.age
        /\ Img(x).entry = x.entry
        /\ Img(x).base = IF Renames(e, x) THEN Serial(e) ELSE x.base
        /\ x.of \in Entries
  BY <1>1, RenamedFields DEF EntityType
<1>4. UNCHANGED <<speakerOf, told>>
  BY DEF Load, worldVars
<1> HIDE DEF Img
<1>5. ASSUME NEW x \in entities
      PROVE  OfSpeaker(x.of, Img(x).base) /\ SameSpeaker(Img(x).of, Img(x).entry)
  <2>1. OfSpeaker(x.of, x.base) /\ SameSpeaker(x.of, x.entry)
    BY DEF EntitiesInv
  <2>2. ASSUME Renames(e, x) PROVE OfSpeaker(x.of, Serial(e))
    BY <2>1, <2>2 DEF Renames, SameSpeaker, OfSpeaker, Serial, SerialKnown
  <2> QED
    BY <1>3, <2>1, <2>2
<1>6. ASSUME NEW x \in entities, NEW y \in entities,
             Img(x).base = Img(y).base, Img(x).key = Img(y).key
      PROVE  x = y
  <2>1. x.key = y.key
    BY <1>3, <1>6
  <2>2. CASE Renames(e, x) <=> Renames(e, y)
    <3>1. x.base = y.base
      BY <1>3, <1>6, <2>2 DEF Renames
    <3> QED
      BY <2>1, <3>1 DEF EntitiesInv
  <2>3. CASE ~(Renames(e, x) <=> Renames(e, y))
    BY <1>3, <1>6, <2>1, <2>3 DEF Renames
  <2> QED
    BY <2>2, <2>3
<1>7. ASSUME NEW x \in entities, NEW y \in entities, Img(x).of = Img(y).of,
             Img(x).key = Img(y).key, Img(x).of \in Alone, Img(x).age = "new"
      PROVE  x = y
  BY <1>3, <1>7 DEF EntitiesInv
<1>8. EntitiesInv({Img(x) : x \in entities})
  BY <1>3, <1>5, <1>6, <1>7 DEF EntitiesInv
<1> QED
  BY <1>2, <1>4, <1>8, EntitiesKept

\* A device is moved only where its entry has none yet.
LEMMA LoadDevices ==
  ASSUME TypeInv, DevicesInv(devices), NEW e \in Entries, Load(e)
  PROVE  DevicesInv(devices)'
<1>1. devices \subseteq DeviceType
  BY DEF TypeInv, OnDisk, FileType
<1> DEFINE Img(d) == IF Moves(e, d) THEN OnSerial(e, d) ELSE d
<1>2. devices' = {Img(d) : d \in devices}
  BY MigratedDevices
<1>3. \A d \in devices :
        /\ Img(d).age = d.age /\ Img(d).entry = d.entry
        /\ Img(d).base = IF Moves(e, d) THEN Serial(e) ELSE d.base
  BY <1>1, RenamedFields
<1>4. UNCHANGED <<speakerOf, told>>
  BY DEF Load, worldVars
<1> HIDE DEF Img
<1>5. \A d \in devices : OfSpeaker(d.entry, Img(d).base)
  BY <1>3 DEF DevicesInv, Moves, OfSpeaker
<1>6. ASSUME NEW c \in devices, NEW d \in devices,
             Img(c).base = Img(d).base, Img(c).entry = Img(d).entry
      PROVE  c = d
  <2>1. c.entry = d.entry
    BY <1>3, <1>6
  <2>2. CASE Moves(e, c) <=> Moves(e, d)
    <3>1. c.base = d.base
      BY <1>3, <1>6, <2>2 DEF Moves
    <3> QED
      BY <2>1, <3>1 DEF DevicesInv
  <2>3. CASE ~(Moves(e, c) <=> Moves(e, d))
    BY <1>3, <1>6, <2>1, <2>3 DEF Moves
  <2> QED
    BY <2>2, <2>3
<1>7. ASSUME NEW c \in devices, NEW d \in devices,
             Img(c).entry = Img(d).entry, Img(c).age = "new"
      PROVE  c = d
  BY <1>3, <1>7 DEF DevicesInv
<1>8. DevicesInv({Img(d) : d \in devices})
  BY <1>3, <1>5, <1>6, <1>7 DEF DevicesInv
<1> QED
  BY <1>2, <1>4, <1>8, DevicesKept

----------------------------------------------------------------------------
\* What a platform adds: the registered entity is taken over, which changes
\* its entry alone, or a new one is registered.
Same(e, k) == {x \in entities : x.base = base[e] /\ x.key = k}

Taken(e, k, x) == IF x \in Same(e, k) THEN [x EXCEPT !.entry = e] ELSE x

LEMMA TakenFields ==
  ASSUME NEW e \in Entries, NEW k, NEW x \in EntityType
  PROVE  /\ Taken(e, k, x).of = x.of /\ Taken(e, k, x).key = x.key
         /\ Taken(e, k, x).age = x.age /\ Taken(e, k, x).base = x.base
         /\ Taken(e, k, x).entry = IF x \in Same(e, k) THEN e ELSE x.entry
  BY DEF Taken, EntityType

LEMMA AddedEntities ==
  ASSUME NEW e \in Entries, NEW k \in Keys, AddEntity(e, k)
  PROVE  /\ Same(e, k) = {} =>
              entities' = entities \cup {Entity(e, k, "new", base[e])}
         /\ Same(e, k) # {} => entities' = {Taken(e, k, x) : x \in entities}
         /\ UNCHANGED <<speakerOf, told, base, state>>
<1>1. Same(e, k) = {} => entities' = entities \cup {Entity(e, k, "new", base[e])}
  BY DEF AddEntity, Same
<1>2. Same(e, k) # {} =>
        entities' = (entities \ Same(e, k)) \cup {[x EXCEPT !.entry = e] : x \in Same(e, k)}
  BY DEF AddEntity, Same
<1>3. {Taken(e, k, x) : x \in entities}
        = (entities \ Same(e, k)) \cup {[x EXCEPT !.entry = e] : x \in Same(e, k)}
  BY DEF Taken, Same
<1> QED
  BY <1>1, <1>2, <1>3 DEF AddEntity, worldVars

\* An entity is registered only if there is none for its key where an earlier
\* version, or an earlier set-up, would have put it.
LEMMA AddEntities ==
  ASSUME TypeInv, EntitiesInv(entities), UpInv,
         NEW e \in Entries, NEW k \in Keys, AddEntity(e, k)
  PROVE  EntitiesInv(entities)'
<1>1. entities \subseteq EntityType
  BY DEF TypeInv, OnDisk, FileType
<1>2. OfSpeaker(e, base[e]) /\ (e \in Alone => EntitiesFound(e))
  BY DEF AddEntity, UpInv, Up
<1>3. CASE Same(e, k) = {}
  <2> DEFINE n == Entity(e, k, "new", base[e])
  <2>1. n.of = e /\ n.key = k /\ n.age = "new" /\ n.entry = e /\ n.base = base[e]
    BY DEF Entity
  <2> HIDE DEF n
  <2>2. \A x \in entities : ~(x.base = base[e] /\ x.key = k)
    BY <1>3 DEF Same
  <2>3. e \in Alone => \A x \in entities : ~(x.of = e /\ x.key = k)
    BY <1>2, <2>2 DEF EntitiesFound
  <2>4. \A x \in entities \cup {n} : OfSpeaker(x.of, x.base) /\ SameSpeaker(x.of, x.entry)
    BY <1>2, <2>1 DEF EntitiesInv, SameSpeaker
  <2>5. \A x, y \in entities \cup {n} : x.base = y.base /\ x.key = y.key => x = y
    BY <2>1, <2>2 DEF EntitiesInv
  <2>6. \A x, y \in entities \cup {n} :
          x.of = y.of /\ x.key = y.key /\ x.of \in Alone /\ x.age = "new" => x = y
    BY <2>1, <2>3 DEF EntitiesInv
  <2>7. EntitiesInv(entities \cup {n})
    BY <2>4, <2>5, <2>6 DEF EntitiesInv
  <2> QED
    BY <1>3, <2>7, AddedEntities, EntitiesKept DEF n
<1>4. CASE Same(e, k) # {}
  <2> DEFINE xs == {Taken(e, k, x) : x \in entities}
  <2>1. ASSUME NEW x \in entities
        PROVE  OfSpeaker(x.of, x.base) /\ SameSpeaker(x.of, Taken(e, k, x).entry)
    <3>1. OfSpeaker(x.of, x.base) /\ SameSpeaker(x.of, x.entry) /\ x.of \in Entries
      BY <1>1 DEF EntitiesInv, EntityType
    <3>2. ASSUME x \in Same(e, k) PROVE SameSpeaker(x.of, e)
      BY <1>2, <3>1, <3>2, SameBase DEF Same
    <3> QED
      BY <1>1, <3>1, <3>2, TakenFields
  <2>2. \A x \in xs : OfSpeaker(x.of, x.base) /\ SameSpeaker(x.of, x.entry)
    BY <1>1, <2>1, TakenFields
  <2>3. \A x, y \in entities :
          Taken(e, k, x).base = Taken(e, k, y).base
            /\ Taken(e, k, x).key = Taken(e, k, y).key => x = y
    BY <1>1, TakenFields DEF EntitiesInv
  <2>4. \A x, y \in entities :
          Taken(e, k, x).of = Taken(e, k, y).of /\ Taken(e, k, x).key = Taken(e, k, y).key
            /\ Taken(e, k, x).of \in Alone /\ Taken(e, k, x).age = "new" => x = y
    BY <1>1, TakenFields DEF EntitiesInv
  <2>5. EntitiesInv(xs)
    BY <2>2, <2>3, <2>4 DEF EntitiesInv
  <2> QED
    BY <1>4, <2>5, AddedEntities, EntitiesKept
<1> QED
  BY <1>3, <1>4

LEMMA AddDevices ==
  ASSUME TypeInv, DevicesInv(devices), UpInv,
         NEW e \in Entries, NEW k \in Keys, AddEntity(e, k)
  PROVE  DevicesInv(devices)'
<1> DEFINE n == Device(e, "new", base[e])
<1>1. n.age = "new" /\ n.entry = e /\ n.base = base[e]
  BY DEF Device
<1>2. OfSpeaker(e, base[e]) /\ DevicesFound(e)
  BY DEF AddEntity, UpInv, Up
<1>3. UNCHANGED <<speakerOf, told>>
  BY DEF AddEntity, worldVars
<1>4. CASE devices' = devices
  BY <1>3, <1>4, DevicesKept
<1>5. CASE ~\E d \in devices : d.entry = e /\ d.base = base[e]
  <2> HIDE DEF n
  <2>1. \A d \in devices : d.entry # e
    BY <1>2, <1>5 DEF DevicesFound
  <2>2. DevicesInv(devices \cup {n})
    BY <1>1, <1>2, <2>1 DEF DevicesInv
  <2>3. devices' = devices \cup {n}
    BY <1>5 DEF AddEntity, n
  <2> QED
    BY <1>3, <2>2, <2>3, DevicesKept
<1> QED
  BY <1>4, <1>5 DEF AddEntity

LEMMA NextFilesInv == TypeInv /\ FilesInv /\ UpInv /\ [Next]_vars => FilesInv'
<1> SUFFICES ASSUME TypeInv, FilesInv, UpInv, [Next]_vars PROVE FilesInv'
  OBVIOUS
<1>1. UNCHANGED speakerOf /\ told \subseteq told'
  BY NextWorld
<1>2. ASSUME UNCHANGED disk
      PROVE  EntitiesInv(disk.entities)' /\ DevicesInv(disk.devices)'
  BY <1>1, <1>2, EntitiesKept, DevicesKept DEF FilesInv
<1>3. CASE \E e \in Entries : Load(e)
  BY <1>2, <1>3, LoadEntities, LoadDevices DEF FilesInv, Load
<1>4. CASE \E e \in Entries, k \in Keys : AddEntity(e, k)
  BY <1>2, <1>4, AddEntities, AddDevices DEF FilesInv, AddEntity
<1>5. ASSUME UNCHANGED <<devices, entities>>
      PROVE  EntitiesInv(entities)' /\ DevicesInv(devices)'
  BY <1>1, <1>5, EntitiesKept, DevicesKept DEF FilesInv
<1>6. CASE \E e \in Entries : Added(e) \/ Unload(e)
  BY <1>2, <1>5, <1>6 DEF Added, Unload, registries, FilesInv
<1>7. CASE \E e \in Entries : Remove(e)
  <2>1. /\ entities' \subseteq entities /\ disk'.entities \subseteq disk.entities
        /\ devices' \subseteq devices /\ disk'.devices \subseteq disk.devices
    BY <1>7 DEF Remove, DevicesWithout, EntitiesWithout
  <2> QED
    BY <1>1, <2>1, EntitiesKept, DevicesKept DEF FilesInv
<1>8. CASE Save
  <2>1. PICK file \in DOMAIN disk : disk' = [disk EXCEPT ![file] = OnDisk[file]]
    BY <1>8 DEF Save
  <2>2. /\ disk'.entities \in {disk.entities, entities}
        /\ disk'.devices \in {disk.devices, devices}
    BY <2>1 DEF TypeInv, FileType, OnDisk
  <2>3. EntitiesInv(disk.entities)' /\ DevicesInv(disk.devices)'
    BY <1>1, <2>2, EntitiesKept, DevicesKept DEF FilesInv
  <2> QED
    BY <1>5, <1>8, <2>3 DEF Save, registries, FilesInv
<1>9. CASE Restart \/ Crash
  <2>1. \/ /\ entities' = entities /\ disk'.entities = entities
           /\ devices' = devices /\ disk'.devices = devices
        \/ /\ entities' = disk.entities /\ disk'.entities = disk.entities
           /\ devices' = disk.devices /\ disk'.devices = disk.devices
    BY <1>9 DEF Restart, Crash, Start, OnDisk
  <2> QED
    BY <1>1, <2>1, EntitiesKept, DevicesKept DEF FilesInv
<1>10. CASE \E s \in Speakers : Identify(s)
  BY <1>2, <1>5, <1>10 DEF Identify, registries, FilesInv
<1>11. CASE UNCHANGED vars
  BY <1>2, <1>5, <1>11 DEF vars, registries, FilesInv
<1> QED
  BY <1>3, <1>4, <1>6, <1>7, <1>8, <1>9, <1>10, <1>11 DEF Next, SetUp

----------------------------------------------------------------------------
(* An entry that is up looks where its devices and entities are. *)

\* Whoever else is registered for an entry without a twin is its own.
LEMMA AloneOwns ==
  ASSUME TypeInv, EntitiesInv(entities), NEW f \in Alone, NEW x \in entities, x.of = f
  PROVE  x.entry = f
<1>1. x.entry \in Entries /\ SameSpeaker(f, x.entry)
  BY DEF TypeInv, OnDisk, FileType, EntityType, EntitiesInv
<1> QED
  BY <1>1 DEF Alone

\* A set-up that knows the serial renames what is under the name, or finds it
\* taken; one that does not know it finds nothing under it.
LEMMA LoadFinds ==
  ASSUME TypeInv, FilesInv, NEW e \in Entries, Load(e)
  PROVE  DevicesFound(e)' /\ (e \in Alone => EntitiesFound(e)')
<1>1. devices \subseteq DeviceType /\ entities \subseteq EntityType
  BY DEF TypeInv, OnDisk, FileType
<1>2. base'[e] = IF SerialKnown(e) THEN Serial(e) ELSE Name(e)
  BY LoadBase DEF TypeInv
<1>3. ASSUME NEW d \in devices', d.entry = e
      PROVE  \E c \in devices' : c.entry = e /\ c.base = base'[e]
  <2>1. PICK o \in devices : d = IF Moves(e, o) THEN OnSerial(e, o) ELSE o
    BY MigratedDevices
  <2>2. o.entry = e /\ OfSpeaker(e, o.base)
    BY <1>1, <1>3, <2>1, RenamedFields DEF FilesInv, DevicesInv
  <2>3. CASE Moves(e, o)
    BY <1>1, <1>2, <1>3, <2>1, <2>3, RenamedFields DEF Moves
  <2>4. CASE ~Moves(e, o) /\ o.base = base'[e]
    BY <1>3, <2>1, <2>4
  <2>5. CASE ~Moves(e, o) /\ o.base # base'[e]
    <3>1. SerialKnown(e) /\ o.base = Name(e)
      BY <1>2, <2>2, <2>5 DEF OfSpeaker
    <3>2. PICK c \in devices : c.entry = e /\ c.base = Serial(e)
      BY <2>2, <2>5, <3>1 DEF Moves
    <3>3. ~Moves(e, c)
      BY <3>2, NamesDiffer DEF Moves
    <3> QED
      BY <1>2, <3>1, <3>2, <3>3, MigratedDevices
  <2> QED
    BY <2>3, <2>4, <2>5
<1>4. ASSUME e \in Alone, NEW x \in entities', x.of = e
      PROVE  \E y \in entities' : y.of = e /\ y.key = x.key /\ y.base = base'[e]
  <2>1. PICK o \in entities : x = IF Renames(e, o) THEN OnSerial(e, o) ELSE o
    BY MigratedEntities
  <2>2. o.of = e /\ o.key = x.key /\ OfSpeaker(e, o.base)
    BY <1>1, <1>4, <2>1, RenamedFields DEF FilesInv, EntitiesInv
  <2>3. o.entry = e
    BY <1>4, <2>2, AloneOwns DEF FilesInv
  <2>4. CASE Renames(e, o)
    BY <1>1, <1>2, <1>4, <2>1, <2>4, RenamedFields DEF Renames
  <2>5. CASE ~Renames(e, o) /\ o.base = base'[e]
    BY <1>4, <2>1, <2>2, <2>5
  <2>6. CASE ~Renames(e, o) /\ o.base # base'[e]
    <3>1. SerialKnown(e) /\ o.base = Name(e)
      BY <1>2, <2>2, <2>6 DEF OfSpeaker
    <3>2. PICK y \in entities : y.key = o.key /\ y.base = Serial(e)
      BY <2>3, <2>6, <3>1 DEF Renames
    <3>3. ~Renames(e, y)
      BY <3>2, NamesDiffer DEF Renames
    <3>4. y.of \in Entries /\ OfSpeaker(y.of, Serial(e)) /\ OfSpeaker(e, Serial(e))
      BY <1>1, <3>1, <3>2 DEF FilesInv, EntitiesInv, EntityType, OfSpeaker
    <3>5. y.of = e
      BY <1>4, <3>4, SameBase DEF Alone, SameSpeaker
    <3> QED
      BY <1>2, <2>2, <3>1, <3>2, <3>3, <3>5, MigratedEntities
  <2> QED
    BY <2>4, <2>5, <2>6
<1> QED
  BY <1>3, <1>4 DEF DevicesFound, EntitiesFound

\* Other entries keep what they have found.
LEMMA LoadLeavesOthers ==
  ASSUME TypeInv, FilesInv, NEW e \in Entries, Load(e), NEW f \in Entries \ {e}
  PROVE  /\ DevicesFound(f) => DevicesFound(f)'
         /\ f \in Alone /\ EntitiesFound(f) => EntitiesFound(f)'
<1>1. devices \subseteq DeviceType /\ entities \subseteq EntityType
  BY DEF TypeInv, OnDisk, FileType
<1>2. base'[f] = base[f]
  BY LoadBase
<1>3. \A d : d.entry = f => (d \in devices' <=> d \in devices)
  <2>1. \A o \in devices : Moves(e, o) => o.entry = e /\ OnSerial(e, o).entry = e
    BY <1>1, RenamedFields DEF Moves
  <2> QED
    BY <2>1, MigratedDevices
<1>4. \A x : x.entry = f => (x \in entities' <=> x \in entities)
  <2>1. \A o \in entities : Renames(e, o) => o.entry = e /\ OnSerial(e, o).entry = e
    BY <1>1, RenamedFields DEF Renames
  <2> QED
    BY <2>1, MigratedEntities
<1>5. ASSUME f \in Alone, NEW x \in entities', x.of = f PROVE x \in entities
  <2>1. PICK o \in entities : x = IF Renames(e, o) THEN OnSerial(e, o) ELSE o
    BY MigratedEntities
  <2>2. o.of = f
    BY <1>1, <1>5, <2>1, RenamedFields
  <2>3. o.entry = f
    BY <1>5, <2>2, AloneOwns DEF FilesInv
  <2> QED
    BY <2>1, <2>3 DEF Renames
<1>6. DevicesFound(f) => DevicesFound(f)'
  BY <1>2, <1>3 DEF DevicesFound
<1>7. ASSUME f \in Alone, EntitiesFound(f) PROVE EntitiesFound(f)'
  <2>1. \A y \in entities : y.of = f => y \in entities'
    BY <1>4, <1>7, AloneOwns DEF FilesInv
  <2> QED
    BY <1>2, <1>5, <1>7, <2>1 DEF EntitiesFound
<1> QED
  BY <1>6, <1>7

\* What is added is added where its entry looks, and what is taken over stays
\* where it is.
LEMMA AddFinds ==
  ASSUME TypeInv, NEW e \in Entries, NEW k \in Keys, AddEntity(e, k), NEW f \in Entries
  PROVE  /\ DevicesFound(f) => DevicesFound(f)'
         /\ EntitiesFound(f) => EntitiesFound(f)'
<1>1. entities \subseteq EntityType
  BY DEF TypeInv, OnDisk, FileType
<1>2. UNCHANGED base
  BY DEF AddEntity
<1>3. \/ devices' = devices
      \/ devices' = devices \cup {Device(e, "new", base[e])}
  BY DEF AddEntity
<1>4. DevicesFound(f) => DevicesFound(f)'
  BY <1>2, <1>3 DEF DevicesFound, Device
<1>5. CASE Same(e, k) = {}
  BY <1>2, <1>4, <1>5, AddedEntities DEF EntitiesFound, Entity
<1>6. CASE Same(e, k) # {}
  <2> SUFFICES ASSUME EntitiesFound(f), NEW x \in entities', x.of = f
               PROVE  \E y \in entities' : y.of = f /\ y.key = x.key /\ y.base = base[f]
    BY <1>2, <1>4 DEF EntitiesFound
  <2>1. PICK o \in entities : x = Taken(e, k, o)
    BY <1>6, AddedEntities
  <2>2. o.of = f /\ o.key = x.key
    BY <1>1, <2>1, TakenFields
  <2>3. PICK y \in entities : y.of = f /\ y.key = o.key /\ y.base = base[f]
    BY <2>2 DEF EntitiesFound
  <2>4. Taken(e, k, y) \in entities'
    BY <1>6, AddedEntities
  <2> QED
    BY <1>1, <2>2, <2>3, <2>4, TakenFields
<1> QED
  BY <1>5, <1>6

\* Nor does the removal of another entry take away what an entry has found.
LEMMA RemoveFinds ==
  ASSUME TypeInv, FilesInv, NEW e \in Entries, Remove(e), NEW f \in Entries \ {e}
  PROVE  /\ DevicesFound(f) => DevicesFound(f)'
         /\ f \in Alone /\ EntitiesFound(f) => EntitiesFound(f)'
<1>1. UNCHANGED base
  BY DEF Remove
<1>2. devices' = {d \in devices : d.entry # e} /\ entities' = {x \in entities : x.entry # e}
  BY DEF Remove, DevicesWithout, EntitiesWithout
<1>3. f \in Alone => \A x \in entities : x.of = f => x.entry = f
  BY AloneOwns DEF FilesInv
<1> QED
  BY <1>1, <1>2, <1>3 DEF DevicesFound, EntitiesFound

LEMMA NextUpInv == TypeInv /\ FilesInv /\ UpInv /\ [Next]_vars => UpInv'
<1> SUFFICES ASSUME TypeInv, FilesInv, UpInv, [Next]_vars PROVE UpInv'
  OBVIOUS
<1>1. UNCHANGED speakerOf /\ told \subseteq told'
  BY NextWorld
<1>2. Alone' = Alone /\ \A f, b : OfSpeaker(f, b) => OfSpeaker(f, b)'
  BY <1>1 DEF Alone, SameSpeaker, OfSpeaker, Name, Serial, SerialKnown
\* It suffices that what was found is found again.
<1>3. ASSUME \A f \in Entries : Up(f)' =>
               /\ Up(f) /\ base'[f] = base[f]
               /\ DevicesFound(f) => DevicesFound(f)'
               /\ f \in Alone /\ EntitiesFound(f) => EntitiesFound(f)'
      PROVE  UpInv'
  BY <1>2, <1>3 DEF UpInv
<1>4. ASSUME NEW e \in Entries, Load(e) PROVE UpInv'
  <2>1. OfSpeaker(e, base'[e])
    BY <1>4, LoadBase DEF TypeInv, OfSpeaker
  <2>2. DevicesFound(e)' /\ (e \in Alone => EntitiesFound(e)')
    BY <1>4, LoadFinds
  <2>3. ASSUME NEW f \in Entries \ {e}, Up(f)'
        PROVE  /\ OfSpeaker(f, base'[f])
               /\ DevicesFound(f)'
               /\ f \in Alone => EntitiesFound(f)'
    <3>1. Up(f) /\ base'[f] = base[f]
      BY <1>4, <2>3, LoadBase DEF Load, TypeInv, Up
    <3> QED
      BY <1>4, <3>1, LoadLeavesOthers DEF UpInv
  <2> QED
    BY <1>2, <2>1, <2>2, <2>3 DEF UpInv
<1>5. ASSUME NEW e \in Entries, NEW k \in Keys, AddEntity(e, k) PROVE UpInv'
  <2>1. UNCHANGED <<state, base>>
    BY <1>5 DEF AddEntity
  <2> QED
    BY <1>3, <1>5, <2>1, AddFinds DEF Up
<1>6. ASSUME NEW e \in Entries, Remove(e) PROVE UpInv'
  <2>1. UNCHANGED base /\ \A f \in Entries : Up(f)' => Up(f) /\ f # e
    BY <1>6 DEF Remove, TypeInv, Up
  <2> QED
    BY <1>3, <1>6, <2>1, RemoveFinds
<1>7. ASSUME UNCHANGED <<devices, entities, base>>,
             \A f \in Entries : Up(f)' => Up(f)
      PROVE  UpInv'
  BY <1>3, <1>7 DEF DevicesFound, EntitiesFound
<1>8. CASE \E e \in Entries : Added(e) \/ Unload(e)
  <2>1. \A f \in Entries : Up(f)' => Up(f)
    BY <1>8 DEF Added, Unload, TypeInv, Up
  <2> QED
    BY <1>7, <1>8, <2>1 DEF Added, Unload, registries
<1>9. CASE Restart \/ Crash
  BY <1>9 DEF Restart, Crash, Start, UpInv, Up
<1>10. CASE Save \/ (\E s \in Speakers : Identify(s)) \/ UNCHANGED vars
  BY <1>7, <1>10 DEF Save, Identify, vars, registries, Up
<1> QED
  BY <1>4, <1>5, <1>6, <1>8, <1>9, <1>10 DEF Next, SetUp

\* What earlier versions left behind.
LEMMA InitInv == Init => FilesInv /\ UpInv
<1> SUFFICES ASSUME Init PROVE FilesInv /\ UpInv
  OBVIOUS
<1>1. UpInv
  BY DEF Init, UpInv, Up
<1>2. EntitiesInv(entities)
  <2>1. \A x \in entities :
          /\ x.age # "new"
          /\ OfSpeaker(x.of, x.base) /\ SameSpeaker(x.of, x.entry)
    BY DEF Init, Entity, OfSpeaker, SameSpeaker
  <2> QED
    BY <2>1 DEF Init, EntitiesInv
<1>3. DevicesInv(devices)
  <2>1. \A d \in devices :
          \/ /\ d = Device(d.entry, "old", Name(d.entry))
             /\ d.entry \in Entries
          \/ /\ d = Device(d.entry, "left", Serial(d.entry))
             /\ SerialKnown(d.entry)
    BY DEF Init, Device
  <2>2. \A d \in devices : d.age # "new" /\ OfSpeaker(d.entry, d.base)
    BY <2>1 DEF Device, OfSpeaker
  <2>3. ASSUME NEW c \in devices, NEW d \in devices, c.base = d.base, c.entry = d.entry
        PROVE  c = d
    <3>1. \A e : Name(e) # Serial(e)
      BY DEF Name, Serial
    <3>2. c.base = Name(c.entry) <=> c.age = "old"
      BY <2>1, <3>1 DEF Device
    <3>3. d.base = Name(d.entry) <=> d.age = "old"
      BY <2>1, <3>1 DEF Device
    <3> QED
      BY <2>1, <2>3, <3>2, <3>3 DEF Device
  <2> QED
    BY <2>2, <2>3 DEF DevicesInv
<1> QED
  BY <1>1, <1>2, <1>3 DEF Init, OnDisk, FilesInv

LEMMA Migrated == Spec => [](TypeInv /\ FilesInv /\ UpInv)
  BY InitTypeInv, InitInv, NextTypeInv, NextFilesInv, NextUpInv, PTL DEF Spec

\* Whichever migrations a crash loses and whichever it keeps, set-ups that find
\* what others left half done never give two entities the same unique id, nor
\* two devices of an entry the same identifier.
THEOREM IdsStayUnique == Spec => []UniqueEntities
<1>1. FilesInv => UniqueEntities
  BY DEF FilesInv, EntitiesInv, DevicesInv, UniqueEntities
<1> QED
  BY <1>1, Migrated, PTL

\* And nothing is registered anew that was registered before: devices are kept,
\* and so are entities of a speaker that has one entry.
THEOREM RegistrationsAreKept == Spec => []KeepsRegistrations
<1>1. FilesInv => KeepsRegistrations
  BY DEF FilesInv, EntitiesInv, DevicesInv, KeepsRegistrations
<1> QED
  BY <1>1, Migrated, PTL
==============================================================================
