-------------------------- MODULE GroupOwnerProofs --------------------------
(***************************************************************************)
(* Proofs about GroupOwner, for any number of entries, any of them offline *)
(* or removed at any moment.  OwnerInv is about the owner: what it may be  *)
(* doing, that the group lives there, and whose device is left.  The parts *)
(* after it are about the register, which holds whom its states say and    *)
(* nobody twice, and about whom the group listens to.                      *)
(***************************************************************************)
EXTENDS GroupOwner, SequenceTheorems, TLAPS

OwnerStates == {"forwarding", "announcing", "loaded", "unloading", "closing"}
GroupStates == {"announcing", "loaded", "unloading"}

OwnerInv ==
  /\ state \in [Entries -> States]
  /\ owner \in Entries \cup {NoEntry}
  /\ owner # NoEntry => state[owner] \in OwnerStates
  /\ \A e \in group : e = owner /\ e \in Entries /\ state[e] \in GroupStates
  /\ owner # NoEntry => devices \subseteq {owner}
  /\ group # {} => owner \in devices

\* A step of an entry that is not the owner, and leaves the group and its
\* device alone or takes away a device of its own.
LEMMA OthersKeepOwner ==
  ASSUME OwnerInv, NEW e \in Entries, NEW s \in States,
         state' = [state EXCEPT ![e] = s],
         UNCHANGED <<owner, group>>,
         devices' = devices \/ (devices' = devices \ {e} /\ e # owner),
         e = owner => s \in OwnerStates,
         e \in group => s \in GroupStates
  PROVE  OwnerInv'
<1>1. state' \in [Entries -> States] /\ owner' \in Entries \cup {NoEntry}
  BY DEF OwnerInv
<1>2. owner' # NoEntry => state'[owner'] \in OwnerStates
  BY DEF OwnerInv
<1>3. \A f \in group' : f = owner' /\ f \in Entries /\ state'[f] \in GroupStates
  BY DEF OwnerInv
<1>4. /\ owner' # NoEntry => devices' \subseteq {owner'}
      /\ group' # {} => owner' \in devices'
  BY DEF OwnerInv
<1> QED
  BY <1>1, <1>2, <1>3, <1>4 DEF OwnerInv

\* The first step of an unloading or of a reload.
LEMMA StopKeepsOwner ==
  ASSUME OwnerInv, NEW e \in Entries, NEW next \in {"setup", "off", "gone"},
         StopOrUnload(e, next), UNCHANGED integrationVars
  PROVE  OwnerInv'
<1>1. CASE state[e] = "loaded" /\ Enter(e, "unloading")
  BY <1>1, OthersKeepOwner
     DEF Enter, integrationVars, States, OwnerStates, GroupStates
<1>2. CASE state[e] = "retry"
  <2>1. e # owner /\ e \notin group
    BY <1>2, OwnerAssumption DEF OwnerInv, OwnerStates, GroupStates
  <2>2. PICK s \in States : Enter(e, s)
    BY <1>2 DEF StopOrUnload, States
  <2> QED
    BY <2>1, <2>2, OthersKeepOwner DEF Enter, integrationVars
<1> QED
  BY <1>1, <1>2 DEF StopOrUnload

\* What an unloading entry does next is one of three things.
AfterInv == after \in [Entries -> {"off", "gone", "setup"}]

LEMMA NextAfterInv == AfterInv /\ [Next]_vars => AfterInv'
<1> SUFFICES ASSUME AfterInv, [Next]_vars PROVE AfterInv'
  OBVIOUS
<1>1. ASSUME NEW e \in Entries, Step(e) PROVE AfterInv'
  BY <1>1 DEF Step, SetupFails, RetrySetup, Register, ForwardEntrySetups,
       Announce, UnloadPlatforms, Close, CleanUp, AfterInv
<1>2. ASSUME NEW e \in Entries, ScheduledReload(e) \/ User(e) PROVE AfterInv'
  BY <1>2 DEF User, Start, Disable, Delete, Reload, Switch, ScheduledReload,
       StopOrUnload, AfterInv
<1>3. CASE StopHass \/ UNCHANGED vars
  BY <1>3 DEF StopHass, vars, AfterInv
<1> QED
  BY <1>1, <1>2, <1>3 DEF Next

\* OwnerInv is inductive relative to AfterInv.
LEMMA NextOwnerInv == AfterInv /\ OwnerInv /\ [Next]_vars => OwnerInv'
<1> SUFFICES ASSUME AfterInv, OwnerInv, [Next]_vars PROVE OwnerInv'
  OBVIOUS
<1>a. \A e \in Entries : state[e] \notin OwnerStates => e # owner /\ e \notin group
  BY OwnerAssumption DEF OwnerInv, OwnerStates, GroupStates
<1>1. ASSUME NEW e \in Entries, Start(e) \/ SetupFails(e) \/ RetrySetup(e) \/ CleanUp(e)
      PROVE  OwnerInv'
  <2>1. e # owner /\ e \notin group
    BY <1>1, <1>a DEF Start, SetupFails, RetrySetup, CleanUp, OwnerStates
  <2>2. PICK s \in States : Enter(e, s)
    BY <1>1 DEF Start, SetupFails, RetrySetup, CleanUp, States
  <2> QED
    BY <1>1, <2>1, <2>2, OthersKeepOwner
       DEF Start, SetupFails, RetrySetup, CleanUp, Enter, integrationVars
<1>2. ASSUME NEW e \in Entries, Register(e) PROVE OwnerInv'
  <2>1. state' = [state EXCEPT ![e] = "forwarding"] /\ group' = group
    BY <1>2 DEF Register, Enter
  <2>2. e # owner /\ e \notin group
    BY <1>2, <1>a DEF Register, OwnerStates
  <2>3. CASE owner = NoEntry
    <3>1. owner' = e /\ devices' \subseteq {e} /\ group = {}
      BY <1>2, <2>3, OwnerAssumption
         DEF Register, TakeGroup, _async_adopt_group_device, OwnerInv
    <3> QED
      BY <2>1, <3>1 DEF OwnerInv, States, OwnerStates
  <2>4. CASE owner # NoEntry
    BY <1>2, <2>1, <2>2, <2>4, OthersKeepOwner
       DEF Register, TakeGroup, States, OwnerStates, GroupStates
  <2> QED
    BY <2>3, <2>4
<1>3. ASSUME NEW e \in Entries, ForwardEntrySetups(e) PROVE OwnerInv'
  <2>1. state' = [state EXCEPT ![e] = "announcing"] /\ owner' = owner
    BY <1>3 DEF ForwardEntrySetups, Enter
  <2>2. CASE owner = e
    <3>1. group' = group \cup {e} /\ devices' = devices \cup {e}
      BY <1>3, <2>2 DEF ForwardEntrySetups
    <3> QED
      BY <2>1, <2>2, <3>1, OwnerAssumption
         DEF OwnerInv, States, OwnerStates, GroupStates
  <2>3. CASE owner # e
    BY <1>3, <2>1, <2>3, OthersKeepOwner
       DEF ForwardEntrySetups, States, OwnerStates, GroupStates
  <2> QED
    BY <2>2, <2>3
<1>4. ASSUME NEW e \in Entries, Announce(e) PROVE OwnerInv'
  BY <1>4, OthersKeepOwner
     DEF Announce, Enter, States, OwnerStates, GroupStates
<1>5. ASSUME NEW e \in Entries, Disable(e) \/ Reload(e) \/ ScheduledReload(e)
      PROVE  OwnerInv'
  <2>1. CASE \E next \in {"setup", "off", "gone"} : StopOrUnload(e, next)
    BY <1>5, <2>1, StopKeepsOwner DEF Disable, Reload, ScheduledReload
  <2>2. CASE ScheduledReload(e) /\ UNCHANGED state
    BY <2>2 DEF ScheduledReload, integrationVars, OwnerInv
  <2> QED
    BY <1>5, <2>1, <2>2 DEF Disable, Reload, ScheduledReload
<1>6. ASSUME NEW e \in Entries, Delete(e) PROVE OwnerInv'
  <2>1. CASE StopOrUnload(e, "gone")
    BY <1>6, <2>1, StopKeepsOwner DEF Delete
  <2>2. CASE state[e] = "off" /\ Enter(e, "removing")
    <3>1. e # owner /\ e \notin group
      BY <2>2, <1>a DEF OwnerStates
    <3> QED
      BY <1>6, <2>2, <3>1, OthersKeepOwner
         DEF Delete, Enter, integrationVars, States
  <2> QED
    BY <1>6, <2>1, <2>2 DEF Delete
<1>7. ASSUME NEW e \in Entries, UnloadPlatforms(e) PROVE OwnerInv'
  <2>1. /\ state' = [state EXCEPT ![e] = "closing"]
        /\ UNCHANGED <<owner, devices>> /\ group' = group \ {e}
    BY <1>7 DEF UnloadPlatforms, Enter
  <2> QED
    BY <2>1 DEF OwnerInv, States, OwnerStates
<1>8. ASSUME NEW e \in Entries, Close(e) PROVE OwnerInv'
  <2>1. PICK s \in States : state' = [state EXCEPT ![e] = s]
    BY <1>8 DEF Close, Enter, States, AfterInv
  <2>2. UNCHANGED <<group, devices>> /\ e \notin group
    BY <1>8 DEF Close, OwnerInv, GroupStates
  <2>3. CASE owner = e
    <3>1. owner' = NoEntry /\ group = {}
      BY <1>8, <2>2, <2>3 DEF Close, GiveUpGroup, OwnerInv
    <3> QED
      BY <2>1, <2>2, <3>1 DEF OwnerInv
  <2>4. CASE owner # e
    <3>1. owner' = owner
      BY <1>8, <2>4 DEF Close, GiveUpGroup
    <3> QED
      BY <2>1, <2>2, <2>4, <3>1, OthersKeepOwner
  <2> QED
    BY <2>3, <2>4
<1>9. CASE \E e \in Entries : Switch(e)
  BY <1>9 DEF Switch, integrationVars, OwnerInv
<1>10. CASE StopHass \/ UNCHANGED vars
  BY <1>10 DEF StopHass, vars, integrationVars, OwnerInv
<1> QED
  BY <1>1, <1>2, <1>3, <1>4, <1>5, <1>6, <1>7, <1>8, <1>9, <1>10
     DEF Next, Step, User

\* OwnerInv is an invariant of the integration.
LEMMA OwnerCorrect == Spec => []OwnerInv
<1>1. Init => AfterInv /\ OwnerInv
  BY DEF Init, AfterInv, OwnerInv, States
<1> QED
  BY <1>1, NextAfterInv, NextOwnerInv, PTL DEF Spec

\* The group's entities never exist twice, nor under an entry that is not the
\* owner, whatever the entries do at the same time (async_setup_entry's check
\* of group_owner_entry_id and async_unload_entry's reset of it).  However many
\* "All Speakers" devices an installation started with, once the group is up
\* there is one, and it belongs to the owner.
THEOREM OneGroup == Spec => []GroupUnderOwner
<1>1. OwnerInv => GroupUnderOwner
  BY OwnerAssumption DEF OwnerInv, GroupUnderOwner
<1> QED
  BY OwnerCorrect, <1>1, PTL

----------------------------------------------------------------------------
(* The register of coordinators, and the listeners of the group. *)

\* The states of an entry whose coordinator is registered.
Registered == {"forwarding", "announcing", "loaded", "unloading"}

Distinct(s) == \A i, j \in DOMAIN s : s[i] = s[j] => i = j

RegisterInv ==
  /\ coordinators \in Seq(Entries)
  /\ Distinct(coordinators)
  /\ Range(coordinators) = {e \in Entries : state[e] \in Registered}

\* Without a group nobody listens; with one, the latest coordinators of all
\* loaded entries are listened to, and none of an entry that has none.
ListenInv ==
  /\ group = {} => listening = {}
  /\ \A c \in listening :
       /\ c[1] \in Entries /\ c = Latest(c[1])
       /\ state[c[1]] \in OwnerStates
  /\ group # {} => \A e \in Entries : state[e] = "loaded" => Latest(e) \in listening

\* Appending a new entry keeps the register's keys distinct.
LEMMA AppendRegisters ==
  ASSUME NEW s \in Seq(Entries), Distinct(s), NEW e \in Entries, e \notin Range(s)
  PROVE  /\ Append(s, e) \in Seq(Entries)
         /\ Distinct(Append(s, e))
         /\ Range(Append(s, e)) = Range(s) \cup {e}
<1> DEFINE t == Append(s, e)
<1>1. /\ t \in Seq(Entries) /\ Len(t) = Len(s) + 1
      /\ \A i \in 1..Len(s) : t[i] = s[i]
      /\ t[Len(s) + 1] = e
  BY AppendProperties
<1>2. /\ Len(s) \in Nat /\ DOMAIN s = 1..Len(s) /\ DOMAIN t = 1..(Len(s) + 1)
  BY <1>1, LenProperties
<1>3. \A i \in 1..Len(s) : s[i] # e
  BY <1>2 DEF Range
<1> HIDE DEF t
<1>4. \A i \in DOMAIN t : i \in 1..Len(s) \/ i = Len(s) + 1
  BY <1>2
<1>5. Distinct(t)
  BY <1>1, <1>2, <1>3, <1>4 DEF Distinct
<1>6. Range(t) = Range(s) \cup {e}
  BY <1>1, <1>2, <1>4 DEF Range
<1> QED
  BY <1>1, <1>5, <1>6 DEF t

\* Taking the place of an entry out of the register takes the entry out, and
\* nothing else.
LEMMA RemoveAtTakesOut ==
  ASSUME NEW s \in Seq(Entries), Distinct(s), NEW k \in DOMAIN s
  PROVE  /\ RemoveAt(s, k) \in Seq(Entries)
         /\ Distinct(RemoveAt(s, k))
         /\ Range(RemoveAt(s, k)) = Range(s) \ {s[k]}
<1> DEFINE a == SubSeq(s, 1, k - 1)
           b == SubSeq(s, k + 1, Len(s))
           t == a \o b
<1>1. /\ Len(s) \in Nat /\ DOMAIN s = 1..Len(s) /\ k \in 1..Len(s)
      /\ \A i \in 1..Len(s) : s[i] \in Entries
  BY LenProperties, ElementOfSeq
<1>2. /\ a \in Seq(Entries) /\ Len(a) = k - 1
      /\ \A i \in 1..(k - 1) : a[i] = s[i]
  <2>1. \A i \in 1..(k - 1) : s[i] \in Entries
    BY <1>1
  <2>2. 1 \in Int /\ k - 1 \in Int
    BY <1>1
  <2>3. /\ a \in Seq(Entries)
        /\ Len(a) = IF 1 <= k - 1 THEN k - 1 - 1 + 1 ELSE 0
        /\ \A i \in 1..(k - 1 - 1 + 1) : a[i] = s[1 + i - 1]
    BY <2>1, <2>2, SubSeqProperties
  <2> HIDE DEF a
  <2> QED
    BY <1>1, <2>3
<1>3. /\ b \in Seq(Entries) /\ Len(b) = Len(s) - k
      /\ \A i \in 1..(Len(s) - k) : b[i] = s[k + i]
  <2>1. \A i \in (k + 1)..Len(s) : s[i] \in Entries
    BY <1>1
  <2>2. k + 1 \in Int /\ Len(s) \in Int
    BY <1>1
  <2>3. /\ b \in Seq(Entries)
        /\ Len(b) = IF k + 1 <= Len(s) THEN Len(s) - (k + 1) + 1 ELSE 0
        /\ \A i \in 1..(Len(s) - (k + 1) + 1) : b[i] = s[(k + 1) + i - 1]
    BY <2>1, <2>2, SubSeqProperties
  <2> HIDE DEF b
  <2>4. Len(b) = Len(s) - k
    BY <1>1, <2>3
  <2>5. ASSUME NEW i \in 1..(Len(s) - k) PROVE b[i] = s[k + i]
    <3>1. i \in 1..(Len(s) - (k + 1) + 1) /\ (k + 1) + i - 1 = k + i
      BY <1>1
    <3> QED
      BY <2>3, <3>1
  <2> QED
    BY <2>3, <2>4, <2>5
<1>4. RemoveAt(s, k) = t
  BY DEF RemoveAt
<1>5. /\ t \in Seq(Entries) /\ Len(t) = Len(s) - 1 /\ DOMAIN t = 1..(Len(s) - 1)
      /\ \A i \in 1..(Len(s) - 1) : t[i] = s[IF i < k THEN i ELSE i + 1]
  <2> HIDE DEF a, b
  <2>1. /\ t \in Seq(Entries) /\ Len(t) = Len(a) + Len(b)
        /\ \A i \in 1..(Len(a) + Len(b)) : t[i] = IF i <= Len(a) THEN a[i] ELSE b[i - Len(a)]
    BY <1>2, <1>3, ConcatProperties
  <2>2. DOMAIN t = 1..Len(t)
    BY <2>1, LenProperties
  <2> HIDE DEF t
  <2>3. Len(t) = Len(s) - 1
    BY <1>1, <1>2, <1>3, <2>1
  <2>4. ASSUME NEW i \in 1..(Len(s) - 1)
        PROVE  t[i] = s[IF i < k THEN i ELSE i + 1]
    <3>1. CASE i < k
      BY <1>1, <1>2, <1>3, <2>1, <3>1
    <3>2. CASE ~(i < k)
      <4>1. t[i] = b[i - (k - 1)] /\ i - (k - 1) \in 1..(Len(s) - k)
        BY <1>1, <1>2, <1>3, <2>1, <3>2
      <4>2. k + (i - (k - 1)) = i + 1
        BY <1>1
      <4> QED
        BY <1>3, <3>2, <4>1, <4>2
    <3> QED
      BY <3>1, <3>2
  <2> QED
    BY <2>1, <2>2, <2>3, <2>4
<1> HIDE DEF t
<1>6. \A i \in DOMAIN t : (IF i < k THEN i ELSE i + 1) \in DOMAIN s \ {k}
  BY <1>1, <1>5
<1>7. Distinct(t)
  <2> SUFFICES ASSUME NEW i \in DOMAIN t, NEW j \in DOMAIN t, t[i] = t[j]
               PROVE  i = j
    BY DEF Distinct
  <2>1. (IF i < k THEN i ELSE i + 1) = (IF j < k THEN j ELSE j + 1)
    BY <1>5, <1>6 DEF Distinct
  <2> QED
    BY <1>1, <1>5, <2>1
<1>8. Range(t) = Range(s) \ {s[k]}
  <2>1. ASSUME NEW i \in DOMAIN t PROVE t[i] \in Range(s) \ {s[k]}
    BY <1>5, <1>6 DEF Range, Distinct
  <2>2. ASSUME NEW j \in DOMAIN s, s[j] # s[k] PROVE \E i \in DOMAIN t : t[i] = s[j]
    <3>1. CASE j < k
      BY <1>1, <1>5, <3>1
    <3>2. CASE j > k
      <4>1. j - 1 \in DOMAIN t /\ ~(j - 1 < k) /\ (j - 1) + 1 = j
        BY <1>1, <1>5, <3>2
      <4> QED
        BY <1>5, <4>1
    <3> QED
      BY <1>1, <2>2, <3>1, <3>2
  <2> QED
    BY <2>1, <2>2 DEF Range
<1> QED
  BY <1>4, <1>5, <1>7, <1>8

\* A step that leaves the register alone keeps it right if its entry stays
\* registered, or not.
LEMMA SameRegister ==
  ASSUME OwnerInv, RegisterInv, NEW e \in Entries, NEW s \in States,
         state' = [state EXCEPT ![e] = s], coordinators' = coordinators,
         s \in Registered <=> state[e] \in Registered
  PROVE  RegisterInv'
<1>1. \A f \in Entries : state'[f] \in Registered <=> state[f] \in Registered
  BY DEF OwnerInv
<1> QED
  BY <1>1 DEF RegisterInv

LEMMA NextRegisterInv == AfterInv /\ OwnerInv /\ RegisterInv /\ [Next]_vars => RegisterInv'
<1> SUFFICES ASSUME AfterInv, OwnerInv, RegisterInv, [Next]_vars
             PROVE  RegisterInv'
  OBVIOUS
<1>1. ASSUME NEW e \in Entries,
             Start(e) \/ SetupFails(e) \/ RetrySetup(e) \/ ForwardEntrySetups(e)
               \/ Announce(e) \/ CleanUp(e)
      PROVE  RegisterInv'
  <2>1. PICK s \in States :
          /\ state' = [state EXCEPT ![e] = s]
          /\ s \in Registered <=> state[e] \in Registered
    BY <1>1 DEF Start, SetupFails, RetrySetup, ForwardEntrySetups, Announce, CleanUp,
         Enter, States, Registered
  <2>2. coordinators' = coordinators
    BY <1>1 DEF Start, SetupFails, RetrySetup, ForwardEntrySetups, Announce, CleanUp,
         integrationVars
  <2> QED
    BY <2>1, <2>2, SameRegister
<1>2. ASSUME NEW e \in Entries, NEW next \in {"setup", "off", "gone"},
             StopOrUnload(e, next), coordinators' = coordinators
      PROVE  RegisterInv'
  <2>1. PICK s \in States :
          /\ state' = [state EXCEPT ![e] = s]
          /\ s \in Registered <=> state[e] \in Registered
    BY <1>2 DEF StopOrUnload, Enter, States, Registered
  <2> QED
    BY <1>2, <2>1, SameRegister
<1>3. ASSUME NEW e \in Entries, Disable(e) \/ Delete(e) \/ Reload(e) \/ ScheduledReload(e)
      PROVE  RegisterInv'
  <2>1. coordinators' = coordinators
    BY <1>3 DEF Disable, Delete, Reload, ScheduledReload, integrationVars
  <2>2. CASE \E next \in {"setup", "off", "gone"} : StopOrUnload(e, next)
    BY <1>2, <2>1, <2>2
  <2>3. CASE state[e] = "off" /\ Enter(e, "removing")
    BY <2>1, <2>3, SameRegister DEF Enter, States, Registered
  <2>4. CASE UNCHANGED state
    BY <2>1, <2>4 DEF RegisterInv
  <2> QED
    BY <1>3, <2>2, <2>3, <2>4 DEF Disable, Delete, Reload, ScheduledReload
<1>4. ASSUME NEW e \in Entries, Register(e) PROVE RegisterInv'
  <2>1. state' = [state EXCEPT ![e] = "forwarding"] /\ e \notin Range(coordinators)
    BY <1>4 DEF Register, Enter, RegisterInv, Registered
  <2>2. coordinators' = Append(coordinators, e)
    BY <1>4, <2>1 DEF Register
  <2>3. /\ coordinators' \in Seq(Entries) /\ Distinct(coordinators')
        /\ Range(coordinators') = Range(coordinators) \cup {e}
    BY <2>1, <2>2, AppendRegisters DEF RegisterInv
  <2>4. \A f \in Entries : state'[f] = IF f = e THEN "forwarding" ELSE state[f]
    BY <2>1 DEF OwnerInv
  <2> QED
    BY <2>3, <2>4 DEF RegisterInv, Registered
<1>5. ASSUME NEW e \in Entries, UnloadPlatforms(e) PROVE RegisterInv'
  <2>1. /\ state' = [state EXCEPT ![e] = "closing"] /\ state[e] = "unloading" /\ Pop(e)
    BY <1>5 DEF UnloadPlatforms, Enter
  <2>2. e \in Range(coordinators)
    BY <2>1 DEF RegisterInv, Registered
  <2>3. PICK k \in DOMAIN coordinators :
          coordinators[k] = e /\ coordinators' = RemoveAt(coordinators, k)
    BY <2>1, <2>2 DEF Pop, Range
  <2>4. /\ coordinators' \in Seq(Entries) /\ Distinct(coordinators')
        /\ Range(coordinators') = Range(coordinators) \ {e}
    BY <2>3, RemoveAtTakesOut DEF RegisterInv
  <2>5. \A f \in Entries : state'[f] = IF f = e THEN "closing" ELSE state[f]
    BY <2>1 DEF OwnerInv
  <2> QED
    BY <2>4, <2>5 DEF RegisterInv, Registered
<1>6. ASSUME NEW e \in Entries, Close(e) PROVE RegisterInv'
  <2>1. PICK s \in States \ Registered : state' = [state EXCEPT ![e] = s]
    BY <1>6 DEF Close, Enter, States, AfterInv, Registered
  <2>2. coordinators' = coordinators /\ state[e] \notin Registered
    BY <1>6 DEF Close, Registered
  <2> QED
    BY <2>1, <2>2, SameRegister
<1>7. CASE (\E e \in Entries : Switch(e)) \/ StopHass \/ UNCHANGED vars
  BY <1>7 DEF Switch, StopHass, vars, integrationVars, RegisterInv
<1> QED
  BY <1>1, <1>3, <1>4, <1>5, <1>6, <1>7 DEF Next, Step, User

\* A step that leaves the listeners alone keeps them right if its entry keeps
\* its coordinator, or had none, and is not newly loaded.
LEMMA SameListeners ==
  ASSUME OwnerInv, ListenInv, NEW e \in Entries, NEW s \in States \ {"loaded"},
         state' = [state EXCEPT ![e] = s], UNCHANGED <<group, listening>>,
         state[e] \in OwnerStates => s \in OwnerStates
  PROVE  ListenInv'
<1>1. \A f \in Entries : state'[f] = IF f = e THEN s ELSE state[f]
  BY DEF OwnerInv
<1>2. \A c \in listening : state'[c[1]] \in OwnerStates
  BY <1>1 DEF ListenInv
<1>3. \A f \in Entries : state'[f] = "loaded" => state[f] = "loaded"
  BY <1>1
<1> QED
  BY <1>2, <1>3 DEF ListenInv, Latest

\* After a signal the listeners are right, whatever they were before.
LEMMA SubscribingListens ==
  ASSUME RegisterInv', _subscribe_coordinators(coordinators')
  PROVE  ListenInv'
<1>1. \A e \in Entries : e \in Range(coordinators') <=> state'[e] \in Registered
  BY DEF RegisterInv
<1>2. \A e \in Range(coordinators') : e \in Entries /\ state'[e] \in Registered
  BY DEF RegisterInv
<1>3. CASE group' = {}
  BY <1>3 DEF _subscribe_coordinators, ListenInv
<1>4. CASE group' # {}
  <2>1. listening' = {Latest(e) : e \in Range(coordinators')}
    BY <1>4 DEF _subscribe_coordinators
  <2>2. \A c \in listening' :
          c[1] \in Entries /\ c = Latest(c[1]) /\ state'[c[1]] \in OwnerStates
    BY <1>2, <2>1 DEF Latest, Registered, OwnerStates
  <2>3. \A e \in Entries : state'[e] = "loaded" => Latest(e) \in listening'
    BY <1>1, <2>1 DEF Registered
  <2> QED
    BY <1>4, <2>2, <2>3 DEF ListenInv, Latest
<1> QED
  BY <1>3, <1>4

LEMMA NextListenInv ==
  AfterInv /\ OwnerInv /\ RegisterInv' /\ ListenInv /\ [Next]_vars => ListenInv'
<1> SUFFICES ASSUME AfterInv, OwnerInv, RegisterInv', ListenInv, [Next]_vars
             PROVE  ListenInv'
  OBVIOUS
<1>1. ASSUME NEW e \in Entries, Start(e) \/ SetupFails(e) \/ RetrySetup(e) \/ CleanUp(e)
      PROVE  ListenInv'
  <2>1. PICK s \in States \ {"loaded"} :
          state' = [state EXCEPT ![e] = s] /\ state[e] \notin OwnerStates
    BY <1>1 DEF Start, SetupFails, RetrySetup, CleanUp, Enter, States, OwnerStates
  <2>2. UNCHANGED <<group, listening>>
    BY <1>1 DEF Start, SetupFails, RetrySetup, CleanUp, integrationVars
  <2> QED
    BY <2>1, <2>2, SameListeners
<1>2. ASSUME NEW e \in Entries, NEW next \in {"setup", "off", "gone"},
             StopOrUnload(e, next), UNCHANGED <<group, listening>>
      PROVE  ListenInv'
  <2>1. PICK s \in States \ {"loaded"} :
          /\ state' = [state EXCEPT ![e] = s]
          /\ state[e] \in OwnerStates => s \in OwnerStates
    BY <1>2 DEF StopOrUnload, Enter, States, OwnerStates
  <2> QED
    BY <1>2, <2>1, SameListeners
<1>3. ASSUME NEW e \in Entries, Disable(e) \/ Delete(e) \/ Reload(e) \/ ScheduledReload(e)
      PROVE  ListenInv'
  <2>1. UNCHANGED <<group, listening>>
    BY <1>3 DEF Disable, Delete, Reload, ScheduledReload, integrationVars
  <2>2. CASE \E next \in {"setup", "off", "gone"} : StopOrUnload(e, next)
    BY <1>2, <2>1, <2>2
  <2>3. CASE state[e] = "off" /\ Enter(e, "removing")
    BY <2>1, <2>3, SameListeners DEF Enter, States, OwnerStates
  <2>4. CASE UNCHANGED state
    BY <2>1, <2>4 DEF ListenInv, Latest
  <2> QED
    BY <1>3, <2>2, <2>3, <2>4 DEF Disable, Delete, Reload, ScheduledReload
<1>4. ASSUME NEW e \in Entries, Register(e) PROVE ListenInv'
  <2>1. /\ state' = [state EXCEPT ![e] = "forwarding"] /\ state[e] = "connecting"
        /\ group' = group
    BY <1>4 DEF Register, Enter
  <2>2. Latest(e) \notin listening
    BY <2>1 DEF ListenInv, Latest, OwnerStates
  <2>3. listening' = listening
    BY <1>4, <2>2 DEF Register
  <2> QED
    BY <2>1, <2>3, SameListeners DEF States, OwnerStates
<1>5. ASSUME NEW e \in Entries, ForwardEntrySetups(e) PROVE ListenInv'
  <2>1. /\ state' = [state EXCEPT ![e] = "announcing"] /\ state[e] = "forwarding"
        /\ coordinators' = coordinators
    BY <1>5 DEF ForwardEntrySetups, Enter
  <2>2. CASE owner = e
    BY <1>5, <2>1, <2>2, SubscribingListens DEF ForwardEntrySetups
  <2>3. CASE owner # e
    BY <1>5, <2>1, <2>3, SameListeners DEF ForwardEntrySetups, States, OwnerStates
  <2> QED
    BY <2>2, <2>3
<1>6. ASSUME NEW e \in Entries, Announce(e) \/ Close(e) PROVE ListenInv'
  BY <1>6, SubscribingListens DEF Announce, Close
<1>7. ASSUME NEW e \in Entries, UnloadPlatforms(e) PROVE ListenInv'
  <2>1. /\ state' = [state EXCEPT ![e] = "closing"] /\ state[e] = "unloading"
        /\ group' \subseteq group
        /\ listening' = IF group' = {} THEN {} ELSE listening
    BY <1>7 DEF UnloadPlatforms, Enter
  <2>2. CASE group' = {}
    BY <2>1, <2>2 DEF ListenInv
  <2>3. CASE group' # {}
    <3>1. \A f \in Entries : state'[f] = IF f = e THEN "closing" ELSE state[f]
      BY <2>1 DEF OwnerInv
    <3>2. \A c \in listening :
            c[1] \in Entries /\ c = Latest(c[1]) /\ state'[c[1]] \in OwnerStates
      BY <3>1 DEF ListenInv, OwnerStates
    <3> QED
      BY <2>1, <2>3, <3>1, <3>2 DEF ListenInv, Latest
  <2> QED
    BY <2>2, <2>3
<1>8. CASE (\E e \in Entries : Switch(e)) \/ StopHass \/ UNCHANGED vars
  BY <1>8 DEF Switch, StopHass, vars, integrationVars, ListenInv, Latest
<1> QED
  BY <1>1, <1>3, <1>4, <1>5, <1>6, <1>7, <1>8 DEF Next, Step, User

LEMMA RegisterCorrect == Spec => [](RegisterInv /\ ListenInv)
<1>1. Init => AfterInv /\ RegisterInv /\ ListenInv
  <2> SUFFICES ASSUME Init PROVE AfterInv /\ RegisterInv /\ ListenInv
    OBVIOUS
  <2>1. coordinators \in Seq(Entries) /\ Distinct(coordinators) /\ Range(coordinators) = {}
    BY EmptySeq DEF Init, Distinct, Range
  <2> QED
    BY <2>1 DEF Init, AfterInv, RegisterInv, ListenInv, Registered
<1> QED
  BY <1>1, OwnerCorrect, NextAfterInv, NextRegisterInv, NextListenInv, PTL DEF Spec

\* The integration's data speak of entries that are really there: a coordinator
\* is registered from its set-up to its unloading, and the owner is an entry
\* between those two (async_setup_entry, async_unload_entry).
THEOREM NoGhostsLeft == Spec => []NoGhosts
<1>1. OwnerInv /\ RegisterInv => NoGhosts
  BY DEF OwnerInv, RegisterInv, NoGhosts, Registered, OwnerStates
<1> QED
  BY <1>1, OwnerCorrect, RegisterCorrect, PTL

\* The group follows every coordinator, however entries are loaded, reloaded
\* and unloaded around it (AdamAudioGroupEntity._subscribe_coordinators).
THEOREM GroupListensRight == Spec => []SubscriptionsCurrent
<1>1. ListenInv => SubscriptionsCurrent
  BY DEF ListenInv, SubscriptionsCurrent, OwnerStates
<1> QED
  BY <1>1, RegisterCorrect, PTL

\* The types of what the other invariants do not speak of.
OtherTypes ==
  /\ online \in [Entries -> BOOLEAN]
  /\ devices \subseteq Entries
  /\ reloads \subseteq Entries
  /\ stopping \in BOOLEAN

LEMMA NextOtherTypes == RegisterInv /\ OtherTypes /\ [Next]_vars => OtherTypes'
<1> SUFFICES ASSUME RegisterInv, OtherTypes, [Next]_vars PROVE OtherTypes'
  OBVIOUS
<1>1. ASSUME NEW e \in Entries, Step(e) PROVE OtherTypes'
  <2>1. UNCHANGED <<online, stopping>>
    BY <1>1 DEF Step, SetupFails, RetrySetup, Register, ForwardEntrySetups, Announce,
         UnloadPlatforms, Close, CleanUp
  <2>2. devices' \subseteq Entries
    BY <1>1 DEF Step, SetupFails, RetrySetup, Register, ForwardEntrySetups, Announce,
         UnloadPlatforms, Close, CleanUp, integrationVars, TakeGroup,
         _async_adopt_group_device, OtherTypes
  <2>3. reloads' \subseteq Entries
    <3>1. CASE Close(e)
      <4>1. coordinators # <<>> => Head(coordinators) \in Entries
        BY HeadTailProperties DEF RegisterInv
      <4>2. \/ reloads' \subseteq reloads
            \/ coordinators # <<>> /\ reloads' = reloads \cup {Head(coordinators)}
        BY <3>1 DEF Close, GiveUpGroup
      <4> QED
        BY <4>1, <4>2 DEF OtherTypes
    <3>2. CASE ~Close(e)
      BY <1>1, <3>2 DEF Step, SetupFails, RetrySetup, Register, ForwardEntrySetups,
           Announce, UnloadPlatforms, CleanUp, OtherTypes
    <3> QED
      BY <3>1, <3>2
  <2> QED
    BY <2>1, <2>2, <2>3 DEF OtherTypes
<1>2. ASSUME NEW e \in Entries, ScheduledReload(e) \/ User(e) PROVE OtherTypes'
  <2>1. CASE ~Switch(e)
    BY <1>2, <2>1 DEF ScheduledReload, User, Start, Disable, Delete, Reload,
         integrationVars, OtherTypes
  <2>2. CASE Switch(e)
    <3>1. online' \in [Entries -> BOOLEAN]
      BY <2>2 DEF Switch, OtherTypes
    <3> QED
      BY <2>2, <3>1 DEF Switch, integrationVars, OtherTypes
  <2> QED
    BY <2>1, <2>2
<1>3. CASE StopHass \/ UNCHANGED vars
  BY <1>3 DEF StopHass, vars, integrationVars, OtherTypes
<1> QED
  BY <1>1, <1>2, <1>3 DEF Next

\* The entries and the data they share keep their types, for any number of
\* entries; who is asked to take the group over is always one of them.
THEOREM OwnerTypeCorrect == Spec => []TypeOK
<1>1. Init => AfterInv /\ OtherTypes
  BY DEF Init, AfterInv, OtherTypes
<1>2. AfterInv /\ OwnerInv /\ RegisterInv /\ ListenInv /\ OtherTypes => TypeOK
  <2> SUFFICES ASSUME AfterInv, OwnerInv, RegisterInv, ListenInv, OtherTypes
               PROVE  TypeOK
    OBVIOUS
  <2>1. \A c \in listening : c \in Entries \X {"latest", "replaced"}
    BY DEF ListenInv, Latest
  <2> QED
    BY <2>1 DEF AfterInv, OwnerInv, RegisterInv, OtherTypes, TypeOK
<1> QED
  BY <1>1, <1>2, OwnerCorrect, RegisterCorrect, NextAfterInv, NextOtherTypes, PTL DEF Spec
=============================================================================
