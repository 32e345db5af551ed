------------------------ MODULE SpeakerEntriesProofs ------------------------
(***************************************************************************)
(* Proofs about SpeakerEntries, for any speakers, addresses and entries,   *)
(* whoever reports a serial and whatever an old version left behind.       *)
(***************************************************************************)
EXTENDS SpeakerEntries, TLAPS

FlowNames  == {"user", "zeroconf"} \cup Entries
ClientData == [host : Hosts \cup {Nowhere}, serial : Speakers \cup {NoSerial}]

\* A serial is used as an id only with that serial, and always for a speaker
\* of Known.
Sound(d) ==
  /\ d.uid \in SerialIds => d.uid = SerialId(d.serial) /\ d.serial \in Speakers
  /\ d.made \in Known => d.uid = SerialId(d.made) /\ d.serial = d.made

\* A serial that was heard is the id.
Heard(d) == d.serial # NoSerial => d.uid = SerialId(d.serial)

WorldInv ==
  /\ addr \in [Speakers -> Hosts \cup {Nowhere}]
  /\ told \subseteq Speakers
  /\ Speakers \ Silent \subseteq told

Shape ==
  /\ data \in [Entries -> Findings \cup {Absent}]
  /\ state \in [Entries -> States]
  /\ client \in [Entries -> ClientData]
  /\ pending \subseteq Findings
  /\ issues \subseteq Entries
  /\ reloads \subseteq Entries
  /\ \A e \in Entries : Exists(e) <=> data[e] # Absent
  /\ \A e \in Entries : state[e] \in {"refreshing", "loaded"} <=> client[e] # NoClient
  /\ \A e \in reloads : state[e] \in {"refreshing", "loaded"}

SoundInv ==
  /\ \A e \in Entries : Exists(e) => Sound(data[e])
  /\ \A d \in pending : Sound(d)

AnswersInv ==
  /\ answers \subseteq [flow : FlowNames, found : Findings]
  /\ \A a \in answers : Sound(a.found) /\ Heard(a.found)
  /\ \A a \in answers : a.flow \in Entries => Exists(a.flow)

EntriesInv ==
  /\ WorldInv /\ AnswersInv /\ Shape /\ SoundInv
  /\ UniqueIds /\ IdentityKept /\ IssuesCurrent

----------------------------------------------------------------------------
(* Facts about ids and about what flows find out.                          *)

LEMMA Serials ==
  /\ \A s \in Speakers : SerialId(s) \in SerialIds /\ SerialId(s) \in Ids
  /\ \A s, t \in Speakers \cup {NoSerial} : SerialId(s) = SerialId(t) => s = t
  /\ \A i \in SerialIds : \E s \in Speakers : i = SerialId(s)
BY DEF SerialIds, Ids, SerialId

LEMMA OtherIds ==
  /\ \A s \in Speakers : MdnsId(s) \in Ids \ SerialIds
  /\ \A s \in Speakers, h \in Hosts : HostId(Name[s], h) \in Ids \ SerialIds
  /\ \A s \in Speakers : NameId(Name[s]) \in Ids \ SerialIds
BY DEF SerialIds, Ids, SerialId, MdnsId, HostId, NameId, Names

LEMMA AbsentIsNoEntry == Absent \notin Findings
BY EntriesAssumption DEF Absent, Findings

LEMMA FoundIsSound ==
  ASSUME WorldInv, NEW s \in Speakers, NEW h \in Hosts, NEW id \in Ids \ SerialIds
  PROVE  /\ Found(s, h, id) \in Findings
         /\ Sound(Found(s, h, id)) /\ Heard(Found(s, h, id))
         /\ Found(s, h, id).host = h /\ Found(s, h, id).serial = Reports(s)
<1>1. CASE s \in told
  <2>1. Found(s, h, id) = [uid |-> SerialId(s), host |-> h, serial |-> s, made |-> s]
    BY <1>1, EntriesAssumption DEF Found, Reports
  <2>2. Reports(s) = s
    BY <1>1 DEF Reports
  <2> QED
    BY <2>1, <2>2, Serials DEF Findings, Sound, Heard
<1>2. CASE s \notin told
  <2>1. Found(s, h, id) = [uid |-> id, host |-> h, serial |-> NoSerial, made |-> s]
    BY <1>2 DEF Found, Reports
  <2>2. s \notin Known
    BY <1>2 DEF WorldInv, Known
  <2>3. Reports(s) = NoSerial
    BY <1>2 DEF Reports
  <2> QED
    BY <2>1, <2>2, <2>3 DEF Findings, Sound, Heard
<1> QED
  BY <1>1, <1>2

LEMMA UsesExists ==
  ASSUME Shape, NEW e \in Entries, NEW id \in Ids, Uses(e, id)
  PROVE  Exists(e) /\ data[e] \in Findings
BY EntriesAssumption DEF Shape, Uses, Absent

LEMMA ExistingData ==
  ASSUME Shape, NEW e \in Entries
  PROVE  Exists(e) <=> data[e] \in Findings
BY AbsentIsNoEntry DEF Shape

----------------------------------------------------------------------------
(* What a flow may do to the entries: nothing, change the address of one,  *)
(* or make one from what it found.                                         *)

Quiet ==
  /\ UNCHANGED <<data, state, client, issues, reloads>>
  /\ pending' \subseteq Findings /\ \A d \in pending' : Sound(d)

HostStep(e, h) ==
  /\ Exists(e)
  /\ data' = [data EXCEPT ![e].host = h]
  /\ \/ reloads' = reloads
     \/ reloads' = reloads \cup {e} /\ state[e] \in {"refreshing", "loaded"}
  /\ UNCHANGED <<worldVars, state, client, issues, pending>>

FlowStep ==
  \/ Quiet
  \/ \E e \in Entries, h \in Hosts : HostStep(e, h)
  \/ \E d \in Findings, flows \in SUBSET answers : Sound(d) /\ async_create_entry(d, flows)

LEMMA UpdateIsHostStep ==
  ASSUME Shape, NEW id \in Ids, NEW h \in Hosts, UpdateAddress(id, h)
  PROVE  \E e \in Entries : HostStep(e, h)
<1>1. PICK e \in Entries :
        /\ Uses(e, id)
        /\ data' = [data EXCEPT ![e].host = h]
        /\ reloads' = IF data[e].host # h /\ state[e] = "loaded"
                        THEN reloads \cup {e} ELSE reloads
        /\ UNCHANGED <<worldVars, state, client, issues, pending>>
  BY DEF UpdateAddress
<1>2. Exists(e)
  BY <1>1, UsesExists
<1> QED
  BY <1>1, <1>2 DEF HostStep

\* d was heard by a flow that waited, or is heard now.
Origin(d) ==
  \/ \E a \in answers : a.found = d
  \/ \E s \in Speakers : addr[s] = d.host /\ Reports(s) = d.serial

\* A flow goes on with what it has heard, now or before.
FlowGoesOn ==
  \E flow \in FlowNames, d \in Findings, flows \in SUBSET answers :
    /\ flow \in Entries => Exists(flow)
    /\ Sound(d) /\ Heard(d) /\ Origin(d)
    /\ GoesOn(flow, d, flows)

\* A flow has heard something and waits for its socket.
FlowWaits ==
  /\ \E flow \in FlowNames, d \in Findings :
       /\ flow \in Entries => Exists(flow)
       /\ Sound(d) /\ Heard(d)
       /\ answers' = answers \cup {[flow |-> flow, found |-> d]}
  /\ UNCHANGED <<worldVars, data, state, client, issues, pending, reloads>>

LEMMA ConnectKinds ==
  ASSUME WorldInv, NEW flow \in FlowNames, flow \in Entries => Exists(flow),
         NEW s \in Speakers, NEW id, addr[s] \in Hosts => id \in Ids \ SerialIds,
         _async_try_connect(flow, s, Found(s, addr[s], id))
  PROVE  FlowGoesOn \/ FlowWaits
<1> DEFINE d == Found(s, addr[s], id)
<1>1. addr[s] \in Hosts
  BY DEF _async_try_connect, WorldInv
<1>2. d \in Findings /\ Sound(d) /\ Heard(d) /\ d.host = addr[s] /\ d.serial = Reports(s)
  BY <1>1, FoundIsSound
<1>3. Origin(d)
  BY <1>2 DEF Origin
<1>4. \/ GoesOn(flow, d, answers)
      \/ /\ answers' = answers \cup {[flow |-> flow, found |-> d]}
         /\ UNCHANGED <<worldVars, data, state, client, issues, pending, reloads>>
  BY DEF _async_try_connect
<1> HIDE DEF d
<1>5. CASE GoesOn(flow, d, answers)
  <2>1. answers \in SUBSET answers
    OBVIOUS
  <2> QED
    BY <1>2, <1>3, <1>5, <2>1 DEF FlowGoesOn
<1>6. CASE /\ answers' = answers \cup {[flow |-> flow, found |-> d]}
           /\ UNCHANGED <<worldVars, data, state, client, issues, pending, reloads>>
  BY <1>2, <1>6 DEF FlowWaits
<1> QED
  BY <1>4, <1>5, <1>6

\* Every step is one of these kinds.
LEMMA Kinds ==
  ASSUME EntriesInv, [Next]_vars
  PROVE  \/ FlowGoesOn \/ FlowWaits
         \/ \E d \in pending : async_step_zeroconf_confirm(d) \/ Dismiss(d)
         \/ \E e \in Entries : Setup(e) \/ Remove(e)
         \/ Restart \/ World \/ UNCHANGED vars
<1>1. WorldInv /\ AnswersInv
  BY DEF EntriesInv
<1>2. ASSUME NEW s \in Speakers, Discovery(s) PROVE FlowGoesOn \/ FlowWaits
  <2>1. PICK m \in Stale \cup {s} : Announced(m, s)
    BY <1>2 DEF Discovery
  <2>2. m \in Speakers /\ "zeroconf" \in FlowNames /\ "zeroconf" \notin Entries
    BY EntriesAssumption DEF FlowNames
  <2>3. MdnsId(m) \in Ids \ SerialIds
    BY <2>2, OtherIds
  <2>4. _async_try_connect("zeroconf", s, Found(s, addr[s], MdnsId(m)))
    BY <2>1 DEF Announced
  <2> QED
    BY <1>1, <2>2, <2>3, <2>4, ConnectKinds
<1>3. ASSUME NEW s \in Speakers, Entered(s) PROVE FlowGoesOn \/ FlowWaits
  <2>1. "user" \in FlowNames /\ "user" \notin Entries
    BY EntriesAssumption DEF FlowNames
  <2>2. _async_try_connect("user", s, Found(s, addr[s], HostId(Name[s], addr[s])))
    BY <1>3 DEF Entered, ManualId
  <2> QED
    BY <1>1, <2>1, <2>2, OtherIds, ConnectKinds
<1>4. ASSUME NEW e \in Entries, NEW s \in Speakers, Corrected(e, s)
      PROVE  FlowGoesOn \/ FlowWaits
  <2>1. e \in FlowNames /\ Exists(e)
    BY <1>4 DEF FlowNames, Corrected
  <2>2. _async_try_connect(e, s, Found(s, addr[s], HostId(Name[s], addr[s])))
    BY <1>4 DEF Corrected, ManualId
  <2> QED
    BY <1>1, <2>1, <2>2, OtherIds, ConnectKinds
<1>5. CASE Flow
  <2>1. PICK a \in answers : GoesOn(a.flow, a.found, answers \ {a})
    BY <1>5 DEF Flow
  <2>2. a.flow \in FlowNames /\ a.found \in Findings /\ Origin(a.found)
    BY <1>1 DEF AnswersInv, Origin
  <2>3. answers \ {a} \in SUBSET answers
    OBVIOUS
  <2> QED
    BY <1>1, <2>1, <2>2, <2>3 DEF AnswersInv, FlowGoesOn
<1> QED
  BY <1>2, <1>3, <1>4, <1>5 DEF Next, User

LEMMA GoesOnIsFlowStep ==
  ASSUME Shape, SoundInv, FlowGoesOn PROVE FlowStep
<1>1. PICK flow \in FlowNames, d \in Findings, flows \in SUBSET answers :
        /\ flow \in Entries => Exists(flow)
        /\ Sound(d) /\ GoesOn(flow, d, flows)
  BY DEF FlowGoesOn
<1>2. d.uid \in Ids /\ d.host \in Hosts
  BY DEF Findings
<1>3. ASSUME Aborted(flows) PROVE FlowStep
  BY <1>3 DEF Aborted, Quiet, Shape, SoundInv, FlowStep
<1>4. ASSUME UpdateAddress(d.uid, d.host) PROVE FlowStep
  BY <1>2, <1>4, UpdateIsHostStep DEF FlowStep
<1>5. CASE flow = "user" /\ async_step_user(d, flows)
  BY <1>1, <1>3, <1>4, <1>5 DEF async_step_user, FlowStep
<1>6. CASE flow = "zeroconf" /\ async_step_zeroconf(d, flows)
  <2>1. CASE /\ pending' = pending \cup {d}
             /\ UNCHANGED <<worldVars, data, state, client, issues, reloads>>
    <3>1. Quiet
      BY <1>1, <2>1 DEF Quiet, Shape, SoundInv
    <3> QED
      BY <3>1 DEF FlowStep
  <2> QED
    BY <1>3, <1>4, <1>6, <2>1 DEF async_step_zeroconf
<1>7. CASE flow \in Entries /\ async_step_reconfigure(flow, d, flows)
  <2>1. CASE _is_same_speaker(flow, d)
    <3>1. state[flow] # "waiting" => state[flow] \in {"refreshing", "loaded"}
      BY <1>1, <1>7 DEF Shape, States, Exists
    <3>2. HostStep(flow, d.host)
      BY <1>1, <1>3, <1>7, <2>1, <3>1 DEF async_step_reconfigure, HostStep
    <3> QED
      BY <1>2, <1>7, <3>2 DEF FlowStep
  <2> QED
    BY <1>3, <1>7, <2>1 DEF async_step_reconfigure
<1> QED
  BY <1>1, <1>5, <1>6, <1>7 DEF GoesOn

LEMMA FlowSteps ==
  ASSUME EntriesInv,
         \/ FlowGoesOn \/ FlowWaits
         \/ \E d \in pending : async_step_zeroconf_confirm(d) \/ Dismiss(d)
         \/ World
         \/ UNCHANGED vars
  PROVE  FlowStep
<1>1. CASE FlowGoesOn
  BY <1>1, GoesOnIsFlowStep DEF EntriesInv
<1>2. CASE FlowWaits
  BY <1>2 DEF FlowWaits, EntriesInv, Shape, SoundInv, Quiet, FlowStep
<1>3. ASSUME NEW d \in pending, async_step_zeroconf_confirm(d) PROVE FlowStep
  <2>1. answers \in SUBSET answers
    OBVIOUS
  <2> QED
    BY <1>3, <2>1 DEF async_step_zeroconf_confirm, EntriesInv, Shape, SoundInv, FlowStep
<1>4. ASSUME NEW d \in pending, Dismiss(d) PROVE FlowStep
  <2>1. Quiet
    BY <1>4 DEF Dismiss, EntriesInv, Shape, SoundInv, Quiet
  <2> QED
    BY <2>1 DEF FlowStep
<1>5. CASE World
  <2>1. Quiet
    BY <1>5 DEF World, Identify, Move, flowVars, EntriesInv, Shape, SoundInv, Quiet
  <2> QED
    BY <2>1 DEF FlowStep
<1>6. CASE UNCHANGED vars
  <2>1. Quiet
    BY <1>6 DEF vars, flowVars, EntriesInv, Shape, SoundInv, Quiet
  <2> QED
    BY <2>1 DEF FlowStep
<1> QED
  BY <1>1, <1>2, <1>3, <1>4, <1>5, <1>6

----------------------------------------------------------------------------
(* The invariant under each kind of step.                                  *)

EntryInv == Shape /\ SoundInv /\ UniqueIds /\ IdentityKept /\ IssuesCurrent

LEMMA QuietKeeps ==
  ASSUME EntryInv, Quiet PROVE EntryInv'
<1>1. Shape'
  BY DEF EntryInv, Quiet, Shape, Exists
<1>2. SoundInv'
  BY DEF EntryInv, Quiet, SoundInv, Exists
<1>3. UniqueIds' /\ IdentityKept' /\ IssuesCurrent'
  BY DEF EntryInv, Quiet, UniqueIds, IdentityKept, IssuesCurrent, Exists
<1> QED
  BY <1>1, <1>2, <1>3 DEF EntryInv

LEMMA HostStepKeeps ==
  ASSUME EntryInv, NEW e \in Entries, NEW h \in Hosts, HostStep(e, h)
  PROVE  EntryInv'
<1>1. /\ data[e] \in Findings /\ state[e] # "none"
      /\ data' = [data EXCEPT ![e] = [data[e] EXCEPT !.host = h]]
  BY ExistingData DEF HostStep, EntryInv, Exists
<1>2. [data[e] EXCEPT !.host = h] \in Findings
  BY <1>1 DEF Findings
<1>3. \A f \in Entries : /\ data'[f].uid = data[f].uid
                          /\ data'[f].serial = data[f].serial
                          /\ data'[f].made = data[f].made
                          /\ data'[f] = Absent <=> data[f] = Absent
  BY <1>1, <1>2, AbsentIsNoEntry DEF EntryInv, Shape, Findings
<1>4. Shape'
  <2>1. data' \in [Entries -> Findings \cup {Absent}]
    BY <1>1, <1>2 DEF EntryInv, Shape
  <2> QED
    BY <1>3, <2>1 DEF EntryInv, Shape, HostStep, Exists
<1>5. SoundInv'
  BY <1>3 DEF EntryInv, SoundInv, Sound, HostStep, Exists
<1>6. UniqueIds' /\ IdentityKept' /\ IssuesCurrent'
  <2>1. UniqueIds'
    BY <1>3 DEF EntryInv, UniqueIds, HostStep, Exists
  <2>2. IdentityKept'
    BY <1>3 DEF EntryInv, IdentityKept, HostStep
  <2>3. IssuesCurrent'
    BY <1>3 DEF EntryInv, Shape, IssuesCurrent, HostStep
  <2> QED
    BY <2>1, <2>2, <2>3
<1> QED
  BY <1>4, <1>5, <1>6 DEF EntryInv

LEMMA CreateKeeps ==
  ASSUME EntryInv, NEW d \in Findings, NEW flows, Sound(d), async_create_entry(d, flows)
  PROVE  EntryInv'
<1> DEFINE old == {x \in Entries : Uses(x, d.uid)}
<1>1. PICK e \in Entries :
        /\ ~Exists(e)
        /\ data' = [x \in Entries |-> IF x = e THEN d
                                     ELSE IF x \in old THEN Absent ELSE data[x]]
        /\ state' = [x \in Entries |-> IF x = e THEN "waiting"
                                      ELSE IF x \in old THEN "none" ELSE state[x]]
        /\ client' = [x \in Entries |-> IF x \in old THEN NoClient ELSE client[x]]
  BY DEF async_create_entry
<1>2. /\ pending' \subseteq pending /\ reloads' = reloads \ old /\ issues' = issues \ old
  BY DEF async_create_entry, Removed
<1>3. \A x \in old : Exists(x) /\ state[x] # "refreshing" /\ x # e
  <2>1. d.uid \in Ids
    BY DEF Findings
  <2>2. \A x \in old : state[x] # "refreshing"
    BY DEF async_create_entry
  <2> QED
    BY <1>1, <2>1, <2>2, UsesExists DEF EntryInv
<1>4. NoClient \in ClientData /\ client[e] = NoClient
  BY <1>1 DEF EntryInv, Shape, NoClient, ClientData, Exists
<1>5. \A x \in Entries \ old : data[x].uid # d.uid
  BY DEF Uses
<1> HIDE DEF old
<1>6. Shape'
  <2>1. data' \in [Entries -> Findings \cup {Absent}]
    BY <1>1 DEF EntryInv, Shape
  <2>2. state' \in [Entries -> States]
    BY <1>1 DEF EntryInv, Shape, States
  <2>3. client' \in [Entries -> ClientData]
    BY <1>1, <1>4 DEF EntryInv, Shape
  <2>4. pending' \subseteq Findings /\ issues' \subseteq Entries /\ reloads' \subseteq Entries
    BY <1>2 DEF EntryInv, Shape
  <2>5. \A x \in Entries : state'[x] # "none" <=> data'[x] # Absent
    BY <1>1, AbsentIsNoEntry DEF EntryInv, Shape, Exists
  <2>6. \A x \in Entries : state'[x] \in {"refreshing", "loaded"} <=> client'[x] # NoClient
    BY <1>1, <1>4 DEF EntryInv, Shape
  <2>7. \A x \in reloads' : state'[x] \in {"refreshing", "loaded"}
    BY <1>1, <1>2 DEF EntryInv, Shape, Exists
  <2> QED
    BY <2>1, <2>2, <2>3, <2>4, <2>5, <2>6, <2>7 DEF Shape, Exists
<1>7. SoundInv'
  BY <1>1, <1>2 DEF EntryInv, SoundInv, Exists
<1>8. UniqueIds'
  BY <1>1, <1>5 DEF EntryInv, UniqueIds, Exists
<1>9. IdentityKept'
  BY <1>1 DEF EntryInv, IdentityKept
<1>10. IssuesCurrent'
  BY <1>1, <1>2 DEF EntryInv, Shape, IssuesCurrent, Exists
<1> QED
  BY <1>6, <1>7, <1>8, <1>9, <1>10 DEF EntryInv

LEMMA RefusedKeeps ==
  ASSUME EntryInv, NEW e \in Entries, SetupRefused(e) PROVE EntryInv'
<1>1. data[e].serial # NoSerial /\ state[e] = "waiting" /\ issues' = issues \cup {e}
  BY DEF SetupRefused, Answers, Mismatch
<1>2. UNCHANGED <<data, state, client, pending, reloads>>
  BY DEF SetupRefused, flowVars
<1>3. Shape' /\ SoundInv'
  BY <1>1, <1>2 DEF EntryInv, Shape, SoundInv, Exists
<1>4. UniqueIds' /\ IdentityKept' /\ IssuesCurrent'
  BY <1>1, <1>2 DEF EntryInv, UniqueIds, IdentityKept, IssuesCurrent, Exists
<1> QED
  BY <1>3, <1>4 DEF EntryInv

LEMMA ConnectedKeeps ==
  ASSUME WorldInv, EntryInv, NEW e \in Entries, Connected(e) PROVE EntryInv'
<1>1. PICK s \in Speakers :
        /\ Answers(e, s) /\ ~Mismatch(e, s)
        /\ client' = [client EXCEPT ![e] =
             [host   |-> data[e].host,
              serial |-> IF Reports(s) # NoSerial THEN Reports(s) ELSE data[e].serial]]
  BY DEF Connected
<1>2. /\ issues' = issues \ {e} /\ state' = [state EXCEPT ![e] = "refreshing"]
      /\ UNCHANGED <<data, pending, reloads>>
  BY DEF Connected, flowVars
<1>3. state[e] = "waiting" /\ data[e] \in Findings
  BY <1>1, ExistingData DEF Answers, EntryInv, Exists
<1>4. Reports(s) \in Speakers \cup {NoSerial}
  BY DEF Reports, WorldInv
<1>5. /\ client' = [client EXCEPT ![e] = client'[e]]
      /\ client'[e] \in ClientData /\ client'[e] # NoClient
      /\ data[e].serial # NoSerial => client'[e].serial = data[e].serial
  <2>1. client'[e] = [host   |-> data[e].host,
                      serial |-> IF Reports(s) # NoSerial THEN Reports(s) ELSE data[e].serial]
    BY <1>1 DEF EntryInv, Shape
  <2>2. data[e].host \in Hosts /\ data[e].host # Nowhere
    BY <1>3, EntriesAssumption DEF Findings
  <2>3. client'[e].host = data[e].host /\ client'[e] \in ClientData
    BY <1>3, <1>4, <2>1, <2>2 DEF Findings, ClientData
  <2>4. client'[e] # NoClient
    BY <2>2, <2>3 DEF NoClient
  <2>5. data[e].serial # NoSerial => client'[e].serial = data[e].serial
    BY <1>1, <2>1 DEF Mismatch
  <2> QED
    BY <1>1, <2>1, <2>3, <2>4, <2>5
<1>6. Shape'
  BY <1>2, <1>3, <1>5 DEF EntryInv, Shape, States, Exists
<1>7. SoundInv' /\ UniqueIds'
  BY <1>2, <1>3 DEF EntryInv, Shape, SoundInv, UniqueIds, Exists
<1>8. IdentityKept' /\ IssuesCurrent'
  BY <1>2, <1>3, <1>5 DEF EntryInv, Shape, IdentityKept, IssuesCurrent
<1> QED
  BY <1>6, <1>7, <1>8 DEF EntryInv

LEMMA DropKeeps ==
  ASSUME EntryInv, NEW e \in Entries, Drop(e), state[e] \in {"refreshing", "loaded"},
         UNCHANGED <<data, issues, pending>>
  PROVE  EntryInv'
<1>1. NoClient \in ClientData
  BY DEF NoClient, ClientData
<1>2. Shape'
  BY <1>1 DEF EntryInv, Shape, Drop, States, Exists
<1>3. SoundInv' /\ UniqueIds'
  BY DEF EntryInv, Shape, Drop, SoundInv, UniqueIds, Exists
<1>4. IdentityKept' /\ IssuesCurrent'
  BY DEF EntryInv, Shape, Drop, IdentityKept, IssuesCurrent
<1> QED
  BY <1>2, <1>3, <1>4 DEF EntryInv

\* The migration uses a serial that is the entry's own, if it has one, and
\* that no entry uses: not this one either.
LEMMA MigrationKeeps ==
  ASSUME EntryInv, NEW e \in Entries, Load(e) PROVE EntryInv'
<1>1. /\ state[e] = "refreshing" /\ state' = [state EXCEPT ![e] = "loaded"]
      /\ UNCHANGED <<client, issues, pending, reloads>>
  BY DEF Load, flowVars
<1>2. data[e] \in Findings
  BY <1>1, ExistingData DEF EntryInv, Exists
<1>3. data[e].serial # NoSerial => client[e].serial = data[e].serial
  BY <1>1 DEF EntryInv, IdentityKept
<1>4. client[e].serial \in Speakers \cup {NoSerial}
  BY DEF EntryInv, Shape, ClientData
<1>5. CASE data' = data
  <2>1. Shape'
    BY <1>1, <1>5 DEF EntryInv, Shape, States, Exists
  <2>2. SoundInv' /\ UniqueIds'
    BY <1>1, <1>5 DEF EntryInv, Shape, SoundInv, UniqueIds, Exists
  <2>3. IdentityKept' /\ IssuesCurrent'
    BY <1>1, <1>5 DEF EntryInv, Shape, IdentityKept, IssuesCurrent
  <2> QED
    BY <2>1, <2>2, <2>3 DEF EntryInv
<1>6. CASE data' # data
  <2> DEFINE serial == client[e].serial
             new == [data[e] EXCEPT !.uid = SerialId(serial), !.serial = serial]
  <2>1. /\ serial # NoSerial /\ \A f \in Entries : data[f].uid # SerialId(serial)
        /\ data' = [data EXCEPT ![e] = new]
    BY <1>6 DEF Load, _async_migrate_entry_unique_id, Uses
  <2>2. serial \in Speakers /\ SerialId(serial) \in Ids
    BY <1>4, <2>1, Serials
  <2>3. /\ new \in Findings /\ new.uid = SerialId(serial) /\ new.serial = serial
        /\ new.made = data[e].made
    BY <1>2, <2>2 DEF Findings
  <2>4. Sound(new)
    <3>1. data[e].made \notin Known
      <4>1. SUFFICES ASSUME data[e].made \in Known PROVE FALSE
        OBVIOUS
      <4>2. data[e].uid = SerialId(data[e].made) /\ data[e].serial = data[e].made
        BY <1>1, <4>1 DEF EntryInv, SoundInv, Sound, Exists
      <4>3. data[e].serial # NoSerial
        BY <4>1, <4>2, EntriesAssumption DEF Known
      <4> QED
        BY <1>3, <2>1, <4>2, <4>3
    <3> QED
      BY <2>2, <2>3, <3>1 DEF Sound
  <2> HIDE DEF new, serial
  <2>5. Shape'
    BY <1>1, <2>1, <2>3, AbsentIsNoEntry DEF EntryInv, Shape, States, Exists
  <2>6. SoundInv'
    BY <1>1, <2>1, <2>4 DEF EntryInv, Shape, SoundInv, Exists
  <2>7. UniqueIds'
    BY <1>1, <2>1, <2>3 DEF EntryInv, Shape, UniqueIds, Exists
  <2>8. IdentityKept' /\ IssuesCurrent'
    BY <1>1, <2>1, <2>3 DEF EntryInv, Shape, IdentityKept, IssuesCurrent, serial
  <2> QED
    BY <2>5, <2>6, <2>7, <2>8 DEF EntryInv
<1> QED
  BY <1>5, <1>6

LEMMA RemoveKeeps ==
  ASSUME EntryInv, NEW e \in Entries, Remove(e) PROVE EntryInv'
<1>1. /\ data' = [data EXCEPT ![e] = Absent] /\ state' = [state EXCEPT ![e] = "none"]
      /\ client' = [client EXCEPT ![e] = NoClient] /\ reloads' = reloads \ {e}
      /\ issues' = issues \ {e} /\ pending' = pending
  BY DEF Remove, Removed
<1>2. NoClient \in ClientData
  BY DEF NoClient, ClientData
<1>3. Shape'
  BY <1>1, <1>2 DEF EntryInv, Shape, States, Exists
<1>4. SoundInv' /\ UniqueIds'
  BY <1>1 DEF EntryInv, Shape, SoundInv, UniqueIds, Exists
<1>5. IdentityKept' /\ IssuesCurrent'
  BY <1>1 DEF EntryInv, Shape, IdentityKept, IssuesCurrent
<1> QED
  BY <1>3, <1>4, <1>5 DEF EntryInv

LEMMA RestartKeeps ==
  ASSUME EntryInv, Restart PROVE EntryInv'
<1>1. NoClient \in ClientData
  BY DEF NoClient, ClientData
<1>2. Shape'
  BY <1>1 DEF EntryInv, Shape, Restart, States, Exists
<1>3. SoundInv' /\ UniqueIds'
  BY DEF EntryInv, Shape, Restart, SoundInv, UniqueIds, Exists
<1>4. IdentityKept' /\ IssuesCurrent'
  BY DEF EntryInv, Shape, Restart, IdentityKept, IssuesCurrent
<1> QED
  BY <1>2, <1>3, <1>4 DEF EntryInv

----------------------------------------------------------------------------
LEMMA InitEntries == Init => EntriesInv
<1> SUFFICES ASSUME Init PROVE EntriesInv
  OBVIOUS
<1>1. WorldInv /\ AnswersInv
  BY DEF Init, WorldInv, AnswersInv
<1>2. \A e \in Entries : data[e] = Absent \/ \E s \in Legacy, h \in Hosts,
        n \in Speakers \cup {NoSerial} :
          data[e] = [uid |-> NameId(Name[s]), host |-> h, serial |-> n, made |-> s]
  BY DEF Init
<1>3. \A e \in Entries : data[e] # Absent =>
        /\ data[e] \in Findings /\ data[e].uid \notin SerialIds /\ data[e].made \in Legacy
  <2> SUFFICES ASSUME NEW e \in Entries, data[e] # Absent
               PROVE  /\ data[e] \in Findings /\ data[e].uid \notin SerialIds
                      /\ data[e].made \in Legacy
    OBVIOUS
  <2>1. PICK s \in Legacy, h \in Hosts, n \in Speakers \cup {NoSerial} :
          data[e] = [uid |-> NameId(Name[s]), host |-> h, serial |-> n, made |-> s]
    BY <1>2
  <2>2. s \in Speakers /\ NameId(Name[s]) \in Ids \ SerialIds
    BY EntriesAssumption, OtherIds
  <2> QED
    BY <2>1, <2>2 DEF Findings
<1>4. Shape
  <2>1. NoClient \in ClientData
    BY DEF NoClient, ClientData
  <2>2. data \in [Entries -> Findings \cup {Absent}]
    BY <1>3 DEF Init
  <2> QED
    BY <2>1, <2>2 DEF Init, Shape, States, Exists
<1>5. SoundInv
  BY <1>3 DEF Init, SoundInv, Sound, Known, Exists
<1>6. UniqueIds /\ IdentityKept /\ IssuesCurrent
  BY DEF Init, UniqueIds, IdentityKept, IssuesCurrent, Exists
<1> QED
  BY <1>1, <1>4, <1>5, <1>6 DEF EntriesInv

LEMMA NextWorld == EntriesInv /\ [Next]_vars => WorldInv'
<1> SUFFICES ASSUME EntriesInv, [Next]_vars PROVE WorldInv'
  OBVIOUS
<1>1. WorldInv
  BY DEF EntriesInv
<1>2. ASSUME NEW s \in Speakers, NEW h \in Hosts \cup {Nowhere}, Move(s, h) PROVE WorldInv'
  BY <1>1, <1>2 DEF Move, WorldInv
<1>3. ASSUME NEW s \in Speakers, Identify(s) PROVE WorldInv'
  BY <1>1, <1>3 DEF Identify, WorldInv
<1>4. CASE UNCHANGED worldVars
  BY <1>1, <1>4 DEF worldVars, WorldInv
<1>5. World \/ UNCHANGED worldVars
  <2>1. FlowGoesOn => UNCHANGED worldVars
    BY DEF FlowGoesOn, GoesOn, async_step_user, async_step_zeroconf, Aborted,
           async_step_reconfigure, UpdateAddress, async_create_entry, worldVars
  <2>2. FlowWaits \/ Restart => UNCHANGED worldVars
    BY DEF FlowWaits, Restart, worldVars
  <2>3. (\E d \in pending : async_step_zeroconf_confirm(d) \/ Dismiss(d))
          => UNCHANGED worldVars
    BY DEF async_step_zeroconf_confirm, async_create_entry, Dismiss, worldVars
  <2>4. (\E e \in Entries : Setup(e) \/ Remove(e)) => UNCHANGED worldVars
    BY DEF Setup, SetupRefused, Connected, RefreshFails, Load, Reload, Remove
  <2> QED
    BY <2>1, <2>2, <2>3, <2>4, Kinds DEF vars
<1> QED
  BY <1>2, <1>3, <1>4, <1>5 DEF World

\* What flows have heard stays sound, and so does what they reconfigure.
LEMMA FewerAnswers ==
  ASSUME AnswersInv, NEW gone, answers' \subseteq Without(gone, answers),
         \A x \in Entries : Exists(x) => x \in gone \/ Exists(x)'
  PROVE  AnswersInv'
<1>1. answers' \subseteq answers /\ \A a \in answers' : a.flow \notin gone
  BY DEF Without
<1> QED
  BY <1>1 DEF AnswersInv

LEMMA CreateAnswers ==
  ASSUME AnswersInv, NEW d, NEW flows \in SUBSET answers, async_create_entry(d, flows)
  PROVE  AnswersInv'
<1> DEFINE old == {x \in Entries : Uses(x, d.uid)}
<1>1. answers' \subseteq Without(old, answers)
  BY DEF async_create_entry, Without
<1>2. \A x \in Entries : Exists(x) => x \in old \/ Exists(x)'
  BY DEF async_create_entry, Exists
<1> HIDE DEF old
<1> QED
  BY <1>1, <1>2, FewerAnswers

LEMMA SameAnswers ==
  ASSUME AnswersInv, answers' \subseteq answers,
         \A x \in Entries : Exists(x) => Exists(x)'
  PROVE  AnswersInv'
BY DEF AnswersInv

LEMMA SetupKeepsEntries ==
  ASSUME Shape, NEW e \in Entries, Setup(e)
  PROVE  answers' = answers /\ \A x \in Entries : Exists(x)' <=> Exists(x)
BY DEF Shape, Setup, SetupRefused, Connected, RefreshFails, Load, Reload, Drop, Answers,
       Exists, flowVars

LEMMA NextAnswers == EntriesInv /\ [Next]_vars => AnswersInv'
<1> SUFFICES ASSUME EntriesInv, [Next]_vars PROVE AnswersInv'
  OBVIOUS
<1>1. AnswersInv /\ Shape
  BY DEF EntriesInv
<1>2. ASSUME answers' \subseteq answers, state' = state PROVE AnswersInv'
  BY <1>1, <1>2, SameAnswers DEF Exists
<1>3. CASE FlowGoesOn
  <2>1. PICK flow \in FlowNames, d \in Findings, flows \in SUBSET answers :
          GoesOn(flow, d, flows)
    BY <1>3 DEF FlowGoesOn
  <2>2. \/ answers' = flows /\ state' = state
        \/ async_create_entry(d, flows)
    BY <2>1 DEF GoesOn, async_step_user, async_step_zeroconf, async_step_reconfigure,
                Aborted, UpdateAddress
  <2> QED
    BY <1>1, <1>2, <2>2, CreateAnswers
<1>4. CASE FlowWaits
  <2>1. PICK flow \in FlowNames, d \in Findings :
          /\ flow \in Entries => Exists(flow)
          /\ Sound(d) /\ Heard(d)
          /\ answers' = answers \cup {[flow |-> flow, found |-> d]}
    BY <1>4 DEF FlowWaits
  <2>2. state' = state
    BY <1>4 DEF FlowWaits
  <2> QED
    BY <1>1, <2>1, <2>2 DEF AnswersInv, Exists
<1>5. ASSUME NEW d \in pending, async_step_zeroconf_confirm(d) \/ Dismiss(d)
      PROVE  AnswersInv'
  BY <1>1, <1>2, <1>5, CreateAnswers DEF async_step_zeroconf_confirm, Dismiss
<1>6. ASSUME NEW e \in Entries, Setup(e) PROVE AnswersInv'
  BY <1>1, <1>6, SetupKeepsEntries, SameAnswers
<1>7. ASSUME NEW e \in Entries, Remove(e) PROVE AnswersInv'
  <2>1. \A x \in Entries : Exists(x) => x \in {e} \/ Exists(x)'
    BY <1>1, <1>7 DEF Remove, Exists, Shape
  <2>2. answers' \subseteq Without({e}, answers)
    BY <1>7 DEF Remove
  <2> QED
    BY <1>1, <2>1, <2>2, FewerAnswers
<1>8. CASE Restart
  BY <1>8 DEF Restart, AnswersInv
<1>9. CASE World \/ UNCHANGED vars
  BY <1>2, <1>9 DEF World, Identify, Move, flowVars, vars
<1> QED
  BY <1>3, <1>4, <1>5, <1>6, <1>7, <1>8, <1>9, Kinds

LEMMA StepKinds ==
  ASSUME EntriesInv, [Next]_vars
  PROVE  \/ FlowStep \/ Restart
         \/ \E e \in Entries : Setup(e) \/ Remove(e)
BY Kinds, FlowSteps

LEMMA NextEntries == EntriesInv /\ [Next]_vars => EntriesInv'
<1> SUFFICES ASSUME EntriesInv, [Next]_vars PROVE EntriesInv'
  OBVIOUS
<1>1. WorldInv' /\ AnswersInv' /\ WorldInv /\ EntryInv
  BY NextWorld, NextAnswers DEF EntriesInv, EntryInv
<1>2. CASE FlowStep
  BY <1>1, <1>2, QuietKeeps, HostStepKeeps, CreateKeeps DEF FlowStep, EntriesInv, EntryInv
<1>3. CASE Restart
  BY <1>1, <1>3, RestartKeeps DEF EntriesInv, EntryInv
<1>4. ASSUME NEW e \in Entries, Setup(e) \/ Remove(e) PROVE EntriesInv'
  <2>1. RefreshFails(e) \/ Reload(e) => EntryInv'
    BY <1>1, DropKeeps DEF RefreshFails, Reload
  <2>2. EntryInv'
    BY <1>1, <1>4, <2>1, RefusedKeeps, ConnectedKeeps, MigrationKeeps, RemoveKeeps DEF Setup
  <2> QED
    BY <1>1, <2>2 DEF EntriesInv, EntryInv
<1> QED
  BY <1>2, <1>3, <1>4, StepKinds

THEOREM Invariance == Spec => []EntriesInv
BY InitEntries, NextEntries, PTL DEF Spec

\* Every variable keeps its type (the records of config_flow.py:99-109, the
\* states of an entry), and an entry has a coordinator exactly while it is up.
THEOREM TypeCorrect == Spec => []TypeOK
<1>1. EntriesInv => TypeOK
  <2> SUFFICES ASSUME EntriesInv PROVE TypeOK
    OBVIOUS
  <2>1. WorldInv /\ Shape
    BY DEF EntriesInv
  <2>2. Absent \in [uid : Ids \cup {NoId}, host : Hosts \cup {Nowhere},
                   serial : Speakers \cup {NoSerial}, made : Speakers \cup {NoSerial}]
    BY DEF Absent
  <2>3. Findings \subseteq [uid : Ids \cup {NoId}, host : Hosts \cup {Nowhere},
                   serial : Speakers \cup {NoSerial}, made : Speakers \cup {NoSerial}]
    BY DEF Findings
  <2>4. AnswersInv
    BY DEF EntriesInv
  <2> QED
    BY <2>1, <2>2, <2>3, <2>4 DEF WorldInv, AnswersInv, FlowNames, Shape, ClientData, TypeOK
<1> QED
  BY <1>1, Invariance, PTL

\* No two entries ever share a unique id (config_flow.py:90 and 181,
\* __init__.py:271), whatever races.
THEOREM IdsAreUnique == Spec => []UniqueIds
<1>1. EntriesInv => UniqueIds
  BY DEF EntriesInv
<1> QED
  BY <1>1, Invariance, PTL

\* "the same physical speaker is never registered twice" (config_flow.py:58),
\* if it reports its serial and no old version entered it.
THEOREM RegisteredOnce == Spec => []KnownOnce
<1>1. EntriesInv => KnownOnce
  <2> SUFFICES ASSUME EntriesInv, NEW e \in Entries, NEW f \in Entries,
                      data[e].made \in Known, data[e].made = data[f].made
               PROVE  e = f
    BY DEF KnownOnce
  <2>1. Absent.made \notin Known
    BY EntriesAssumption DEF Absent, Known
  <2>2. Exists(e) /\ Exists(f)
    BY <2>1 DEF EntriesInv, Shape
  <2>3. data[e].uid = SerialId(data[e].made) /\ data[f].uid = SerialId(data[e].made)
    BY <2>2 DEF EntriesInv, SoundInv, Sound
  <2> QED
    BY <2>2, <2>3 DEF EntriesInv, UniqueIds
<1> QED
  BY <1>1, Invariance, PTL

\* No coordinator takes the identity of another speaker than its entry's
\* (coordinator.py:105), whoever answers at its address and whenever.
THEOREM IdentityIsKept == Spec => []IdentityKept
<1>1. EntriesInv => IdentityKept
  BY DEF EntriesInv
<1> QED
  BY <1>1, Invariance, PTL

\* A repair issue (coordinator.py:110) is about an entry that exists, knows
\* its serial and is not set up.
THEOREM IssuesAreCurrent == Spec => []IssuesCurrent
<1>1. EntriesInv => IssuesCurrent
  BY DEF EntriesInv
<1> QED
  BY <1>1, Invariance, PTL

----------------------------------------------------------------------------
\* An entry whose serial is known is only given an address that a flow heard of
\* from no speaker with another serial (config_flow.py:91, 136 and 183).
AddressStep ==
  \A e \in Entries :
    /\ data'[e].host # data[e].host /\ data[e].serial # NoSerial
    /\ Exists(e) /\ data'[e].uid # NoId
    => \/ \E a \in answers : /\ a.found.host = data'[e].host
                             /\ a.found.serial \in {NoSerial, data[e].serial}
       \/ \E s \in Speakers : /\ addr[s] = data'[e].host
                              /\ Reports(s) \in {NoSerial, data[e].serial}

\* The entry f gets the address of d, which was heard.
LEMMA FromOrigin ==
  ASSUME Shape, NEW d \in Findings, Origin(d), NEW f \in Entries, Exists(f),
         data' = [data EXCEPT ![f].host = d.host],
         data[f].serial # NoSerial => d.serial \in {NoSerial, data[f].serial}
  PROVE  AddressStep
<1>1. \A e \in Entries : e # f => data'[e] = data[e]
  BY DEF Shape
<1>2. data'[f].host = d.host
  BY ExistingData DEF Shape, Findings
<1>3. ASSUME data[f].serial # NoSerial
      PROVE  \/ \E a \in answers : /\ a.found.host = d.host
                                  /\ a.found.serial \in {NoSerial, data[f].serial}
             \/ \E s \in Speakers : /\ addr[s] = d.host
                                    /\ Reports(s) \in {NoSerial, data[f].serial}
  BY <1>3 DEF Origin
<1> QED
  BY <1>1, <1>2, <1>3 DEF AddressStep

LEMMA CreateAddress ==
  ASSUME EntriesInv, NEW d, NEW flows, async_create_entry(d, flows) PROVE AddressStep
<1>1. \A e \in Entries : Exists(e) => data'[e] = data[e] \/ data'[e] = Absent
  BY DEF async_create_entry
<1> QED
  BY <1>1 DEF AddressStep, Absent

LEMMA GoesOnAddress ==
  ASSUME EntriesInv, FlowGoesOn PROVE AddressStep
<1>1. PICK flow \in FlowNames, d \in Findings, flows \in SUBSET answers :
        /\ flow \in Entries => Exists(flow)
        /\ Heard(d) /\ Origin(d) /\ GoesOn(flow, d, flows)
  BY DEF FlowGoesOn
<1>2. ASSUME data' = data PROVE AddressStep
  BY <1>2 DEF AddressStep
<1>3. ASSUME UpdateAddress(d.uid, d.host) PROVE AddressStep
  <2>1. PICK f \in Entries : data[f].uid = d.uid /\ data' = [data EXCEPT ![f].host = d.host]
    BY <1>3 DEF UpdateAddress, Uses
  <2>2. Exists(f)
    BY <2>1, UsesExists DEF EntriesInv, Findings, Uses
  <2>3. d.serial \in {NoSerial, data[f].serial}
    <3>1. SUFFICES ASSUME d.serial # NoSerial PROVE d.serial = data[f].serial
      OBVIOUS
    <3>2. d.serial \in Speakers /\ data[f].uid = SerialId(d.serial)
      BY <1>1, <2>1, <3>1 DEF Heard, Findings
    <3>3. Sound(data[f]) /\ data[f].uid \in SerialIds
      BY <2>2, <3>2, Serials DEF EntriesInv, SoundInv
    <3> QED
      BY <3>2, <3>3, Serials DEF Sound
  <2> QED
    BY <1>1, <2>1, <2>2, <2>3, FromOrigin DEF EntriesInv
<1>4. CASE flow = "user" /\ async_step_user(d, flows)
  BY <1>2, <1>3, <1>4, CreateAddress DEF async_step_user, Aborted
<1>5. CASE flow = "zeroconf" /\ async_step_zeroconf(d, flows)
  BY <1>2, <1>3, <1>5 DEF async_step_zeroconf, Aborted
<1>6. CASE flow \in Entries /\ async_step_reconfigure(flow, d, flows)
  <2>1. CASE _is_same_speaker(flow, d)
    <3>1. CASE data' = [data EXCEPT ![flow].host = d.host]
      <4>1. data[flow].serial # NoSerial => d.serial \in {NoSerial, data[flow].serial}
        BY <2>1 DEF _is_same_speaker
      <4> QED
        BY <1>1, <1>6, <3>1, <4>1, FromOrigin DEF EntriesInv
    <3> QED
      BY <1>2, <1>6, <3>1 DEF async_step_reconfigure, Aborted
  <2> QED
    BY <1>2, <1>6, <2>1 DEF async_step_reconfigure, Aborted
<1> QED
  BY <1>1, <1>4, <1>5, <1>6 DEF GoesOn

LEMMA NextAddress == EntriesInv /\ [Next]_vars => AddressStep
<1> SUFFICES ASSUME EntriesInv, [Next]_vars PROVE AddressStep
  OBVIOUS
<1>1. CASE UNCHANGED data
  BY <1>1 DEF AddressStep
<1>2. ASSUME NEW e \in Entries, Load(e) PROVE AddressStep
  BY <1>2 DEF Load, _async_migrate_entry_unique_id, EntriesInv, Shape, AddressStep
<1>3. ASSUME NEW e \in Entries, Remove(e) PROVE AddressStep
  BY <1>3 DEF Remove, EntriesInv, Shape, AddressStep, Absent
<1>4. CASE FlowGoesOn
  BY <1>4, GoesOnAddress
<1>5. ASSUME NEW d \in pending, async_step_zeroconf_confirm(d) PROVE AddressStep
  BY <1>5, CreateAddress DEF async_step_zeroconf_confirm
<1>6. \/ UNCHANGED data
      \/ \E e \in Entries : Load(e) \/ Remove(e)
      \/ FlowGoesOn
      \/ \E d \in pending : async_step_zeroconf_confirm(d)
  BY Kinds DEF FlowWaits, Setup, SetupRefused, Connected, RefreshFails, Reload, Dismiss,
               Restart, World, Identify, Move, vars
<1> QED
  BY <1>1, <1>2, <1>3, <1>4, <1>5, <1>6

\* An entry whose serial is known is given no address of a speaker that is
\* known to be another, by no flow and by no migration.
THEOREM AddressesAreTheirs == Spec => AddressIsItsSpeakers
<1>1. EntriesInv /\ [Next]_vars => [AddressStep]_vars
  BY NextAddress
<1>2. AddressIsItsSpeakers <=> [][AddressStep]_vars
  BY DEF AddressIsItsSpeakers, AddressStep
<1> QED
  BY <1>1, <1>2, Invariance, PTL DEF Spec

----------------------------------------------------------------------------
(* The entries implement the book of SpeakerRegistry.                      *)

Book == [id \in UsedIds |-> data[EntryOf(id)].host]

BookFacts ==
  /\ UsedIds \subseteq Ids
  /\ \A e \in Entries : Exists(e) =>
       /\ data[e].uid \in UsedIds /\ data[e].host \in Hosts
       /\ Book[data[e].uid] = data[e].host
  /\ \A id \in UsedIds : \E e \in Entries : Exists(e) /\ data[e].uid = id

LEMMA BookHolds == EntriesInv => BookFacts
<1> SUFFICES ASSUME EntriesInv PROVE BookFacts
  OBVIOUS
<1>1. \A e \in Entries : Exists(e) =>
        data[e].uid \in Ids /\ data[e].host \in Hosts /\ data[e].uid \in UsedIds
  BY ExistingData DEF EntriesInv, Findings, UsedIds
<1>2. \A id \in UsedIds : \E e \in Entries : Exists(e) /\ data[e].uid = id
  BY DEF UsedIds
<1>3. \A e \in Entries : Exists(e) => EntryOf(data[e].uid) = e
  BY DEF EntryOf, EntriesInv, UniqueIds
<1> QED
  BY <1>1, <1>2, <1>3 DEF BookFacts, Book

LEMMA NextBook == EntriesInv /\ [Next]_vars => BookFacts /\ BookFacts'
<1>1. EntriesInv' => BookFacts'
  BY BookHolds, PTL
<1> QED
  BY <1>1, BookHolds, NextEntries

LEMMA InitBook == Init => Registry!Init
<1> SUFFICES ASSUME Init PROVE Registry!Init
  OBVIOUS
<1>1. BookFacts
  BY InitEntries, BookHolds
<1>2. \A e \in Entries : Exists(e) => data[e].uid \notin SerialIds
  <2> SUFFICES ASSUME NEW e \in Entries, Exists(e) PROVE data[e].uid \notin SerialIds
    OBVIOUS
  <2>1. data[e] # Absent
    BY DEF Init, Exists
  <2>2. PICK s \in Legacy, h \in Hosts, n \in Speakers \cup {NoSerial} :
          data[e] = [uid |-> NameId(Name[s]), host |-> h, serial |-> n, made |-> s]
    BY <2>1 DEF Init
  <2>3. data[e].uid = NameId(Name[s]) /\ s \in Speakers
    BY <2>2, EntriesAssumption
  <2> QED
    BY <2>3, OtherIds
<1>3. UsedIds \subseteq Ids \ SerialIds
  BY <1>1, <1>2 DEF BookFacts
<1>4. Book \in [UsedIds -> Hosts]
  <2>1. \A id \in UsedIds : Book[id] \in Hosts
    BY <1>1 DEF BookFacts
  <2>2. Book = [id \in UsedIds |-> Book[id]]
    BY DEF Book
  <2> QED
    BY <2>1, <2>2
<1> QED
  BY <1>3, <1>4 DEF Registry!Init, Book

\* Steps that leave the ids and addresses of the entries alone.
LEMMA SameBook ==
  ASSUME BookFacts, BookFacts', data' = data,
         \A e \in Entries : state'[e] # "none" <=> state[e] # "none"
  PROVE  Book' = Book
<1>1. UsedIds' = UsedIds
  BY DEF UsedIds, Exists
<1>2. \A id \in UsedIds : Book'[id] = Book[id]
  BY <1>1 DEF BookFacts, Exists
<1> QED
  BY <1>1, <1>2 DEF Book

LEMMA HostStepEnters ==
  ASSUME EntriesInv, BookFacts, BookFacts', NEW e \in Entries, NEW h \in Hosts, HostStep(e, h)
  PROVE  Registry!Enter(data[e].uid, h)
<1>1. Exists(e) /\ state' = state /\ data[e] \in Findings
  BY ExistingData DEF HostStep, EntriesInv
<1>2. /\ data'[e].uid = data[e].uid /\ data'[e].host = h
      /\ \A f \in Entries : f # e => data'[f] = data[f]
  BY <1>1 DEF HostStep, EntriesInv, Shape, Findings
<1>3. UsedIds' = UsedIds
  BY <1>1, <1>2 DEF UsedIds, Exists
<1>4. data[e].uid \in UsedIds
  BY <1>1 DEF BookFacts
<1>5. \A id \in UsedIds : Book'[id] = IF id = data[e].uid THEN h ELSE Book[id]
  <2> SUFFICES ASSUME NEW id \in UsedIds
               PROVE  Book'[id] = IF id = data[e].uid THEN h ELSE Book[id]
    OBVIOUS
  <2>1. PICK f \in Entries : Exists(f) /\ data[f].uid = id
    BY DEF BookFacts
  <2>2. Book[id] = data[f].host
    BY <2>1 DEF BookFacts
  <2>3. Book'[id] = data'[f].host
    BY <2>1, <1>1, <1>2 DEF BookFacts, Exists
  <2>4. f = e <=> id = data[e].uid
    BY <1>1, <2>1 DEF EntriesInv, UniqueIds
  <2> QED
    BY <1>2, <2>2, <2>3, <2>4
<1>6. Book' = [id \in UsedIds \cup {data[e].uid} |-> IF id = data[e].uid THEN h ELSE Book[id]]
  BY <1>3, <1>4, <1>5 DEF Book
<1> QED
  BY <1>6 DEF Registry!Enter, Book

LEMMA CreateEnters ==
  ASSUME EntriesInv, BookFacts, BookFacts', NEW d \in Findings, NEW flows,
         async_create_entry(d, flows)
  PROVE  Registry!Enter(d.uid, d.host)
<1> DEFINE old == {x \in Entries : Uses(x, d.uid)}
<1>1. PICK e \in Entries :
        /\ ~Exists(e)
        /\ data' = [x \in Entries |-> IF x = e THEN d
                                     ELSE IF x \in old THEN Absent ELSE data[x]]
        /\ state' = [x \in Entries |-> IF x = e THEN "waiting"
                                      ELSE IF x \in old THEN "none" ELSE state[x]]
  BY DEF async_create_entry
<1>2. data'[e] = d /\ state'[e] # "none"
  BY <1>1
<1>3. \A x \in Entries : Exists(x) /\ data[x].uid # d.uid =>
        data'[x] = data[x] /\ state'[x] # "none"
  BY <1>1 DEF Uses, Exists
<1>4. \A x \in Entries : state'[x] # "none" /\ x # e =>
        Exists(x) /\ data[x].uid # d.uid /\ data'[x] = data[x]
  BY <1>1 DEF Uses, Exists
<1> HIDE DEF old
<1>5. UsedIds' = UsedIds \cup {d.uid}
  <2>1. UsedIds' \subseteq UsedIds \cup {d.uid}
    BY <1>2, <1>4 DEF UsedIds, Exists
  <2>2. d.uid \in UsedIds'
    BY <1>2 DEF UsedIds, Exists
  <2>3. UsedIds \subseteq UsedIds'
    BY <1>3, <2>2 DEF UsedIds, Exists
  <2> QED
    BY <2>1, <2>2, <2>3
<1>6. \A id \in UsedIds' : Book'[id] = IF id = d.uid THEN d.host ELSE Book[id]
  <2>1. Book'[d.uid] = d.host
    BY <1>2 DEF BookFacts, Exists
  <2>2. ASSUME NEW id \in UsedIds, id # d.uid PROVE Book'[id] = Book[id]
    <3>1. PICK f \in Entries : Exists(f) /\ data[f].uid = id
      BY DEF BookFacts
    <3>2. data'[f] = data[f] /\ state'[f] # "none"
      BY <1>3, <2>2, <3>1
    <3>3. Book[id] = data[f].host
      BY <3>1 DEF BookFacts
    <3>4. Book'[id] = data'[f].host
      BY <3>1, <3>2 DEF BookFacts, Exists
    <3> QED
      BY <3>2, <3>3, <3>4
  <2> QED
    BY <1>5, <2>1, <2>2
<1>7. Book' = [id \in UsedIds \cup {d.uid} |-> IF id = d.uid THEN d.host ELSE Book[id]]
  BY <1>5, <1>6 DEF Book
<1> QED
  BY <1>7 DEF Registry!Enter, Book

LEMMA RemoveForgets ==
  ASSUME EntriesInv, BookFacts, BookFacts', NEW e \in Entries, Remove(e)
  PROVE  Registry!Forget(data[e].uid)
<1>1. Exists(e) /\ data' = [data EXCEPT ![e] = Absent] /\ state' = [state EXCEPT ![e] = "none"]
  BY DEF Remove, Exists
<1>2. /\ state'[e] = "none"
      /\ \A x \in Entries : x # e => data'[x] = data[x] /\ state'[x] = state[x]
  BY <1>1 DEF EntriesInv, Shape
<1>3. \A x \in Entries : Exists(x) /\ x # e => data[x].uid # data[e].uid
  BY <1>1 DEF EntriesInv, UniqueIds
<1>4. UsedIds' = UsedIds \ {data[e].uid}
  BY <1>2, <1>3 DEF UsedIds, Exists
<1>5. ASSUME NEW id \in UsedIds \ {data[e].uid} PROVE Book'[id] = Book[id]
  <2>1. PICK f \in Entries : Exists(f) /\ data[f].uid = id
    BY DEF BookFacts
  <2>2. data'[f] = data[f] /\ state'[f] # "none"
    BY <1>2, <1>5, <2>1 DEF Exists
  <2>3. Book[id] = data[f].host
    BY <2>1 DEF BookFacts
  <2>4. Book'[id] = data'[f].host
    BY <2>1, <2>2 DEF BookFacts, Exists
  <2> QED
    BY <2>2, <2>3, <2>4
<1>6. Book' = [id \in UsedIds \ {data[e].uid} |-> Book[id]]
  BY <1>4, <1>5 DEF Book
<1> QED
  BY <1>6 DEF Registry!Forget, Registry!Restrict, Book

\* The id that is given up is not a serial: then it would be the serial the
\* coordinator has, which no entry uses.
LEMMA MigrationIdentifies ==
  ASSUME EntriesInv, BookFacts, BookFacts', NEW e \in Entries, Load(e), data' # data
  PROVE  \E i \in Ids, s \in SerialIds : Registry!Identify(i, s)
<1> DEFINE serial == client[e].serial
           new == [data[e] EXCEPT !.uid = SerialId(serial), !.serial = serial]
<1>1. /\ serial # NoSerial /\ \A f \in Entries : data[f].uid # SerialId(serial)
      /\ data' = [data EXCEPT ![e] = new]
  BY DEF Load, _async_migrate_entry_unique_id, Uses
<1>2. /\ Exists(e) /\ data[e] \in Findings
      /\ \A x \in Entries : state'[x] # "none" <=> state[x] # "none"
  BY ExistingData DEF Load, EntriesInv, Shape, Exists
<1>3. SerialId(serial) \in SerialIds
  BY <1>1, Serials DEF EntriesInv, Shape, ClientData
<1>4. /\ data'[e].uid = SerialId(serial) /\ data'[e].host = data[e].host
      /\ \A x \in Entries : x # e => data'[x] = data[x]
  BY <1>1, <1>2 DEF EntriesInv, Shape, Findings
<1>5. data[e].uid \in UsedIds \ SerialIds
  <2>1. SUFFICES ASSUME data[e].uid \in SerialIds PROVE FALSE
    BY <1>2 DEF BookFacts
  <2>2. data[e].uid = SerialId(data[e].serial) /\ data[e].serial \in Speakers
    BY <1>2, <2>1 DEF EntriesInv, SoundInv, Sound
  <2>3. data[e].serial = serial
    BY <2>2, EntriesAssumption DEF Load, EntriesInv, IdentityKept
  <2> QED
    BY <1>1, <2>2, <2>3
<1>6. SerialId(serial) \notin UsedIds
  BY <1>1 DEF BookFacts
<1>7. \A x \in Entries : Exists(x) /\ x # e => data[x].uid # data[e].uid
  BY <1>2 DEF EntriesInv, UniqueIds
<1> DEFINE i == data[e].uid
           j == SerialId(serial)
<1>8. UsedIds' = (UsedIds \ {i}) \cup {j}
  BY <1>2, <1>4, <1>7 DEF UsedIds, Exists
<1>9. Book'[j] = Book[i]
  BY <1>2, <1>4 DEF BookFacts, Exists
<1>10. ASSUME NEW id \in UsedIds \ {i} PROVE Book'[id] = Book[id]
  <2>1. PICK f \in Entries : Exists(f) /\ data[f].uid = id
    BY DEF BookFacts
  <2>2. data'[f] = data[f] /\ state'[f] # "none"
    BY <1>2, <1>4, <1>10, <2>1 DEF Exists
  <2>3. Book[id] = data[f].host
    BY <2>1 DEF BookFacts
  <2>4. Book'[id] = data'[f].host
    BY <2>1, <2>2 DEF BookFacts, Exists
  <2> QED
    BY <2>2, <2>3, <2>4
<1> HIDE DEF serial, new, i, j
<1>11. Book' = [id \in (UsedIds \ {i}) \cup {j} |-> Book[IF id = j THEN i ELSE id]]
  BY <1>6, <1>8, <1>9, <1>10 DEF Book, j
<1>12. i \in UsedIds \ SerialIds /\ i \in Ids /\ j \in SerialIds \ UsedIds
  BY <1>3, <1>5, <1>6 DEF i, j, BookFacts
<1>13. Registry!Identify(i, j)
  BY <1>11, <1>12 DEF Registry!Identify, Book
<1> QED
  BY <1>12, <1>13

LEMMA NextRegistry == EntriesInv /\ [Next]_vars => [Registry!Next]_Book
<1> SUFFICES ASSUME EntriesInv, [Next]_vars PROVE Registry!Next \/ Book' = Book
  OBVIOUS
<1>1. BookFacts /\ BookFacts'
  BY NextBook
<1>2. ASSUME Quiet \/ Restart PROVE Book' = Book
  BY <1>1, <1>2, SameBook DEF Quiet, Restart, Exists
<1>3. ASSUME NEW e \in Entries, NEW h \in Hosts, HostStep(e, h) PROVE Registry!Next
  <2>1. data[e].uid \in Ids
    BY <1>1, <1>3 DEF HostStep, BookFacts
  <2> QED
    BY <1>1, <1>3, <2>1, HostStepEnters DEF Registry!Next
<1>4. ASSUME NEW d \in Findings, NEW flows, async_create_entry(d, flows)
      PROVE  Registry!Next
  <2>1. d.uid \in Ids /\ d.host \in Hosts
    BY DEF Findings
  <2> QED
    BY <1>1, <1>4, <2>1, CreateEnters DEF Registry!Next
<1>5. ASSUME NEW e \in Entries, Remove(e) PROVE Registry!Next
  <2>1. data[e].uid \in Ids
    BY <1>1, <1>5 DEF Remove, Exists, BookFacts
  <2> QED
    BY <1>1, <1>5, <2>1, RemoveForgets DEF Registry!Next
<1>6. ASSUME NEW e \in Entries, Setup(e) PROVE Registry!Next \/ Book' = Book
  <2>1. CASE Load(e) /\ data' # data
    BY <1>1, <2>1, MigrationIdentifies DEF Registry!Next
  <2>2. CASE data' = data
    <3>1. \A x \in Entries : state'[x] # "none" <=> state[x] # "none"
      BY <1>6, SetupKeepsEntries DEF EntriesInv, Exists
    <3> QED
      BY <1>1, <2>2, <3>1, SameBook
  <2>3. Load(e) \/ data' = data
    BY <1>6 DEF Setup, SetupRefused, Connected, RefreshFails, Reload
  <2> QED
    BY <2>1, <2>2, <2>3
<1> QED
  BY <1>2, <1>3, <1>4, <1>5, <1>6, StepKinds DEF FlowStep

\* The config entries implement the book of SpeakerRegistry: whatever flows,
\* migrations and restarts do (config_flow.py:71-221, __init__.py:252-294), an
\* id has one address, and a serial leaves the book only with its speaker.
THEOREM EntriesAreARegistry == Spec => ImplementsRegistry
<1>1. Init => Registry!Init
  BY InitBook
<1>2. EntriesInv /\ [Next]_vars => [Registry!Next]_Book
  BY NextRegistry
<1>3. ImplementsRegistry <=> Registry!Init /\ [][Registry!Next]_Book
  BY DEF ImplementsRegistry, Registry!Spec, Book
<1> QED
  BY <1>1, <1>2, <1>3, Invariance, PTL DEF Spec

=============================================================================
