--------------------------- MODULE SpeakerEntries ---------------------------
(***************************************************************************)
(* How speakers become config entries and how an entry finds its speaker   *)
(* again: the flows of custom_components/adam_audio/config_flow.py, the    *)
(* set-up of AdamAudioCoordinator with its serial check and repair issue   *)
(* (coordinator.py) and the migration of an entry's unique id              *)
(* (__init__.py), while addresses are handed to other speakers.            *)
(*                                                                         *)
(* A flow asks an address and remembers nothing while it waits for an      *)
(* answer but that address, and for a discovery the hostname that was      *)
(* announced, which may be out of date by then.  Then it awaits the        *)
(* closing of its socket, in answers, goes on in one step, and if it is a  *)
(* discovery waits for the user to confirm it, in pending.  Ports are part *)
(* of addresses.                                                           *)
(***************************************************************************)
EXTENDS Naturals, FiniteSets

CONSTANTS
  Speakers,
  Hosts,      \* addresses that speakers are given
  Entries,    \* ids of config entries
  Name,       \* the hardware name a speaker reports; others may share it
  Silent,     \* speakers that may not report their serial yet
  Legacy,     \* speakers an old version may have made an entry for
  Stale,      \* speakers whose names may be announced where another answers
  MaxFlows,   \* bound: flows that wait, for a socket or for the user
  Slow,       \* bound: the flows whose sockets may take time to be closed:
              \* "user", "zeroconf" and the entries that are reconfigured
  NoSerial,   \* a serial that is not known
  Nowhere,    \* no address
  NoId        \* no unique id

VARIABLES
  addr,    \* where each speaker is
  told,    \* the speakers that report their serials
  data,    \* of each entry: its unique id, address, serial, and the speaker
           \* that answered when it was made, whose name it keeps
  state,   \* of each entry: see States
  client,  \* of the entry's coordinator: the address it talks to, and
           \* AdamAudioCoordinator.device_serial
  answers, \* the flows that wait for their sockets to be closed, and what they
           \* know; a flow is "user", "zeroconf" or the entry it reconfigures
  pending, \* discoveries that wait for the user to confirm
  issues,  \* entries with a repair issue "serial_mismatch"
  reloads  \* async_schedule_reload tasks that have not run yet

worldVars == <<addr, told>>
flowVars  == <<answers, pending, reloads>>
vars == <<worldVars, data, state, client, issues, flowVars>>

\* A serial stands for itself; it is the speaker's.
SerialId(s)  == <<"serial", s>>
MdnsId(s)    == <<"mdns", s>>
HostId(n, h) == <<"host", n, h>>
NameId(n)    == <<"name", n>>   \* what versions up to 0.3.x used

Names     == {Name[s] : s \in Speakers}
SerialIds == {SerialId(s) : s \in Speakers}
Ids       == SerialIds \cup {MdnsId(s) : s \in Speakers}
               \cup {HostId(n, h) : n \in Names, h \in Hosts} \cup {NameId(n) : n \in Names}

ASSUME EntriesAssumption ==
  /\ Silent \subseteq Speakers /\ Legacy \subseteq Speakers /\ Stale \subseteq Speakers
  /\ DOMAIN Name = Speakers
  /\ MaxFlows \in Nat
  /\ "user" \notin Entries /\ "zeroconf" \notin Entries
  /\ NoSerial \notin Speakers /\ Nowhere \notin Hosts /\ NoId \notin Ids

\* "none"       there is no such entry
\* "waiting"    it is about to be set up, for the first time or once more
\* "refreshing" its coordinator has connected and awaits the first refresh
\* "loaded"
States == {"none", "waiting", "refreshing", "loaded"}

Exists(e) == state[e] # "none"
Absent   == [uid |-> NoId, host |-> Nowhere, serial |-> NoSerial, made |-> NoSerial]
NoClient == [host |-> Nowhere, serial |-> NoSerial]

Reports(s)  == IF s \in told THEN s ELSE NoSerial
Nobody(h)   == \A s \in Speakers : addr[s] # h

\* At start there are at most entries of an old version, about to be set up.
\* It knew the serials of some speakers, but did not use them as unique ids.
Init ==
  /\ addr \in [Speakers -> Hosts \cup {Nowhere}]
  /\ \A s, t \in Speakers : addr[s] = addr[t] => s = t \/ addr[s] = Nowhere
  /\ told \in SUBSET Speakers /\ Speakers \ Silent \subseteq told
  /\ data \in [Entries -> {Absent} \cup
                 {[uid |-> NameId(Name[s]), host |-> h, serial |-> n, made |-> s] :
                    s \in Legacy, h \in Hosts, n \in Speakers \cup {NoSerial}}]
  /\ \A e \in Entries : data[e].serial \in {NoSerial, data[e].made}
  /\ \A e, f \in Entries : data[e].uid = data[f].uid => e = f \/ data[e] = Absent
  /\ state = [e \in Entries |-> IF data[e] = Absent THEN "none" ELSE "waiting"]
  /\ client = [e \in Entries |-> NoClient]
  /\ answers = {}
  /\ pending = {}
  /\ issues = {}
  /\ reloads = {}

----------------------------------------------------------------------------
(* Setting up an entry: async_setup_entry, AdamAudioCoordinator.async_setup *)

\* Mutant: the live serial is simply preferred to the stored one.
Mismatch_Ignored(e, s) == FALSE

\* "If a serial was already stored for this entry, the live one must match it".
Mismatch(e, s) ==
  data[e].serial # NoSerial /\ Reports(s) \notin {NoSerial, data[e].serial}

\* A coordinator is made for the entry and s answers.  When nobody does, the
\* attempt ends with ConfigEntryNotReady and changes nothing.
Answers(e, s) == state[e] = "waiting" /\ addr[s] = data[e].host

\* The speaker reports another serial: a repair issue, and ConfigEntryNotReady.
SetupRefused(e) ==
  /\ \E s \in Speakers : Answers(e, s) /\ Mismatch(e, s)
  /\ issues' = issues \cup {e}
  /\ UNCHANGED <<worldVars, data, state, client, flowVars>>

\* There is no issue any more; the first refresh is awaited.
Connected(e) ==
  /\ \E s \in Speakers :
       /\ Answers(e, s) /\ ~Mismatch(e, s)
       /\ client' = [client EXCEPT ![e] =
            [host   |-> data[e].host,
             serial |-> IF Reports(s) # NoSerial THEN Reports(s) ELSE data[e].serial]]
  /\ issues' = issues \ {e}
  /\ state' = [state EXCEPT ![e] = "refreshing"]
  /\ UNCHANGED <<worldVars, data, flowVars>>

\* The coordinator is dropped; Home Assistant will set the entry up again.
Drop(e) ==
  /\ state' = [state EXCEPT ![e] = "waiting"]
  /\ client' = [client EXCEPT ![e] = NoClient]
  /\ reloads' = reloads \ {e}

\* A reload that was scheduled meanwhile is no more than the next attempt.
RefreshFails(e) ==
  /\ state[e] = "refreshing"
  /\ Nobody(client[e].host)
  /\ Drop(e)
  /\ UNCHANGED <<worldVars, data, issues, answers, pending>>

Uses(e, id) == data[e].uid = id

\* Mutant: the id is taken over although another entry uses it.
_async_migrate_entry_unique_id_Greedy(e) ==
  LET serial == client[e].serial IN
  data' = IF serial = NoSerial THEN data
          ELSE [data EXCEPT ![e].uid = SerialId(serial), ![e].serial = serial]

\* Mutant: the entry's data is written from the coordinator, which may be out of
\* date by now.
_async_migrate_entry_unique_id_FromClient(e) ==
  LET serial == client[e].serial IN
  data' = IF serial = NoSerial \/ \E f \in Entries : Uses(f, SerialId(serial))
          THEN data
          ELSE [data EXCEPT ![e].uid = SerialId(serial), ![e].serial = serial,
                            ![e].host = client[e].host]

\* The entry's unique id becomes the serial, which is stored with it, unless
\* there is none, it is that already, or another entry uses it.
_async_migrate_entry_unique_id(e) ==
  LET serial == client[e].serial IN
  data' = IF serial = NoSerial \/ \E f \in Entries : Uses(f, SerialId(serial))
          THEN data
          ELSE [data EXCEPT ![e].uid = SerialId(serial), ![e].serial = serial]

\* The first refresh worked; whoever answers by now is not asked who it is.
Load(e) ==
  /\ state[e] = "refreshing"
  /\ ~Nobody(client[e].host)
  /\ state' = [state EXCEPT ![e] = "loaded"]
  /\ UNCHANGED <<worldVars, client, issues, flowVars>>
  /\ _async_migrate_entry_unique_id(e)

\* A scheduled reload gets the entry's lock, which its set-up holds.
Reload(e) ==
  /\ e \in reloads /\ state[e] = "loaded"
  /\ Drop(e)
  /\ UNCHANGED <<worldVars, data, issues, answers, pending>>

\* Mutant: the repair issue is left behind.
Removed_KeepsIssue(gone) == UNCHANGED issues

\* async_remove_entry
Removed(gone) == issues' = issues \ gone

\* A flow that reconfigures an entry that is gone fails (UnknownEntry).
Without(gone, flows) == {a \in flows : a.flow \notin gone}

\* The user removes an entry.
Remove(e) ==
  /\ state[e] \in {"waiting", "loaded"}
  /\ data' = [data EXCEPT ![e] = Absent]
  /\ state' = [state EXCEPT ![e] = "none"]
  /\ client' = [client EXCEPT ![e] = NoClient]
  /\ reloads' = reloads \ {e}
  /\ Removed({e})
  /\ answers' = Without({e}, answers)
  /\ UNCHANGED <<worldVars, pending>>

----------------------------------------------------------------------------
(* The flows: AdamAudioConfigFlow *)

\* async_set_unique_id: another flow of the integration has this id.
InProgress(id) == \E d \in pending : d.uid = id

Configured(id) == \E e \in Entries : Uses(e, id)

\* Mutant: the flow only aborts.
UpdateAddress_AbortsOnly(id, h) ==
  UNCHANGED <<worldVars, data, state, client, issues, pending, reloads>>

\* _abort_if_unique_id_configured: the entry gets the new address and, if it
\* is loaded, is set up again with it; one that waits will be.
UpdateAddress(id, h) ==
  \E e \in Entries :
    /\ Uses(e, id)
    /\ data' = [data EXCEPT ![e].host = h]
    /\ reloads' = IF data[e].host # h /\ state[e] = "loaded"
                    THEN reloads \cup {e} ELSE reloads
    /\ UNCHANGED <<worldVars, state, client, issues, pending>>

\* async_create_entry: Home Assistant ends flows with the same id and replaces
\* an entry that has it, as soon as it is not being set up; the new one is set
\* up at once.  The flows are those that have not gone on.
async_create_entry(d, flows) ==
  LET old == {x \in Entries : Uses(x, d.uid)} IN
  /\ \A x \in old : state[x] # "refreshing"
  /\ \E e \in Entries :
       /\ ~Exists(e)
       /\ data' = [x \in Entries |-> IF x = e THEN d
                                     ELSE IF x \in old THEN Absent ELSE data[x]]
       /\ state' = [x \in Entries |-> IF x = e THEN "waiting"
                                      ELSE IF x \in old THEN "none" ELSE state[x]]
       /\ client' = [x \in Entries |-> IF x \in old THEN NoClient ELSE client[x]]
  /\ pending' = {p \in pending : p.uid # d.uid}
  /\ reloads' = reloads \ old
  /\ Removed(old)
  /\ answers' = Without(old, flows)
  /\ UNCHANGED worldVars

\* What a flow finds out: speaker s answered at h; id is used if it reports no
\* serial.
Found(s, h, id) ==
  [uid    |-> IF Reports(s) # NoSerial THEN SerialId(s) ELSE id,
   host   |-> h,
   serial |-> Reports(s),
   made   |-> s]

\* Mutant: the address is part of every speaker's id.
ManualId_Always(s, h) == [Found(s, h, NoId) EXCEPT !.uid = HostId(Name[s], h)]

ManualId(s, h) == Found(s, h, HostId(Name[s], h))

\* The flow ends and changes nothing.
Aborted(flows) ==
  /\ answers' = flows
  /\ UNCHANGED <<worldVars, data, state, client, issues, pending, reloads>>

\* async_step_user, once it knows d; flows are the other ones that wait.  When
\* no more entries are modelled, the user closes it.
async_step_user(d, flows) ==
  \/ InProgress(d.uid) /\ Aborted(flows)
  \/ ~Configured(d.uid) /\ (\A e \in Entries : Exists(e)) /\ Aborted(flows)
  \/ /\ ~InProgress(d.uid)
     /\ Configured(d.uid)
     /\ UpdateAddress(d.uid, d.host)
     /\ answers' = flows
  \/ /\ ~InProgress(d.uid)
     /\ ~Configured(d.uid)
     /\ async_create_entry(d, flows)

\* One more of them may wait.
MayWait(flows) == Cardinality(pending) + Cardinality(flows) < MaxFlows

\* async_step_zeroconf, once it knows d.  The user dismisses at once what would
\* be one discovery too many.
async_step_zeroconf(d, flows) ==
  \/ InProgress(d.uid) /\ Aborted(flows)
  \/ ~Configured(d.uid) /\ ~MayWait(flows) /\ Aborted(flows)
  \/ /\ ~InProgress(d.uid)
     /\ Configured(d.uid)
     /\ UpdateAddress(d.uid, d.host)
     /\ answers' = flows
  \/ /\ ~InProgress(d.uid)
     /\ ~Configured(d.uid)
     /\ MayWait(flows)
     /\ pending' = pending \cup {d}
     /\ answers' = flows
     /\ UNCHANGED <<worldVars, data, state, client, issues, reloads>>

\* Mutant: only the hardware name is compared.
_is_same_speaker_ByName(e, d) == Name[d.made] = Name[data[e].made]

\* The serials decide if both are known, else the hardware names.
_is_same_speaker(e, d) ==
  IF data[e].serial # NoSerial /\ d.serial # NoSerial
    THEN d.serial = data[e].serial
    ELSE Name[d.made] = Name[data[e].made]

\* async_step_reconfigure of the entry e, once it knows d.
async_step_reconfigure(e, d, flows) ==
  \/ ~_is_same_speaker(e, d) /\ Aborted(flows)
  \/ /\ _is_same_speaker(e, d)
     /\ data' = [data EXCEPT ![e].host = d.host]
     /\ reloads' = IF state[e] = "waiting" THEN reloads ELSE reloads \cup {e}
     /\ answers' = flows
     /\ UNCHANGED <<worldVars, state, client, issues, pending>>

GoesOn(flow, d, flows) ==
  \/ flow = "user" /\ async_step_user(d, flows)
  \/ flow = "zeroconf" /\ async_step_zeroconf(d, flows)
  \/ flow \in Entries /\ async_step_reconfigure(flow, d, flows)

\* _async_try_connect: s answers, so that the flow knows d.  The socket is
\* closed at once, or others go on meanwhile.
_async_try_connect(flow, s, d) ==
  /\ addr[s] # Nowhere
  /\ \/ GoesOn(flow, d, answers)
     \/ /\ flow \in Slow /\ MayWait(answers)
        /\ answers' = answers \cup {[flow |-> flow, found |-> d]}
        /\ UNCHANGED <<worldVars, data, state, client, issues, pending, reloads>>

\* The user enters the address at which s answers.
Entered(s) == _async_try_connect("user", s, ManualId(s, addr[s]))

\* m was announced where s answers.
Announced(m, s) == _async_try_connect("zeroconf", s, Found(s, addr[s], MdnsId(m)))

\* The user enters the address at which s answers, as that of the entry e.
Corrected(e, s) == Exists(e) /\ _async_try_connect(e, s, ManualId(s, addr[s]))

\* A flow that had to wait goes on.
Flow == \E a \in answers : GoesOn(a.flow, a.found, answers \ {a})

\* async_step_zeroconf_confirm: what was found is entered as it was then.
async_step_zeroconf_confirm(d) ==
  /\ d \in pending
  /\ async_create_entry(d, answers)

\* The user dismisses the discovery.
Dismiss(d) ==
  /\ d \in pending
  /\ pending' = pending \ {d}
  /\ UNCHANGED <<worldVars, data, state, client, issues, answers, reloads>>

----------------------------------------------------------------------------
\* Mutant: the coordinators are taken for running after a restart.
Restart_Running ==
  /\ answers' = {} /\ pending' = {} /\ issues' = {} /\ reloads' = {}
  /\ state' = [e \in Entries |-> IF Exists(e) THEN "waiting" ELSE "none"]
  /\ UNCHANGED <<worldVars, data, client>>

\* Home Assistant restarts: entries are kept, flows and issues are not.
Restart ==
  /\ answers' = {} /\ pending' = {} /\ issues' = {} /\ reloads' = {}
  /\ state' = [e \in Entries |-> IF Exists(e) THEN "waiting" ELSE "none"]
  /\ client' = [e \in Entries |-> NoClient]
  /\ UNCHANGED <<worldVars, data>>

\* A speaker gets an address that nobody has, or goes off the network.
Move(s, h) ==
  /\ addr[s] # h
  /\ h = Nowhere \/ Nobody(h)
  /\ addr' = [addr EXCEPT ![s] = h]
  /\ UNCHANGED <<told, data, state, client, issues, flowVars>>

\* A speaker begins to report its serial: its firmware is updated.
Identify(s) ==
  /\ s \notin told
  /\ told' = told \cup {s}
  /\ UNCHANGED <<addr, data, state, client, issues, flowVars>>

Setup(e) ==
  \/ SetupRefused(e) \/ Connected(e) \/ RefreshFails(e) \/ Load(e) \/ Reload(e)

User ==
  \/ \E s \in Speakers : Entered(s) \/ \E e \in Entries : Corrected(e, s)
  \/ \E d \in pending : async_step_zeroconf_confirm(d) \/ Dismiss(d)
  \/ \E e \in Entries : Remove(e)
  \/ Restart

Discovery(s) == \E m \in Stale \cup {s} : Announced(m, s)

World == \E s \in Speakers : Identify(s) \/ \E h \in Hosts \cup {Nowhere} : Move(s, h)

Next ==
  \/ \E e \in Entries : Setup(e)
  \/ \E s \in Speakers : Discovery(s)
  \/ Flow
  \/ User
  \/ World

Spec == Init /\ [][Next]_vars

\* Home Assistant runs its tasks and keeps retrying; a speaker on the network
\* announces itself again and again ("zeroconf will re-trigger this flow on
\* the next broadcast").  Home Assistant is not restarted for ever, or it might
\* be before every flow goes on.
FairSpec ==
  /\ Spec
  /\ <>[][~Restart]_vars
  /\ WF_vars(Flow)
  /\ \A e \in Entries : WF_vars(Setup(e))
  /\ \A s \in Speakers : WF_vars(Discovery(s))

----------------------------------------------------------------------------
\* What flows may find out.
Findings == [uid : Ids, host : Hosts, serial : Speakers \cup {NoSerial}, made : Speakers]

TypeOK ==
  /\ addr \in [Speakers -> Hosts \cup {Nowhere}]
  /\ told \subseteq Speakers
  /\ data \in [Entries -> [uid : Ids \cup {NoId}, host : Hosts \cup {Nowhere},
                           serial : Speakers \cup {NoSerial},
                           made : Speakers \cup {NoSerial}]]
  /\ state \in [Entries -> States]
  /\ client \in [Entries -> [host : Hosts \cup {Nowhere},
                             serial : Speakers \cup {NoSerial}]]
  /\ answers \subseteq [flow : {"user", "zeroconf"} \cup Entries, found : Findings]
  /\ pending \subseteq Findings
  /\ issues \subseteq Entries
  /\ reloads \subseteq Entries
  /\ \A e \in Entries : Exists(e) <=> data[e] # Absent
  /\ \A e \in Entries : state[e] \in {"refreshing", "loaded"} <=> client[e] # NoClient
  /\ \A e \in reloads : state[e] \in {"refreshing", "loaded"}

\* No two entries have the same unique id, whichever flows, migrations and
\* restarts race: the migration runs with what was true before it awaited the
\* first refresh, and a discovery is confirmed long after it was made.
UniqueIds ==
  \A e, f \in Entries : Exists(e) /\ Exists(f) /\ data[e].uid = data[f].uid => e = f

\* Speakers that report their serial from the start and were not entered by an
\* old version.
Known == Speakers \ (Silent \cup Legacy)

\* "the same physical speaker is never registered twice, even if its IP address
\* changes and it is re-discovered": true of the speakers of Known.
KnownOnce ==
  \A e, f \in Entries :
    data[e].made \in Known /\ data[e].made = data[f].made => e = f

\* A coordinator never takes the identity of another speaker than its entry's,
\* whoever answers at its address: neither its entities' unique ids nor its
\* device are registered under a serial that is not the entry's.
IdentityKept ==
  \A e \in Entries :
    state[e] \in {"refreshing", "loaded"} /\ data[e].serial # NoSerial
      => client[e].serial = data[e].serial

\* "reported, and cleared once it's fixed", and "Removing the speaker must not
\* leave its repair issue behind": an issue is about an entry that exists, has
\* a serial of its own and is not set up.
IssuesCurrent ==
  \A e \in issues : data[e].serial # NoSerial /\ state[e] = "waiting"

\* "Pointing the entry at a different speaker is refused", and a discovery
\* does not do it either: an entry whose serial is known gets a new address
\* only from a flow that was answered there, now or before, and not by a
\* speaker with another serial.  (One that reports none is accepted if its name
\* fits, and by now somebody else may be there.)
AddressIsItsSpeakers ==
  [][ \A e \in Entries :
        /\ data'[e].host # data[e].host /\ data[e].serial # NoSerial
        /\ Exists(e) /\ data'[e].uid # NoId
        => \/ \E a \in answers : /\ a.found.host = data'[e].host
                                 /\ a.found.serial \in {NoSerial, data[e].serial}
           \/ \E s \in Speakers : /\ addr[s] = data'[e].host
                                  /\ Reports(s) \in {NoSerial, data[e].serial} ]_vars

\* The addresses under the unique ids in use.
EntryOf(id) == CHOOSE e \in Entries : Exists(e) /\ data[e].uid = id
UsedIds == {data[e].uid : e \in {x \in Entries : Exists(x)}}
Registry == INSTANCE SpeakerRegistry
              WITH book <- [id \in UsedIds |-> data[EntryOf(id)].host]

\* The entries implement the book of speakers.
ImplementsRegistry == Registry!Spec

\* "Speaker's IP address changed: it is usually corrected automatically when
\* the speaker is discovered again": once every speaker reports its serial, the
\* entry of one that stays where it is ends up with its address and does not
\* wait for ever, unless an earlier discovery of it still waits for the user.
FollowsItsSpeaker ==
  \A s \in Speakers, h \in Hosts :
    LET Its(e) == Uses(e, SerialId(s)) IN
    <>[]( /\ addr[s] = h /\ told = Speakers
          /\ Configured(SerialId(s)) /\ ~InProgress(SerialId(s)) )
      => /\ <>[](\E e \in Entries : Its(e) /\ data[e].host = h)
         /\ []<>(\E e \in Entries : Its(e) /\ state[e] # "waiting")
=============================================================================
