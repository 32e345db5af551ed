----------------------------- MODULE GroupOwner -----------------------------
(***************************************************************************)
(* The config entries of the integration, one per speaker, and the virtual *)
(* "All Speakers" device one of them owns (custom_components/adam_audio/   *)
(* __init__.py; the subscriptions of entity.py's AdamAudioGroupEntity).    *)
(*                                                                         *)
(* Home Assistant holds a lock per entry while it sets up, unloads or      *)
(* reloads that entry; operations on different entries interleave at every *)
(* await.  A control location below ends at each of those awaits.  Home    *)
(* Assistant itself (starting, disabling, removing and retrying entries,   *)
(* the dispatcher and the device registry) is modelled from how the        *)
(* integration uses it.                                                    *)
(***************************************************************************)
EXTENDS SequencesExt

CONSTANTS
  Entries,   \* the config entries, one per speaker
  Flaky,     \* those whose speaker may be off the network
  Removable, \* those the user may disable or remove
  NoEntry    \* nobody owns the group

ASSUME OwnerAssumption ==
  NoEntry \notin Entries /\ Flaky \subseteq Entries /\ Removable \subseteq Entries

VARIABLES
  state,       \* of each entry, see States
  after,       \* what an unloading entry will do next: "setup" again (a
               \* reload), stay "off" (disabled), or be "gone" (removed)
  online,      \* whether each speaker answers
  coordinators,\* AdamAudioIntegrationData.coordinators: its keys, in order
  owner,       \* AdamAudioIntegrationData.group_owner_entry_id
  group,       \* the entries whose platforms hold group entities
  listening,   \* the coordinators the group entities listen to: <<entry,
               \* "latest">> or, once the entry has another one, "replaced"
  devices,     \* the entries that hold an "All Speakers" device
  reloads,     \* async_schedule_reload tasks that have not run yet
  stopping     \* hass.is_stopping

integrationVars == <<coordinators, owner, group, listening, devices>>
vars == <<state, after, online, integrationVars, reloads, stopping>>

\* "off"        not loaded: disabled, or never started
\* "connecting" async_setup_entry awaits coordinator.async_setup
\* "forwarding" it awaits async_forward_entry_setups
\* "announcing" the platforms are up, the signal is not sent yet
\* "loaded"
\* "unloading"  async_unload_entry awaits async_unload_platforms
\* "closing"    it awaits coordinator.async_shutdown
\* "removing"   unloaded, Home Assistant is about to clear the registries
\* "retry"      setup failed; Home Assistant tries again later
States == {"off", "connecting", "forwarding", "announcing", "loaded",
           "unloading", "closing", "removing", "retry", "gone"}

\* Nothing has started; an older version may have left several devices.
Init ==
  /\ state = [e \in Entries |-> "off"]
  /\ after = [e \in Entries |-> "off"]
  /\ online \in [Entries -> BOOLEAN]
  /\ \A e \in Entries \ Flaky : online[e]
  /\ coordinators = <<>>
  /\ owner = NoEntry
  /\ group = {}
  /\ listening = {}
  /\ devices \in SUBSET Entries
  /\ reloads = {}
  /\ stopping = FALSE

Enter(e, s) == state' = [state EXCEPT ![e] = s]

----------------------------------------------------------------------------
(* The dispatcher: SIGNAL_COORDINATORS_CHANGED. *)

Latest(e) == <<e, "latest">>

\* The group entities, if there are any, drop their listeners and listen to
\* the coordinators in cs.
_subscribe_coordinators(cs) ==
  listening' = IF group' = {} THEN {} ELSE {Latest(e) : e \in Range(cs)}

----------------------------------------------------------------------------
(* Setting up: async_setup_entry. *)

\* Home Assistant starts, or the user adds or enables the entry.
Start(e) ==
  /\ state[e] = "off"
  /\ ~stopping
  /\ Enter(e, "connecting")
  /\ UNCHANGED <<after, online, integrationVars, reloads, stopping>>

\* coordinator.async_setup raised ConfigEntryNotReady.
SetupFails(e) ==
  /\ state[e] = "connecting"
  /\ ~online[e]
  /\ Enter(e, "retry")
  /\ UNCHANGED <<after, online, integrationVars, reloads, stopping>>

RetrySetup(e) ==
  /\ state[e] = "retry"
  /\ ~stopping
  /\ Enter(e, "connecting")
  /\ UNCHANGED <<after, online, integrationVars, reloads, stopping>>

\* Mutant: only a device of the entry itself is looked for.
_async_adopt_group_device_Own(e) == devices

\* One device stays, on the new owner; whatever others there are are merged.
_async_adopt_group_device(e) == IF devices = {} THEN {} ELSE {e}

\* Mutant: the latest entry takes the group over.
TakeGroup_Always(e) ==
  /\ owner' = e
  /\ devices' = _async_adopt_group_device(e)

\* The first entry to get here owns the group.
TakeGroup(e) ==
  IF owner = NoEntry
    THEN owner' = e /\ devices' = _async_adopt_group_device(e)
    ELSE UNCHANGED <<owner, devices>>

\* The coordinator is set up: register it, and maybe own the group.
Register(e) ==
  /\ state[e] = "connecting"
  /\ online[e]
  /\ Enter(e, "forwarding")
  /\ listening' = {IF c = Latest(e) THEN <<e, "replaced">> ELSE c : c \in listening}
  /\ coordinators' = IF e \in Range(coordinators) THEN coordinators
                                                  ELSE Append(coordinators, e)
  /\ TakeGroup(e)
  /\ UNCHANGED <<after, online, group, reloads, stopping>>

\* The platforms create the entry's entities and, in the owner, the group's,
\* which subscribe as they are added.
ForwardEntrySetups(e) ==
  /\ state[e] = "forwarding"
  /\ Enter(e, "announcing")
  /\ IF owner = e
       THEN /\ group' = group \cup {e}
            /\ devices' = devices \cup {e}
            /\ _subscribe_coordinators(coordinators)
       ELSE UNCHANGED <<group, devices, listening>>
  /\ UNCHANGED <<after, online, coordinators, owner, reloads, stopping>>

\* Mutant: the other speakers' group is not told of the new coordinator.
Announce_Silently(e) ==
  /\ state[e] = "announcing"
  /\ Enter(e, "loaded")
  /\ UNCHANGED <<after, online, integrationVars, reloads, stopping>>

\* The signal, and async_setup_entry returns.
Announce(e) ==
  /\ state[e] = "announcing"
  /\ Enter(e, "loaded")
  /\ UNCHANGED <<after, online, coordinators, owner, group, devices,
                 reloads, stopping>>
  /\ _subscribe_coordinators(coordinators)

----------------------------------------------------------------------------
(* Unloading: async_unload_entry. *)

\* What an entry that is not loaded does at once, a loaded one after async_unload_entry.
StopOrUnload(e, next) ==
  \/ /\ state[e] = "loaded"
     /\ Enter(e, "unloading")
     /\ after' = [after EXCEPT ![e] = next]
  \/ /\ state[e] = "retry"
     /\ Enter(e, CASE next = "setup" -> "connecting"
                   [] next = "off"   -> "off"
                   [] next = "gone"  -> "removing")
     /\ UNCHANGED after

\* The user disables, removes or reloads the entry.
Disable(e) ==
  /\ e \in Removable
  /\ StopOrUnload(e, "off")
  /\ UNCHANGED <<online, integrationVars, reloads, stopping>>

Delete(e) ==
  /\ e \in Removable
  /\ \/ StopOrUnload(e, "gone")
     \/ state[e] = "off" /\ Enter(e, "removing") /\ UNCHANGED after
  /\ UNCHANGED <<online, integrationVars, reloads, stopping>>

Reload(e) ==
  /\ ~stopping
  /\ StopOrUnload(e, "setup")
  /\ UNCHANGED <<online, integrationVars, reloads, stopping>>

\* A scheduled reload gets the entry's lock.  Nothing happens to an entry
\* that was disabled or removed meanwhile.
ScheduledReload(e) ==
  /\ e \in reloads
  /\ \/ StopOrUnload(e, "setup")
     \/ state[e] \in {"off", "gone"} /\ UNCHANGED <<state, after>>
  /\ reloads' = reloads \ {e}
  /\ UNCHANGED <<online, integrationVars, stopping>>

\* The keys of a dict are distinct.
Pop(e) ==
  coordinators' =
    IF e \in Range(coordinators)
      THEN RemoveAt(coordinators, CHOOSE i \in DOMAIN coordinators : coordinators[i] = e)
      ELSE coordinators

\* The platforms' entities are gone, the group's among them; the coordinator
\* is taken off the register before its shutdown is awaited.
UnloadPlatforms(e) ==
  /\ state[e] = "unloading"
  /\ Enter(e, "closing")
  /\ group' = group \ {e}
  /\ listening' = IF group' = {} THEN {} ELSE listening
  /\ Pop(e)
  /\ UNCHANGED <<after, online, owner, devices, reloads, stopping>>

\* Mutant: the owner is not reset.
GiveUpGroup_Kept(e) == UNCHANGED <<owner, reloads>>

\* Mutant: nobody else is asked to take the group.
GiveUpGroup_Alone(e) ==
  /\ owner' = IF owner = e THEN NoEntry ELSE owner
  /\ UNCHANGED reloads

\* Mutant: the reload is scheduled for the owner, after it was reset.
GiveUpGroup_Reset(e) ==
  /\ owner' = IF owner = e THEN NoEntry ELSE owner
  /\ reloads' = IF owner = e /\ coordinators # <<>> /\ ~stopping
                  THEN reloads \cup {owner'} ELSE reloads

\* The group goes to whichever entry is set up next; a remaining one, if there
\* is any, is reloaded for that purpose.
GiveUpGroup(e) ==
  IF owner = e
    THEN /\ owner' = NoEntry
         /\ reloads' = IF coordinators # <<>> /\ ~stopping
                         THEN reloads \cup {Head(coordinators)} ELSE reloads
    ELSE UNCHANGED <<owner, reloads>>

\* The socket is closed: send the signal, give up the group, return.
Close(e) ==
  /\ state[e] = "closing"
  /\ Enter(e, CASE after[e] = "setup" -> "connecting"
                [] after[e] = "off"   -> "off"
                [] after[e] = "gone"  -> "removing")
  /\ after' = [after EXCEPT ![e] = "off"]
  /\ UNCHANGED <<online, coordinators, group, devices, stopping>>
  /\ _subscribe_coordinators(coordinators)
  /\ GiveUpGroup(e)

\* Home Assistant forgets a removed entry, and the device it still holds.
CleanUp(e) ==
  /\ state[e] = "removing"
  /\ Enter(e, "gone")
  /\ devices' = devices \ {e}
  /\ UNCHANGED <<after, online, coordinators, owner, group, listening,
                 reloads, stopping>>

----------------------------------------------------------------------------
\* A speaker is switched on or off.
Switch(e) ==
  /\ e \in Flaky
  /\ online' = [online EXCEPT ![e] = ~@]
  /\ UNCHANGED <<state, after, integrationVars, reloads, stopping>>

\* Home Assistant begins to shut down.
StopHass ==
  /\ ~stopping
  /\ stopping' = TRUE
  /\ UNCHANGED <<state, after, online, integrationVars, reloads>>

\* What Home Assistant does on an entry by itself.
Step(e) ==
  \/ SetupFails(e) \/ RetrySetup(e) \/ Register(e) \/ ForwardEntrySetups(e)
  \/ Announce(e) \/ UnloadPlatforms(e) \/ Close(e) \/ CleanUp(e)

User(e) == Start(e) \/ Disable(e) \/ Delete(e) \/ Reload(e) \/ Switch(e)

Next ==
  \/ \E e \in Entries : Step(e) \/ ScheduledReload(e) \/ User(e)
  \/ StopHass

Spec == Init /\ [][Next]_vars

\* Home Assistant runs its tasks and keeps retrying entries that are not
\* ready; nobody has to touch a speaker or the user interface.
FairSpec ==
  /\ Spec
  /\ \A e \in Entries : WF_vars(Step(e)) /\ WF_vars(ScheduledReload(e))

----------------------------------------------------------------------------
TypeOK ==
  /\ state \in [Entries -> States]
  /\ after \in [Entries -> {"off", "gone", "setup"}]
  /\ online \in [Entries -> BOOLEAN]
  /\ coordinators \in Seq(Entries)
  /\ owner \in Entries \cup {NoEntry}
  /\ group \subseteq Entries
  /\ listening \subseteq Entries \X {"latest", "replaced"}
  /\ devices \subseteq Entries
  /\ reloads \subseteq Entries
  /\ stopping \in BOOLEAN

\* The group entities exist under the owner only, however the set-ups and
\* unloadings of the entries interleave: never twice, never under an entry
\* that is not responsible for them.  "Keep one 'All Speakers' device ... on
\* the owning entry": once the group is up there is one device, whatever
\* devices there were before.
GroupUnderOwner ==
  /\ group \subseteq {owner}
  /\ group # {} => devices = {owner}

\* What the integration keeps about its entries is about entries that are
\* really there: a coordinator is registered from its set-up to its unloading,
\* and only an entry between those two owns the group (the regression of
\* tests/test_init.py:206: an owner that is never reset loses the group).
NoGhosts ==
  /\ Range(coordinators) =
       {e \in Entries : state[e] \in {"forwarding", "announcing", "loaded", "unloading"}}
  /\ owner # NoEntry =>
       state[owner] \in {"forwarding", "announcing", "loaded", "unloading", "closing"}

\* "Follow every coordinator, including ones loaded or reloaded later": while
\* there is a group it listens to the latest coordinator of every loaded
\* entry, and to no coordinator of an entry whose unloading is over.
SubscriptionsCurrent ==
  group # {} =>
    /\ \A e \in Entries : state[e] = "loaded" => Latest(e) \in listening
    /\ \A c \in listening :
         /\ c = Latest(c[1])
         /\ state[c[1]] \in
              {"forwarding", "announcing", "loaded", "unloading", "closing"}

\* "A virtual 'All Speakers' group device is automatically created to control
\* all speakers simultaneously" and, when the owner is unloaded, recreated by
\* "a remaining entry we schedule": as long as some speaker stays loaded and
\* online, there is a group again and again.
GroupReturns ==
  \A e \in Entries :
    <>[](state[e] = "loaded" /\ online[e] /\ ~stopping) => []<>(group # {})
=============================================================================
