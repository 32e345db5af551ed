---------------------------- MODULE GroupCommand ----------------------------
(***************************************************************************)
(* The "All Speakers" entities (AdamAudioGroupEntity in                    *)
(* custom_components/adam_audio/entity.py, and its subclasses in           *)
(* switch.py, select.py and number.py): a service call on one of them is a *)
(* command to every speaker that is online, sent concurrently, and what    *)
(* they show is what the online speakers have in common.                   *)
(*                                                                         *)
(* A client serves one task at a time, so here a lock tenure, which is a   *)
(* poll or one attempt of a command, is one step, as in module Tenures,    *)
(* which Client implements; the tenures of one client come in any order.   *)
(* A refresh of a coordinator is two steps: it starts, remembering what it *)
(* will compare its result with, and it ends with the tenure of its poll.  *)
(* In between it waits for its turn, while commands are carried out.       *)
(* The entries are loaded at the start; unloading them, and the group with *)
(* one of them, may happen while commands run.  Loading is the business of *)
(* GroupOwner.                                                             *)
(***************************************************************************)
EXTENDS Naturals

CONSTANTS
  Speakers,        \* the loaded entries, each with a coordinator and a client
  Calls,           \* service calls on group entities that may run at once
  Voicing,         \* the field "voicing" of AdamAudioState
  EqFields,        \* its fields with an EQ control, ruled by the voicing
  Switches,        \* its fields with a switch: mute and sleep
  Values,          \* what a field may hold
  ValidVoicings,   \* _NumberDesc.valid_voicings
  On, Off,         \* of a switch
  Jobs,            \* bound: the calls that are made, <<field, value>>
  Knobs,           \* bound: what changes on the speakers, <<speaker, field>>
  Leaving,         \* bound: the speakers whose entries may be unloaded
  MaxRetries,      \* MAX_RETRIES (3 in the code)
  UnavailableAfter,\* UNAVAILABLE_AFTER_FAILURES (2 in the code)
  Unknown,         \* what an entity shows if the speakers differ
  Unavailable,     \* what it shows if there is no speaker to show
  NoRefresh,
  NoCall

Fields == {Voicing} \cup EqFields \cup Switches

ASSUME GroupAssumption ==
  /\ Voicing \notin EqFields \cup Switches
  /\ EqFields \cap Switches = {}
  /\ ValidVoicings \cup {On, Off} \subseteq Values
  /\ Jobs \subseteq Fields \X Values
  /\ Knobs \subseteq Speakers \X Fields
  /\ Leaving \subseteq Speakers
  /\ MaxRetries \in Nat \ {0}
  /\ UnavailableAfter \in Nat \ {0}
  /\ Unknown \notin Values /\ Unavailable \notin Values
  /\ NoCall \notin Fields \X Values
  /\ NoRefresh \notin [data : [Fields -> Values], success : BOOLEAN]

VARIABLES
  state,      \* Client.state
  available,  \* Client.available
  failures,   \* Client._consecutive_poll_failures
  data,       \* DataUpdateCoordinator.data
  success,    \* DataUpdateCoordinator.last_update_success
  before,     \* both as they were when the running refresh started
  registered, \* the speakers whose coordinator is on the register
  closed,     \* those unloaded for good, which the group listens to no more
  removed,    \* AdamAudioGroupEntity._removed
  shown,      \* what each group entity was last written as
  phase,      \* of each call: "idle", "running", "raised"
  asked,      \* the field and the value it sets
  result,     \* per speaker: "none" if not asked, "pending", "ok", "failed"
  tries,      \* per speaker: the attempts that were in vain
  applied,    \* history: the speakers that were read back with that value
  untold      \* history: the speakers of which something became different
              \* without a word since the group was last written

clientVars == <<state, available, failures>>
coordVars  == <<data, success, before>>
entryVars  == <<registered, closed, removed>>
callVars   == <<phase, asked, result, tries, applied>>
vars == <<clientVars, coordVars, entryVars, shown, callVars, untold>>

----------------------------------------------------------------------------
(* What the group shows and whom it commands. *)

\* The speakers that are online: state and commands use only these.
_coordinators == {s \in registered : available[s]}

\* The online speakers whose voicing allows an EQ control.
_active_coordinators ==
  {s \in _coordinators : state[s][Voicing] \in ValidVoicings}

Online(f) == IF f \in EqFields THEN _active_coordinators ELSE _coordinators

\* The value the speakers S agree on, if they do.
_common_value(f, S) ==
  IF \E v \in Values : \A s \in S : state[s][f] = v
    THEN CHOOSE v \in Values : \A s \in S : state[s][f] = v
    ELSE Unknown

\* A group switch is on if it is on everywhere.
is_on(f, S) == IF \A s \in S : state[s][f] = On THEN On ELSE Off

Shows(f) ==
  IF Online(f) = {} THEN Unavailable
  ELSE IF f \in Switches THEN is_on(f, Online(f))
  ELSE _common_value(f, Online(f))

\* The group entities for the fields fs write their state, unless they are gone.
Write(fs) ==
  shown' = [f \in Fields |-> IF f \in fs /\ ~removed THEN Shows(f)' ELSE shown[f]]

----------------------------------------------------------------------------
Running(g) == phase[g] = "running"

\* A call that is over leaves nothing behind.
NoTargets == [s \in Speakers |-> "none"]
NoTries   == [s \in Speakers |-> 0]

Init ==
  /\ state \in [Speakers -> [Fields -> Values]]
  /\ available = [s \in Speakers |-> TRUE]
  /\ failures = [s \in Speakers |-> 0]
  /\ data = state
  /\ success = [s \in Speakers |-> TRUE]
  /\ before = [s \in Speakers |-> NoRefresh]
  /\ registered = Speakers
  /\ closed = {}
  /\ removed = FALSE
  /\ shown = [f \in Fields |-> Shows(f)]
  /\ phase = [g \in Calls |-> "idle"]
  /\ asked = [g \in Calls |-> NoCall]
  /\ result = [g \in Calls |-> NoTargets]
  /\ tries = [g \in Calls |-> NoTries]
  /\ applied = [g \in Calls |-> {}]
  /\ untold = {}

----------------------------------------------------------------------------
(* A refresh of one coordinator, see module Coordinator. *)

\* What a coordinator holds.
Held(s) == [data |-> data[s], success |-> success[s]]

\* The speakers whose coordinator has missed what its client has seen.
Behind == {s \in Speakers : success[s] # available[s]}

\* A coordinator tells its listeners, and the group is among them: all of its
\* entities are written.
TellListeners == Write(Fields) /\ untold' = Behind'

\* Nobody is told of what a coordinator or a client has changed.
Silently == untold' = untold \cup Behind' \cup {s \in Speakers : Held(s)' # Held(s)}

\* With always_update=False, listeners are told if what the refresh ends with
\* differs from what it started with, of a failure after a success only.
Changed(s) ==
  /\ success'[s] \/ before[s].success
  /\ Held(s)' # before[s]

\* What a speaker may turn out to be: somebody may have turned its knobs, or
\* a SET that was given up may have arrived.
Reports(s) ==
  {settings \in [Fields -> Values] :
     \A f \in Fields : <<s, f>> \notin Knobs => settings[f] = state[s][f]}

\* A refresh starts, unless the coordinator was shut down.
RefreshStarts(s) ==
  /\ s \in registered
  /\ before[s] = NoRefresh
  /\ before' = [before EXCEPT ![s] = Held(s)]
  /\ UNCHANGED <<clientVars, data, success, entryVars, shown, callVars, untold>>

\* async_fetch_state: the poll is answered, unless the socket is closed, or not.
Poll(s) ==
  \/ /\ s \notin closed
     /\ \E settings \in Reports(s) : state' = [state EXCEPT ![s] = settings]
     /\ failures' = [failures EXCEPT ![s] = 0]
     /\ available' = [available EXCEPT ![s] = TRUE]
  \/ /\ failures' = [failures EXCEPT
                       ![s] = IF @ < UnavailableAfter THEN @ + 1 ELSE @]
     /\ available' = [available EXCEPT ![s] = @ /\ failures'[s] < UnavailableAfter]
     /\ UNCHANGED state

\* _async_update_data goes by the client's debounced flag.  Nobody listens any
\* more to the coordinator of an entry that was closed.
RefreshEnds(s) ==
  /\ before[s] # NoRefresh
  /\ before' = [before EXCEPT ![s] = NoRefresh]
  /\ Poll(s)
  /\ success' = [success EXCEPT ![s] = available'[s]]
  /\ data' = IF available'[s] THEN [data EXCEPT ![s] = state'[s]] ELSE data
  /\ UNCHANGED <<entryVars, callVars>>
  /\ IF Changed(s) /\ s \notin closed
       THEN TellListeners
       ELSE UNCHANGED shown /\ Silently

----------------------------------------------------------------------------
(* _async_call_all. *)

\* A service call sets the field f of all speakers to v.  Home Assistant
\* calls available entities only; the speakers are picked at once.
Command(g, f, v) ==
  /\ ~Running(g)
  /\ ~removed
  /\ Online(f) # {}
  /\ phase' = [phase EXCEPT ![g] = "running"]
  /\ asked' = [asked EXCEPT ![g] = <<f, v>>]
  /\ result' = [result EXCEPT
       ![g] = [s \in Speakers |-> IF s \in Online(f) THEN "pending" ELSE "none"]]
  /\ UNCHANGED <<clientVars, coordVars, entryVars, shown, tries,
                 applied, untold>>

\* The client changes its mind, which no coordinator hears of yet.
Availability(s, a) ==
  /\ available' = [available EXCEPT ![s] = a]
  /\ Silently

\* Mutant: one attempt too many.
Again_OffByOne(g, s) ==
  IF tries[g][s] < MaxRetries
    THEN tries' = [tries EXCEPT ![g][s] = @ + 1] /\ UNCHANGED result
    ELSE result' = [result EXCEPT ![g][s] = "failed"] /\ UNCHANGED tries

\* The attempt was in vain: there is another one, or the setter raises.
Again(g, s) ==
  IF tries[g][s] + 1 < MaxRetries
    THEN tries' = [tries EXCEPT ![g][s] = @ + 1] /\ UNCHANGED result
    ELSE result' = [result EXCEPT ![g][s] = "failed"] /\ UNCHANGED tries

\* The speaker takes the value and says so; the client stores it.
Confirm(g, s) ==
  /\ result[g][s] = "pending"
  /\ s \notin closed
  /\ state' = [state EXCEPT ![s][asked[g][1]] = asked[g][2]]
  /\ failures' = [failures EXCEPT ![s] = 0]
  /\ result' = [result EXCEPT ![g][s] = "ok"]
  /\ applied' = [applied EXCEPT ![g] = @ \cup {s}]
  /\ UNCHANGED <<coordVars, entryVars, shown, phase, asked, tries>>
  /\ Availability(s, TRUE)

\* The SET is lost, or undone at once: another value is read back.
Mismatch(g, s) ==
  /\ result[g][s] = "pending"
  /\ s \notin closed
  /\ failures' = [failures EXCEPT ![s] = 0]
  /\ Again(g, s)
  /\ UNCHANGED <<state, coordVars, entryVars, shown, phase, asked, applied>>
  /\ Availability(s, TRUE)

\* Mutant: a send that nobody objects to counts as applied.
NoAnswer_Trusted(g, s) ==
  /\ result[g][s] = "pending"
  /\ result' = [result EXCEPT ![g][s] = "ok"]
  /\ UNCHANGED <<clientVars, coordVars, entryVars, shown, phase,
                 asked, tries, applied, untold>>

\* Nobody answers the read, whether or not the SET has arrived.
NoAnswer(g, s) ==
  /\ result[g][s] = "pending"
  /\ Again(g, s)
  /\ UNCHANGED <<clientVars, coordVars, entryVars, shown, phase,
                 asked, applied, untold>>

\* The send raises OSError.
SendFails(g, s) ==
  /\ result[g][s] = "pending"
  /\ Again(g, s)
  /\ UNCHANGED <<state, failures, coordVars, entryVars, shown,
                 phase, asked, applied>>
  /\ Availability(s, FALSE)

Attempt(g, s) == Confirm(g, s) \/ Mismatch(g, s) \/ NoAnswer(g, s) \/ SendFails(g, s)

Applied(g) == {s \in Speakers : result[g][s] = "ok"}
Failed(g)  == {s \in Speakers : result[g][s] = "failed"}

\* asyncio.gather with return_exceptions=True waits for every speaker.
Gathered(g) == \A s \in Speakers : result[g][s] # "pending"

\* Mutant: nobody checks whether the entity is still there.
WriteOwn_Ghost(f) ==
  shown' = [e \in Fields |-> IF e = f THEN Shows(e)' ELSE shown[e]]

\* The entity that was called writes itself, if it is still there.
WriteOwn(f) == Write({f})

\* Mutant: the speakers are not refreshed if one of them failed.
Notified_AllOrNone(g) == IF Failed(g) = {} THEN Applied(g) ELSE {}

\* The speakers that applied the change are refreshed, the others are not.
Notified(g) == Applied(g)

\* async_notify_state of each of them.  It reaches no listener of a
\* coordinator that was unloaded meanwhile.
Finish(g) ==
  /\ Running(g)
  /\ Gathered(g)
  /\ data' = [s \in Speakers |-> IF s \in Notified(g) THEN state[s] ELSE data[s]]
  /\ success' = [s \in Speakers |-> success[s] \/ s \in Notified(g)]
  /\ phase' = [phase EXCEPT ![g] = IF Failed(g) = {} THEN "idle" ELSE "raised"]
  /\ asked' = [asked EXCEPT ![g] = NoCall]
  /\ result' = [result EXCEPT ![g] = NoTargets]
  /\ tries' = [tries EXCEPT ![g] = NoTries]
  /\ applied' = [applied EXCEPT ![g] = {}]
  /\ UNCHANGED <<clientVars, before, entryVars>>
  /\ IF Notified(g) \subseteq closed
       THEN WriteOwn(asked[g][1]) /\ Silently
       ELSE TellListeners

----------------------------------------------------------------------------
(* Entries that are unloaded while all this goes on. *)

\* The platforms of a speaker are unloaded and its coordinator is taken off
\* the register.
Unregister(s) ==
  /\ s \in registered \cap Leaving
  /\ registered' = registered \ {s}
  /\ UNCHANGED <<clientVars, coordVars, closed, removed, shown,
                 callVars, untold>>

\* Mutant: the group is not told that a speaker is gone.
SignalGone_Silently == UNCHANGED <<shown, untold>>

\* _on_coordinators_changed.
SignalGone == TellListeners

\* Its socket is closed; SIGNAL_COORDINATORS_CHANGED is sent.
Close(s) ==
  /\ s \notin registered \cup closed
  /\ closed' = closed \cup {s}
  /\ UNCHANGED <<clientVars, coordVars, registered, removed, callVars>>
  /\ SignalGone

\* async_will_remove_from_hass: the owner of the group is unloaded.
RemoveGroup ==
  /\ ~removed
  /\ removed' = TRUE
  /\ UNCHANGED <<clientVars, coordVars, registered, closed, shown,
                 callVars, untold>>

----------------------------------------------------------------------------
CallStep(g) == Finish(g) \/ \E s \in Speakers : Attempt(g, s)

Next ==
  \/ \E s \in Speakers :
       RefreshStarts(s) \/ RefreshEnds(s) \/ Unregister(s) \/ Close(s)
  \/ \E g \in Calls : CallStep(g) \/ \E j \in Jobs : Command(g, j[1], j[2])
  \/ RemoveGroup

Spec == Init /\ [][Next]_vars

\* Commands are carried out, and coordinators refresh again and again.
FairSpec ==
  /\ Spec
  /\ \A g \in Calls : WF_vars(CallStep(g))
  /\ \A s \in Speakers :
       WF_vars(RefreshStarts(s)) /\ WF_vars(RefreshEnds(s)) /\ WF_vars(Close(s))

----------------------------------------------------------------------------
Settings == [Fields -> Values]

TypeOK ==
  /\ state \in [Speakers -> Settings]
  /\ available \in [Speakers -> BOOLEAN]
  /\ failures \in [Speakers -> 0..UnavailableAfter]
  /\ data \in [Speakers -> Settings]
  /\ success \in [Speakers -> BOOLEAN]
  /\ before \in [Speakers -> [data : Settings, success : BOOLEAN] \cup {NoRefresh}]
  /\ registered \subseteq Speakers
  /\ closed \subseteq Speakers \ registered
  /\ removed \in BOOLEAN
  /\ shown \in [Fields -> Values \cup {Unknown, Unavailable}]
  /\ phase \in [Calls -> {"idle", "running", "raised"}]
  /\ asked \in [Calls -> (Fields \X Values) \cup {NoCall}]
  /\ result \in [Calls -> [Speakers -> {"none", "pending", "ok", "failed"}]]
  /\ tries \in [Calls -> [Speakers -> 0..(MaxRetries - 1)]]
  /\ applied \in [Calls -> SUBSET Speakers]
  /\ untold \subseteq Speakers

\* "The speakers that did apply the change are refreshed so the UI reflects
\* them", also if others failed, were unloaded meanwhile, or are still being
\* waited for by another call: the data of a coordinator is what its client
\* holds, except while a call that changed it is running.
ChangesAreTold ==
  \A s \in Speakers :
    (\A g \in Calls : result[g][s] # "ok") => data[s] = state[s]

\* "... a HomeAssistantError is then raised to surface the failure(s)": a call
\* that returns was read back from every speaker it was sent to.
SilentMeansApplied ==
  [][ \A g \in Calls :
        Running(g) /\ phase'[g] = "idle"
          => \A s \in Speakers : result[g][s] # "none" => s \in applied[g] ]_vars

\* Group entities that were removed while a command was running stay removed:
\* nothing writes their state again.
RemovedIsSilent == [][removed => UNCHANGED shown]_vars

\* The group shows what the online speakers have in common, and not only when
\* it happens to be asked, whatever is polled, commanded and unloaded.  Two
\* exceptions pass: a call has something to tell, or an entry is half unloaded.
\* The third one is two defects, which may last: a command has changed a
\* speaker's availability behind its coordinator's back (DifferenceIsShown), or
\* a refresh has replaced without a word what a command told while it was under
\* way (Coordinator!KnobIsShown).  Nothing else keeps the truth from the group.
GroupShowsTruth ==
  \/ removed
  \/ registered \cup closed # Speakers
  \/ \E g \in Calls : Applied(g) # {}
  \/ untold \cap registered # {}
  \/ \A f \in Fields : shown[f] = Shows(f)

\* "A speaker that missed a command stays different when it returns ... and
\* the group shows the difference" (tests/test_group.py:630): once no command
\* is running, polls bring the group up to date.
DifferenceIsShown ==
  <>[](~removed /\ registered = Speakers /\ \A g \in Calls : ~Running(g))
    => <>[](\A f \in Fields : shown[f] = Shows(f))

----------------------------------------------------------------------------
\* What the calls are doing to the speaker s, and the attempts in vain.
Job(s)  == [g \in Calls |-> IF result[g][s] = "pending" THEN asked[g] ELSE NoCall]
Vain(s) == [g \in Calls |-> IF result[g][s] = "pending" THEN tries[g][s] ELSE 0]

Tenure(s) == INSTANCE Tenures WITH
  Params     <- Fields,
  Commanders <- Calls,
  FailureCap <- UnavailableAfter,
  Identify   <- NoCall,
  NoValue    <- NoCall,
  state      <- state[s],
  available  <- available[s],
  failures   <- failures[s],
  hadPoll    <- TRUE,
  job        <- Job(s),
  tried      <- Vain(s)

\* Every client does what module Client says clients do, one tenure of its
\* lock at a time, whatever the other speakers and the other calls do.
ClientsTakeTenures ==
  /\ \A s \in Speakers : Tenure(s)!Loaded
  /\ [][\A s \in Speakers : [Tenure(s)!Next]_(Tenure(s)!vars)]_vars
=============================================================================
