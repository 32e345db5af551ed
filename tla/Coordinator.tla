----------------------------- MODULE Coordinator -----------------------------
(***************************************************************************)
(* AdamAudioCoordinator (custom_components/adam_audio/coordinator.py) on   *)
(* top of its client: the refresh loop of Home Assistant's                 *)
(* DataUpdateCoordinator, the entities of one speaker (entity.py,          *)
(* switch.py, select.py, number.py) and the unloading of the entry.        *)
(*                                                                         *)
(* What a user sees is what Home Assistant wrote when it last notified the *)
(* entities.  It notifies them after a command that was confirmed, and     *)
(* after a refresh that changed something: with always_update=False, one   *)
(* whose data or success differs from what they were when it STARTED.  The *)
(* refresh spends its time in Client!PollStep, where commands come and go. *)
(***************************************************************************)
EXTENDS Client

CONSTANT Interval   \* POLL_INTERVAL, in ticks of the clock

ASSUME CoordinatorAssumption ==
  /\ Interval \in Nat
  /\ \E t \in Pollers : Pollers = {t}

VARIABLES
  phase,        \* of the entry: "new", "connected", "loaded", "stopping",
                \* "unloaded"; "failed" if the first refresh failed
  data,         \* DataUpdateCoordinator.data: a snapshot of Client.state
  lastSuccess,  \* DataUpdateCoordinator.last_update_success
  prevData,     \* both as they were when the running refresh started
  prevSuccess,
  shown,        \* what the entities were last written as
  timer,        \* ticks until the timer fires, Unset if it is not running
  queued,       \* whether a refresh that fell due waits for the running one
  raced         \* history: a command was told while a refresh was under way,
                \* and no refresh has told anything since

haVars  == <<phase, data, lastSuccess, prevData, prevSuccess, shown, timer,
             queued, raced>>
allVars == <<vars, haVars>>

Unset == -1

Start ==
  /\ Init
  /\ phase = "new"
  /\ data = state
  /\ lastSuccess = TRUE
  /\ prevData = state
  /\ prevSuccess = TRUE
  /\ shown = [state |-> state, available |-> FALSE]
  /\ timer = Unset
  /\ queued = FALSE
  /\ raced = FALSE

----------------------------------------------------------------------------
\* Every entity of the speaker writes its state: what the client has, and
\* whether both the coordinator and the client think well of it.
WriteEntities ==
  shown' = [state |-> state', available |-> lastSuccess' /\ available']

Refreshing == \E t \in Pollers : pc[t] # "idle"

\* async_set_updated_data with a fresh snapshot: the data counts as updated
\* successfully and, unless the entities are gone already, they are told and
\* the timer starts afresh, also while a refresh is under way.
async_notify_state ==
  /\ data' = state'
  /\ lastSuccess' = TRUE
  /\ IF phase = "loaded"
       THEN WriteEntities /\ timer' = Interval /\ raced' = Refreshing
       ELSE UNCHANGED <<shown, timer, raced>>
  /\ UNCHANGED <<phase, prevData, prevSuccess, queued>>

\* AdamAudioCoordinator.async_setup up to the first refresh.
Connect ==
  /\ phase = "new"
  /\ async_setup
  /\ phase' = IF reachable THEN "connected" ELSE "new"
  /\ UNCHANGED <<data, lastSuccess, prevData, prevSuccess, shown, timer,
                 queued, raced>>

\* A refresh starts: the first one as part of the setup, the others when the
\* timer runs out or, if that was during another refresh, after it.  It stops
\* the timer and remembers what it will compare its result with.
RefreshStarts(t) ==
  /\ phase = "connected" \/ (phase = "loaded" /\ (timer = 0 \/ queued))
  /\ PollRequest(t)
  /\ prevData' = data
  /\ prevSuccess' = lastSuccess
  /\ timer' = Unset
  /\ queued' = FALSE
  /\ UNCHANGED <<phase, data, lastSuccess, shown, raced>>

\* The timer, started by a notification, runs out during a refresh: the next
\* one waits for the debouncer's lock.  Bound: one that waits stands for all.
RefreshQueues ==
  /\ phase = "loaded"
  /\ timer = 0
  /\ Refreshing
  /\ timer' = Unset
  /\ queued' = TRUE
  /\ UNCHANGED <<vars, phase, data, lastSuccess, prevData, prevSuccess, shown,
                 raced>>

\* _async_update_data returned (or raised UpdateFailed): the client's
\* debounced flag decides, not this poll's own result.
Update ==
  /\ lastSuccess' = available'
  /\ data' = IF available' THEN state ELSE data

\* Mutant: the data is the client's own state object, not a snapshot of it,
\* so it has already changed by the time the refresh compares.
Changed_Aliased == lastSuccess' # prevSuccess \/ data' # state

\* Whether the entities are told: a failure is news after a success only.
Changed ==
  /\ lastSuccess' \/ prevSuccess
  /\ lastSuccess' # prevSuccess \/ data' # prevData

\* A refresh ends.  In a loaded entry the entities are told if it changed
\* anything; nobody listens any more in one that is being unloaded.
RefreshEnds(t) ==
  /\ PollFinish(t)
  /\ Update
  /\ IF phase = "loaded"
       THEN /\ IF Changed THEN WriteEntities /\ raced' = FALSE
                          ELSE UNCHANGED <<shown, raced>>
            /\ timer' = Interval
            /\ UNCHANGED phase
       ELSE /\ phase' = IF phase # "connected" THEN phase
                        ELSE IF available' THEN "loaded" ELSE "failed"
            /\ IF phase' = "loaded" THEN WriteEntities ELSE UNCHANGED shown
            /\ timer' = IF phase' = "loaded" THEN Interval ELSE timer
            /\ UNCHANGED raced
  /\ UNCHANGED <<prevData, prevSuccess, queued>>

\* Mutant: an overdue timer is not stopped.
Tick_Overdue ==
  /\ phase = "loaded"
  /\ timer' = timer - 1
  /\ UNCHANGED <<vars, phase, data, lastSuccess, prevData, prevSuccess, shown,
                 queued, raced>>

\* The clock.
Tick ==
  /\ phase = "loaded"
  /\ timer > 0
  /\ timer' = timer - 1
  /\ UNCHANGED <<vars, phase, data, lastSuccess, prevData, prevSuccess, shown,
                 queued, raced>>

\* A service call on an entity; Home Assistant leaves out entities that are
\* unavailable at that moment.
Call(c, w) ==
  /\ phase = "loaded"
  /\ lastSuccess /\ available
  /\ CommandRequest(c, w)
  /\ UNCHANGED haVars

\* The setter returned: the entity notifies its siblings in the same step.
Applied(c) ==
  /\ Confirmed(c)
  /\ async_notify_state

\* The entry is unloaded: the entities go, then async_shutdown cancels the
\* timer before the socket is closed in the executor.  A refresh that waits
\* for its turn will find that it was shut down and do nothing.
StopRefreshing ==
  /\ phase \in {"loaded", "failed"}
  /\ phase' = "stopping"
  /\ timer' = Unset
  /\ queued' = FALSE
  /\ raced' = FALSE
  /\ UNCHANGED <<vars, data, lastSuccess, prevData, prevSuccess, shown>>

\* Mutant: the socket is closed first, the timer cancelled afterwards.
CloseSocket_First ==
  /\ phase \in {"loaded", "stopping"}
  /\ async_shutdown
  /\ phase' = IF phase = "stopping" THEN "unloaded" ELSE phase
  /\ UNCHANGED <<data, lastSuccess, prevData, prevSuccess, shown, timer,
                 queued, raced>>

CloseSocket ==
  /\ phase = "stopping"
  /\ async_shutdown
  /\ phase' = "unloaded"
  /\ UNCHANGED <<data, lastSuccess, prevData, prevSuccess, shown, timer,
                 queued, raced>>

----------------------------------------------------------------------------
\* What a refresh does between its first and its last step.
RefreshStep(t) ==
  \/ /\ PollBegin(t) \/ PollRead(t) \/ PollReadFails(t) \/ PollPublish(t)
     /\ UNCHANGED haVars
  \/ RefreshEnds(t)

\* A setter that raises tells the entities nothing.
SetterStep(c) ==
  \/ /\ \/ CommandSend(c) \/ CommandSendFails(c) \/ HandleSendFailure(c)
        \/ IdentifySent(c) \/ VerifyRead(c) \/ VerifyFails(c)
        \/ Mismatch(c) \/ Unconfirmed(c) \/ WakeUp(c)
     /\ UNCHANGED haVars
  \/ Applied(c)

NextStep ==
  \/ World /\ UNCHANGED haVars
  \/ Connect
  \/ \E t \in Pollers : RefreshStarts(t) \/ RefreshStep(t)
  \/ \E c \in Commanders : (\E w \in Jobs : Call(c, w)) \/ SetterStep(c)
  \/ Tick \/ RefreshQueues
  \/ StopRefreshing
  \/ CloseSocket

CoordinatorSpec == Start /\ [][NextStep]_allVars

\* Jobs that were started end, the clock ticks, and the timer fires.
FairCoordinatorSpec ==
  /\ CoordinatorSpec
  /\ \A t \in Pollers : WF_allVars(RefreshStarts(t)) /\ WF_allVars(RefreshStep(t))
  /\ \A c \in Commanders : WF_allVars(SetterStep(c))
  /\ WF_allVars(Tick) /\ WF_allVars(RefreshQueues)

----------------------------------------------------------------------------
CoordinatorTypeOK ==
  /\ TypeOK
  /\ phase \in {"new", "connected", "loaded", "failed", "stopping", "unloaded"}
  /\ data \in [Params -> Values]
  /\ lastSuccess \in BOOLEAN
  /\ prevData \in [Params -> Values]
  /\ prevSuccess \in BOOLEAN
  /\ shown \in [state : [Params -> Values], available : BOOLEAN]
  /\ timer \in Unset..Interval
  /\ queued \in BOOLEAN
  /\ raced \in BOOLEAN

\* No entity ever shows the defaults of a fresh AdamAudioState as if the
\* speaker had reported them: nothing is shown before a poll succeeded, also
\* when the connection could be set up but the first refresh failed.
NeverFabricated == shown.available => hadPoll

\* "otherwise a poll already queued via loop.call_at() can still fire after
\* the socket below is closed": a refresh is never started on a socket that
\* is closed.
NoRefreshOnClosedSocket ==
  [][ \A t \in Pollers : pc[t] = "idle" /\ pc'[t] = "wait" => socket = "open" ]_allVars

\* What Home Assistant shows of a loaded speaker is what its coordinator was
\* last given, whatever refreshes were told to nobody, unless a command was
\* confirmed while a refresh was under way and nothing was told since.
ShownIsTold ==
  phase = "loaded" /\ ~raced
    => shown = [state |-> data, available |-> lastSuccess]

\* An available speaker is shown unavailable only after UnavailableAfter
\* failed polls in a row or a send that raised: a dropped poll does not flap
\* the entities.
ShownDebounced ==
  [][ shown.available /\ ~shown'.available
        => failures' >= UnavailableAfter \/ sendErr' ]_allVars

Loaded == phase = "loaded"

\* From some moment on the speaker answers, nobody turns its knobs, and no
\* command is under way.
LeftAlone ==
  /\ <>[](Loaded /\ Answering /\ \A c \in Commanders : pc[c] = "idle")
  /\ <>[][FALSE]_speaker

\* "changes made via the physical knob or ADAM Audio's A Control app are
\* reflected in Home Assistant": once nothing changes the speaker any more
\* and no command is under way, its entities end up showing what it is.
KnobIsShown == LeftAlone => <>[](shown = [state |-> speaker, available |-> TRUE])

\* The client is never left behind, whatever races with it: a speaker that
\* answers and is left alone ends up available, with the client holding
\* exactly what it is, however the commands before ended.  So do its entities,
\* unless a command was confirmed while a refresh was under way and nothing
\* was told since: nothing else keeps a knob from being shown, in particular
\* not data that changes in place, a send that failed, or a timer that ran out
\* during another refresh.
Converges ==
  LeftAlone =>
    <>[]( /\ state = speaker /\ available
          /\ raced \/ shown = [state |-> speaker, available |-> TRUE] )

\* A speaker that is gone for good ends up unavailable, however many commands
\* are still being tried, and it is shown so, with the same exception.
GoneIsShown ==
  <>[](Loaded /\ ~reachable) => <>[](~available /\ (raced \/ ~shown.available))

\* "The update loop runs every POLL_INTERVAL seconds": a loaded entry keeps
\* polling.
PollingGoesOn == []<>(~Loaded \/ \E t \in Pollers : pc[t] # "idle")
=============================================================================
