------------------------- MODULE CoordinatorProofs -------------------------
(***************************************************************************)
(* Proofs about Coordinator, for every instance.  The coordinator uses the *)
(* client only in ways the module Client allows, so everything proved      *)
(* there holds here too; on top of it, CoordinatorInv relates the phases   *)
(* of the entry to the socket and to the first successful poll.            *)
(***************************************************************************)
EXTENDS Coordinator, ClientProofs

Phases == {"new", "connected", "loaded", "failed", "stopping", "unloaded"}

CoordinatorInv ==
  /\ phase \in {"connected", "loaded", "failed", "stopping"} => socket = "open"
  /\ phase = "loaded" => hadPoll
  /\ shown.available => hadPoll

\* Every step of the coordinator is a step of its client, or leaves it alone.
LEMMA StepImplementsClient == [NextStep]_allVars => [Next]_vars
<1> SUFFICES ASSUME [NextStep]_allVars PROVE [Next]_vars
  OBVIOUS
<1>1. CASE World /\ UNCHANGED haVars
  BY <1>1 DEF Next
<1>2. CASE Connect
  BY <1>2 DEF Connect, Next
<1>3. ASSUME NEW t \in Pollers, RefreshStarts(t) PROVE Next
  BY <1>3 DEF RefreshStarts, Next
<1>4. ASSUME NEW t \in Pollers, RefreshStep(t) PROVE Next
  BY <1>4 DEF RefreshStep, RefreshEnds, Next, PollStep
<1>5. ASSUME NEW c \in Commanders, NEW w \in Jobs, Call(c, w) PROVE Next
  BY <1>5 DEF Call, Next
<1>6. ASSUME NEW c \in Commanders, SetterStep(c) PROVE Next
  BY <1>6 DEF SetterStep, Applied, Next, CommandStep
<1>7. CASE Tick \/ RefreshQueues
  BY <1>7 DEF Tick, RefreshQueues
<1>8. CASE StopRefreshing
  BY <1>8 DEF StopRefreshing
<1>9. CASE CloseSocket
  BY <1>9 DEF CloseSocket, Next
<1>10. CASE UNCHANGED allVars
  BY <1>10 DEF allVars
<1> QED
  BY <1>1, <1>2, <1>3, <1>4, <1>5, <1>6, <1>7, <1>8, <1>9, <1>10 DEF NextStep

\* The coordinator and the entities drive the client only through steps the
\* client's own specification has (coordinator.py calls async_setup,
\* async_fetch_state and async_shutdown, the entities call the setters), so
\* every safety property proved of a client alone holds of one in use.
THEOREM UsesClientProperly == CoordinatorSpec => Spec
<1>1. Start => Init
  BY DEF Start
<1> QED
  BY <1>1, StepImplementsClient, PTL DEF CoordinatorSpec, Spec

\* The first good poll is never forgotten, and only a poll that ends well or
\* one that follows it leaves the speaker available.
LEMMA VerdictNeedsPoll ==
  ASSUME NEW t \in Pollers, PollFinish(t), hadPoll \in BOOLEAN
  PROVE  /\ hadPoll => hadPoll'
         /\ available' => hadPoll'
         /\ socket' = socket
<1>1. CASE SuccessfulPoll
  BY <1>1 DEF SuccessfulPoll, PollFinish
<1>2. CASE FailedPoll
  BY <1>2, Zenon DEF FailedPoll, PollFinish
<1> QED
  BY <1>1, <1>2 DEF PollFinish

\* An entity is available when both flags say so.
LEMMA Written ==
  WriteEntities => (shown'.available <=> lastSuccess' /\ available')
<1> SUFFICES ASSUME WriteEntities
             PROVE  shown'.available <=> lastSuccess' /\ available'
  OBVIOUS
<1>1. shown'.available = (lastSuccess' /\ available')
  BY DEF WriteEntities
<1> QED
  BY <1>1, Zenon

\* A setter changes what is shown only by confirming its value.
LEMMA SetterKeeps ==
  ASSUME NEW c \in Commanders, SetterStep(c)
  PROVE  /\ UNCHANGED <<socket, hadPoll, phase>>
         /\ UNCHANGED shown \/ (Applied(c) /\ phase = "loaded" /\ shown'.available)
<1>1. CASE Applied(c)
  <2>1. UNCHANGED <<socket, hadPoll, phase>> /\ available' = TRUE
    BY <1>1 DEF Applied, Confirmed, _note_reachable, async_notify_state
  <2>2. lastSuccess' = TRUE
    BY <1>1 DEF Applied, async_notify_state
  <2>3. CASE phase = "loaded"
    <3>1. WriteEntities
      BY <1>1, <2>3 DEF Applied, async_notify_state
    <3>2. shown'.available <=> lastSuccess' /\ available'
      BY <3>1, Written
    <3> QED
      BY <1>1, <2>1, <2>2, <2>3, <3>2
  <2>4. CASE phase # "loaded"
    BY <1>1, <2>1, <2>4 DEF Applied, async_notify_state
  <2> QED
    BY <2>3, <2>4
<1>2. CASE ~Applied(c)
  BY <1>2 DEF SetterStep, haVars, CommandSend, CommandSendFails,
       HandleSendFailure, IdentifySent, VerifyRead, VerifyFails, Mismatch,
       Unconfirmed, WakeUp, _note_reachable, clientVars
<1> QED
  BY <1>1, <1>2

\* Whatever a finished refresh shows is what the client thinks after it.
LEMMA RefreshShows ==
  ASSUME NEW t \in Pollers, RefreshEnds(t)
  PROVE  /\ UNCHANGED shown \/ (shown'.available <=> available')
         /\ phase' = "loaded" => phase = "loaded" \/ available'
         /\ phase' # phase => phase = "connected"
<1>1. lastSuccess' = available'
  BY DEF RefreshEnds, Update
<1>2. CASE phase = "loaded"
  BY <1>1, <1>2, Written DEF RefreshEnds
<1>3. CASE phase # "loaded"
  <2>1. UNCHANGED shown \/ (shown'.available <=> available')
    BY <1>1, <1>3, Written DEF RefreshEnds
  <2>2. /\ phase' = "loaded" => available'
        /\ phase' # phase => phase = "connected"
    BY <1>3 DEF RefreshEnds
  <2> QED
    BY <2>1, <2>2
<1> QED
  BY <1>2, <1>3

\* CoordinatorInv is inductive relative to the client's types.
LEMMA NextCoordinatorInv ==
  TypeInv /\ CoordinatorInv /\ [NextStep]_allVars => CoordinatorInv'
<1> SUFFICES ASSUME TypeInv, CoordinatorInv, [NextStep]_allVars
             PROVE  CoordinatorInv'
  OBVIOUS
<1>0. hadPoll \in BOOLEAN
  BY DEF TypeInv, TypeOK
<1>1. CASE World /\ UNCHANGED haVars
  BY <1>1 DEF World, Knob, Deliver, Lose, Toggle, haVars, clientVars, CoordinatorInv
<1>2. CASE Connect
  BY <1>2 DEF Connect, async_setup, CoordinatorInv
<1>3. ASSUME NEW t \in Pollers, RefreshStarts(t) PROVE CoordinatorInv'
  BY <1>3 DEF RefreshStarts, PollRequest, clientVars, CoordinatorInv
<1>4. ASSUME NEW t \in Pollers, RefreshStep(t) PROVE CoordinatorInv'
  <2>1. CASE RefreshEnds(t)
    <3>1. PollFinish(t)
      BY <2>1 DEF RefreshEnds
    <3>2. (hadPoll => hadPoll') /\ (available' => hadPoll') /\ socket' = socket
      BY <1>0, <3>1, VerdictNeedsPoll
    <3>3. /\ UNCHANGED shown \/ (shown'.available <=> available')
          /\ phase' = "loaded" => phase = "loaded" \/ available'
          /\ phase' # phase => phase = "connected"
      BY <2>1, RefreshShows
    <3>4. shown'.available => hadPoll'
      BY <3>2, <3>3 DEF CoordinatorInv
    <3>5. phase' = "loaded" => hadPoll'
      BY <3>2, <3>3 DEF CoordinatorInv
    <3>6. phase' \in {"connected", "loaded", "failed", "stopping"} => socket' = "open"
      BY <3>2, <3>3 DEF CoordinatorInv
    <3> QED
      BY <3>4, <3>5, <3>6 DEF CoordinatorInv
  <2>2. CASE ~RefreshEnds(t)
    BY <1>4, <2>2 DEF RefreshStep, PollBegin, PollRead, PollReadFails,
         PollPublish, haVars, clientVars, CoordinatorInv
  <2> QED
    BY <2>1, <2>2
<1>5. ASSUME NEW c \in Commanders, NEW w \in Jobs, Call(c, w) PROVE CoordinatorInv'
  BY <1>5 DEF Call, CommandRequest, haVars, clientVars, CoordinatorInv
<1>6. ASSUME NEW c \in Commanders, SetterStep(c) PROVE CoordinatorInv'
  BY <1>6, SetterKeeps DEF CoordinatorInv
<1>7. CASE Tick \/ RefreshQueues
  BY <1>7 DEF Tick, RefreshQueues, vars, clientVars, CoordinatorInv
<1>8. CASE StopRefreshing
  BY <1>8 DEF StopRefreshing, vars, clientVars, CoordinatorInv
<1>9. CASE CloseSocket
  BY <1>9 DEF CloseSocket, async_shutdown, CoordinatorInv
<1>10. CASE UNCHANGED allVars
  BY <1>10 DEF allVars, vars, haVars, clientVars, CoordinatorInv
<1> QED
  BY <1>1, <1>2, <1>3, <1>4, <1>5, <1>6, <1>7, <1>8, <1>9, <1>10 DEF NextStep

LEMMA CoordinatorCorrect == CoordinatorSpec => [](TypeInv /\ CoordinatorInv)
<1>1. Start => CoordinatorInv
  BY DEF Start, Init, CoordinatorInv
<1>2. TypeInv /\ CoordinatorInv /\ [NextStep]_allVars => CoordinatorInv'
  BY NextCoordinatorInv
<1> QED
  BY <1>1, <1>2, UsesClientProperly, LockCorrect, PTL DEF CoordinatorSpec

\* The types of what the coordinator keeps on top of its client.
HaTypes ==
  /\ phase \in {"new", "connected", "loaded", "failed", "stopping", "unloaded"}
  /\ data \in [Params -> Values]
  /\ lastSuccess \in BOOLEAN
  /\ prevData \in [Params -> Values]
  /\ prevSuccess \in BOOLEAN
  /\ shown \in [state : [Params -> Values], available : BOOLEAN]
  /\ timer \in Unset..Interval
  /\ queued \in BOOLEAN
  /\ raced \in BOOLEAN

LEMMA WrittenTypes ==
  ASSUME WriteEntities, state' \in [Params -> Values]
  PROVE  shown' \in [state : [Params -> Values], available : BOOLEAN]
<1>1. (lastSuccess' /\ available') \in BOOLEAN
  BY Zenon
<1> QED
  BY <1>1 DEF WriteEntities

LEMMA SetterTypes ==
  ASSUME NEW c \in Commanders, SetterStep(c), HaTypes, TypeOK'
  PROVE  HaTypes'
<1>1. state' \in [Params -> Values]
  BY DEF TypeOK
<1>2. CASE Applied(c)
  <2>1. /\ data' = state' /\ lastSuccess' = TRUE
        /\ UNCHANGED <<phase, prevData, prevSuccess, queued>>
    BY <1>2 DEF Applied, async_notify_state
  <2>2. shown' \in [state : [Params -> Values], available : BOOLEAN]
    <3>1. WriteEntities \/ UNCHANGED shown
      BY <1>2 DEF Applied, async_notify_state
    <3> QED
      BY <1>1, <3>1, WrittenTypes DEF HaTypes
  <2>3. timer' \in Unset..Interval
    BY <1>2, CoordinatorAssumption DEF Applied, async_notify_state, HaTypes, Unset
  <2>4. raced' \in BOOLEAN
    <3>1. Refreshing \in BOOLEAN
      BY Zenon DEF Refreshing
    <3> QED
      BY <1>2, <3>1 DEF Applied, async_notify_state, HaTypes
  <2> QED
    BY <1>1, <2>1, <2>2, <2>3, <2>4 DEF HaTypes
<1>3. CASE UNCHANGED haVars
  BY <1>3 DEF haVars, HaTypes
<1> QED
  BY <1>2, <1>3 DEF SetterStep

LEMMA RefreshTypes ==
  ASSUME NEW t \in Pollers, RefreshEnds(t), HaTypes, TypeOK, TypeOK'
  PROVE  HaTypes'
<1>1. state \in [Params -> Values] /\ state' \in [Params -> Values] /\ available' \in BOOLEAN
  BY DEF TypeOK
<1>2. /\ data' \in [Params -> Values]
      /\ UNCHANGED <<prevData, prevSuccess, queued>>
      /\ raced' \in BOOLEAN
  BY <1>1 DEF RefreshEnds, Update, HaTypes
<1>3. lastSuccess' \in BOOLEAN
  BY <1>1, Zenon DEF RefreshEnds, Update
<1>4. shown' \in [state : [Params -> Values], available : BOOLEAN]
  <2>1. WriteEntities \/ UNCHANGED shown
    BY DEF RefreshEnds
  <2> QED
    BY <1>1, <2>1, WrittenTypes DEF HaTypes
<1>5. timer' \in Unset..Interval
  BY CoordinatorAssumption DEF RefreshEnds, HaTypes, Unset
<1>6. phase' \in {phase, "loaded", "failed"}
  BY DEF RefreshEnds
<1> QED
  BY <1>2, <1>3, <1>4, <1>5, <1>6 DEF HaTypes

LEMMA NextHaTypes ==
  TypeOK /\ TypeOK' /\ HaTypes /\ [NextStep]_allVars => HaTypes'
<1> SUFFICES ASSUME TypeOK, TypeOK', HaTypes, [NextStep]_allVars
             PROVE  HaTypes'
  OBVIOUS
<1>0. Unset \in Unset..Interval
  BY CoordinatorAssumption DEF Unset
<1>1. CASE UNCHANGED haVars
  BY <1>1 DEF haVars, HaTypes
<1>2. CASE Connect
  BY <1>2 DEF Connect, HaTypes
<1>3. ASSUME NEW t \in Pollers, RefreshStarts(t) PROVE HaTypes'
  BY <1>0, <1>3 DEF RefreshStarts, HaTypes
<1>4. ASSUME NEW t \in Pollers, RefreshStep(t) PROVE HaTypes'
  BY <1>1, <1>4, RefreshTypes DEF RefreshStep
<1>5. ASSUME NEW c \in Commanders, SetterStep(c) PROVE HaTypes'
  BY <1>5, SetterTypes
<1>6. CASE Tick \/ RefreshQueues
  <2>1. timer' \in Unset..Interval
    BY <1>6, CoordinatorAssumption DEF Tick, RefreshQueues, HaTypes, Unset
  <2> QED
    BY <1>6, <2>1 DEF Tick, RefreshQueues, HaTypes
<1>7. CASE StopRefreshing \/ CloseSocket
  BY <1>0, <1>7 DEF StopRefreshing, CloseSocket, HaTypes
<1>8. ASSUME NEW c \in Commanders, NEW w \in Jobs, Call(c, w) PROVE UNCHANGED haVars
  BY <1>8 DEF Call
<1> QED
  BY <1>1, <1>2, <1>3, <1>4, <1>5, <1>6, <1>7, <1>8 DEF NextStep, allVars, haVars

\* The coordinator, its client and what is shown keep their types, for any
\* number of commands, parameters and attempts and any polling interval.
THEOREM CoordinatorTypeCorrect == CoordinatorSpec => []CoordinatorTypeOK
<1>1. Start => HaTypes
  <2> SUFFICES ASSUME Start PROVE HaTypes
    OBVIOUS
  <2>1. state \in [Params -> Values] /\ timer \in Unset..Interval
    BY InitTypeInv, CoordinatorAssumption DEF Start, TypeInv, TypeOK, Unset
  <2> QED
    BY <2>1 DEF Start, HaTypes
<1>2. TypeInv /\ HaTypes => CoordinatorTypeOK
  BY DEF TypeInv, HaTypes, CoordinatorTypeOK
<1>3. TypeInv => TypeOK
  BY DEF TypeInv
<1> QED
  BY <1>1, <1>2, <1>3, NextHaTypes, CoordinatorCorrect, PTL DEF CoordinatorSpec

\* No entity ever shows the placeholder state of a client that has not heard
\* from its speaker (coordinator.py's first refresh).
THEOREM NothingFabricated == CoordinatorSpec => []NeverFabricated
<1>1. CoordinatorInv => NeverFabricated
  BY DEF CoordinatorInv, NeverFabricated
<1> QED
  BY CoordinatorCorrect, <1>1, PTL

\* async_shutdown cancels the timer before it closes the socket, so no
\* refresh starts on a dead file descriptor.
THEOREM NoPollAfterClose == CoordinatorSpec => NoRefreshOnClosedSocket
<1> DEFINE Safe == \A t \in Pollers : pc[t] = "idle" /\ pc'[t] = "wait" => socket = "open"
<1>1. TypeInv /\ CoordinatorInv /\ [NextStep]_allVars => [Safe]_allVars
  <2> SUFFICES ASSUME TypeInv, CoordinatorInv, NextStep,
                      NEW t \in Pollers, pc[t] = "idle", pc'[t] = "wait"
               PROVE  socket = "open"
    OBVIOUS
  <2>0. /\ pc \in [Tasks -> Labels]
        /\ Pollers \subseteq Tasks /\ Commanders \subseteq Tasks
        /\ Pollers \cap Commanders = {}
    BY ClientAssumption DEF TypeInv, TypeOK, Tasks
  <2>1. CASE World /\ UNCHANGED haVars
    BY <2>1 DEF World, Knob, Deliver, Lose, Toggle, taskVars
  <2>2. CASE Connect
    BY <2>2 DEF Connect, async_setup, taskVars
  <2>3. ASSUME NEW u \in Pollers, RefreshStarts(u) PROVE socket = "open"
    BY <2>3 DEF RefreshStarts, CoordinatorInv
  <2>4. ASSUME NEW u \in Pollers, RefreshStep(u) PROVE FALSE
    BY <2>0, <2>4 DEF RefreshStep, RefreshEnds, PollBegin, PollRead,
         PollReadFails, PollPublish, PollFinish
  <2>5. ASSUME NEW c \in Commanders, NEW w \in Jobs, Call(c, w) PROVE FALSE
    BY <2>0, <2>5 DEF Call, CommandRequest
  <2>6. ASSUME NEW c \in Commanders, SetterStep(c) PROVE FALSE
    <3>1. \A u \in Tasks : u # c => pc'[u] = pc[u]
      BY <2>0, <2>6 DEF SetterStep, Applied, CommandSend, CommandSendFails,
           HandleSendFailure, IdentifySent, VerifyRead, VerifyFails,
           Confirmed, Mismatch, Unconfirmed, WakeUp, Retry, Finish
    <3> QED
      BY <2>0, <3>1
  <2>7. CASE Tick \/ RefreshQueues
    BY <2>7 DEF Tick, RefreshQueues, vars, taskVars
  <2>8. CASE StopRefreshing
    BY <2>8 DEF StopRefreshing, vars, taskVars
  <2>9. CASE CloseSocket
    BY <2>9 DEF CloseSocket, async_shutdown, taskVars
  <2> QED
    BY <2>1, <2>2, <2>3, <2>4, <2>5, <2>6, <2>7, <2>8, <2>9 DEF NextStep
<1> QED
  BY CoordinatorCorrect, <1>1, PTL DEF CoordinatorSpec, NoRefreshOnClosedSocket

\* What the client debounces the entities debounce: they go unavailable only
\* after UnavailableAfter failed polls in a row or a send that raised.
THEOREM EntitiesDebounce == CoordinatorSpec => ShownDebounced
<1> DEFINE Calm == shown.available /\ ~shown'.available
                     => failures' >= UnavailableAfter \/ sendErr'
<1>1. TypeInv /\ CoordinatorInv /\ Debounced' /\ [NextStep]_allVars => [Calm]_allVars
  <2> SUFFICES ASSUME TypeInv, CoordinatorInv, Debounced', NextStep,
                      shown.available, ~shown'.available
               PROVE  failures' >= UnavailableAfter \/ sendErr'
    OBVIOUS
  <2>0. hadPoll /\ hadPoll \in BOOLEAN
    BY DEF TypeInv, TypeOK, CoordinatorInv
  <2>1. PICK t \in Pollers : RefreshEnds(t)
    <3>1. shown' # shown
      OBVIOUS
    <3>2. \A c \in Commanders : ~SetterStep(c)
      BY <3>1, SetterKeeps
    <3> QED
      BY <3>1, <3>2 DEF NextStep, haVars, Connect, RefreshStarts, RefreshStep,
           Call, Tick, RefreshQueues, StopRefreshing, CloseSocket
  <2>2. PollFinish(t)
    BY <2>1 DEF RefreshEnds
  <2>3. hadPoll'
    BY <2>0, <2>2, VerdictNeedsPoll
  <2>4. ~available'
    BY <2>1, RefreshShows
  <2> QED
    BY <2>3, <2>4 DEF Debounced
<1> QED
  BY CoordinatorCorrect, UsesClientProperly, DebounceWorks, <1>1, PTL
     DEF CoordinatorSpec, ShownDebounced

\* While an entry is loaded: the data is the client's, except between the
\* moment a poll has stored and its verdict; a refresh that nothing has raced
\* compares with what is current; and what is shown is what was told.
TellInv ==
  phase = "loaded" =>
    /\ (\A t \in Pollers : pc[t] # "published") => data = state
    /\ Refreshing /\ ~raced => prevData = data /\ prevSuccess = lastSuccess
    /\ ShownIsTold

\* Writing shows the client's state as available if both flags say so.
LEMMA WritesWhatItIs ==
  ASSUME WriteEntities, data' = state', lastSuccess' \in BOOLEAN,
         lastSuccess' => available'
  PROVE  shown' = [state |-> data', available |-> lastSuccess']
<1>1. (lastSuccess' /\ available') = lastSuccess'
  BY Zenon
<1> QED
  BY <1>1 DEF WriteEntities

\* A poll that published leaves the speaker available.
LEMMA PublishedIsGood ==
  ASSUME NEW t \in Pollers, PollFinish(t)
  PROVE  /\ pc[t] \in {"published", "failed"}
         /\ pc[t] = "published" => available'
         /\ UNCHANGED state
BY DEF PollFinish, SuccessfulPoll, _note_reachable

\* A refresh that ends, and tells nobody unless it found a change.
LEMMA RefreshTells ==
  ASSUME NEW t \in Pollers, RefreshEnds(t), TypeInv, TypeOK', HaTypes, TellInv
  PROVE  TellInv'
<1>1. PollFinish(t) /\ Update
  BY DEF RefreshEnds
<1>2. \A u \in Pollers : u = t
  BY CoordinatorAssumption
<1>3. pc' = [pc EXCEPT ![t] = "idle"] /\ t \in Tasks /\ pc \in [Tasks -> Labels]
  BY <1>1 DEF PollFinish, Tasks, TypeInv, TypeOK
<1>4. ~Refreshing'
  BY <1>2, <1>3 DEF Refreshing
<1>5. lastSuccess' = available' /\ available' \in BOOLEAN
  BY <1>1 DEF Update, TypeOK
<1>6. Refreshing
  BY <1>1, PublishedIsGood DEF Refreshing
<1>7. CASE phase = "loaded"
  <2>1. data' = state'
    <3>1. CASE available'
      BY <1>1, <3>1, PublishedIsGood DEF Update
    <3>2. CASE ~available'
      <4>1. pc[t] # "published"
        BY <1>1, <3>2, PublishedIsGood
      <4>2. data = state
        BY <1>2, <1>7, <4>1 DEF TellInv
      <4> QED
        BY <1>1, <3>2, <4>2, PublishedIsGood DEF Update
    <3> QED
      BY <3>1, <3>2
  <2>2. CASE Changed
    <3>1. WriteEntities
      BY <1>7, <2>2 DEF RefreshEnds
    <3>2. shown' = [state |-> data', available |-> lastSuccess']
      BY <1>5, <2>1, <3>1, WritesWhatItIs
    <3> QED
      BY <1>4, <2>1, <3>2 DEF TellInv, ShownIsTold
  <2>3. CASE ~Changed
    <3>1. UNCHANGED <<shown, raced>>
      BY <1>7, <2>3 DEF RefreshEnds
    <3>2. ASSUME ~raced PROVE data' = data /\ lastSuccess' = lastSuccess
      <4>1. prevData = data /\ prevSuccess = lastSuccess
        BY <1>6, <1>7, <3>2 DEF TellInv
      <4>2. prevSuccess \in BOOLEAN
        BY DEF HaTypes
      <4>3. CASE ~lastSuccess' /\ ~prevSuccess
        BY <1>1, <1>5, <4>1, <4>2, <4>3 DEF Update
      <4>4. CASE lastSuccess' \/ prevSuccess
        BY <2>3, <4>1, <4>4 DEF Changed
      <4> QED
        BY <4>3, <4>4
    <3>3. ~raced' => shown' = [state |-> data', available |-> lastSuccess']
      BY <1>7, <3>1, <3>2 DEF TellInv, ShownIsTold
    <3> QED
      BY <1>4, <2>1, <3>3 DEF TellInv, ShownIsTold
  <2> QED
    BY <2>2, <2>3
<1>8. CASE phase # "loaded" /\ phase' = "loaded"
  <2>1. available'
    BY <1>8, RefreshShows
  <2>2. data' = state'
    BY <1>1, <2>1, PublishedIsGood DEF Update
  <2>3. WriteEntities
    BY <1>8 DEF RefreshEnds
  <2>4. shown' = [state |-> data', available |-> lastSuccess']
    BY <1>5, <2>2, <2>3, WritesWhatItIs
  <2> QED
    BY <1>4, <2>2, <2>4 DEF TellInv, ShownIsTold
<1>9. CASE phase' # "loaded"
  BY <1>9 DEF TellInv
<1>10. phase = "loaded" => phase' = "loaded"
  BY DEF RefreshEnds
<1> QED
  BY <1>7, <1>8, <1>9, <1>10

\* A command that is confirmed tells the entities everything.
LEMMA AppliedTells ==
  ASSUME NEW c \in Commanders, Applied(c), TypeInv
  PROVE  TellInv'
<1>1. data' = state' /\ lastSuccess' = TRUE /\ available' = TRUE /\ phase' = phase
  BY DEF Applied, Confirmed, _note_reachable, async_notify_state
<1>2. \A t \in Pollers : pc'[t] = pc[t]
  BY ClientAssumption DEF Applied, Confirmed, Finish, Tasks, TypeInv, TypeOK
<1>3. CASE phase = "loaded"
  <2>1. WriteEntities /\ raced' = Refreshing
    BY <1>3 DEF Applied, async_notify_state
  <2>2. Refreshing' <=> Refreshing
    BY <1>2 DEF Refreshing
  <2>3. shown' = [state |-> data', available |-> lastSuccess']
    BY <1>1, <2>1, WritesWhatItIs
  <2> QED
    BY <1>1, <2>1, <2>2, <2>3 DEF TellInv, ShownIsTold
<1>4. CASE phase # "loaded"
  BY <1>1, <1>4 DEF TellInv
<1> QED
  BY <1>3, <1>4

\* Steps that change neither what is told nor what is refreshed.
LEMMA OthersTellNothing ==
  ASSUME TellInv, UNCHANGED <<state, haVars>>,
         \A t \in Pollers : pc'[t] # "published" => pc[t] # "published",
         Refreshing' => Refreshing
  PROVE  TellInv'
BY DEF TellInv, ShownIsTold, haVars

LEMMA NextTellInv ==
  TypeInv /\ TypeOK' /\ HaTypes /\ TellInv /\ [NextStep]_allVars => TellInv'
<1> SUFFICES ASSUME TypeInv, TypeOK', HaTypes, TellInv, [NextStep]_allVars
             PROVE  TellInv'
  OBVIOUS
<1>0. /\ pc \in [Tasks -> Labels]
      /\ Pollers \subseteq Tasks /\ Commanders \subseteq Tasks
      /\ Pollers \cap Commanders = {}
  BY ClientAssumption DEF TypeInv, TypeOK, Tasks
<1>1. CASE World /\ UNCHANGED haVars
  <2>1. UNCHANGED <<state, pc>>
    BY <1>1 DEF World, Knob, Deliver, Lose, Toggle, clientVars, taskVars
  <2> QED
    BY <1>1, <2>1, OthersTellNothing DEF Refreshing
<1>2. CASE Connect
  BY <1>2 DEF Connect, TellInv
<1>3. ASSUME NEW t \in Pollers, RefreshStarts(t) PROVE TellInv'
  <2>1. pc' = [pc EXCEPT ![t] = "wait"] /\ pc[t] = "idle" /\ UNCHANGED state
    BY <1>3 DEF RefreshStarts, PollRequest, clientVars
  <2>2. \A u \in Pollers : u = t
    BY CoordinatorAssumption
  <2>3. /\ prevData' = data' /\ prevSuccess' = lastSuccess'
        /\ UNCHANGED <<phase, data, lastSuccess, shown, raced>>
    BY <1>3 DEF RefreshStarts
  <2> QED
    BY <1>0, <2>1, <2>2, <2>3 DEF TellInv, ShownIsTold
<1>4. ASSUME NEW t \in Pollers, RefreshStep(t) PROVE TellInv'
  <2>1. CASE RefreshEnds(t)
    BY <2>1, RefreshTells
  <2>2. CASE (PollBegin(t) \/ PollRead(t) \/ PollReadFails(t)) /\ UNCHANGED haVars
    <3>1. /\ UNCHANGED state
          /\ pc[t] # "idle" /\ pc[t] # "published"
          /\ \A u \in Pollers : u # t => pc'[u] = pc[u]
      BY <1>0, <2>2 DEF PollBegin, PollRead, PollReadFails, clientVars
    <3>2. Refreshing
      BY <3>1 DEF Refreshing
    <3>3. \A u \in Pollers : pc'[u] # "published" => pc[u] # "published"
      BY <3>1
    <3> QED
      BY <2>2, <3>1, <3>2, <3>3, OthersTellNothing
  <2>3. CASE PollPublish(t) /\ UNCHANGED haVars
    <3>1. pc'[t] = "published" /\ pc[t] # "idle"
      BY <1>0, <2>3 DEF PollPublish
    <3>2. Refreshing
      BY <3>1 DEF Refreshing
    <3> QED
      BY <2>3, <3>1, <3>2 DEF TellInv, ShownIsTold, haVars
  <2> QED
    BY <1>4, <2>1, <2>2, <2>3 DEF RefreshStep
<1>5. ASSUME NEW c \in Commanders, NEW w \in Jobs, Call(c, w) PROVE TellInv'
  <2>1. UNCHANGED <<state, haVars>> /\ \A u \in Pollers : pc'[u] = pc[u]
    BY <1>0, <1>5 DEF Call, CommandRequest, clientVars
  <2> QED
    BY <2>1, OthersTellNothing DEF Refreshing
<1>6. ASSUME NEW c \in Commanders, SetterStep(c) PROVE TellInv'
  <2>1. CASE Applied(c)
    BY <2>1, AppliedTells
  <2>2. CASE ~Applied(c)
    <3>1. UNCHANGED <<state, haVars>>
      BY <1>6, <2>2 DEF SetterStep, CommandSend, CommandSendFails,
           HandleSendFailure, IdentifySent, VerifyRead, VerifyFails, Mismatch,
           Unconfirmed, WakeUp, clientVars
    <3>2. \A u \in Pollers : pc'[u] = pc[u]
      BY <1>0, <1>6, <2>2 DEF SetterStep, CommandSend, CommandSendFails,
           HandleSendFailure, IdentifySent, VerifyRead, VerifyFails,
           Mismatch, Unconfirmed, WakeUp, Retry, Finish
    <3> QED
      BY <3>1, <3>2, OthersTellNothing DEF Refreshing
  <2> QED
    BY <2>1, <2>2
<1>7. CASE Tick \/ RefreshQueues
  BY <1>7 DEF Tick, RefreshQueues, vars, clientVars, taskVars, Refreshing,
       TellInv, ShownIsTold
<1>8. CASE StopRefreshing \/ CloseSocket
  BY <1>8 DEF StopRefreshing, CloseSocket, TellInv
<1>9. CASE UNCHANGED allVars
  BY <1>9 DEF allVars, vars, haVars, clientVars, taskVars, Refreshing,
       TellInv, ShownIsTold
<1> QED
  BY <1>1, <1>2, <1>3, <1>4, <1>5, <1>6, <1>7, <1>8, <1>9 DEF NextStep

\* Whatever any number of commands do while refreshes wait for the client's
\* lock, an entity shows what its coordinator was last given, unless one of
\* them was confirmed during a refresh and nothing was told since.  So a
\* speaker that is gone, or a knob, is hidden by that race only.
THEOREM WhatIsToldIsShown == CoordinatorSpec => []ShownIsTold
<1>1. Start => HaTypes /\ TellInv
  <2> SUFFICES ASSUME Start PROVE HaTypes /\ TellInv
    OBVIOUS
  <2>1. state \in [Params -> Values] /\ timer \in Unset..Interval
    BY InitTypeInv, CoordinatorAssumption DEF Start, TypeInv, TypeOK, Unset
  <2> QED
    BY <2>1 DEF Start, HaTypes, TellInv
<1>2. TypeInv => TypeOK
  BY DEF TypeInv
<1>3. TellInv => ShownIsTold
  BY DEF TellInv, ShownIsTold
<1> QED
  BY <1>1, <1>2, <1>3, NextHaTypes, NextTellInv, CoordinatorCorrect, PTL
     DEF CoordinatorSpec
=============================================================================
