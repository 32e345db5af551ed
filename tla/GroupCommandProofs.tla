------------------------- MODULE GroupCommandProofs -------------------------
(***************************************************************************)
(* Proofs about GroupCommand, for any number of speakers and of calls that *)
(* run at once.  The invariant has three layers: the types, with what the  *)
(* phase of a call says about its other fields; that a speaker counted as  *)
(* "ok" was read back; and that coordinators know what their clients know. *)
(***************************************************************************)
EXTENDS GroupCommand, TLAPS

\* A running call has a field and a value; one that is over has no targets.
CallInv ==
  \A g \in Calls :
    /\ Running(g) => asked[g] \in Fields \X Values
    /\ ~Running(g) => \A s \in Speakers : result[g][s] = "none"

\* Nobody counts as having applied a value who was not read back with it.
ReadBack ==
  \A g \in Calls, s \in Speakers : result[g][s] = "ok" => s \in applied[g]

TypeInv == TypeOK /\ CallInv

Shown == Values \cup {Unknown, Unavailable}

\* What a coordinator may hold.
Holdings == [data : Settings, success : BOOLEAN]

----------------------------------------------------------------------------
\* What a group entity shows is a value, or one of the two special states, in
\* every state and so after every step.
LEMMA ShowsType == \A f : Shows(f) \in Shown
<1>1. \A f, S : _common_value(f, S) \in Shown
  BY DEF _common_value, Shown
<1>2. \A f, S : is_on(f, S) \in Shown
  BY GroupAssumption DEF is_on, Shown
<1> QED
  BY <1>1, <1>2 DEF Shows, Shown

LEMMA ShowsTypeNext == (\A f : Shows(f) \in Shown)'
<1>1. \A f : Shows(f) \in Shown
  BY ShowsType
<1> QED
  BY <1>1, PTL

\* Writing the group entities keeps their type.
LEMMA WriteType ==
  ASSUME shown \in [Fields -> Shown], NEW fs, Write(fs)
  PROVE  shown' \in [Fields -> Shown]
  BY ShowsTypeNext DEF Write, Shown

----------------------------------------------------------------------------
(* Types. *)

LEMMA InitTypeInv == Init => TypeInv
<1> SUFFICES ASSUME Init PROVE TypeInv
  OBVIOUS
<1>1. shown \in [Fields -> Shown]
  BY ShowsType DEF Init
<1>2. CallInv
  BY DEF Init, CallInv, Running, NoTargets
<1>3. /\ state \in [Speakers -> Settings]
      /\ available \in [Speakers -> BOOLEAN]
      /\ failures \in [Speakers -> 0..UnavailableAfter]
      /\ data \in [Speakers -> Settings]
      /\ success \in [Speakers -> BOOLEAN]
      /\ before \in [Speakers -> Holdings \cup {NoRefresh}]
  BY GroupAssumption DEF Init, Settings
<1>4. /\ tries \in [Calls -> [Speakers -> 0..(MaxRetries - 1)]]
      /\ result \in [Calls -> [Speakers -> {"none", "pending", "ok", "failed"}]]
  BY GroupAssumption DEF Init, NoTries, NoTargets
<1> QED
  BY <1>1, <1>2, <1>3, <1>4 DEF Init, TypeInv, TypeOK, Shown, Holdings

\* A failed attempt.
LEMMA AgainType ==
  ASSUME TypeInv, NEW g \in Calls, NEW s \in Speakers,
         result[g][s] = "pending", Again(g, s), UNCHANGED <<phase, asked>>
  PROVE  /\ tries' \in [Calls -> [Speakers -> 0..(MaxRetries - 1)]]
         /\ result' \in [Calls -> [Speakers -> {"none", "pending", "ok", "failed"}]]
         /\ CallInv'
<1>1. Running(g)
  BY DEF TypeInv, CallInv
<1>2. CASE tries[g][s] + 1 < MaxRetries
  <2>1. tries' = [tries EXCEPT ![g][s] = tries[g][s] + 1] /\ UNCHANGED result
    BY <1>2 DEF Again
  <2>2. tries[g][s] + 1 \in 0..(MaxRetries - 1)
    BY <1>2, GroupAssumption DEF TypeInv, TypeOK
  <2>3. tries' \in [Calls -> [Speakers -> 0..(MaxRetries - 1)]]
    BY <2>1, <2>2 DEF TypeInv, TypeOK
  <2> QED
    BY <2>1, <2>3 DEF TypeInv, TypeOK, CallInv, Running
<1>3. CASE ~(tries[g][s] + 1 < MaxRetries)
  <2>1. result' = [result EXCEPT ![g][s] = "failed"] /\ UNCHANGED tries
    BY <1>3 DEF Again
  <2>2. result' \in [Calls -> [Speakers -> {"none", "pending", "ok", "failed"}]]
    BY <2>1 DEF TypeInv, TypeOK
  <2>3. CallInv'
    BY <2>1, <1>1 DEF TypeInv, TypeOK, CallInv, Running
  <2> QED
    BY <2>1, <2>2, <2>3 DEF TypeInv, TypeOK
<1> QED
  BY <1>2, <1>3

\* A refresh that starts.
LEMMA RefreshStartsType ==
  ASSUME TypeInv, NEW s \in Speakers, RefreshStarts(s) PROVE TypeInv'
<1>1. Held(s) \in Holdings
  BY DEF Held, Holdings, TypeInv, TypeOK
<1>2. before' \in [Speakers -> Holdings \cup {NoRefresh}]
  BY <1>1 DEF RefreshStarts, TypeInv, TypeOK, Holdings
<1>3. CallInv'
  BY DEF RefreshStarts, callVars, TypeInv, CallInv, Running
<1> QED
  BY <1>2, <1>3 DEF RefreshStarts, clientVars, entryVars, callVars, TypeInv,
                    TypeOK, Holdings

\* A poll.
LEMMA PollType ==
  ASSUME TypeInv, NEW s \in Speakers, Poll(s)
  PROVE  /\ state' \in [Speakers -> Settings]
         /\ available' \in [Speakers -> BOOLEAN]
         /\ failures' \in [Speakers -> 0..UnavailableAfter]
<1>1. failures' \in [Speakers -> 0..UnavailableAfter]
  <2>1. \A n \in 0..UnavailableAfter :
          (IF n < UnavailableAfter THEN n + 1 ELSE n) \in 0..UnavailableAfter
    BY GroupAssumption
  <2>2. 0 \in 0..UnavailableAfter
    BY GroupAssumption
  <2> QED
    BY <2>1, <2>2 DEF TypeInv, TypeOK, Poll
<1>2. available' \in [Speakers -> BOOLEAN]
  <2>1. \A b, c : (b /\ c) \in BOOLEAN
    OBVIOUS
  <2> QED
    BY <2>1 DEF TypeInv, TypeOK, Poll
<1>3. state' \in [Speakers -> Settings]
  BY DEF TypeInv, TypeOK, Poll, Reports, Settings
<1> QED
  BY <1>1, <1>2, <1>3

\* A refresh that ends.
LEMMA RefreshEndsType ==
  ASSUME TypeInv, NEW s \in Speakers, RefreshEnds(s) PROVE TypeInv'
<1>1. /\ state' \in [Speakers -> Settings]
      /\ available' \in [Speakers -> BOOLEAN]
      /\ failures' \in [Speakers -> 0..UnavailableAfter]
  BY PollType DEF RefreshEnds
<1>2. success' \in [Speakers -> BOOLEAN]
  BY <1>1 DEF TypeInv, TypeOK, RefreshEnds
<1>3. data' \in [Speakers -> Settings]
  BY <1>1 DEF TypeInv, TypeOK, RefreshEnds
<1>4. before' \in [Speakers -> Holdings \cup {NoRefresh}]
  BY DEF TypeInv, TypeOK, RefreshEnds, Holdings
<1>5. shown' \in [Fields -> Shown]
  BY WriteType DEF TypeInv, TypeOK, RefreshEnds, TellListeners, Shown
<1>6. untold' \subseteq Speakers
  BY DEF RefreshEnds, TellListeners, Silently, Behind, TypeInv, TypeOK
<1>7. CallInv'
  BY DEF RefreshEnds, callVars, TypeInv, CallInv, Running
<1> QED
  BY <1>1, <1>2, <1>3, <1>4, <1>5, <1>6, <1>7
     DEF RefreshEnds, entryVars, callVars, TypeInv, TypeOK, Shown, Holdings

\* A service call.
LEMMA CommandType ==
  ASSUME TypeInv, NEW g \in Calls, NEW j \in Jobs, Command(g, j[1], j[2])
  PROVE  TypeInv'
<1>1. <<j[1], j[2]>> \in Fields \X Values
  BY GroupAssumption
<1>2. /\ phase' \in [Calls -> {"idle", "running", "raised"}]
      /\ asked' \in [Calls -> (Fields \X Values) \cup {NoCall}]
      /\ result' \in [Calls -> [Speakers -> {"none", "pending", "ok", "failed"}]]
  BY <1>1 DEF Command, TypeInv, TypeOK
<1>3. CallInv'
  BY <1>1 DEF Command, TypeInv, TypeOK, CallInv, Running
<1> QED
  BY <1>2, <1>3
     DEF Command, clientVars, coordVars, entryVars, TypeInv, TypeOK

\* An attempt.
LEMMA AttemptType ==
  ASSUME TypeInv, NEW g \in Calls, NEW s \in Speakers, Attempt(g, s)
  PROVE  TypeInv'
<1>1. \A a \in BOOLEAN : Availability(s, a) =>
        /\ available' \in [Speakers -> BOOLEAN]
        /\ untold' \subseteq Speakers
  BY DEF Availability, Silently, Behind, TypeInv, TypeOK
<1>2. [failures EXCEPT ![s] = 0] \in [Speakers -> 0..UnavailableAfter]
  BY GroupAssumption DEF TypeInv, TypeOK
<1>3. CASE Confirm(g, s)
  <2>1. Running(g) /\ asked[g] \in Fields \X Values
    BY <1>3 DEF Confirm, TypeInv, CallInv
  <2>2. state' \in [Speakers -> Settings]
    BY <1>3, <2>1 DEF Confirm, TypeInv, TypeOK, Settings
  <2>3. /\ result' \in [Calls -> [Speakers -> {"none", "pending", "ok", "failed"}]]
        /\ applied' \in [Calls -> SUBSET Speakers]
    BY <1>3 DEF Confirm, TypeInv, TypeOK
  <2>4. CallInv'
    BY <1>3, <2>1 DEF Confirm, TypeInv, TypeOK, CallInv, Running
  <2> QED
    BY <1>1, <1>2, <1>3, <2>2, <2>3, <2>4
       DEF Confirm, coordVars, entryVars, TypeInv, TypeOK
<1>4. CASE Mismatch(g, s)
  BY <1>1, <1>2, <1>4, AgainType
     DEF Mismatch, coordVars, entryVars, TypeInv, TypeOK
<1>5. CASE NoAnswer(g, s)
  BY <1>5, AgainType
     DEF NoAnswer, clientVars, coordVars, entryVars, TypeInv, TypeOK
<1>6. CASE SendFails(g, s)
  BY <1>1, <1>6, AgainType
     DEF SendFails, coordVars, entryVars, TypeInv, TypeOK
<1> QED
  BY <1>3, <1>4, <1>5, <1>6 DEF Attempt

\* The end of a call.
LEMMA FinishType == ASSUME TypeInv, NEW g \in Calls, Finish(g) PROVE TypeInv'
<1>1. data' \in [Speakers -> Settings]
  BY DEF Finish, TypeInv, TypeOK
<1>2. success' \in [Speakers -> BOOLEAN]
  <2>1. \A a, b : (a \/ b) \in BOOLEAN
    OBVIOUS
  <2> QED
    BY <2>1 DEF Finish
<1>3. /\ phase' \in [Calls -> {"idle", "running", "raised"}]
      /\ asked' \in [Calls -> (Fields \X Values) \cup {NoCall}]
      /\ result' \in [Calls -> [Speakers -> {"none", "pending", "ok", "failed"}]]
      /\ applied' \in [Calls -> SUBSET Speakers]
  BY DEF Finish, TypeInv, TypeOK, NoTargets
<1>4. tries' \in [Calls -> [Speakers -> 0..(MaxRetries - 1)]]
  <2>1. NoTries \in [Speakers -> 0..(MaxRetries - 1)]
    BY GroupAssumption DEF NoTries
  <2> QED
    BY <2>1 DEF Finish, TypeInv, TypeOK
<1>5. shown' \in [Fields -> Shown]
  BY WriteType DEF Finish, WriteOwn, TellListeners, TypeInv, TypeOK, Shown
<1>6. untold' \subseteq Speakers
  BY DEF Finish, TellListeners, Silently, Behind, TypeInv, TypeOK
<1>7. CallInv'
  BY DEF Finish, TypeInv, TypeOK, CallInv, Running, NoTargets
<1> QED
  BY <1>1, <1>2, <1>3, <1>4, <1>5, <1>6, <1>7
     DEF Finish, clientVars, entryVars, TypeInv, TypeOK, Shown

\* An entry or the group goes.
LEMMA UnloadType ==
  ASSUME TypeInv,
         (\E s \in Speakers : Unregister(s) \/ Close(s)) \/ RemoveGroup
  PROVE  TypeInv'
<1>1. CASE \E s \in Speakers : Unregister(s)
  BY <1>1 DEF Unregister, clientVars, coordVars, callVars, TypeInv, TypeOK,
              CallInv, Running
<1>2. CASE \E s \in Speakers : Close(s)
  <2>1. shown' \in [Fields -> Shown]
    BY <1>2, WriteType DEF Close, SignalGone, TellListeners, TypeInv, TypeOK, Shown
  <2> QED
    BY <1>2, <2>1 DEF Close, SignalGone, TellListeners, Behind, clientVars, coordVars, callVars,
                      TypeInv, TypeOK, CallInv, Running, Shown
<1>3. CASE RemoveGroup
  BY <1>3 DEF RemoveGroup, clientVars, coordVars, callVars, TypeInv, TypeOK,
              CallInv, Running
<1> QED
  BY <1>1, <1>2, <1>3

LEMMA NextTypeInv == TypeInv /\ [Next]_vars => TypeInv'
<1> SUFFICES ASSUME TypeInv, [Next]_vars PROVE TypeInv'
  OBVIOUS
<1>1. CASE \E s \in Speakers : RefreshStarts(s) \/ RefreshEnds(s)
  BY <1>1, RefreshStartsType, RefreshEndsType
<1>2. CASE \E g \in Calls : Finish(g)
  BY <1>2, FinishType
<1>3. CASE \E g \in Calls, s \in Speakers : Attempt(g, s)
  BY <1>3, AttemptType
<1>4. CASE \E g \in Calls, j \in Jobs : Command(g, j[1], j[2])
  BY <1>4, CommandType
<1>5. CASE (\E s \in Speakers : Unregister(s) \/ Close(s)) \/ RemoveGroup
  BY <1>5, UnloadType
<1>6. CASE UNCHANGED vars
  BY <1>6 DEF vars, clientVars, coordVars, entryVars, callVars, TypeInv,
              TypeOK, CallInv, Running
<1> QED
  BY <1>1, <1>2, <1>3, <1>4, <1>5, <1>6 DEF Next, CallStep

\* The types of GroupCommand hold for any number of speakers and calls.
THEOREM GroupTypeCorrect == Spec => []TypeOK
<1>1. TypeInv => TypeOK
  BY DEF TypeInv
<1> QED
  BY <1>1, InitTypeInv, NextTypeInv, PTL DEF Spec

----------------------------------------------------------------------------
(* A call that returns was applied. *)

\* A failed attempt turns nobody's result into "ok", nor back.
LEMMA AgainOk ==
  ASSUME TypeInv, NEW g \in Calls, NEW s \in Speakers,
         result[g][s] = "pending", Again(g, s)
  PROVE  \A h \in Calls, t \in Speakers : result'[h][t] = "ok" <=> result[h][t] = "ok"
<1>1. CASE UNCHANGED result
  BY <1>1
<1>2. CASE result' = [result EXCEPT ![g][s] = "failed"]
  BY <1>2 DEF TypeInv, TypeOK
<1> QED
  BY <1>1, <1>2 DEF Again

LEMMA NextReadBack == TypeInv /\ ReadBack /\ [Next]_vars => ReadBack'
<1> SUFFICES ASSUME TypeInv, ReadBack, [Next]_vars PROVE ReadBack'
  OBVIOUS
<1>1. CASE \E g \in Calls : Finish(g)
  BY <1>1 DEF Finish, NoTargets, ReadBack, TypeInv, TypeOK
<1>2. CASE \E g \in Calls, j \in Jobs : Command(g, j[1], j[2])
  BY <1>2 DEF Command, ReadBack, TypeInv, TypeOK
<1>3. CASE \E g \in Calls, s \in Speakers : Attempt(g, s)
  <2> SUFFICES ASSUME NEW g \in Calls, NEW s \in Speakers, Attempt(g, s)
               PROVE  ReadBack'
    BY <1>3
  <2>1. CASE Confirm(g, s)
    BY <2>1 DEF Confirm, ReadBack, TypeInv, TypeOK
  <2>2. CASE Mismatch(g, s)
    BY <2>2, AgainOk DEF Mismatch, ReadBack
  <2>3. CASE NoAnswer(g, s)
    BY <2>3, AgainOk DEF NoAnswer, ReadBack
  <2>4. CASE SendFails(g, s)
    BY <2>4, AgainOk DEF SendFails, ReadBack
  <2> QED
    BY <2>1, <2>2, <2>3, <2>4 DEF Attempt
<1>4. ASSUME UNCHANGED callVars PROVE ReadBack'
  BY <1>4 DEF callVars, ReadBack
<1>5. CASE \E s \in Speakers : \/ RefreshStarts(s) \/ RefreshEnds(s)
                               \/ Unregister(s) \/ Close(s)
  BY <1>4, <1>5 DEF RefreshStarts, RefreshEnds, Unregister, Close
<1>6. CASE RemoveGroup \/ UNCHANGED vars
  BY <1>4, <1>6 DEF RemoveGroup, vars
<1> QED
  BY <1>1, <1>2, <1>3, <1>5, <1>6 DEF Next, CallStep

\* Only the end of a call changes a running phase, and it is silent only if
\* every speaker that was asked is counted as "ok".
LEMMA FinishSilent ==
  ASSUME TypeInv, ReadBack, [Next]_vars,
         NEW g \in Calls, Running(g), phase'[g] = "idle"
  PROVE  \A s \in Speakers : result[g][s] # "none" => s \in applied[g]
<1>1. CASE \E h \in Calls : Finish(h)
  <2>1. PICK h \in Calls : Finish(h)
    BY <1>1
  <2>2. h = g
    BY <2>1 DEF Finish, Running, TypeInv, TypeOK
  <2>3. Gathered(g) /\ Failed(g) = {}
    BY <2>1, <2>2 DEF Finish, TypeInv, TypeOK
  <2>4. \A s \in Speakers : result[g][s] \in {"none", "pending", "ok", "failed"}
    BY DEF TypeInv, TypeOK
  <2>5. \A s \in Speakers : result[g][s] # "none" => result[g][s] = "ok"
    BY <2>3, <2>4 DEF Gathered, Failed
  <2> QED
    BY <2>5 DEF ReadBack
<1>2. ASSUME UNCHANGED phase PROVE FALSE
  BY <1>2 DEF Running
<1>3. CASE \E h \in Calls, j \in Jobs : Command(h, j[1], j[2])
  BY <1>3 DEF Command, Running, TypeInv, TypeOK
<1>4. CASE \E h \in Calls, s \in Speakers : Attempt(h, s)
  BY <1>2, <1>4 DEF Attempt, Confirm, Mismatch, NoAnswer, SendFails
<1>5. CASE \E s \in Speakers : \/ RefreshStarts(s) \/ RefreshEnds(s)
                               \/ Unregister(s) \/ Close(s)
  BY <1>2, <1>5 DEF RefreshStarts, RefreshEnds, Unregister, Close, callVars
<1>6. CASE RemoveGroup \/ UNCHANGED vars
  BY <1>2, <1>6 DEF RemoveGroup, vars, callVars
<1> QED
  BY <1>1, <1>3, <1>4, <1>5, <1>6 DEF Next, CallStep

LEMMA CallLayer == Spec => [](TypeInv /\ ReadBack)
<1>1. Init => ReadBack
  BY DEF Init, ReadBack, NoTargets
<1> QED
  BY <1>1, InitTypeInv, NextTypeInv, NextReadBack, PTL DEF Spec

\* A service call on a group entity that raises no error was read back from
\* every speaker it was sent to, however many there are and whatever they,
\* the polls and the other calls do meanwhile.
THEOREM SilentCallsAreApplied == Spec => SilentMeansApplied
<1>1. TypeInv /\ ReadBack /\ [Next]_vars =>
        [ \A g \in Calls :
            Running(g) /\ phase'[g] = "idle"
              => \A s \in Speakers : result[g][s] # "none" => s \in applied[g] ]_vars
  BY FinishSilent
<1> QED
  BY <1>1, CallLayer, PTL DEF Spec, SilentMeansApplied

----------------------------------------------------------------------------
(* Coordinators know what their clients know. *)

\* A refresh either takes the client's state over or finds it unchanged.
LEMMA RefreshTells ==
  ASSUME TypeInv, ChangesAreTold, NEW s \in Speakers, RefreshEnds(s)
  PROVE  ChangesAreTold'
<1>1. UNCHANGED result
  BY DEF RefreshEnds, Poll, callVars
<1>2. \A t \in Speakers \ {s} : state'[t] = state[t] /\ data'[t] = data[t]
  BY DEF RefreshEnds, Poll, TypeInv, TypeOK
<1>3. CASE available'[s]
  <2>1. data'[s] = state'[s]
    BY <1>3 DEF RefreshEnds, Poll, TypeInv, TypeOK
  <2> QED
    BY <1>1, <1>2, <2>1 DEF ChangesAreTold
<1>4. CASE ~available'[s]
  <2>1. available' # [available EXCEPT ![s] = TRUE]
    BY <1>4 DEF TypeInv, TypeOK
  <2>2. UNCHANGED <<state, data>>
    BY <1>4, <2>1 DEF RefreshEnds, Poll
  <2> QED
    BY <1>1, <2>2 DEF ChangesAreTold
<1> QED
  BY <1>3, <1>4

\* The end of a call tells of those that applied it; of the others no call of
\* the rest has anything to tell that it did not have before.
LEMMA FinishTells ==
  ASSUME TypeInv, ChangesAreTold, NEW g \in Calls, Finish(g)
  PROVE  ChangesAreTold'
<1> SUFFICES ASSUME NEW s \in Speakers, \A h \in Calls : result'[h][s] # "ok"
             PROVE  data'[s] = state'[s]
  BY DEF ChangesAreTold
<1>1. UNCHANGED state
  BY DEF Finish, clientVars
<1>2. CASE s \in Notified(g)
  BY <1>1, <1>2 DEF Finish
<1>3. CASE s \notin Notified(g)
  <2>1. \A h \in Calls : result[h][s] # "ok"
    BY <1>3 DEF Finish, Notified, Applied, TypeInv, TypeOK
  <2>2. data'[s] = data[s]
    BY <1>3 DEF Finish
  <2> QED
    BY <1>1, <2>1, <2>2 DEF ChangesAreTold
<1> QED
  BY <1>2, <1>3

\* An attempt that changes the client's state leaves its call with something
\* to tell.
LEMMA AttemptTells ==
  ASSUME TypeInv, ChangesAreTold, NEW g \in Calls, NEW s \in Speakers,
         Attempt(g, s)
  PROVE  ChangesAreTold'
<1>1. CASE Confirm(g, s)
  <2>1. /\ \A t \in Speakers \ {s} : state'[t] = state[t]
        /\ \A h \in Calls, t \in Speakers \ {s} : result'[h][t] = result[h][t]
        /\ result'[g][s] = "ok"
        /\ UNCHANGED data
    BY <1>1 DEF Confirm, coordVars, TypeInv, TypeOK
  <2> QED
    BY <2>1 DEF ChangesAreTold
<1>2. CASE Mismatch(g, s)
  BY <1>2, AgainOk DEF Mismatch, coordVars, ChangesAreTold
<1>3. CASE NoAnswer(g, s)
  BY <1>3, AgainOk DEF NoAnswer, clientVars, coordVars, ChangesAreTold
<1>4. CASE SendFails(g, s)
  BY <1>4, AgainOk DEF SendFails, coordVars, ChangesAreTold
<1> QED
  BY <1>1, <1>2, <1>3, <1>4 DEF Attempt

LEMMA NextTells == TypeInv /\ ChangesAreTold /\ [Next]_vars => ChangesAreTold'
<1> SUFFICES ASSUME TypeInv, ChangesAreTold, [Next]_vars PROVE ChangesAreTold'
  OBVIOUS
<1>0. CASE \E s \in Speakers : RefreshStarts(s)
  BY <1>0 DEF RefreshStarts, clientVars, callVars, ChangesAreTold
<1>1. CASE \E s \in Speakers : RefreshEnds(s)
  BY <1>1, RefreshTells
<1>2. CASE \E g \in Calls : Finish(g)
  BY <1>2, FinishTells
<1>3. CASE \E g \in Calls, s \in Speakers : Attempt(g, s)
  BY <1>3, AttemptTells
<1>4. CASE \E g \in Calls, j \in Jobs : Command(g, j[1], j[2])
  <2> SUFFICES ASSUME NEW g \in Calls, NEW j \in Jobs, Command(g, j[1], j[2])
               PROVE  ChangesAreTold'
    BY <1>4
  <2>1. UNCHANGED <<state, data>>
    BY DEF Command, clientVars, coordVars
  <2>2. \A s \in Speakers : result[g][s] # "ok"
    BY DEF Command, TypeInv, CallInv
  <2>3. \A h \in Calls \ {g} : result'[h] = result[h]
    BY DEF Command, TypeInv, TypeOK
  <2> QED
    BY <2>1, <2>2, <2>3 DEF ChangesAreTold
<1>5. ASSUME UNCHANGED <<state, data, result>> PROVE ChangesAreTold'
  BY <1>5 DEF ChangesAreTold
<1>6. CASE \E s \in Speakers : Unregister(s) \/ Close(s)
  BY <1>5, <1>6 DEF Unregister, Close, clientVars, coordVars, callVars
<1>7. CASE RemoveGroup \/ UNCHANGED vars
  BY <1>5, <1>7 DEF RemoveGroup, vars, clientVars, coordVars, callVars
<1> QED
  BY <1>0, <1>1, <1>2, <1>3, <1>4, <1>6, <1>7 DEF Next, CallStep

\* Partial failure never leaves the speakers that did change behind: whenever
\* no call has something left to tell, every coordinator has what its client
\* holds.
THEOREM AppliedChangesAreTold == Spec => []ChangesAreTold
<1>1. Init => ChangesAreTold
  BY DEF Init, ChangesAreTold
<1> QED
  BY <1>1, InitTypeInv, NextTypeInv, NextTells, PTL DEF Spec

----------------------------------------------------------------------------
(* A group that is gone is silent. *)

\* A write after removal writes nothing.
LEMMA WriteRemoved ==
  ASSUME TypeOK, removed, NEW fs, Write(fs) PROVE UNCHANGED shown
  BY DEF Write, TypeOK

\* The group entities, once removed, are never written again, not even by a
\* command that was waiting for its speakers when they went.
THEOREM RemovedGroupIsSilent == Spec => RemovedIsSilent
<1>1. ASSUME TypeOK, removed, [Next]_vars PROVE UNCHANGED shown
  <2>1. CASE \E s \in Speakers : RefreshStarts(s) \/ RefreshEnds(s)
    BY <1>1, <2>1, WriteRemoved DEF RefreshStarts, RefreshEnds, TellListeners
  <2>2. CASE \E g \in Calls : Finish(g)
    BY <1>1, <2>2, WriteRemoved DEF Finish, TellListeners, WriteOwn
  <2>3. CASE \E g \in Calls, s \in Speakers : Attempt(g, s)
    BY <2>3 DEF Attempt, Confirm, Mismatch, NoAnswer, SendFails
  <2>4. CASE \E g \in Calls, j \in Jobs : Command(g, j[1], j[2])
    BY <2>4 DEF Command
  <2>5. CASE \E s \in Speakers : Unregister(s) \/ Close(s)
    BY <1>1, <2>5, WriteRemoved DEF Unregister, Close, SignalGone, TellListeners
  <2>6. CASE RemoveGroup \/ UNCHANGED vars
    BY <2>6 DEF RemoveGroup, vars
  <2> QED
    BY <1>1, <2>1, <2>2, <2>3, <2>4, <2>5, <2>6 DEF Next, CallStep
<1>2. TypeOK /\ [Next]_vars => [removed => UNCHANGED shown]_vars
  BY <1>1
<1> QED
  BY <1>2, GroupTypeCorrect, PTL DEF Spec, RemovedIsSilent

----------------------------------------------------------------------------
(* The group shows the truth. *)

Truth == \A f \in Fields : shown[f] = Shows(f)

\* Whom the history variable does not name, his coordinator and his client
\* agree on whether he is available.
UntoldInv == \A s \in Speakers \ untold : success[s] = available[s]

\* GroupShowsTruth, with one excuse less: what a call has still to tell of a
\* speaker that is closed does not matter to the group.  Without this the end
\* of a call that applied to closed speakers only would not keep the truth,
\* as it writes no entity but its own.
TruthInv ==
  \/ removed
  \/ registered \cup closed # Speakers
  \/ \E g \in Calls : Applied(g) \cap registered # {}
  \/ untold \cap registered # {}
  \/ Truth

\* What the group shows depends on the registered speakers, their availability
\* and the state of those that are available, and on nothing else.
LEMMA SameShown ==
  ASSUME UNCHANGED registered,
         \A s \in registered :
           /\ available'[s] = available[s]
           /\ available[s] => state'[s] = state[s]
  PROVE  \A f : Shows(f)' = Shows(f)
<1> SUFFICES ASSUME NEW f PROVE Shows(f)' = Shows(f)
  OBVIOUS
<1>1. /\ _coordinators' = _coordinators
      /\ \A s \in _coordinators : state'[s] = state[s]
  BY DEF _coordinators
<1>2. _active_coordinators' = _active_coordinators
  BY <1>1 DEF _active_coordinators
<1>3. Online(f)' = Online(f) /\ Online(f) \subseteq _coordinators
  BY <1>1, <1>2 DEF Online, _active_coordinators
<1>4. PICK S : S = Online(f)
  OBVIOUS
<1>5. S = Online(f)' /\ \A s \in S : state'[s] = state[s]
  BY <1>1, <1>3, <1>4
<1>6. is_on(f, S)' = is_on(f, S)
  BY <1>5 DEF is_on
<1>7. CASE S = {}
  BY <1>4, <1>5, <1>7 DEF Shows
<1>8. CASE S # {}
  <2>1. PICK s \in S : TRUE
    BY <1>8
  <2>2. _common_value(f, S)' = _common_value(f, S)
    <3> DEFINE Common(v) == \A t \in S : state[t][f] = v
               Next_(v)  == \A t \in S : state'[t][f] = v
    <3>1. CASE \E v \in Values : Common(v)
      <4>1. PICK v \in Values : Common(v)
        BY <3>1
      <4>2. Next_(v)
        BY <1>5, <4>1
      <4>3. (CHOOSE u \in Values : Common(u)) = v
        BY <2>1, <4>1
      <4>4. (CHOOSE u \in Values : Next_(u)) = v
        BY <2>1, <4>2
      <4> QED
        BY <4>1, <4>2, <4>3, <4>4 DEF _common_value
    <3>2. CASE ~ \E v \in Values : Common(v)
      <4>1. ~ \E v \in Values : Next_(v)
        BY <1>5, <3>2
      <4> QED
        BY <3>2, <4>1 DEF _common_value
    <3> QED
      BY <3>1, <3>2
  <2> QED
    BY <1>4, <1>5, <1>6, <1>8, <2>2 DEF Shows
<1> QED
  BY <1>7, <1>8

\* Writing all entities shows the truth, if there still are any.
LEMMA WritingShows ==
  ASSUME ~removed, Write(Fields) PROVE Truth'
<1>1. \A f \in Fields : shown'[f] = Shows(f)'
  BY DEF Write
<1> QED
  BY <1>1 DEF Truth

----------------------------------------------------------------------------
\* The history variable names whoever is behind.
LEMMA WrittenOrSilent ==
  ASSUME TellListeners \/ Silently PROVE UntoldInv'
  BY DEF TellListeners, Silently, Behind, UntoldInv

LEMMA NextUntoldInv == UntoldInv /\ [Next]_vars => UntoldInv'
<1> SUFFICES ASSUME UntoldInv, [Next]_vars PROVE UntoldInv'
  OBVIOUS
<1>1. CASE \E s \in Speakers : RefreshEnds(s)
  BY <1>1, WrittenOrSilent DEF RefreshEnds
<1>2. CASE \E g \in Calls : Finish(g)
  BY <1>2, WrittenOrSilent DEF Finish
<1>3. ASSUME UNCHANGED <<available, success, untold>> PROVE UntoldInv'
  BY <1>3 DEF UntoldInv
<1>4. CASE \E g \in Calls, s \in Speakers : Attempt(g, s)
  BY <1>3, <1>4, WrittenOrSilent
     DEF Attempt, Confirm, Mismatch, NoAnswer, SendFails, Availability,
         clientVars, coordVars
<1>5. CASE \E g \in Calls, j \in Jobs : Command(g, j[1], j[2])
  BY <1>3, <1>5 DEF Command, clientVars, coordVars
<1>6. CASE \E s \in Speakers : RefreshStarts(s) \/ Unregister(s)
  BY <1>3, <1>6 DEF RefreshStarts, Unregister, clientVars, coordVars
<1>7. CASE \E s \in Speakers : Close(s)
  BY <1>7, WrittenOrSilent DEF Close, SignalGone
<1>8. CASE RemoveGroup \/ UNCHANGED vars
  BY <1>3, <1>8 DEF RemoveGroup, vars, clientVars, coordVars
<1> QED
  BY <1>1, <1>2, <1>4, <1>5, <1>6, <1>7, <1>8 DEF Next, CallStep

----------------------------------------------------------------------------
\* Nothing to excuse the group: it is there, every speaker is registered or
\* closed, of those registered nothing became different without a word, and no
\* call has something to tell of them.
NoExcuse ==
  /\ ~removed
  /\ registered \cup closed = Speakers
  /\ untold \cap registered = {}
  /\ \A g \in Calls : Applied(g) \cap registered = {}

LEMMA TruthCases == TruthInv <=> (NoExcuse => Truth)
  BY DEF TruthInv, NoExcuse

\* A refresh that tells nobody, and replaces nothing, has nothing to tell: the
\* coordinator and its client agreed before, so neither the availability nor
\* what an available speaker holds can have changed.
LEMMA RefreshTruth ==
  ASSUME TypeInv, ChangesAreTold, UntoldInv, TruthInv,
         NEW s \in Speakers, RefreshEnds(s)
  PROVE  TruthInv'
<1> SUFFICES ASSUME NoExcuse' PROVE Truth'
  BY TruthCases, PTL
<1>1. UNCHANGED <<registered, closed, removed, result>>
  BY DEF RefreshEnds, entryVars, callVars
<1>2. ~removed
  BY <1>1 DEF NoExcuse
<1>3. CASE TellListeners
  BY <1>2, <1>3, WritingShows DEF TellListeners
<1>4. CASE UNCHANGED shown /\ Silently
  <2>1. untold \subseteq untold'
    BY <1>4 DEF Silently
  <2>2. NoExcuse
    BY <1>1, <2>1 DEF NoExcuse, Applied
  <2>3. ASSUME s \in registered
        PROVE  available'[s] = available[s] /\ (available[s] => state'[s] = state[s])
    <3>1. s \notin untold /\ s \notin untold'
      BY <1>1, <2>2, <2>3 DEF NoExcuse
    <3>2. Held(s)' = Held(s)
      BY <1>4, <3>1 DEF Silently
    <3>3. success'[s] = success[s] /\ data'[s] = data[s]
      BY <3>2 DEF Held
    <3>4. success'[s] = available'[s]
      BY DEF RefreshEnds, TypeInv, TypeOK
    <3>5. available'[s] = available[s]
      BY <3>1, <3>3, <3>4 DEF UntoldInv
    <3>6. data[s] = state[s]
      BY <2>2, <2>3 DEF ChangesAreTold, NoExcuse, Applied
    <3>7. ASSUME available'[s] PROVE state'[s] = state[s]
      <4>1. data'[s] = state'[s]
        BY <3>7 DEF RefreshEnds, TypeInv, TypeOK
      <4> QED
        BY <3>3, <3>6, <4>1
    <3> QED
      BY <3>5, <3>7
  <2>4. \A t \in Speakers \ {s} : available'[t] = available[t] /\ state'[t] = state[t]
    BY DEF RefreshEnds, Poll, TypeInv, TypeOK
  <2>5. \A t \in registered :
          /\ available'[t] = available[t]
          /\ available[t] => state'[t] = state[t]
    BY <2>3, <2>4 DEF TypeInv, TypeOK
  <2>6. \A f : Shows(f)' = Shows(f)
    BY <1>1, <2>5, SameShown
  <2> QED
    BY <1>4, <2>2, <2>6, TruthCases DEF Truth
<1> QED
  BY <1>3, <1>4 DEF RefreshEnds

\* A refresh that starts changes nothing that is shown.
LEMMA RefreshStartsTruth ==
  ASSUME TypeInv, TruthInv, NEW s \in Speakers, RefreshStarts(s) PROVE TruthInv'
<1>1. UNCHANGED <<registered, closed, removed, shown, untold, state, available, result>>
  BY DEF RefreshStarts, entryVars, clientVars, callVars
<1>2. \A f : Shows(f)' = Shows(f)
  BY <1>1, SameShown
<1> QED
  BY <1>1, <1>2 DEF TruthInv, Truth, Applied

\* What a call does not tell, or tells closed speakers only, leaves the truth.
LEMMA FinishTruth ==
  ASSUME TypeInv, TruthInv, NEW g \in Calls, Finish(g) PROVE TruthInv'
<1> SUFFICES ASSUME NoExcuse' PROVE Truth'
  BY TruthCases, PTL
<1>1. UNCHANGED <<registered, closed, removed, state, available>>
  BY DEF Finish, entryVars, clientVars
<1>2. ~removed
  BY <1>1 DEF NoExcuse
<1>3. CASE ~(Notified(g) \subseteq closed)
  BY <1>2, <1>3, WritingShows DEF Finish, TellListeners
<1>4. CASE Notified(g) \subseteq closed
  <2>1. WriteOwn(asked[g][1]) /\ Silently
    BY <1>4 DEF Finish
  <2>2. untold \subseteq untold'
    BY <2>1 DEF Silently
  <2>3. \A h \in Calls \ {g} : Applied(h)' = Applied(h)
    BY DEF Finish, Applied, TypeInv, TypeOK
  <2>4. Applied(g) \cap registered = {}
    BY <1>4 DEF Notified, TypeInv, TypeOK
  <2>5. NoExcuse
    BY <1>1, <2>2, <2>3, <2>4 DEF NoExcuse
  <2>6. \A f : Shows(f)' = Shows(f)
    BY <1>1, SameShown
  <2>7. \A f \in Fields : shown[f] = Shows(f)
    BY <2>5, TruthCases DEF Truth
  <2>8. \A f \in Fields : shown'[f] = Shows(f)' \/ shown'[f] = shown[f]
    BY <2>1 DEF WriteOwn, Write
  <2> QED
    BY <2>6, <2>7, <2>8 DEF Truth
<1> QED
  BY <1>3, <1>4

\* An attempt leaves its call with something to tell, or the speaker's
\* availability to be told, or nothing that the group shows has changed.
LEMMA AttemptTruth ==
  ASSUME TypeInv, UntoldInv, TruthInv,
         NEW g \in Calls, NEW s \in Speakers, Attempt(g, s)
  PROVE  TruthInv'
<1> SUFFICES ASSUME NoExcuse' PROVE Truth'
  BY TruthCases, PTL
<1>1. UNCHANGED <<registered, closed, removed, shown, success>>
  BY DEF Attempt, Confirm, Mismatch, NoAnswer, SendFails, entryVars, coordVars
<1>2. untold \subseteq untold'
  BY DEF Attempt, Confirm, Mismatch, NoAnswer, SendFails, Availability, Silently
<1>3. ~Confirm(g, s)
  <2> SUFFICES ASSUME Confirm(g, s) PROVE FALSE
    OBVIOUS
  <2>1. s \in registered'
    BY <1>1 DEF Confirm, NoExcuse
  <2>2. s \in Applied(g)'
    BY DEF Confirm, Applied, TypeInv, TypeOK
  <2> QED
    BY <2>1, <2>2 DEF NoExcuse
<1>4. UNCHANGED state
  BY <1>3 DEF Attempt, Mismatch, NoAnswer, SendFails, clientVars
<1>5. \A h \in Calls : Applied(h)' = Applied(h)
  BY <1>3, AgainOk DEF Attempt, Mismatch, NoAnswer, SendFails, Applied
<1>6. NoExcuse
  BY <1>1, <1>2, <1>5 DEF NoExcuse
<1>7. ASSUME NEW t \in registered PROVE available'[t] = available[t]
  <2>1. t \in Speakers /\ t \notin untold /\ t \notin untold'
    BY <1>1, <1>6, <1>7 DEF NoExcuse, TypeInv, TypeOK
  <2>2. CASE UNCHANGED available
    BY <2>2
  <2>3. CASE Silently
    BY <1>1, <2>1, <2>3 DEF Silently, Behind, UntoldInv
  <2> QED
    BY <1>3, <2>2, <2>3
       DEF Attempt, Mismatch, NoAnswer, SendFails, Availability, clientVars
<1>8. \A f : Shows(f)' = Shows(f)
  BY <1>1, <1>4, <1>7, SameShown
<1> QED
  BY <1>1, <1>6, <1>8, TruthCases DEF Truth

\* A call that starts has nothing to tell, and changes nothing that is shown.
LEMMA CommandTruth ==
  ASSUME TypeInv, TruthInv, NEW g \in Calls, NEW j \in Jobs,
         Command(g, j[1], j[2])
  PROVE  TruthInv'
<1>1. UNCHANGED <<registered, closed, removed, shown, untold, state, available>>
  BY DEF Command, entryVars, clientVars
<1>2. \A h \in Calls : Applied(h)' = Applied(h)
  <2>1. \A s \in Speakers : result[g][s] # "ok" /\ result'[g][s] # "ok"
    BY DEF Command, TypeInv, TypeOK, CallInv
  <2>2. \A h \in Calls \ {g} : result'[h] = result[h]
    BY DEF Command, TypeInv, TypeOK
  <2> QED
    BY <2>1, <2>2 DEF Applied
<1>3. \A f : Shows(f)' = Shows(f)
  BY <1>1, SameShown
<1> QED
  BY <1>1, <1>2, <1>3 DEF TruthInv, Truth

\* An entry that is half unloaded is an excuse, and when it is closed the
\* group is written.
LEMMA UnloadTruth ==
  ASSUME TypeInv, TruthInv, NEW s \in Speakers, Unregister(s) \/ Close(s)
  PROVE  TruthInv'
<1>1. CASE Unregister(s)
  <2>1. s \notin registered' \cup closed'
    BY <1>1 DEF Unregister, TypeInv, TypeOK
  <2> QED
    BY <2>1 DEF TruthInv
<1>2. CASE Close(s)
  <2>1. UNCHANGED removed /\ Write(Fields)
    BY <1>2 DEF Close, SignalGone, TellListeners
  <2> QED
    BY <2>1, WritingShows DEF TruthInv
<1> QED
  BY <1>1, <1>2

LEMMA NextTruthInv ==
  TypeInv /\ ChangesAreTold /\ UntoldInv /\ TruthInv /\ [Next]_vars => TruthInv'
<1> SUFFICES ASSUME TypeInv, ChangesAreTold, UntoldInv, TruthInv, [Next]_vars
             PROVE  TruthInv'
  OBVIOUS
<1>0. CASE \E s \in Speakers : RefreshStarts(s)
  BY <1>0, RefreshStartsTruth
<1>1. CASE \E s \in Speakers : RefreshEnds(s)
  BY <1>1, RefreshTruth
<1>2. CASE \E g \in Calls : Finish(g)
  BY <1>2, FinishTruth
<1>3. CASE \E g \in Calls, s \in Speakers : Attempt(g, s)
  BY <1>3, AttemptTruth
<1>4. CASE \E g \in Calls, j \in Jobs : Command(g, j[1], j[2])
  BY <1>4, CommandTruth
<1>5. CASE \E s \in Speakers : Unregister(s) \/ Close(s)
  BY <1>5, UnloadTruth
<1>6. CASE RemoveGroup
  BY <1>6 DEF RemoveGroup, TruthInv
<1>7. CASE UNCHANGED vars
  <2>1. UNCHANGED <<registered, closed, removed, shown, untold, state,
                    available, result>>
    BY <1>7 DEF vars, clientVars, entryVars, callVars
  <2>2. \A f : Shows(f)' = Shows(f)
    BY <2>1, SameShown
  <2> QED
    BY <2>1, <2>2 DEF TruthInv, Truth, Applied
<1> QED
  BY <1>0, <1>1, <1>2, <1>3, <1>4, <1>5, <1>6, <1>7 DEF Next, CallStep

\* However many speakers and calls there are, and whichever way refreshes,
\* attempts that end well or badly, and entries that are unloaded interleave:
\* what the group shows is what the online speakers have in common, unless a
\* call has something to tell, an entry is half unloaded, or something became
\* different without a word: an availability that a command changed behind a
\* coordinator's back, or what a refresh replaced that a command had told while
\* it was under way.
THEOREM GroupIsTruthful == Spec => []GroupShowsTruth
<1>1. Init => ChangesAreTold /\ UntoldInv /\ TruthInv
  <2>1. Init => ChangesAreTold /\ UntoldInv
    BY DEF Init, ChangesAreTold, UntoldInv
  <2>2. Init => Truth
    BY DEF Init, Truth
  <2> QED
    BY <2>1, <2>2 DEF TruthInv
<1>2. TruthInv => GroupShowsTruth
  BY DEF TruthInv, Truth, GroupShowsTruth
<1> QED
  BY <1>1, <1>2, InitTypeInv, NextTypeInv, NextTells, NextUntoldInv,
     NextTruthInv, PTL DEF Spec

----------------------------------------------------------------------------
(* Each client, one tenure of its lock at a time. *)

\* A call that is over has left no attempts behind.
TriesInv == \A g \in Calls, s \in Speakers : ~Running(g) => tries[g][s] = 0

LEMMA NextTriesInv == TypeInv /\ TriesInv /\ [Next]_vars => TriesInv'
<1> SUFFICES ASSUME TypeInv, TriesInv, [Next]_vars PROVE TriesInv'
  OBVIOUS
<1>0. /\ phase \in [Calls -> {"idle", "running", "raised"}]
      /\ tries \in [Calls -> [Speakers -> 0..(MaxRetries - 1)]]
  BY DEF TypeInv, TypeOK
<1>1. CASE UNCHANGED <<phase, tries>>
  BY <1>1 DEF TriesInv, Running
<1>2. ASSUME NEW s \in Speakers, \/ RefreshStarts(s) \/ RefreshEnds(s)
                                \/ Unregister(s) \/ Close(s)
      PROVE  TriesInv'
  BY <1>1, <1>2 DEF RefreshStarts, RefreshEnds, Unregister, Close, callVars
<1>3. ASSUME NEW g \in Calls, NEW s \in Speakers, Attempt(g, s) PROVE TriesInv'
  <2>1. Running(g) /\ UNCHANGED phase
    BY <1>3 DEF Attempt, Confirm, Mismatch, NoAnswer, SendFails, TypeInv, CallInv
  <2>2. \A h \in Calls \ {g} : tries'[h] = tries[h]
    BY <1>0, <1>3 DEF Attempt, Confirm, Mismatch, NoAnswer, SendFails, Again
  <2> QED
    BY <2>1, <2>2 DEF TriesInv, Running
<1>4. ASSUME NEW g \in Calls, Finish(g) PROVE TriesInv'
  BY <1>0, <1>4 DEF Finish, TriesInv, Running, NoTries
<1>5. ASSUME NEW g \in Calls, NEW f, NEW v, Command(g, f, v) PROVE TriesInv'
  BY <1>0, <1>5 DEF Command, TriesInv, Running
<1>6. CASE RemoveGroup
  BY <1>1, <1>6 DEF RemoveGroup, callVars
<1> QED
  BY <1>1, <1>2, <1>3, <1>4, <1>5, <1>6 DEF Next, CallStep, vars, callVars

LEMMA InitTenure ==
  ASSUME Init, NEW s \in Speakers
  PROVE  Tenure(s)!Loaded
<1>1. state[s] \in [Fields -> Values] /\ available[s] = TRUE /\ failures[s] = 0
  BY DEF Init
<1>2. \A g \in Calls : result[g][s] # "pending"
  BY DEF Init, NoTargets
<1>3. Job(s) = [g \in Calls |-> NoCall] /\ Vain(s) = [g \in Calls |-> 0]
  BY <1>2 DEF Job, Vain
<1> QED
  BY <1>1, <1>3 DEF Tenure!Loaded

\* What a step that leaves the calls to a client alone does to it.
LEMMA NoCallStep ==
  ASSUME NEW s \in Speakers, UNCHANGED <<asked, result, tries>>
  PROVE  UNCHANGED Tenure(s)!calls
BY DEF Tenure!calls, Job, Vain

\* A refresh ends with a poll of its own client.
LEMMA RefreshTenure ==
  ASSUME TypeInv, NEW r \in Speakers, RefreshEnds(r), NEW s \in Speakers
  PROVE  [Tenure(s)!Next]_(Tenure(s)!vars)
<1>0. /\ state \in [Speakers -> Settings] /\ available \in [Speakers -> BOOLEAN]
      /\ failures \in [Speakers -> 0..UnavailableAfter]
  BY DEF TypeInv, TypeOK
<1>1. UNCHANGED Tenure(s)!calls
  BY NoCallStep DEF RefreshEnds, callVars
<1>2. CASE s # r
  <2>1. state'[s] = state[s] /\ available'[s] = available[s] /\ failures'[s] = failures[s]
    BY <1>0, <1>2 DEF RefreshEnds, Poll
  <2> QED
    BY <1>1, <2>1 DEF Tenure!vars, Tenure!shared
<1>3. ASSUME NEW settings \in Reports(s), state' = [state EXCEPT ![s] = settings],
             failures' = [failures EXCEPT ![s] = 0],
             available' = [available EXCEPT ![s] = TRUE]
      PROVE  Tenure(s)!GoodPoll
  BY <1>0, <1>1, <1>3 DEF Tenure!GoodPoll, Tenure!Answered, Reports
<1>4. ASSUME failures' = [failures EXCEPT
                            ![s] = IF @ < UnavailableAfter THEN @ + 1 ELSE @],
             available' = [available EXCEPT ![s] = @ /\ failures'[s] < UnavailableAfter],
             UNCHANGED state
      PROVE  Tenure(s)!BadPoll
  <2>1. failures'[s] =
          IF failures[s] < UnavailableAfter THEN failures[s] + 1 ELSE failures[s]
    BY <1>0, <1>4
  <2>2. available'[s] = (available[s] /\ failures'[s] < UnavailableAfter)
    BY <1>0, <1>4
  <2> QED
    BY <1>1, <1>4, <2>1, <2>2 DEF Tenure!BadPoll
<1> QED
  BY <1>2, <1>3, <1>4 DEF RefreshEnds, Poll, Tenure!Next

\* An attempt in vain, as the client sees it.
LEMMA AgainTenure ==
  ASSUME TypeInv, NEW g \in Calls, NEW s \in Speakers, result[g][s] = "pending",
         Again(g, s), UNCHANGED asked
  PROVE  Tenure(s)!Again(g)
<1>0. /\ tries \in [Calls -> [Speakers -> 0..(MaxRetries - 1)]]
      /\ result \in [Calls -> [Speakers -> {"none", "pending", "ok", "failed"}]]
      /\ MaxRetries \in Nat
  BY GroupAssumption DEF TypeInv, TypeOK
<1>1. Vain(s)[g] = tries[g][s]
  BY DEF Vain
<1>2. CASE tries[g][s] + 1 < MaxRetries
  <2>1. tries' = [tries EXCEPT ![g][s] = @ + 1] /\ UNCHANGED result
    BY <1>2 DEF Again
  <2>2. Job(s)' = Job(s)
    BY <2>1 DEF Job
  <2>3. \A h \in Calls : tries'[h][s] = IF h = g THEN tries[g][s] + 1 ELSE tries[h][s]
    BY <1>0, <2>1
  <2>4. Vain(s)' = [Vain(s) EXCEPT ![g] = @ + 1]
    BY <1>0, <2>1, <2>3 DEF Vain
  <2> QED
    BY <1>1, <1>2, <2>2, <2>4 DEF Tenure!Again
<1>3. CASE ~(tries[g][s] + 1 < MaxRetries)
  <2>1. result' = [result EXCEPT ![g][s] = "failed"] /\ UNCHANGED tries
    BY <1>3 DEF Again
  <2>2. \A h \in Calls : result'[h][s] = IF h = g THEN "failed" ELSE result[h][s]
    BY <1>0, <2>1
  <2>3. Job(s)' = [Job(s) EXCEPT ![g] = NoCall]
    BY <2>2 DEF Job
  <2>4. \A h \in Calls : (IF result'[h][s] = "pending" THEN tries'[h][s] ELSE 0) =
          IF h = g THEN 0 ELSE IF result[h][s] = "pending" THEN tries[h][s] ELSE 0
    BY <2>1, <2>2
  <2>5. Vain(s)' = [Vain(s) EXCEPT ![g] = 0]
    BY <2>4, Zenon DEF Vain
  <2>6. tries[g][s] + 1 = MaxRetries
    BY <1>0, <1>3
  <2> QED
    BY <1>1, <2>3, <2>5, <2>6 DEF Tenure!Again, Tenure!Done
<1> QED
  BY <1>2, <1>3

\* An attempt is one of its own client; the others notice nothing of it.
LEMMA AttemptTenure ==
  ASSUME TypeInv, NEW g \in Calls, NEW r \in Speakers, Attempt(g, r),
         NEW s \in Speakers
  PROVE  [Tenure(s)!Next]_(Tenure(s)!vars)
<1>0. /\ state \in [Speakers -> Settings] /\ available \in [Speakers -> BOOLEAN]
      /\ failures \in [Speakers -> 0..UnavailableAfter]
      /\ tries \in [Calls -> [Speakers -> 0..(MaxRetries - 1)]]
      /\ result \in [Calls -> [Speakers -> {"none", "pending", "ok", "failed"}]]
  BY DEF TypeInv, TypeOK
<1>1. result[g][r] = "pending" /\ UNCHANGED asked
  BY DEF Attempt, Confirm, Mismatch, NoAnswer, SendFails
<1>2. asked[g] \in Fields \X Values
  BY <1>1 DEF TypeInv, CallInv
<1>3. CASE s # r
  <2>1. state'[s] = state[s] /\ available'[s] = available[s] /\ failures'[s] = failures[s]
    BY <1>0, <1>3 DEF Attempt, Confirm, Mismatch, NoAnswer, SendFails, Availability,
                      clientVars
  <2>2. \A h \in Calls : result'[h][s] = result[h][s] /\ tries'[h][s] = tries[h][s]
    <3>1. /\ result' \in {result, [result EXCEPT ![g][r] = "ok"],
                          [result EXCEPT ![g][r] = "failed"]}
          /\ tries' \in {tries, [tries EXCEPT ![g][r] = @ + 1]}
      BY DEF Attempt, Confirm, Mismatch, NoAnswer, SendFails, Again
    <3>2. \A h \in Calls : result'[h][s] = result[h][s]
      BY <1>0, <1>3, <3>1
    <3>3. \A h \in Calls : tries'[h][s] = tries[h][s]
      BY <1>0, <1>3, <3>1
    <3> QED
      BY <3>2, <3>3
  <2>3. UNCHANGED Tenure(s)!calls
    BY <1>1, <2>2 DEF Tenure!calls, Job, Vain
  <2> QED
    BY <2>1, <2>3 DEF Tenure!vars, Tenure!shared
<1>4. CASE s = r
  <2>1. Job(s)[g] = asked[g]
    BY <1>1, <1>4 DEF Job
  <2>2. CASE Confirm(g, s)
    <3>1. \A h \in Calls : result'[h][s] = IF h = g THEN "ok" ELSE result[h][s]
      BY <1>0, <2>2 DEF Confirm
    <3>2. Job(s)' = [Job(s) EXCEPT ![g] = NoCall]
      BY <1>1, <3>1 DEF Job
    <3>3. Vain(s)' = [Vain(s) EXCEPT ![g] = 0]
      <4>1. \A h \in Calls : (IF result'[h][s] = "pending" THEN tries'[h][s] ELSE 0) =
              IF h = g THEN 0 ELSE IF result[h][s] = "pending" THEN tries[h][s] ELSE 0
        BY <2>2, <3>1 DEF Confirm
      <4> QED
        BY <4>1, Zenon DEF Vain
    <3>4. state'[s] = [state[s] EXCEPT ![asked[g][1]] = asked[g][2]]
      BY <1>0, <2>2 DEF Confirm
    <3>5. available'[s] = TRUE /\ failures'[s] = 0
      BY <1>0, <2>2 DEF Confirm, Availability
    <3>6. Tenure(s)!Confirm(g)
      BY <1>2, <2>1, <3>2, <3>3, <3>4, <3>5
      DEF Tenure!Confirm, Tenure!Answered, Tenure!Done
    <3> QED
      BY <3>6 DEF Tenure!Next
  <2>3. CASE Mismatch(g, s)
    <3>1. available'[s] = TRUE /\ failures'[s] = 0 /\ UNCHANGED state
      BY <1>0, <2>3 DEF Mismatch, Availability
    <3>2. Tenure(s)!Mismatch(g)
      BY <1>1, <1>2, <1>4, <2>1, <2>3, <3>1, AgainTenure
      DEF Mismatch, Tenure!Mismatch, Tenure!Answered
    <3> QED
      BY <3>2 DEF Tenure!Next
  <2>4. CASE NoAnswer(g, s)
    <3>1. Tenure(s)!NoAnswer(g)
      BY <1>1, <1>2, <1>4, <2>1, <2>4, AgainTenure
      DEF NoAnswer, Tenure!NoAnswer, Tenure!shared, clientVars
    <3> QED
      BY <3>1 DEF Tenure!Next
  <2>5. CASE SendFails(g, s)
    <3>1. available'[s] = FALSE /\ UNCHANGED <<state, failures>>
      BY <1>0, <2>5 DEF SendFails, Availability
    <3>2. Job(s)[g] # NoCall
      BY <1>2, <2>1, GroupAssumption
    <3>3. Tenure(s)!SendFails(g)
      BY <1>1, <1>4, <2>5, <3>1, <3>2, AgainTenure DEF SendFails, Tenure!SendFails
    <3> QED
      BY <3>3 DEF Tenure!Next
  <2> QED
    BY <1>4, <2>2, <2>3, <2>4, <2>5 DEF Attempt
<1> QED
  BY <1>3, <1>4

\* A service call asks each of its targets, and what ends it only forgets.
LEMMA CallTenure ==
  ASSUME TypeInv, TriesInv, NEW g \in Calls, NEW s \in Speakers,
         Finish(g) \/ \E j \in Jobs : Command(g, j[1], j[2])
  PROVE  [Tenure(s)!Next]_(Tenure(s)!vars)
<1>0. /\ tries \in [Calls -> [Speakers -> 0..(MaxRetries - 1)]]
      /\ result \in [Calls -> [Speakers -> {"none", "pending", "ok", "failed"}]]
      /\ asked \in [Calls -> (Fields \X Values) \cup {NoCall}]
  BY DEF TypeInv, TypeOK
<1>1. UNCHANGED Tenure(s)!shared
  BY DEF Finish, Command, clientVars, Tenure!shared
<1>2. CASE Finish(g)
  <2>1. result[g][s] # "pending"
    BY <1>2 DEF Finish, Gathered
  <2>2. /\ \A h \in Calls \ {g} : /\ result'[h] = result[h] /\ asked'[h] = asked[h]
                                 /\ tries'[h] = tries[h]
        /\ result'[g][s] # "pending"
    BY <1>0, <1>2 DEF Finish, NoTargets
  <2>3. UNCHANGED Tenure(s)!calls
    BY <2>1, <2>2 DEF Tenure!calls, Job, Vain
  <2> QED
    BY <1>1, <2>3 DEF Tenure!vars
<1>3. ASSUME NEW j \in Jobs, Command(g, j[1], j[2])
      PROVE  [Tenure(s)!Next]_(Tenure(s)!vars)
  <2>1. /\ \A h \in Calls \ {g} : result'[h] = result[h] /\ asked'[h] = asked[h]
        /\ result'[g][s] \in {"none", "pending"} /\ asked'[g] = <<j[1], j[2]>>
        /\ UNCHANGED tries
    BY <1>0, <1>3 DEF Command
  <2>2. result[g][s] = "none" /\ tries[g][s] = 0
    BY <1>3 DEF Command, TypeInv, CallInv, TriesInv
  <2>3. Vain(s)' = Vain(s)
    BY <2>1, <2>2 DEF Vain
  <2>4. CASE result'[g][s] = "none"
    <3>1. Job(s)' = Job(s)
      BY <2>1, <2>2, <2>4 DEF Job
    <3> QED
      BY <1>1, <2>3, <3>1 DEF Tenure!vars, Tenure!calls
  <2>5. CASE result'[g][s] = "pending"
    <3>1. <<j[1], j[2]>> = j
      BY GroupAssumption
    <3>2. Job(s)' = [Job(s) EXCEPT ![g] = j] /\ Job(s)[g] = NoCall
      BY <2>1, <2>2, <2>5, <3>1 DEF Job
    <3>3. Tenure(s)!Ask(g, j)
      BY <1>1, <2>3, <3>2 DEF Tenure!Ask
    <3> QED
      BY <3>3 DEF Tenure!Next
  <2> QED
    BY <2>1, <2>4, <2>5
<1> QED
  BY <1>2, <1>3

LEMMA NextTenure ==
  ASSUME TypeInv, TriesInv, [Next]_vars, NEW s \in Speakers
  PROVE  [Tenure(s)!Next]_(Tenure(s)!vars)
<1>1. ASSUME UNCHANGED <<clientVars, callVars>> PROVE UNCHANGED Tenure(s)!vars
  BY <1>1, NoCallStep DEF clientVars, callVars, Tenure!vars, Tenure!shared
<1>2. ASSUME NEW r \in Speakers, RefreshStarts(r) \/ Unregister(r) \/ Close(r)
      PROVE  UNCHANGED Tenure(s)!vars
  BY <1>1, <1>2 DEF RefreshStarts, Unregister, Close
<1>3. CASE RemoveGroup \/ UNCHANGED vars
  BY <1>1, <1>3 DEF RemoveGroup, vars
<1> QED
  BY <1>2, <1>3, RefreshTenure, AttemptTenure, CallTenure DEF Next, CallStep

\* Seen from any one speaker, the group's calls and refreshes are what module
\* Client proves of the polls and the attempts of a client (TenuresAreAtomic):
\* whatever several calls and several speakers do to each other, no client is
\* made to do something else.
THEOREM GroupTakesTenures == Spec => ClientsTakeTenures
<1>1. Init => TypeInv /\ TriesInv /\ \A s \in Speakers : Tenure(s)!Loaded
  <2>1. Init => TriesInv
    BY DEF Init, TriesInv, NoTries
  <2> QED
    BY <2>1, InitTypeInv, InitTenure
<1>2. TypeInv /\ TriesInv /\ [Next]_vars => TypeInv' /\ TriesInv'
  BY NextTypeInv, NextTriesInv
<1>3. TypeInv /\ TriesInv /\ [Next]_vars
        => [\A s \in Speakers : [Tenure(s)!Next]_(Tenure(s)!vars)]_vars
  BY NextTenure
<1> QED
  BY <1>1, <1>2, <1>3, PTL DEF Spec, ClientsTakeTenures
=============================================================================
