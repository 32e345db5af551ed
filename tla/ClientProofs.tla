---------------------------- MODULE ClientProofs ----------------------------
(***************************************************************************)
(* Proofs about Client, for every number of parameters, values, pollers,   *)
(* commanders, retries and threshold.  The inductive invariant is built in *)
(* layers, each proved on top of the ones before it:                       *)
(*   TypeInv             types, and what each control location implies;    *)
(*   LockInv             only the holder of the lock uses the socket;      *)
(*   AvailInv            the flag, the streak and the first poll;          *)
(*   FreshInv            the history covers the speaker and every answer.  *)
(***************************************************************************)
EXTENDS Client, SequenceTheorems, TLAPS

\* What each control location implies for the task's own variables.
Control ==
  /\ \A t \in Pollers :
       /\ pc[t] \in {"idle", "wait", "reading", "published", "failed"}
       /\ pc[t] # "reading" => buf[t] = <<>>
       /\ Len(buf[t]) <= NumParams
  /\ \A c \in Commanders :
       /\ pc[c] \notin {"reading", "published", "failed"}
       /\ pc[c] # "idle" => want[c] \in Sets \cup {Identify}
       /\ pc[c] \in {"answered", "silent", "sleep"} => want[c] \in Sets
       /\ pc[c] = "answered" => got[c] \in Values
       /\ pc[c] = "sleep" => attempt[c] < MaxRetries

TypeInv == TypeOK /\ Control

\* Only the task at the head of the lock's queue is past its first job.
LockInv == \A t \in Tasks : UsingSocket(t) => Holds(t)

LEMMA InitTypeInv == Init => TypeInv /\ LockInv
<1> SUFFICES ASSUME Init PROVE TypeInv /\ LockInv
  OBVIOUS
<1>1. TypeOK
  <2>1. \A p \in Params : Default \in Values
    BY ClientAssumption
  <2>2. 0 \in 0..FailureCap /\ 1 \in 1..MaxRetries
    BY ClientAssumption
  <2>3. speaker \in [Params -> Values] /\ reachable \in BOOLEAN
        /\ state \in [Params -> Values] /\ pc \in [Tasks -> {"idle"}]
    BY <2>1 DEF Init
  <2>4. attempt \in [Commanders -> 1..MaxRetries] /\ failures \in 0..FailureCap
    BY <2>2 DEF Init
  <2>5. pc \in [Tasks -> Labels]
    BY <2>3 DEF Labels
  <2>6. /\ want \in [Commanders -> Sets \cup {Identify, NoValue}]
        /\ got \in [Commanders -> Values \cup {NoValue}]
        /\ seen \in [Params -> SUBSET Values]
        /\ inflight \subseteq Sets
    BY DEF Init
  <2>7. lockQ \in Seq(Tasks) /\ buf \in [Pollers -> Seq(Values)]
    BY DEF Init
  <2> QED
    BY <2>3, <2>4, <2>5, <2>6, <2>7 DEF Init, TypeOK
<1>2. Control
  BY ClientAssumption DEF Init, Control, Tasks
<1>3. LockInv
  BY DEF Init, LockInv, UsingSocket
<1> QED
  BY <1>1, <1>2, <1>3 DEF TypeInv

\* The three things a step does with the lock.
LEMMA ReleaseType ==
  ASSUME TypeInv, LockInv, NEW t \in Tasks, UsingSocket(t), Release
  PROVE  lockQ' \in Seq(Tasks) /\ seen' \in [Params -> SUBSET Values]
<1>1. lockQ \in Seq(Tasks) /\ lockQ # <<>>
  BY DEF TypeInv, TypeOK, LockInv, Holds
<1>2. Tail(lockQ) \in Seq(Tasks)
  BY <1>1, HeadTailProperties
<1> QED
  BY <1>2 DEF Release

LEMMA EnqueueType ==
  ASSUME TypeInv, NEW t \in Tasks, Enqueue(t)
  PROVE  /\ lockQ' \in Seq(Tasks)
         /\ \A u \in Tasks : Holds(u) => Holds(u)'
<1>1. lockQ \in Seq(Tasks)
  BY DEF TypeInv, TypeOK
<1>2. Append(lockQ, t) \in Seq(Tasks)
  BY <1>1
<1>3. lockQ # <<>> => Head(Append(lockQ, t)) = Head(lockQ) /\ Append(lockQ, t) # <<>>
  BY <1>1
<1> QED
  BY <1>2, <1>3 DEF Enqueue, Holds

\* How an attempt may leave its command: over, or about to sleep.
LEMMA RetryType ==
  ASSUME TypeInv, NEW c \in Commanders,
         Finish(c) \/ (Retry(c) /\ want[c] \in Sets),
         UNCHANGED buf, got' \in {got, [got EXCEPT ![c] = NoValue]}
  PROVE  /\ pc' \in [Tasks -> Labels]
         /\ attempt' \in [Commanders -> 1..MaxRetries]
         /\ want' \in [Commanders -> Sets \cup {Identify, NoValue}]
         /\ got' \in [Commanders -> Values \cup {NoValue}]
         /\ Control'
<1>1. /\ pc \in [Tasks -> Labels] /\ c \in Tasks /\ c \notin Pollers
      /\ attempt \in [Commanders -> 1..MaxRetries]
      /\ want \in [Commanders -> Sets \cup {Identify, NoValue}]
      /\ got \in [Commanders -> Values \cup {NoValue}]
  BY ClientAssumption DEF TypeInv, TypeOK, Tasks
<1>2. 1 \in 1..MaxRetries
  BY ClientAssumption
<1>3. got' \in [Commanders -> Values \cup {NoValue}]
      /\ \A d \in Commanders \ {c} : got'[d] = got[d]
  BY <1>1
<1>4. CASE Finish(c)
  <2>1. /\ pc' = [pc EXCEPT ![c] = "idle"]
        /\ want' = [want EXCEPT ![c] = NoValue]
        /\ attempt' = [attempt EXCEPT ![c] = 1]
    BY <1>4 DEF Finish
  <2>2. pc' \in [Tasks -> Labels]
    BY <1>1, <2>1 DEF Labels
  <2>3. attempt' \in [Commanders -> 1..MaxRetries]
    BY <1>1, <1>2, <2>1
  <2>4. want' \in [Commanders -> Sets \cup {Identify, NoValue}]
    BY <1>1, <2>1
  <2>5. Control'
    BY <1>1, <1>3, <2>1 DEF TypeInv, Control, Tasks
  <2> QED
    BY <1>3, <2>2, <2>3, <2>4, <2>5
<1>5. CASE /\ want[c] \in Sets /\ attempt[c] < MaxRetries
           /\ pc' = [pc EXCEPT ![c] = "sleep"]
           /\ UNCHANGED <<want, attempt>>
  <2>1. pc' \in [Tasks -> Labels]
    BY <1>1, <1>5 DEF Labels
  <2>2. Control'
    BY <1>1, <1>3, <1>5 DEF TypeInv, Control, Tasks
  <2> QED
    BY <1>1, <1>3, <1>5, <2>1, <2>2
<1> QED
  BY <1>4, <1>5 DEF Retry

\* The flags and the streak keep their types.
LEMMA FlagType ==
  ASSUME TypeInv, SuccessfulPoll \/ FailedPoll
  PROVE  /\ failures' \in 0..FailureCap
         /\ available' \in BOOLEAN /\ hadPoll' \in BOOLEAN /\ sendErr' \in BOOLEAN
<1>1. failures \in 0..FailureCap /\ FailureCap \in Nat
  BY ClientAssumption DEF TypeInv, TypeOK
<1>2. available \in BOOLEAN /\ hadPoll \in BOOLEAN /\ sendErr \in BOOLEAN
  BY DEF TypeInv, TypeOK
<1>3. failures' \in 0..FailureCap
  <2>1. CASE SuccessfulPoll
    BY <1>1, <2>1 DEF SuccessfulPoll, _note_reachable
  <2>2. CASE FailedPoll
    <3>1. failures' = IF failures < FailureCap THEN failures + 1 ELSE failures
      BY <2>2, Zenon DEF FailedPoll
    <3> QED
      BY <1>1, <3>1
  <2> QED
    BY <2>1, <2>2
<1> QED
  BY <1>2, <1>3, Zenon DEF SuccessfulPoll, FailedPoll, _note_reachable

LEMMA NextTypeInv ==
  ASSUME TypeInv, LockInv, [Next]_vars
  PROVE  TypeInv'
<1> USE ClientAssumption DEF TypeInv, TypeOK, Control, Labels, clientVars, taskVars,
      worldVars
<1>1. CASE World
  <2>1. ASSUME NEW p \in Params, NEW v \in Values, Knob(p, v) PROVE TypeInv'
    BY <2>1 DEF Knob, SpeakerBecomes
  <2>2. ASSUME NEW p \in Params, NEW v \in Values, Deliver(p, v) PROVE TypeInv'
    BY <2>2 DEF Deliver, SpeakerBecomes
  <2>3. ASSUME NEW p \in Params, NEW v \in Values, Lose(p, v) PROVE TypeInv'
    BY <2>3 DEF Lose
  <2>4. CASE Toggle
    BY <2>4 DEF Toggle
  <2> QED
    BY <1>1, <2>1, <2>2, <2>3, <2>4 DEF World
<1>2. CASE async_setup
  BY <1>2 DEF async_setup
<1>3. CASE async_shutdown
  BY <1>3 DEF async_shutdown
<1>4. ASSUME NEW t \in Pollers, PollRequest(t) PROVE TypeInv'
  BY <1>4, EnqueueType DEF PollRequest, Tasks
<1>5. ASSUME NEW t \in Pollers, PollStep(t) PROVE TypeInv'
  <2>1. CASE PollBegin(t)
    BY <2>1 DEF PollBegin, BeginTenure, Tasks
  <2>2. CASE PollRead(t)
    BY <2>2 DEF PollRead, Tasks, Params
  <2>3. CASE PollReadFails(t)
    BY <2>3 DEF PollReadFails, Tasks
  <2>4. CASE PollPublish(t)
    <3>1. buf[t] \in [Params -> Values]
      BY <2>4 DEF PollPublish, Params
    <3>2. QED
      BY <2>4, <3>1 DEF PollPublish, Tasks
  <2>5. CASE PollFinish(t)
    <3>1. lockQ' \in Seq(Tasks) /\ seen' \in [Params -> SUBSET Values]
      BY <2>5, ReleaseType DEF PollFinish, UsingSocket, Tasks
    <3>2. /\ failures' \in 0..FailureCap
          /\ available' \in BOOLEAN /\ hadPoll' \in BOOLEAN /\ sendErr' \in BOOLEAN
      BY <2>5, FlagType DEF PollFinish
    <3>3. UNCHANGED <<worldVars, socket, state, attempt, want, buf, got>>
      BY <2>5 DEF PollFinish
    <3>4. pc' = [pc EXCEPT ![t] = "idle"] /\ pc[t] # "reading"
      BY <2>5 DEF PollFinish
    <3> QED
      BY <3>1, <3>2, <3>3, <3>4 DEF Tasks
  <2> QED
    BY <1>5, <2>1, <2>2, <2>3, <2>4, <2>5 DEF PollStep
<1>6. ASSUME NEW c \in Commanders, NEW w \in Jobs, CommandRequest(c, w)
      PROVE  TypeInv'
  BY <1>6, EnqueueType DEF CommandRequest, Tasks, Sets, Params
<1>7. ASSUME NEW c \in Commanders, CommandStep(c) PROVE TypeInv'
  <2>1. CASE CommandSend(c)
    BY <2>1 DEF CommandSend, BeginTenure, Tasks
  <2>2. CASE CommandSendFails(c)
    BY <2>2 DEF CommandSendFails, BeginTenure, Tasks
  <2>3. CASE HandleSendFailure(c)
    <3>1. lockQ' \in Seq(Tasks) /\ seen' \in [Params -> SUBSET Values]
      BY <2>3, ReleaseType DEF HandleSendFailure, UsingSocket, Tasks
    <3>2. Finish(c) \/ (Retry(c) /\ want[c] \in Sets)
      BY <2>3 DEF HandleSendFailure
    <3> QED
      BY <2>3, <3>1, <3>2, RetryType DEF HandleSendFailure
  <2>4. CASE IdentifySent(c)
    <3>1. lockQ' \in Seq(Tasks) /\ seen' \in [Params -> SUBSET Values]
      BY <2>4, ReleaseType DEF IdentifySent, UsingSocket, Tasks
    <3>2. Finish(c) \/ (Retry(c) /\ want[c] \in Sets)
      BY <2>4 DEF IdentifySent
    <3> QED
      BY <2>4, <3>1, <3>2, RetryType DEF IdentifySent
  <2>5. CASE VerifyRead(c)
    BY <2>5 DEF VerifyRead, Tasks, Sets
  <2>6. CASE VerifyFails(c)
    BY <2>6 DEF VerifyFails, Tasks
  <2>7. CASE Confirmed(c)
    <3>1. lockQ' \in Seq(Tasks) /\ seen' \in [Params -> SUBSET Values]
      BY <2>7, ReleaseType DEF Confirmed, UsingSocket, Tasks
    <3>2. Finish(c) \/ (Retry(c) /\ want[c] \in Sets)
      BY <2>7 DEF Confirmed
    <3>3. failures' = 0 /\ available' = TRUE /\ sendErr' = FALSE /\ 0 \in 0..FailureCap
      BY <2>7, ClientAssumption DEF Confirmed, _note_reachable
    <3> QED
      BY <2>7, <3>1, <3>2, <3>3, RetryType DEF Confirmed, Sets
  <2>8. CASE Mismatch(c)
    <3>1. lockQ' \in Seq(Tasks) /\ seen' \in [Params -> SUBSET Values]
      BY <2>8, ReleaseType DEF Mismatch, UsingSocket, Tasks
    <3>2. Finish(c) \/ (Retry(c) /\ want[c] \in Sets)
      BY <2>8 DEF Mismatch
    <3>3. failures' = 0 /\ available' = TRUE /\ sendErr' = FALSE /\ 0 \in 0..FailureCap
      BY <2>8, ClientAssumption DEF Mismatch, _note_reachable
    <3> QED
      BY <2>8, <3>1, <3>2, <3>3, RetryType DEF Mismatch
  <2>9. CASE Unconfirmed(c)
    <3>1. lockQ' \in Seq(Tasks) /\ seen' \in [Params -> SUBSET Values]
      BY <2>9, ReleaseType DEF Unconfirmed, UsingSocket, Tasks
    <3>2. Finish(c) \/ (Retry(c) /\ want[c] \in Sets)
      BY <2>9 DEF Unconfirmed
    <3> QED
      BY <2>9, <3>1, <3>2, RetryType DEF Unconfirmed
  <2>10. CASE WakeUp(c)
    BY <2>10, EnqueueType DEF WakeUp, Tasks
  <2> QED
    BY <1>7, <2>1, <2>2, <2>3, <2>4, <2>5, <2>6, <2>7, <2>8, <2>9, <2>10
    DEF CommandStep
<1>8. CASE UNCHANGED vars
  BY <1>8 DEF vars
<1> QED
  BY <1>1, <1>2, <1>3, <1>4, <1>5, <1>6, <1>7, <1>8 DEF Next

LEMMA NextLockInv ==
  ASSUME TypeInv, LockInv, [Next]_vars
  PROVE  LockInv'
<1> USE DEF TypeInv, TypeOK, LockInv, UsingSocket
<1>1. CASE World \/ async_setup \/ async_shutdown \/ UNCHANGED vars
  BY <1>1 DEF World, Knob, Deliver, Lose, Toggle, async_setup, async_shutdown,
              Holds, vars, taskVars
<1>2. ASSUME NEW t \in Tasks, Enqueue(t), pc' = [pc EXCEPT ![t] = "wait"]
      PROVE  LockInv'
  BY <1>2, EnqueueType
<1>3. ASSUME NEW t \in Tasks, Holds(t), UNCHANGED lockQ,
             NEW l, pc' = [pc EXCEPT ![t] = l]
      PROVE  LockInv'
  BY <1>3 DEF Holds
<1>4. ASSUME NEW t \in Tasks, UsingSocket(t), Release,
             NEW l \in {"idle", "sleep"}, pc' = [pc EXCEPT ![t] = l]
      PROVE  LockInv'
  <2>1. \A u \in Tasks \ {t} : ~UsingSocket(u)
    BY <1>4 DEF Holds
  <2> QED
    BY <1>4, <2>1
<1>5. ASSUME NEW t \in Pollers, PollRequest(t) \/ PollStep(t) PROVE LockInv'
  <2>1. CASE PollRequest(t)
    BY <1>2, <2>1 DEF PollRequest, Tasks
  <2>2. CASE PollBegin(t) \/ PollReadFails(t) \/ PollPublish(t)
    BY <1>3, <2>2 DEF PollBegin, PollReadFails, PollPublish, Tasks
  <2>3. CASE PollRead(t)
    BY <2>3 DEF PollRead, Holds
  <2>4. CASE PollFinish(t)
    BY <1>4, <2>4 DEF PollFinish, Tasks
  <2> QED
    BY <1>5, <2>1, <2>2, <2>3, <2>4 DEF PollStep
<1>6. ASSUME NEW c \in Commanders, NEW w \in Jobs, CommandRequest(c, w)
      PROVE  LockInv'
  BY <1>2, <1>6 DEF CommandRequest, Tasks
<1>7. ASSUME NEW c \in Commanders, CommandStep(c) PROVE LockInv'
  <2>1. CASE CommandSend(c) \/ CommandSendFails(c) \/ VerifyRead(c) \/ VerifyFails(c)
    BY <1>3, <2>1 DEF CommandSend, CommandSendFails, VerifyRead, VerifyFails, Tasks
  <2>2. CASE HandleSendFailure(c) \/ IdentifySent(c) \/ Confirmed(c)
             \/ Mismatch(c) \/ Unconfirmed(c)
    BY <1>4, <2>2 DEF HandleSendFailure, IdentifySent, Confirmed, Mismatch,
                      Unconfirmed, Retry, Finish, Tasks
  <2>3. CASE WakeUp(c)
    BY <1>2, <2>3 DEF WakeUp, Tasks
  <2> QED
    BY <1>7, <2>1, <2>2, <2>3 DEF CommandStep
<1> QED
  BY <1>1, <1>5, <1>6, <1>7 DEF Next

LEMMA LockCorrect == Spec => [](TypeInv /\ LockInv)
BY InitTypeInv, NextTypeInv, NextLockInv, PTL DEF Spec

\* Every variable keeps its type: in particular the streak stays within its
\* cap, the retry counter within MaxRetries, and a published state is always
\* a complete one.
THEOREM TypeCorrect == Spec => []TypeOK
<1>1. TypeInv => TypeOK
  BY DEF TypeInv
<1> QED
  BY LockCorrect, <1>1, PTL

\* The lock does serialise the socket: no two tasks are ever between the
\* first executor job of `async with self._lock` and the handling of its
\* result, although async_shutdown bypasses the lock.
THEOREM MutualExclusion == Spec => []NeverInterleave
<1>1. LockInv => NeverInterleave
  BY DEF LockInv, NeverInterleave, Holds
<1> QED
  BY LockCorrect, <1>1, PTL

----------------------------------------------------------------------------
\* Availability.  Nothing has been polled before the socket is there.
AvailInv ==
  /\ SilentIsUnavailable
  /\ Debounced
  /\ socket = "none" => /\ ~hadPoll /\ failures = 0
                        /\ \A t \in Pollers : pc[t] = "idle"

\* A poll's verdict keeps the flag and the streak in step.
LEMMA PollVerdict ==
  ASSUME TypeInv, AvailInv, SuccessfulPoll \/ FailedPoll
  PROVE  SilentIsUnavailable' /\ Debounced'
<1> USE DEF SilentIsUnavailable, Debounced
<1>1. /\ failures \in Nat /\ failures <= FailureCap
      /\ UnavailableAfter \in Nat \ {0} /\ FailureCap \in Nat
      /\ UnavailableAfter <= FailureCap
  BY ClientAssumption DEF TypeInv, TypeOK
<1>2. CASE SuccessfulPoll
  <2>1. hadPoll' /\ available' /\ failures' = 0
    BY <1>2 DEF SuccessfulPoll, _note_reachable
  <2> QED
    BY <1>1, <2>1
<1>3. CASE FailedPoll
  <2>1. failures' = IF failures < FailureCap THEN failures + 1 ELSE failures
    BY <1>3, Zenon DEF FailedPoll
  <2>2. available' <=> available /\ hadPoll /\ failures' < UnavailableAfter
    BY <1>3, Zenon DEF FailedPoll
  <2>3. (hadPoll' <=> hadPoll) /\ (sendErr' <=> sendErr)
    BY <1>3, Zenon DEF FailedPoll
  <2> QED
    BY <1>1, <2>1, <2>2, <2>3 DEF AvailInv
<1> QED
  BY <1>2, <1>3

LEMMA InitAvailInv == Init => AvailInv
BY ClientAssumption DEF Init, AvailInv, SilentIsUnavailable, Debounced, Tasks

LEMMA NextAvailInv ==
  ASSUME TypeInv, AvailInv, [Next]_vars
  PROVE  AvailInv'
<1> USE DEF AvailInv
<1>0. UnavailableAfter \in Nat \ {0} /\ pc \in [Tasks -> Labels]
  BY ClientAssumption DEF TypeInv, TypeOK
\* Steps that touch neither the flags nor the pollers.
<1>1. ASSUME UNCHANGED clientVars, sendErr' = sendErr,
             \A t \in Pollers : pc'[t] = pc[t]
      PROVE  AvailInv'
  BY <1>1 DEF clientVars, SilentIsUnavailable, Debounced
<1>2. CASE World \/ UNCHANGED vars
  BY <1>1, <1>2 DEF World, Knob, Deliver, Lose, Toggle, taskVars, vars
<1>3. CASE async_setup
  <2>1. ~hadPoll' /\ failures' = 0 /\ \A t \in Pollers : pc'[t] = "idle"
    BY <1>3 DEF async_setup, taskVars
  <2> QED
    BY <1>0, <2>1 DEF SilentIsUnavailable, Debounced
<1>4. CASE async_shutdown
  BY <1>4 DEF async_shutdown, SilentIsUnavailable, Debounced
<1>5. ASSUME NEW t \in Pollers, PollRequest(t) \/ PollStep(t) PROVE AvailInv'
  <2>1. socket # "none"
    BY <1>5 DEF PollRequest, PollStep, PollBegin, PollRead, PollReadFails,
                PollPublish, PollFinish
  <2>2. CASE PollRequest(t) \/ PollBegin(t) \/ PollRead(t) \/ PollReadFails(t)
    BY <2>1, <2>2 DEF PollRequest, PollBegin, PollRead, PollReadFails,
                      clientVars, SilentIsUnavailable, Debounced
  <2>3. CASE PollPublish(t)
    BY <2>1, <2>3 DEF PollPublish, SilentIsUnavailable, Debounced
  <2>4. CASE PollFinish(t)
    BY <2>1, <2>4, PollVerdict DEF PollFinish
  <2> QED
    BY <1>5, <2>2, <2>3, <2>4 DEF PollStep
<1>6. ASSUME NEW c \in Commanders,
             (\E w \in Jobs : CommandRequest(c, w)) \/ CommandStep(c)
      PROVE  AvailInv'
  <2>1. pc \in [Tasks -> Labels] /\ \A t \in Pollers : t # c /\ t \in Tasks
    BY <1>0, ClientAssumption DEF Tasks
  <2>2. CASE \E w \in Jobs : CommandRequest(c, w)
    BY <1>1, <2>1, <2>2 DEF CommandRequest
  <2>3. CASE CommandSend(c) \/ CommandSendFails(c) \/ VerifyRead(c)
             \/ VerifyFails(c) \/ WakeUp(c)
    BY <1>1, <2>1, <2>3 DEF CommandSend, CommandSendFails, VerifyRead,
                            VerifyFails, WakeUp
  <2>4. CASE IdentifySent(c) \/ Unconfirmed(c)
    BY <1>1, <2>1, <2>4 DEF IdentifySent, Unconfirmed, Retry, Finish
  <2>5. CASE HandleSendFailure(c)
    <3>1. ~available' /\ sendErr' /\ UNCHANGED <<socket, failures, hadPoll>>
      BY <2>5 DEF HandleSendFailure
    <3>2. \A t \in Pollers : pc'[t] = pc[t]
      BY <2>1, <2>5 DEF HandleSendFailure, Retry, Finish
    <3> QED
      BY <3>1, <3>2 DEF SilentIsUnavailable, Debounced
  <2>6. CASE Confirmed(c) \/ Mismatch(c)
    <3>1. available' /\ failures' = 0 /\ UNCHANGED <<socket, hadPoll>>
      BY <2>6 DEF Confirmed, Mismatch, _note_reachable
    <3>2. \A t \in Pollers : pc'[t] = pc[t]
      BY <2>1, <2>6 DEF Confirmed, Mismatch, Retry, Finish
    <3> QED
      BY <1>0, <3>1, <3>2 DEF SilentIsUnavailable, Debounced
  <2> QED
    BY <1>6, <2>2, <2>3, <2>4, <2>5, <2>6 DEF CommandStep
<1> QED
  BY <1>2, <1>3, <1>4, <1>5, <1>6 DEF Next

LEMMA AvailCorrect == Spec => []AvailInv
<1>1. Init => AvailInv
  BY InitAvailInv
<1>2. TypeInv /\ AvailInv /\ [Next]_vars => AvailInv'
  BY NextAvailInv
<1> QED
  BY LockCorrect, <1>1, <1>2, PTL DEF Spec

\* The availability flag is never too optimistic: a streak of failed polls
\* that has reached the threshold, or any failed poll before the first good
\* one, leaves the speaker unavailable, however polls and commands interleave.
THEOREM SilenceIsReported == Spec => []SilentIsUnavailable
BY AvailCorrect, PTL DEF AvailInv

\* Nor is it too pessimistic: below the threshold only an OSError from a send
\* takes a speaker that has been polled out of service.
THEOREM DebounceWorks == Spec => []Debounced
BY AvailCorrect, PTL DEF AvailInv

----------------------------------------------------------------------------
\* Freshness.  While a task uses the socket the history covers what the
\* speaker is, and every answer the task holds is in the history.
FreshInv ==
  /\ \A t \in Tasks : UsingSocket(t) => \A p \in Params : speaker[p] \in seen[p]
  /\ \A t \in Pollers : pc[t] = "reading" =>
       \A i \in 1..Len(buf[t]) : buf[t][i] \in seen[i]
  /\ \A c \in Commanders : pc[c] = "answered" => got[c] \in seen[want[c][1]]

LEMMA InitFreshInv == Init => FreshInv
BY DEF Init, FreshInv, UsingSocket, Tasks

\* The history only grows while a parameter changes under a running task.
LEMMA SpeakerKeepsFresh ==
  ASSUME TypeInv, FreshInv, NEW p \in Params, NEW v \in Values,
         SpeakerBecomes(p, v), UNCHANGED <<pc, buf, got, want>>
  PROVE  FreshInv'
<1>1. speaker \in [Params -> Values] /\ seen \in [Params -> SUBSET Values]
      /\ pc \in [Tasks -> Labels] /\ want \in [Commanders -> Sets \cup {Identify, NoValue}]
  BY DEF TypeInv, TypeOK
<1>2. \A q \in Params : seen[q] \subseteq seen'[q]
  BY <1>1 DEF SpeakerBecomes
<1>3. ASSUME NEW t \in Tasks, UsingSocket(t)', NEW q \in Params
      PROVE  speaker'[q] \in seen'[q]
  BY <1>1, <1>3 DEF SpeakerBecomes, FreshInv, UsingSocket
<1>4. ASSUME NEW t \in Pollers, pc'[t] = "reading", NEW i \in 1..Len(buf'[t])
      PROVE  buf'[t][i] \in seen'[i]
  <2>1. i \in Params
    BY <1>4, ClientAssumption DEF TypeInv, TypeOK, Control, Params
  <2> QED
    BY <1>2, <1>4, <2>1 DEF FreshInv
<1>5. ASSUME NEW c \in Commanders, pc'[c] = "answered"
      PROVE  got'[c] \in seen'[want'[c][1]]
  <2>1. want[c] \in Sets
    BY <1>5 DEF TypeInv, Control
  <2>2. want[c][1] \in Params
    BY <2>1 DEF Sets
  <2> QED
    BY <1>2, <1>5, <2>2 DEF FreshInv
<1> QED
  BY <1>3, <1>4, <1>5 DEF FreshInv

\* A step that starts a tenure or ends one: nobody else uses the socket, and
\* the task itself holds no answer afterwards.
LEMMA AloneKeepsFresh ==
  ASSUME TypeInv, LockInv, NEW t \in Tasks, Holds(t),
         NEW l \in Labels \ {"answered"}, pc' = [pc EXCEPT ![t] = l],
         l \in {"reading", "sent", "sendFailed"} =>
           BeginTenure /\ UNCHANGED speaker /\ (t \in Pollers => buf'[t] = <<>>),
         l \notin {"published", "failed", "silent"}
  PROVE  FreshInv'
<1>1. /\ speaker \in [Params -> Values] /\ pc \in [Tasks -> Labels]
      /\ Pollers \subseteq Tasks /\ Commanders \subseteq Tasks
  BY DEF TypeInv, TypeOK, Tasks
<1>2. \A u \in Tasks \ {t} : ~UsingSocket(u) /\ pc'[u] = pc[u]
  BY <1>1 DEF LockInv, Holds
<1>3. ASSUME NEW u \in Tasks, UsingSocket(u)', NEW p \in Params
      PROVE  speaker'[p] \in seen'[p]
  <2>1. u = t /\ l \in {"reading", "sent", "sendFailed"}
    BY <1>1, <1>2, <1>3 DEF UsingSocket, Labels
  <2> QED
    BY <2>1 DEF BeginTenure
<1>4. ASSUME NEW u \in Pollers, pc'[u] = "reading" PROVE buf'[u] = <<>>
  BY <1>1, <1>2, <1>4 DEF UsingSocket
<1>5. ASSUME NEW c \in Commanders PROVE pc'[c] # "answered"
  BY <1>1, <1>2 DEF UsingSocket
<1> QED
  BY <1>3, <1>4, <1>5 DEF FreshInv

LEMMA NextFreshInv ==
  ASSUME TypeInv, LockInv, FreshInv, [Next]_vars
  PROVE  FreshInv'
<1>0. /\ pc \in [Tasks -> Labels] /\ buf \in [Pollers -> Seq(Values)]
      /\ got \in [Commanders -> Values \cup {NoValue}]
      /\ Pollers \subseteq Tasks /\ Commanders \subseteq Tasks
      /\ Pollers \cap Commanders = {}
  BY ClientAssumption DEF TypeInv, TypeOK, Tasks
<1>1. ASSUME UNCHANGED <<speaker, seen, pc, buf, got, want>> PROVE FreshInv'
  BY <1>1 DEF FreshInv, UsingSocket
\* A task moves on without a new answer.
<1>2. ASSUME NEW t \in Tasks, NEW l \in Labels \ {"reading", "answered"},
             UsingSocket(t), UNCHANGED <<speaker, seen, want, got>>,
             pc' = [pc EXCEPT ![t] = l],
             \A u \in Pollers \ {t} : buf'[u] = buf[u]
      PROVE  FreshInv'
  BY <1>0, <1>2 DEF FreshInv, UsingSocket
<1>3. CASE World
  BY <1>1, <1>3, SpeakerKeepsFresh DEF World, Knob, Deliver, Lose, Toggle, taskVars
<1>4. CASE async_setup \/ async_shutdown \/ UNCHANGED vars
  BY <1>1, <1>4 DEF async_setup, async_shutdown, vars, taskVars, worldVars
<1>5. ASSUME NEW t \in Pollers, PollRequest(t) \/ PollStep(t) PROVE FreshInv'
  <2>1. CASE PollRequest(t)
    BY <1>0, <2>1 DEF PollRequest, FreshInv, UsingSocket, worldVars
  <2>2. CASE PollBegin(t)
    <3>1. buf[t] = <<>>
      BY <2>2 DEF PollBegin, TypeInv, Control
    <3> QED
      BY <1>0, <2>2, <3>1, AloneKeepsFresh DEF PollBegin, Labels, worldVars
  <2>3. CASE PollRead(t)
    <3>1. Len(buf[t]) + 1 \in Params /\ speaker[Len(buf[t]) + 1] \in Values
      BY <1>0, <2>3, ClientAssumption DEF PollRead, Params, TypeInv, TypeOK
    <3>2. speaker[Len(buf[t]) + 1] \in seen[Len(buf[t]) + 1]
      BY <1>0, <2>3, <3>1 DEF PollRead, FreshInv, UsingSocket
    <3>3. \A i \in 1..Len(buf'[t]) : buf'[t][i] \in seen[i]
      <4>1. buf'[t] = Append(buf[t], speaker[Len(buf[t]) + 1])
        BY <1>0, <2>3 DEF PollRead
      <4>2. \A i \in 1..Len(buf[t]) : buf[t][i] \in seen[i]
        BY <2>3 DEF PollRead, FreshInv
      <4> QED
        BY <1>0, <3>1, <3>2, <4>1, <4>2
    <3>4. \A u \in Pollers \ {t} : buf'[u] = buf[u]
      BY <1>0, <2>3 DEF PollRead
    <3> QED
      BY <2>3, <3>3, <3>4 DEF PollRead, FreshInv, UsingSocket, worldVars
  <2>4. CASE PollReadFails(t) \/ PollPublish(t)
    BY <1>0, <1>2, <2>4 DEF PollReadFails, PollPublish, UsingSocket, Labels, worldVars
  <2>5. CASE PollFinish(t)
    BY <1>0, <2>5, AloneKeepsFresh DEF PollFinish, LockInv, UsingSocket, Labels
  <2> QED
    BY <1>5, <2>1, <2>2, <2>3, <2>4, <2>5 DEF PollStep
<1>6. ASSUME NEW c \in Commanders, NEW w \in Jobs, CommandRequest(c, w)
      PROVE  FreshInv'
  <2>1. /\ \A d \in Commanders \ {c} : want'[d] = want[d]
        /\ pc' = [pc EXCEPT ![c] = "wait"]
        /\ UNCHANGED <<speaker, seen, buf, got>>
    BY <1>6 DEF CommandRequest, worldVars, TypeInv, TypeOK
  <2> QED
    BY <1>0, <2>1 DEF FreshInv, UsingSocket
<1>7. ASSUME NEW c \in Commanders, CommandStep(c) PROVE FreshInv'
  <2>1. CASE CommandSend(c) \/ CommandSendFails(c)
    BY <1>0, <2>1, AloneKeepsFresh
    DEF CommandSend, CommandSendFails, Labels, worldVars
  <2>2. CASE VerifyRead(c)
    <3>1. want[c] \in Sets
      BY <2>2 DEF VerifyRead, TypeInv, Control
    <3>2. speaker[want[c][1]] \in seen[want[c][1]]
      BY <1>0, <2>2, <3>1 DEF VerifyRead, FreshInv, UsingSocket, Sets
    <3> QED
      BY <1>0, <2>2, <3>2 DEF VerifyRead, FreshInv, UsingSocket, worldVars
  <2>3. CASE VerifyFails(c)
    BY <1>0, <1>2, <2>3 DEF VerifyFails, UsingSocket, Labels, worldVars
  <2>4. CASE HandleSendFailure(c) \/ IdentifySent(c) \/ Confirmed(c)
             \/ Mismatch(c) \/ Unconfirmed(c)
    <3>1. Holds(c)
      BY <1>0, <2>4 DEF HandleSendFailure, IdentifySent, Confirmed, Mismatch,
                        Unconfirmed, LockInv, UsingSocket
    <3>2. PICK l \in {"idle", "sleep"} : pc' = [pc EXCEPT ![c] = l]
      BY <2>4 DEF HandleSendFailure, IdentifySent, Confirmed, Mismatch,
                  Unconfirmed, Retry, Finish
    <3> QED
      BY <1>0, <3>1, <3>2, AloneKeepsFresh DEF Labels
  <2>5. CASE WakeUp(c)
    BY <1>0, <2>5 DEF WakeUp, FreshInv, UsingSocket, worldVars
  <2> QED
    BY <1>7, <2>1, <2>2, <2>3, <2>4, <2>5 DEF CommandStep
<1> QED
  BY <1>3, <1>4, <1>5, <1>6, <1>7 DEF Next

\* Whatever the client publishes, the speaker was: the answers of a poll and
\* the confirmed value of a command all belong to the lock tenure that
\* publishes them, so the state is never optimistic, stale or torn.
THEOREM Freshness == Spec => PublishesFresh
<1> DEFINE Fresh ==
      /\ \A p \in Params : state'[p] # state[p] => state'[p] \in seen[p]
      /\ \A t \in Pollers : pc[t] = "reading" /\ pc'[t] = "published" =>
           \A p \in Params : state'[p] \in seen[p]
<1>1. Init => FreshInv
  BY InitFreshInv
<1>2. TypeInv /\ LockInv /\ FreshInv /\ [Next]_vars => FreshInv'
  BY NextFreshInv
<1>3. TypeInv /\ FreshInv /\ [Next]_vars => [Fresh]_vars
  <2> SUFFICES ASSUME TypeInv, FreshInv, Next PROVE Fresh
    OBVIOUS
  <2>0. /\ pc \in [Tasks -> Labels] /\ state \in [Params -> Values]
        /\ Pollers \subseteq Tasks /\ Commanders \subseteq Tasks
        /\ Pollers \cap Commanders = {}
    BY ClientAssumption DEF TypeInv, TypeOK, Tasks
  <2>1. ASSUME NEW t \in Pollers, PollPublish(t) PROVE Fresh
    BY <2>1 DEF PollPublish, FreshInv, Params
  <2>2. ASSUME NEW c \in Commanders, Confirmed(c) PROVE Fresh
    <3>1. state' = [state EXCEPT ![want[c][1]] = got[c]] /\ got[c] \in seen[want[c][1]]
      BY <2>2 DEF Confirmed, FreshInv
    <3>2. \A t \in Pollers : pc'[t] = pc[t]
      BY <2>0, <2>2 DEF Confirmed, Finish
    <3> QED
      BY <2>0, <3>1, <3>2
  <2>3. ASSUME state' = state,
               \A t \in Pollers : pc[t] = "reading" => pc'[t] # "published"
        PROVE  Fresh
    BY <2>3
  <2>4. CASE World \/ async_setup \/ async_shutdown
    BY <2>3, <2>4 DEF World, Knob, Deliver, Lose, Toggle, async_setup,
                      async_shutdown, clientVars, taskVars
  <2>5. ASSUME NEW t \in Pollers, PollRequest(t) \/ PollStep(t) PROVE Fresh
    <3>1. CASE PollRequest(t) \/ PollBegin(t) \/ PollRead(t) \/ PollReadFails(t)
      BY <2>0, <2>3, <3>1 DEF PollRequest, PollBegin, PollRead, PollReadFails, clientVars
    <3>2. CASE PollFinish(t)
      BY <2>0, <2>3, <3>2 DEF PollFinish
    <3> QED
      BY <2>1, <2>5, <3>1, <3>2 DEF PollStep
  <2>6. ASSUME NEW c \in Commanders,
               (\E w \in Jobs : CommandRequest(c, w)) \/ CommandStep(c)
        PROVE  Fresh
    <3>1. \A t \in Pollers : t # c /\ t \in Tasks
      BY <2>0
    <3>2. CASE (\E w \in Jobs : CommandRequest(c, w)) \/ CommandSend(c)
               \/ CommandSendFails(c) \/ VerifyRead(c) \/ VerifyFails(c) \/ WakeUp(c)
      BY <2>0, <2>3, <3>1, <3>2 DEF CommandRequest, CommandSend, CommandSendFails,
         VerifyRead, VerifyFails, WakeUp, clientVars
    <3>3. CASE HandleSendFailure(c) \/ IdentifySent(c) \/ Mismatch(c) \/ Unconfirmed(c)
      BY <2>0, <2>3, <3>1, <3>3 DEF HandleSendFailure, IdentifySent, Mismatch,
         Unconfirmed, Retry, Finish, clientVars
    <3> QED
      BY <2>2, <2>6, <3>2, <3>3 DEF CommandStep
  <2> QED
    BY <2>4, <2>5, <2>6 DEF Next
<1> QED
  BY LockCorrect, <1>1, <1>2, <1>3, PTL DEF Spec, PublishesFresh

----------------------------------------------------------------------------
\* The tenures of the lock as single steps.  A command that is over leaves
\* nothing behind, and there is none before the socket is there.
CallInv ==
  /\ \A c \in Commanders : pc[c] = "idle" => want[c] = NoValue /\ attempt[c] = 1
  /\ socket = "none" => \A c \in Commanders : pc[c] = "idle"

LEMMA InitCallInv == Init => CallInv
BY ClientAssumption DEF Init, CallInv, Tasks

LEMMA NextCallInv ==
  ASSUME TypeInv, CallInv, [Next]_vars
  PROVE  CallInv'
<1>0. /\ pc \in [Tasks -> Labels]
      /\ want \in [Commanders -> Sets \cup {Identify, NoValue}]
      /\ attempt \in [Commanders -> 1..MaxRetries]
      /\ Pollers \subseteq Tasks /\ Commanders \subseteq Tasks
      /\ Pollers \cap Commanders = {}
  BY ClientAssumption DEF TypeInv, TypeOK, Tasks
<1>1. CASE World \/ async_setup \/ async_shutdown \/ UNCHANGED vars
  BY <1>1 DEF CallInv, World, Knob, Deliver, Lose, Toggle, async_setup, async_shutdown,
              vars, clientVars, taskVars
<1>2. ASSUME NEW t \in Pollers, PollRequest(t) \/ PollStep(t) PROVE CallInv'
  <2>1. UNCHANGED <<want, attempt, socket>> /\ \A c \in Commanders : pc'[c] = pc[c]
    BY <1>0, <1>2 DEF PollRequest, PollStep, PollBegin, PollRead, PollReadFails,
                      PollPublish, PollFinish, clientVars
  <2> QED
    BY <2>1 DEF CallInv
\* A command that goes on, and one that may be over.
<1>3. ASSUME NEW c \in Commanders, NEW l \in Labels \ {"idle"}, socket # "none",
             pc' = [pc EXCEPT ![c] = l], UNCHANGED socket,
             \A d \in Commanders \ {c} : want'[d] = want[d] /\ attempt'[d] = attempt[d]
      PROVE  CallInv'
  BY <1>0, <1>3 DEF CallInv
<1>4. ASSUME NEW c \in Commanders, Finish(c) \/ Retry(c), socket # "none",
             UNCHANGED socket
      PROVE  CallInv'
  BY <1>0, <1>4 DEF CallInv, Finish, Retry
<1>5. ASSUME NEW c \in Commanders, NEW w \in Jobs, CommandRequest(c, w)
      PROVE  CallInv'
  BY <1>0, <1>3, <1>5 DEF CommandRequest, clientVars, Labels
<1>6. ASSUME NEW c \in Commanders, CommandStep(c) PROVE CallInv'
  <2>1. socket # "none"
    BY <1>0, <1>6 DEF CallInv, CommandStep, CommandSend, CommandSendFails,
       HandleSendFailure, IdentifySent, VerifyRead, VerifyFails, Confirmed, Mismatch,
       Unconfirmed, WakeUp
  <2>2. CASE CommandSend(c) \/ CommandSendFails(c) \/ VerifyRead(c)
             \/ VerifyFails(c) \/ WakeUp(c)
    BY <1>0, <1>3, <2>1, <2>2 DEF CommandSend, CommandSendFails, VerifyRead,
       VerifyFails, WakeUp, clientVars, Labels
  <2>3. CASE HandleSendFailure(c) \/ IdentifySent(c) \/ Confirmed(c)
             \/ Mismatch(c) \/ Unconfirmed(c)
    BY <1>4, <2>1, <2>3 DEF HandleSendFailure, IdentifySent, Confirmed, Mismatch,
       Unconfirmed, clientVars
  <2> QED
    BY <1>6, <2>2, <2>3 DEF CommandStep
<1> QED
  BY <1>1, <1>2, <1>5, <1>6 DEF Next

LEMMA CallCorrect == Spec => []CallInv
<1>1. TypeInv /\ CallInv /\ [Next]_vars => CallInv'
  BY NextCallInv
<1> QED
  BY LockCorrect, InitCallInv, <1>1, PTL DEF Spec

\* What the end of an attempt does to its command.
LEMMA AttemptEnds ==
  ASSUME TypeInv, NEW c \in Commanders, pc[c] # "sleep"
  PROVE  /\ Finish(c) => Tenure!Done(c)
         /\ Retry(c) => Tenure!Again(c)
<1>0. /\ pc \in [Tasks -> Labels] /\ attempt \in [Commanders -> 1..MaxRetries]
      /\ MaxRetries \in Nat /\ Commanders \subseteq Tasks
  BY ClientAssumption DEF TypeInv, TypeOK, Tasks
<1>1. Tried[c] = attempt[c] - 1
  BY DEF Tried
<1>2. ASSUME Finish(c) PROVE Tenure!Done(c)
  <2>1. /\ pc' = [pc EXCEPT ![c] = "idle"] /\ attempt' = [attempt EXCEPT ![c] = 1]
        /\ want' = [want EXCEPT ![c] = NoValue]
    BY <1>2 DEF Finish
  <2>2. \A d \in Commanders :
          (IF pc'[d] = "sleep" THEN attempt'[d] ELSE attempt'[d] - 1) =
            IF d = c THEN 0 ELSE IF pc[d] = "sleep" THEN attempt[d] ELSE attempt[d] - 1
    BY <1>0, <2>1
  <2>3. Tried' = [Tried EXCEPT ![c] = 0]
    BY <2>2, Zenon DEF Tried
  <2> QED
    BY <2>1, <2>3 DEF Tenure!Done
<1>3. ASSUME attempt[c] < MaxRetries, pc' = [pc EXCEPT ![c] = "sleep"],
             UNCHANGED <<want, attempt>>
      PROVE  Tenure!Again(c)
  <2>1. \A d \in Commanders :
          (IF pc'[d] = "sleep" THEN attempt'[d] ELSE attempt'[d] - 1) =
            IF d = c THEN Tried[c] + 1
                     ELSE IF pc[d] = "sleep" THEN attempt[d] ELSE attempt[d] - 1
    BY <1>0, <1>1, <1>3
  <2>2. Tried' = [Tried EXCEPT ![c] = @ + 1]
    BY <2>1, Zenon DEF Tried
  <2> QED
    BY <1>0, <1>1, <1>3, <2>2 DEF Tenure!Again
<1>4. ASSUME attempt[c] = MaxRetries, Finish(c) PROVE Tenure!Again(c)
  BY <1>0, <1>1, <1>2, <1>4 DEF Tenure!Again
<1> QED
  BY <1>2, <1>3, <1>4 DEF Retry

LEMMA InitTenure == Init => Tenure!Init
<1> SUFFICES ASSUME Init PROVE Tenure!Init
  OBVIOUS
<1>1. ~Published
  BY DEF Init, Published, Tasks
<1>2. Tried = [c \in Commanders |-> 0]
  BY DEF Init, Tried, Tasks
<1>3. state \in [Params -> Values]
  BY ClientAssumption DEF Init
<1> QED
  BY <1>1, <1>2, <1>3 DEF Init, Tenure!Init

LEMMA NextTenure ==
  ASSUME TypeInv, LockInv, AvailInv, CallInv, [Next]_vars
  PROVE  [Tenure!Next]_(Tenure!vars)
<1>0. /\ pc \in [Tasks -> Labels] /\ attempt \in [Commanders -> 1..MaxRetries]
      /\ MaxRetries \in Nat
      /\ want \in [Commanders -> Sets \cup {Identify, NoValue}]
      /\ state \in [Params -> Values]
      /\ available \in BOOLEAN /\ hadPoll \in BOOLEAN /\ failures \in 0..FailureCap
      /\ Pollers \subseteq Tasks /\ Commanders \subseteq Tasks
      /\ Pollers \cap Commanders = {}
  BY ClientAssumption DEF TypeInv, TypeOK, Tasks
<1>1. ASSUME NEW t \in Tasks, UsingSocket(t), NEW u \in Pollers, u # t
      PROVE  pc[u] # "published"
  BY <1>0, <1>1 DEF LockInv, Holds, UsingSocket
\* What does not end a tenure is not seen by anybody.
<1>2. ASSUME UNCHANGED <<state, available, failures, hadPoll, want>>,
             Tried' = Tried, Published' <=> Published
      PROVE  UNCHANGED Tenure!vars
  BY <1>2 DEF Tenure!vars, Tenure!shared, Tenure!calls
<1>3. CASE World \/ async_shutdown \/ UNCHANGED vars
  <2>1. UNCHANGED <<state, available, failures, hadPoll, want, pc, attempt>>
    BY <1>3 DEF World, Knob, Deliver, Lose, Toggle, async_shutdown, vars, clientVars,
                taskVars
  <2> QED
    BY <1>2, <2>1 DEF Tried, Published
<1>4. CASE async_setup
  <2>1. /\ UNCHANGED <<state, failures, hadPoll, want, pc, attempt>>
        /\ available' \in BOOLEAN /\ socket = "none"
    BY <1>4 DEF async_setup, taskVars, TypeInv, TypeOK
  <2>2. ~Published /\ ~Published' /\ ~hadPoll /\ failures = 0
    BY <2>1 DEF AvailInv, Published
  <2>3. want = [c \in Commanders |-> NoValue]
    BY <1>0, <2>1 DEF CallInv
  <2>4. Tried' = Tried
    BY <2>1 DEF Tried
  <2>5. Tenure!Connect
    BY <2>1, <2>2, <2>3, <2>4 DEF Tenure!Connect, Tenure!calls
  <2> QED
    BY <2>5 DEF Tenure!Next
<1>5. ASSUME NEW t \in Pollers, PollRequest(t) \/ PollStep(t)
      PROVE  [Tenure!Next]_(Tenure!vars)
  <2>1. UNCHANGED <<want, attempt>> /\ \A c \in Commanders : pc'[c] = pc[c]
    BY <1>0, <1>5 DEF PollRequest, PollStep, PollBegin, PollRead, PollReadFails,
                      PollPublish, PollFinish
  <2>2. Tried' = Tried
    BY <2>1 DEF Tried
  <2>3. CASE PollRequest(t) \/ PollBegin(t) \/ PollRead(t) \/ PollReadFails(t)
    <3>1. UNCHANGED clientVars /\ (Published' <=> Published)
      BY <1>0, <2>3 DEF PollRequest, PollBegin, PollRead, PollReadFails, Published
    <3> QED
      BY <1>2, <2>1, <2>2, <3>1 DEF clientVars
  <2>4. CASE PollPublish(t)
    <3>1. Published' /\ state' \in [Params -> Values]
      <4>1. buf[t] \in [Params -> Values]
        BY <2>4 DEF PollPublish, Params, TypeInv, TypeOK
      <4> QED
        BY <1>0, <2>4, <4>1 DEF PollPublish, Published
    <3>2. Tenure!GoodPoll
      BY <2>1, <2>2, <3>1 DEF Tenure!GoodPoll, Tenure!Answered, Tenure!calls
    <3> QED
      BY <3>2 DEF Tenure!Next
  <2>5. CASE PollFinish(t)
    <3>1. UNCHANGED state /\ UsingSocket(t)
      BY <2>5 DEF PollFinish, UsingSocket
    <3>2. ~Published'
      BY <1>0, <1>1, <2>5, <3>1 DEF PollFinish, Published
    <3>3. CASE pc[t] = "published"
      <4>1. SuccessfulPoll /\ Published
        BY <2>5, <3>3 DEF PollFinish, Published
      <4>2. available' = TRUE /\ failures' = 0 /\ hadPoll' = TRUE
        BY <4>1 DEF SuccessfulPoll, _note_reachable
      <4> QED
        BY <2>1, <2>2, <3>1, <3>2, <4>1, <4>2
        DEF Tenure!vars, Tenure!shared, Tenure!calls
    <3>4. CASE pc[t] = "failed"
      <4>1. FailedPoll /\ ~Published
        BY <1>0, <1>1, <2>5, <3>1, <3>4 DEF PollFinish, Published
      <4>2. /\ failures' = IF failures < FailureCap THEN failures + 1 ELSE failures
            /\ available' = (available /\ hadPoll /\ failures' < UnavailableAfter)
            /\ hadPoll' = hadPoll
        BY <4>1, Zenon DEF FailedPoll
      <4>3. Tenure!BadPoll
        BY <2>1, <2>2, <3>1, <3>2, <4>1, <4>2 DEF Tenure!BadPoll, Tenure!calls
      <4> QED
        BY <4>3 DEF Tenure!Next
    <3> QED
      BY <2>5, <3>3, <3>4 DEF PollFinish
  <2> QED
    BY <1>5, <2>3, <2>4, <2>5 DEF PollStep
<1>6. ASSUME NEW c \in Commanders, NEW w \in Jobs, CommandRequest(c, w)
      PROVE  [Tenure!Next]_(Tenure!vars)
  <2>1. /\ pc[c] = "idle" /\ pc' = [pc EXCEPT ![c] = "wait"]
        /\ want' = [want EXCEPT ![c] = w] /\ attempt' = [attempt EXCEPT ![c] = 1]
        /\ UNCHANGED <<state, available, failures, hadPoll>>
    BY <1>6 DEF CommandRequest, clientVars
  <2>2. want[c] = NoValue /\ attempt[c] = 1
    BY <2>1 DEF CallInv
  <2>3. Tried' = Tried
    BY <1>0, <2>1, <2>2 DEF Tried
  <2>4. Published' <=> Published
    BY <1>0, <2>1 DEF Published
  <2>5. Tenure!Ask(c, w)
    BY <2>1, <2>2, <2>3, <2>4 DEF Tenure!Ask, Tenure!shared
  <2> QED
    BY <2>5 DEF Tenure!Next
<1>7. ASSUME NEW c \in Commanders, CommandStep(c)
      PROVE  [Tenure!Next]_(Tenure!vars)
  <2>1. Published' <=> Published
    <3>1. \A t \in Pollers : pc'[t] = pc[t]
      BY <1>0, <1>7 DEF CommandStep, CommandSend, CommandSendFails, HandleSendFailure,
         IdentifySent, VerifyRead, VerifyFails, Confirmed, Mismatch, Unconfirmed,
         WakeUp, Retry, Finish
    <3> QED
      BY <3>1 DEF Published
  <2>2. CASE CommandSend(c) \/ CommandSendFails(c) \/ VerifyRead(c) \/ VerifyFails(c)
    <3>1. UNCHANGED <<clientVars, want>> /\ Tried' = Tried
      BY <1>0, <2>2 DEF CommandSend, CommandSendFails, VerifyRead, VerifyFails, Tried
    <3> QED
      BY <1>2, <2>1, <3>1 DEF clientVars
  <2>3. CASE WakeUp(c)
    <3>1. UNCHANGED <<clientVars, want>> /\ Tried' = Tried
      BY <1>0, <2>3 DEF WakeUp, Tried
    <3> QED
      BY <1>2, <2>1, <3>1 DEF clientVars
  \* The others end a tenure, so no poll has one.
  <2>4. CASE ~Published /\ HandleSendFailure(c)
    <3>1. /\ pc[c] # "sleep" /\ available' = FALSE
          /\ UNCHANGED <<state, failures, hadPoll>>
          /\ IF want[c] = Identify THEN Finish(c) ELSE Retry(c)
      BY <2>4 DEF HandleSendFailure
    <3>2. want[c] # NoValue
      BY <2>4, ClientAssumption DEF HandleSendFailure, TypeInv, Control, Sets, Params
    <3>3. IF want[c] = Identify THEN Tenure!Done(c) ELSE Tenure!Again(c)
      BY <3>1, AttemptEnds
    <3>4. Tenure!SendFails(c)
      BY <2>1, <2>4, <3>1, <3>2, <3>3 DEF Tenure!SendFails
    <3> QED
      BY <3>4 DEF Tenure!Next
  <2>5. CASE ~Published /\ IdentifySent(c)
    <3>1. pc[c] # "sleep" /\ want[c] = Identify /\ Finish(c) /\ UNCHANGED clientVars
      BY <2>5 DEF IdentifySent
    <3>2. Tenure!Identified(c)
      BY <2>1, <3>1, AttemptEnds DEF Tenure!Identified, Tenure!shared, clientVars
    <3> QED
      BY <3>2 DEF Tenure!Next
  <2>6. CASE ~Published /\ Confirmed(c)
    <3>1. /\ pc[c] # "sleep" /\ Finish(c) /\ _note_reachable /\ UNCHANGED hadPoll
          /\ state' = [state EXCEPT ![want[c][1]] = want[c][2]]
      BY <2>6 DEF Confirmed
    <3>2. want[c] \in Params \X Values
      BY <2>6 DEF Confirmed, TypeInv, Control, Sets
    <3>3. Tenure!Confirm(c)
      BY <2>1, <2>6, <3>1, <3>2, AttemptEnds
      DEF Tenure!Confirm, Tenure!Answered, _note_reachable
    <3> QED
      BY <3>3 DEF Tenure!Next
  <2>7. CASE ~Published /\ Mismatch(c)
    <3>1. /\ pc[c] # "sleep" /\ Retry(c) /\ _note_reachable
          /\ UNCHANGED <<state, hadPoll>>
      BY <2>7 DEF Mismatch
    <3>2. want[c] \in Params \X Values
      BY <2>7 DEF Mismatch, TypeInv, Control, Sets
    <3>3. Tenure!Mismatch(c)
      BY <2>1, <2>7, <3>1, <3>2, AttemptEnds
      DEF Tenure!Mismatch, Tenure!Answered, _note_reachable
    <3> QED
      BY <3>3 DEF Tenure!Next
  <2>8. CASE ~Published /\ Unconfirmed(c)
    <3>1. pc[c] # "sleep" /\ Retry(c) /\ UNCHANGED clientVars
      BY <2>8 DEF Unconfirmed
    <3>2. want[c] \in Params \X Values
      BY <2>8 DEF Unconfirmed, TypeInv, Control, Sets
    <3>3. Tenure!NoAnswer(c)
      BY <2>1, <3>1, <3>2, AttemptEnds DEF Tenure!NoAnswer, Tenure!shared, clientVars
    <3> QED
      BY <3>3 DEF Tenure!Next
  <2>9. CASE HandleSendFailure(c) \/ IdentifySent(c) \/ Confirmed(c) \/ Mismatch(c)
             \/ Unconfirmed(c)
    <3>1. UsingSocket(c)
      BY <2>9 DEF HandleSendFailure, IdentifySent, Confirmed, Mismatch, Unconfirmed,
                  UsingSocket
    <3>2. ~Published
      BY <1>0, <1>1, <3>1 DEF Published
    <3> QED
      BY <2>4, <2>5, <2>6, <2>7, <2>8, <2>9, <3>2
  <2> QED
    BY <1>7, <2>2, <2>3, <2>9 DEF CommandStep
<1> QED
  BY <1>3, <1>4, <1>5, <1>6, <1>7 DEF Next

\* Each tenure of the lock is one step to whoever looks at the client: this
\* is why GroupCommand may treat polls and attempts as single steps.  A poll
\* takes effect when its executor job stores the state, and its verdict,
\* which comes later, is the one nobody could have changed meanwhile.
THEOREM TenuresAreAtomic == Spec => ImplementsTenures
<1>1. Init => Tenure!Init
  BY InitTenure
<1>2. TypeInv /\ LockInv /\ AvailInv /\ CallInv /\ [Next]_vars
        => [Tenure!Next]_(Tenure!vars)
  BY NextTenure
<1> QED
  BY LockCorrect, AvailCorrect, CallCorrect, <1>1, <1>2, PTL
  DEF Spec, ImplementsTenures, Tenure!Spec
=============================================================================
