------------------------------- MODULE Client -------------------------------
(***************************************************************************)
(* AdamAudioClient (custom_components/adam_audio/client.py): one UDP       *)
(* session with one speaker, shared by the poll the coordinator runs and   *)
(* by the commands Home Assistant's services issue.  Every use of the      *)
(* socket is an executor job started under one asyncio.Lock; the result of *)
(* the job is handled later, on the event loop, so a job and the code that *)
(* handles it are two steps here.                                          *)
(*                                                                         *)
(* The speaker is part of the environment: its settings change under the   *)
(* client's hands (knobs, another controller), it goes on and off the      *)
(* network at any moment, and a SET datagram may be lost, duplicated, or   *)
(* take effect long after the command that sent it is over.  A read asks   *)
(* the device layer (module DeviceLink), which promises a value the        *)
(* speaker held while the request was pending, or an error.                *)
(***************************************************************************)
EXTENDS Integers, Sequences

CONSTANTS
  NumParams,       \* how many parameters a poll reads (8 in the code), in order
  Values,          \* values a parameter may take
  Default,         \* the value every field of a fresh AdamAudioState has
  Pollers,         \* tasks running async_fetch_state
  Commanders,      \* tasks running a setter or async_identify
  MaxRetries,      \* MAX_RETRIES (3 in the code)
  UnavailableAfter,\* UNAVAILABLE_AFTER_FAILURES (2 in the code)
  FailureCap,      \* bound: the failure streak is counted up to here only
  Identify,        \* the command async_identify, which has nothing to verify
  NoValue,         \* no answer, no command
  Jobs             \* the calls the services make: <<field, value>> or Identify

ASSUME ClientAssumption ==
  /\ NumParams \in Nat \ {0}
  /\ Default \in Values
  /\ Pollers \cap Commanders = {}
  /\ MaxRetries \in Nat \ {0}
  /\ UnavailableAfter \in Nat \ {0}
  /\ FailureCap \in Nat
  /\ FailureCap >= UnavailableAfter
  /\ NoValue \notin Values
  /\ Identify \notin (1..NumParams) \X Values
  /\ NoValue \notin ((1..NumParams) \X Values) \cup {Identify}
  /\ Jobs \subseteq ((1..NumParams) \X Values) \cup {Identify}

VARIABLES
  speaker,    \* what the speaker's parameters really are
  reachable,  \* whether datagrams get through at this moment
  inflight,   \* SET datagrams that may still take effect
  socket,     \* Client._device: "none", "open", or "closed"
  state,      \* Client.state, what the entities show
  available,  \* Client.available
  failures,   \* Client._consecutive_poll_failures
  hadPoll,    \* Client._had_successful_poll
  lockQ,      \* Client._lock: head is the holder, the rest wait in order
  pc,         \* where each task is
  attempt,    \* the retry loop's counter of each commander
  want,       \* what each commander was asked to do
  buf,        \* answers a running poll has collected
  got,        \* the answer of a commander's verification read
  seen,       \* history: values each parameter had in this lock tenure
  sendErr     \* history: a send raised OSError since the last answer

clientVars == <<socket, state, available, failures, hadPoll>>
taskVars   == <<lockQ, pc, attempt, want, buf, got>>
worldVars  == <<speaker, reachable, inflight>>
vars == <<worldVars, clientVars, taskVars, seen, sendErr>>

Params   == 1..NumParams
Tasks    == Pollers \cup Commanders
Sets     == Params \X Values              \* a setter call: which field, what

----------------------------------------------------------------------------
Init ==
  /\ speaker \in [Params -> Values]
  /\ reachable \in BOOLEAN
  /\ inflight = {}
  /\ socket = "none"
  /\ state = [p \in Params |-> Default]
  /\ available = FALSE
  /\ failures = 0
  /\ hadPoll = FALSE
  /\ lockQ = <<>>
  /\ pc = [t \in Tasks |-> "idle"]
  /\ attempt = [c \in Commanders |-> 1]
  /\ want = [c \in Commanders |-> NoValue]
  /\ buf = [t \in Pollers |-> <<>>]
  /\ got = [c \in Commanders |-> NoValue]
  /\ seen = [p \in Params |-> {}]
  /\ sendErr = FALSE

----------------------------------------------------------------------------
(* The world around the client. *)

\* The parameter p of the speaker becomes v; the history of the lock tenure,
\* if there is one, remembers it.
SpeakerBecomes(p, v) ==
  /\ speaker' = [speaker EXCEPT ![p] = v]
  /\ seen' = [seen EXCEPT ![p] = IF @ = {} THEN {} ELSE @ \cup {v}]

\* Somebody turns a knob on the speaker, or another controller sets it.
Knob(p, v) ==
  /\ speaker[p] # v
  /\ SpeakerBecomes(p, v)
  /\ UNCHANGED <<reachable, inflight, clientVars, taskVars, sendErr>>

\* A SET datagram takes effect; it may be a copy, more of which will follow.
Deliver(p, v) ==
  /\ <<p, v>> \in inflight
  /\ reachable
  /\ SpeakerBecomes(p, v)
  /\ inflight' \in {inflight, inflight \ {<<p, v>>}}
  /\ UNCHANGED <<reachable, clientVars, taskVars, sendErr>>

\* A SET datagram is lost.
Lose(p, v) ==
  /\ <<p, v>> \in inflight
  /\ inflight' = inflight \ {<<p, v>>}
  /\ UNCHANGED <<speaker, reachable, clientVars, taskVars, seen, sendErr>>

\* The speaker leaves or rejoins the network, or the network drops datagrams.
Toggle ==
  /\ reachable' = ~reachable
  /\ UNCHANGED <<speaker, inflight, clientVars, taskVars, seen, sendErr>>

----------------------------------------------------------------------------
(* The lock and the availability flags. *)

Holds(t) == lockQ # <<>> /\ Head(lockQ) = t

Enqueue(t) == lockQ' = Append(lockQ, t)

\* The first job of a lock tenure starts.
BeginTenure == seen' = [p \in Params |-> {speaker[p]}]

\* The lock goes to the task that has waited longest.
Release ==
  /\ lockQ' = Tail(lockQ)
  /\ seen' = [p \in Params |-> {}]

Answering == reachable /\ socket = "open"

_note_reachable ==
  /\ failures' = 0
  /\ available' = TRUE
  /\ sendErr' = FALSE

\* Mutant: a good poll clears the streak but not the flag.
SuccessfulPoll_StaysDown ==
  /\ hadPoll' = TRUE
  /\ failures' = 0
  /\ UNCHANGED <<available, sendErr>>

SuccessfulPoll ==
  /\ hadPoll' = TRUE
  /\ _note_reachable

\* Mutant: the streak must exceed the threshold.
FailedPoll_Late ==
  /\ failures' = IF failures < FailureCap THEN failures + 1 ELSE failures
  /\ available' = (available /\ hadPoll /\ failures' <= UnavailableAfter)
  /\ UNCHANGED <<hadPoll, sendErr>>

\* Mutant: any failed poll makes the speaker unavailable.
FailedPoll_Flapping ==
  /\ failures' = IF failures < FailureCap THEN failures + 1 ELSE failures
  /\ available' = FALSE
  /\ UNCHANGED <<hadPoll, sendErr>>

\* Mutant: a speaker that never answered a poll gets the same grace.
FailedPoll_Graceful ==
  /\ failures' = IF failures < FailureCap THEN failures + 1 ELSE failures
  /\ available' = (available /\ failures' < UnavailableAfter)
  /\ UNCHANGED <<hadPoll, sendErr>>

FailedPoll ==
  /\ failures' = IF failures < FailureCap THEN failures + 1 ELSE failures
  /\ available' = ( /\ available
                    /\ hadPoll
                    /\ failures' < UnavailableAfter )
  /\ UNCHANGED <<hadPoll, sendErr>>

----------------------------------------------------------------------------
(* Setting up and shutting down. *)

async_setup ==
  /\ socket = "none"
  /\ socket' = IF reachable THEN "open" ELSE "none"
  /\ available' = reachable
  /\ UNCHANGED <<worldVars, state, failures, hadPoll, taskVars, seen, sendErr>>

\* Takes no lock: a job that is under way finds its socket closed.
async_shutdown ==
  /\ socket = "open"
  /\ socket' = "closed"
  /\ UNCHANGED <<worldVars, state, available, failures, hadPoll, taskVars,
                 seen, sendErr>>

----------------------------------------------------------------------------
(* async_fetch_state: the poll. *)

PollRequest(t) ==
  /\ pc[t] = "idle"
  /\ socket # "none"
  /\ pc' = [pc EXCEPT ![t] = "wait"]
  /\ Enqueue(t)
  /\ UNCHANGED <<worldVars, clientVars, attempt, want, buf, got, seen, sendErr>>

\* Mutant: the poll does not wait for the lock.
PollBegin_NoLock(t) ==
  /\ pc[t] = "wait"
  /\ pc' = [pc EXCEPT ![t] = "reading"]
  /\ BeginTenure
  /\ UNCHANGED <<worldVars, clientVars, lockQ, attempt, want, buf, got, sendErr>>

\* The lock is ours: _fetch_state_blocking starts, drains the socket and
\* sends a keepalive that nobody waits for.
PollBegin(t) ==
  /\ pc[t] = "wait"
  /\ Holds(t)
  /\ pc' = [pc EXCEPT ![t] = "reading"]
  /\ BeginTenure
  /\ UNCHANGED <<worldVars, clientVars, lockQ, attempt, want, buf, got, sendErr>>

\* get_full_state_pdus asks for the next parameter and gets an answer.
PollRead(t) ==
  /\ pc[t] = "reading"
  /\ Len(buf[t]) < NumParams
  /\ Answering
  /\ buf' = [buf EXCEPT ![t] = Append(@, speaker[Len(@) + 1])]
  /\ UNCHANGED <<worldVars, clientVars, lockQ, pc, attempt, want, got, seen, sendErr>>

\* A parameter stays unanswered: the whole batch is dropped.
PollReadFails(t) ==
  /\ pc[t] = "reading"
  /\ Len(buf[t]) < NumParams
  /\ ~Answering
  /\ pc' = [pc EXCEPT ![t] = "failed"]
  /\ buf' = [buf EXCEPT ![t] = <<>>]
  /\ UNCHANGED <<worldVars, clientVars, lockQ, attempt, want, got, seen, sendErr>>

\* Still in the executor: self.state = new_state.
PollPublish(t) ==
  /\ pc[t] = "reading"
  /\ Len(buf[t]) = NumParams
  /\ state' = buf[t]
  /\ pc' = [pc EXCEPT ![t] = "published"]
  /\ buf' = [buf EXCEPT ![t] = <<>>]
  /\ UNCHANGED <<worldVars, socket, available, failures, hadPoll, lockQ,
                 attempt, want, got, seen, sendErr>>

\* Back on the event loop: _update_availability, then the lock is released.
PollFinish(t) ==
  /\ \/ pc[t] = "published" /\ SuccessfulPoll
     \/ pc[t] = "failed" /\ FailedPoll
  /\ pc' = [pc EXCEPT ![t] = "idle"]
  /\ Release
  /\ UNCHANGED <<worldVars, socket, state, attempt, want, buf, got>>

----------------------------------------------------------------------------
(* _async_send_with_retry and _async_send: the commands. *)

CommandRequest(c, w) ==
  /\ pc[c] = "idle"
  /\ socket # "none"
  /\ want' = [want EXCEPT ![c] = w]
  /\ attempt' = [attempt EXCEPT ![c] = 1]
  /\ pc' = [pc EXCEPT ![c] = "wait"]
  /\ Enqueue(c)
  /\ UNCHANGED <<worldVars, clientVars, buf, got, seen, sendErr>>

\* Mutant: a send that worked counts as a sign of life.
CommandSend_ProvesLife(c) ==
  /\ pc[c] = "wait"
  /\ Holds(c)
  /\ socket = "open"
  /\ inflight' = IF want[c] = Identify THEN inflight ELSE inflight \cup {want[c]}
  /\ pc' = [pc EXCEPT ![c] = "sent"]
  /\ BeginTenure
  /\ _note_reachable
  /\ UNCHANGED <<speaker, reachable, socket, state, hadPoll, lockQ, attempt,
                 want, buf, got>>

\* _run_set: the datagram is handed to the network.  UDP reports nothing
\* back, so this succeeds whether or not anybody is listening.
CommandSend(c) ==
  /\ pc[c] = "wait"
  /\ Holds(c)
  /\ socket = "open"
  /\ inflight' = IF want[c] = Identify THEN inflight ELSE inflight \cup {want[c]}
  /\ pc' = [pc EXCEPT ![c] = "sent"]
  /\ BeginTenure
  /\ UNCHANGED <<speaker, reachable, clientVars, lockQ, attempt, want, buf, got, sendErr>>

\* The send raises OSError: the socket is closed, the network is down, or the
\* host answered an earlier datagram with "port unreachable".
CommandSendFails(c) ==
  /\ pc[c] = "wait"
  /\ Holds(c)
  /\ ~Answering
  /\ pc' = [pc EXCEPT ![c] = "sendFailed"]
  /\ BeginTenure
  /\ UNCHANGED <<worldVars, clientVars, lockQ, attempt, want, buf, got, sendErr>>

\* The command ends and its task is free for another one.
Finish(c) ==
  /\ pc' = [pc EXCEPT ![c] = "idle"]
  /\ want' = [want EXCEPT ![c] = NoValue]
  /\ attempt' = [attempt EXCEPT ![c] = 1]

\* Mutant: one attempt too many.
Retry_OffByOne(c) ==
  \/ /\ attempt[c] <= MaxRetries
     /\ pc' = [pc EXCEPT ![c] = "sleep"]
     /\ UNCHANGED <<want, attempt>>
  \/ /\ attempt[c] > MaxRetries
     /\ Finish(c)

\* An attempt did not confirm the value: sleep before the next one, or raise.
Retry(c) ==
  \/ /\ attempt[c] < MaxRetries
     /\ pc' = [pc EXCEPT ![c] = "sleep"]
     /\ UNCHANGED <<want, attempt>>
  \/ /\ attempt[c] = MaxRetries
     /\ Finish(c)

\* The OSError reaches the event loop.
HandleSendFailure(c) ==
  /\ pc[c] = "sendFailed"
  /\ available' = FALSE
  /\ sendErr' = TRUE
  /\ IF want[c] = Identify THEN Finish(c) ELSE Retry(c)
  /\ Release
  /\ UNCHANGED <<worldVars, socket, state, failures, hadPoll, buf, got>>

IdentifySent(c) ==
  /\ pc[c] = "sent"
  /\ want[c] = Identify
  /\ Finish(c)
  /\ Release
  /\ UNCHANGED <<worldVars, clientVars, buf, got, sendErr>>

\* The verification read is answered.
VerifyRead(c) ==
  /\ pc[c] = "sent"
  /\ want[c] # Identify
  /\ Answering
  /\ got' = [got EXCEPT ![c] = speaker[want[c][1]]]
  /\ pc' = [pc EXCEPT ![c] = "answered"]
  /\ UNCHANGED <<worldVars, clientVars, lockQ, attempt, want, buf, seen, sendErr>>

\* The verification read times out, or finds the socket closed.
VerifyFails(c) ==
  /\ pc[c] = "sent"
  /\ want[c] # Identify
  /\ ~Answering
  /\ pc' = [pc EXCEPT ![c] = "silent"]
  /\ UNCHANGED <<worldVars, clientVars, lockQ, attempt, want, buf, got, seen, sendErr>>

\* The answer is the value asked for: the setter stores it right after the
\* lock is released, before any other task runs.
Confirmed(c) ==
  /\ pc[c] = "answered"
  /\ got[c] = want[c][2]
  /\ _note_reachable
  /\ state' = [state EXCEPT ![want[c][1]] = want[c][2]]
  /\ Finish(c)
  /\ got' = [got EXCEPT ![c] = NoValue]
  /\ Release
  /\ UNCHANGED <<worldVars, socket, hadPoll, buf>>

Mismatch(c) ==
  /\ pc[c] = "answered"
  /\ got[c] # want[c][2]
  /\ _note_reachable
  /\ Retry(c)
  /\ got' = [got EXCEPT ![c] = NoValue]
  /\ Release
  /\ UNCHANGED <<worldVars, socket, state, hadPoll, buf>>

\* Mutant: the value is stored although nothing confirmed it.
Unconfirmed_Optimistic(c) ==
  /\ pc[c] = "silent"
  /\ Retry(c)
  /\ Release
  /\ state' = [state EXCEPT ![want[c][1]] = want[c][2]]
  /\ UNCHANGED <<worldVars, socket, available, failures, hadPoll, buf, got, sendErr>>

\* Mutant: a failed read-back leaves the lock taken.
Unconfirmed_KeepsLock(c) ==
  /\ pc[c] = "silent"
  /\ Retry(c)
  /\ UNCHANGED <<worldVars, clientVars, lockQ, buf, got, seen, sendErr>>

Unconfirmed(c) ==
  /\ pc[c] = "silent"
  /\ Retry(c)
  /\ Release
  /\ UNCHANGED <<worldVars, clientVars, buf, got, sendErr>>

\* Mutant: attempts are not counted.
WakeUp_Forever(c) ==
  /\ pc[c] = "sleep"
  /\ pc' = [pc EXCEPT ![c] = "wait"]
  /\ Enqueue(c)
  /\ UNCHANGED <<worldVars, clientVars, attempt, want, buf, got, seen, sendErr>>

\* RETRY_DELAY is over: queue for the lock again.
WakeUp(c) ==
  /\ pc[c] = "sleep"
  /\ attempt' = [attempt EXCEPT ![c] = @ + 1]
  /\ pc' = [pc EXCEPT ![c] = "wait"]
  /\ Enqueue(c)
  /\ UNCHANGED <<worldVars, clientVars, want, buf, got, seen, sendErr>>

----------------------------------------------------------------------------
\* What a poll does once it has been asked for.
PollStep(t) ==
  \/ PollBegin(t) \/ PollRead(t) \/ PollReadFails(t)
  \/ PollPublish(t) \/ PollFinish(t)

\* What a command does once it has been asked for.
CommandStep(c) ==
  \/ CommandSend(c) \/ CommandSendFails(c) \/ HandleSendFailure(c)
  \/ IdentifySent(c) \/ VerifyRead(c) \/ VerifyFails(c)
  \/ Confirmed(c) \/ Mismatch(c) \/ Unconfirmed(c) \/ WakeUp(c)

World ==
  \/ \E p \in Params, v \in Values : Knob(p, v) \/ Deliver(p, v) \/ Lose(p, v)
  \/ Toggle

Next ==
  \/ World
  \/ async_setup
  \/ async_shutdown
  \/ \E t \in Pollers : PollRequest(t) \/ PollStep(t)
  \/ \E c \in Commanders :
       (\E w \in Jobs : CommandRequest(c, w)) \/ CommandStep(c)

Spec == Init /\ [][Next]_vars

----------------------------------------------------------------------------
Labels == {"idle", "wait", "reading", "published", "failed", "sent",
           "sendFailed", "answered", "silent", "sleep"}

TypeOK ==
  /\ speaker \in [Params -> Values]
  /\ reachable \in BOOLEAN
  /\ inflight \subseteq Sets
  /\ socket \in {"none", "open", "closed"}
  /\ state \in [Params -> Values]
  /\ available \in BOOLEAN
  /\ failures \in 0..FailureCap
  /\ hadPoll \in BOOLEAN
  /\ lockQ \in Seq(Tasks)
  /\ pc \in [Tasks -> Labels]
  /\ attempt \in [Commanders -> 1..MaxRetries]
  /\ want \in [Commanders -> Sets \cup {Identify, NoValue}]
  /\ buf \in [Pollers -> Seq(Values)]
  /\ got \in [Commanders -> Values \cup {NoValue}]
  /\ seen \in [Params -> SUBSET Values]
  /\ sendErr \in BOOLEAN

\* A task is inside `async with self._lock`, past the first executor job.
UsingSocket(t) ==
  pc[t] \in {"reading", "published", "failed", "sent", "sendFailed",
             "answered", "silent"}

\* "A single asyncio.Lock serialises all access so commands and polls never
\* interleave on the UDP socket": two tasks are never both between their
\* first executor job and the handling of its result.
NeverInterleave ==
  \A t, u \in Tasks : UsingSocket(t) /\ UsingSocket(u) => t = u

\* A failed poll before the first good one, or UnavailableAfter failed polls
\* in a row, leave the speaker unavailable, whatever the commands did between
\* them; a retry that is late or a send that worked does not hide it.
SilentIsUnavailable ==
  (failures >= UnavailableAfter \/ (~hadPoll /\ failures > 0)) => ~available

\* Once a poll has succeeded, the speaker is not reported unavailable for
\* fewer than UnavailableAfter failed polls in a row unless a send raised
\* since the speaker last answered: one dropped poll does not flap it.
Debounced ==
  hadPoll /\ ~available => failures >= UnavailableAfter \/ sendErr

\* Whatever a step makes the entities show is something the speaker really
\* was during the lock tenure of the task that shows it, for every parameter
\* it publishes: no optimistic value, no poll overwriting a newer command
\* with what it read before it, no mix of two polls.
PublishesFresh ==
  [][ /\ \A p \in Params : state'[p] # state[p] => state'[p] \in seen[p]
      /\ \A t \in Pollers : pc[t] = "reading" /\ pc'[t] = "published" =>
           \A p \in Params : state'[p] \in seen[p] ]_vars

\* A command always ends, with the value confirmed or an error, and so does a
\* poll: the attempts are bounded, and neither keeps the lock from the other.
CallsEnd == \A t \in Tasks : []<>(pc[t] = "idle")

----------------------------------------------------------------------------
\* A good poll counts from the moment its executor job stores the state; its
\* verdict on availability follows in the same tenure of the lock.
Published == \E t \in Pollers : pc[t] = "published"

\* The attempts of each command that were in vain.
Tried ==
  [c \in Commanders |-> IF pc[c] = "sleep" THEN attempt[c] ELSE attempt[c] - 1]

Tenure == INSTANCE Tenures WITH
  available <- available \/ Published,
  failures  <- IF Published THEN 0 ELSE failures,
  hadPoll   <- hadPoll \/ Published,
  job       <- want,
  tried     <- Tried

\* To those who share it the client is as if each poll, and each attempt of a
\* command, were one step: what a poll stores and what it says of the
\* speaker's availability come at once, no command comes in between, and an
\* attempt changes nothing before it is over.
ImplementsTenures == Tenure!Spec
=============================================================================
