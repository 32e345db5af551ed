------------------------------- MODULE Tenures -------------------------------
(***************************************************************************)
(* What a client promises those who share it: it is as if each poll and    *)
(* each attempt of a command, which take a tenure of the client's lock and *)
(* several steps, were one step.                                           *)
(***************************************************************************)
EXTENDS Naturals

CONSTANTS   \* as in Client
  Params, Values, Commanders, MaxRetries, UnavailableAfter, FailureCap,
  Identify, NoValue, Jobs

VARIABLES
  state, available, failures, hadPoll,   \* as in Client
  job,      \* what each commander is doing, or NoValue
  tried     \* its attempts that were in vain

shared == <<state, available, failures, hadPoll>>
calls  == <<job, tried>>
vars   == <<shared, calls>>

Init ==
  /\ state \in [Params -> Values]
  /\ available = FALSE
  /\ failures = 0
  /\ hadPoll = FALSE
  /\ job = [c \in Commanders |-> NoValue]
  /\ tried = [c \in Commanders |-> 0]

\* After Init and a good poll, before anything was asked.
Loaded ==
  /\ state \in [Params -> Values]
  /\ available /\ hadPoll
  /\ failures = 0
  /\ job = [c \in Commanders |-> NoValue]
  /\ tried = [c \in Commanders |-> 0]

Answered == failures' = 0 /\ available' = TRUE

\* A poll reads everything, and stores it.
GoodPoll ==
  /\ state' \in [Params -> Values]
  /\ hadPoll' = TRUE
  /\ Answered
  /\ UNCHANGED calls

\* Before the first good poll a bad one is enough to be unavailable, later it
\* takes UnavailableAfter of them in a row.
BadPoll ==
  /\ failures' = IF failures < FailureCap THEN failures + 1 ELSE failures
  /\ available' = (available /\ hadPoll /\ failures' < UnavailableAfter)
  /\ UNCHANGED <<state, hadPoll, calls>>

\* The session is set up, which may show whether the speaker is there.
Connect ==
  /\ ~hadPoll /\ failures = 0
  /\ job = [c \in Commanders |-> NoValue]
  /\ available' \in BOOLEAN
  /\ UNCHANGED <<state, failures, hadPoll, calls>>

Ask(c, w) ==
  /\ job[c] = NoValue
  /\ job' = [job EXCEPT ![c] = w]
  /\ UNCHANGED <<shared, tried>>

Done(c) ==
  /\ job' = [job EXCEPT ![c] = NoValue]
  /\ tried' = [tried EXCEPT ![c] = 0]

\* An attempt was in vain: there is another one, or the command is over.
Again(c) ==
  \/ tried[c] + 1 < MaxRetries /\ tried' = [tried EXCEPT ![c] = @ + 1] /\ UNCHANGED job
  \/ tried[c] + 1 = MaxRetries /\ Done(c)

\* The value is read back, and only now it is stored.
Confirm(c) ==
  /\ job[c] \in Params \X Values
  /\ state' = [state EXCEPT ![job[c][1]] = job[c][2]]
  /\ Answered
  /\ Done(c)
  /\ UNCHANGED hadPoll

\* Another value is read back.
Mismatch(c) ==
  /\ job[c] \in Params \X Values
  /\ Answered
  /\ Again(c)
  /\ UNCHANGED <<state, hadPoll>>

\* Nothing is read back, which says nothing about the speaker.
NoAnswer(c) ==
  /\ job[c] \in Params \X Values
  /\ Again(c)
  /\ UNCHANGED shared

\* The datagram could not even be sent.
SendFails(c) ==
  /\ job[c] # NoValue
  /\ available' = FALSE
  /\ IF job[c] = Identify THEN Done(c) ELSE Again(c)
  /\ UNCHANGED <<state, failures, hadPoll>>

Identified(c) ==
  /\ job[c] = Identify
  /\ Done(c)
  /\ UNCHANGED shared

Next ==
  \/ GoodPoll \/ BadPoll \/ Connect
  \/ \E c \in Commanders :
       \/ \E w \in Jobs : Ask(c, w)
       \/ Confirm(c) \/ Mismatch(c) \/ NoAnswer(c) \/ SendFails(c) \/ Identified(c)

Spec == Init /\ [][Next]_vars
=============================================================================
