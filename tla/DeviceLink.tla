----------------------------- MODULE DeviceLink -----------------------------
(***************************************************************************)
(* Device (lib/pyadamaudiocontroller/device.py): requests and replies over *)
(* one connected UDP socket.  Replies are matched to requests by a handle  *)
(* that wraps, SETs are sent without waiting for their acknowledgement,    *)
(* polls drain the socket and retry a failed read, verification reads do   *)
(* neither.                                                                *)
(*                                                                         *)
(* The network loses, delays, duplicates and reorders: a datagram sent is  *)
(* in a set from which it may be delivered any number of times, in any     *)
(* order, or never.  The one thing assumed of it is that no datagram       *)
(* outlives the HandleMax commands after which its handle comes back       *)
(* (0xFFFFFFFF in the code; see Expire).  Each datagram carries one PDU:   *)
(* the client never sends more, and the speaker answers each separately.   *)
(***************************************************************************)
EXTENDS Integers, Sequences

CONSTANTS
  Params,          \* the parameters that can be read and set
  Values,          \* what a reply may report for one
  NoParam,         \* no read is under way
  NoValue,         \* a reply without a usable value: an acknowledgement, an
                   \* error status, too few parameters; also a failed read
  Cut,             \* what a response that was cut short reports
  HandleMax,       \* 0xFFFFFFFF in the code
  MatchAttempts,   \* RESPONSE_MATCH_ATTEMPTS (8 in the code)
  RetryAttempts,   \* POLL_RETRY_ATTEMPTS (1 in the code)
  MaxBuffer        \* the socket's receive buffer; what does not fit is lost

ASSUME LinkAssumption ==
  /\ NoParam \notin Params
  /\ NoValue \notin Values
  /\ Cut \notin Values \cup {NoValue}
  /\ HandleMax \in Nat \ {0}
  /\ MatchAttempts \in Nat \ {0}
  /\ RetryAttempts \in Nat
  /\ MaxBuffer \in Nat

VARIABLES
  value,     \* the speaker's parameters
  requests,  \* commands the speaker may still receive: [handle, param, set],
             \* where set is the value to store, or NoValue for a GET
  replies,   \* responses the client may still receive: [handle, report]
  rx,        \* the socket's receive buffer
  handle,    \* Device._handle
  asked,     \* the parameter a read waits for, or NoParam
  retries,   \* how many times the read may still be repeated
  skipped,   \* datagrams receive_matching_response has looked at
  outcome,   \* what the last read returned
  window     \* history: values the parameter had since it was asked for

network == <<requests, replies>>
vars == <<value, network, rx, handle, asked, retries, skipped, outcome, window>>

Handles   == 1..HandleMax
Requests  == [handle : Handles, param : Params, set : Values \cup {NoValue}]
Responses == [handle : Handles, report : Values \cup {NoValue}]

\* A datagram that is no response: a keepalive acknowledgement, or bytes that
\* are no message at all.  It has no handle; 0 is never one.
Junk == [handle |-> 0, report |-> NoValue]

\* What may reach the socket.
Datagrams == [handle : Handles \cup {0}, report : Values \cup {NoValue, Cut}]

Reading == asked # NoParam

Init ==
  /\ value \in [Params -> Values]
  /\ requests = {}
  /\ replies = {}
  /\ rx = <<>>
  /\ handle = 0
  /\ asked = NoParam
  /\ retries = 0
  /\ skipped = 0
  /\ outcome = NoValue
  /\ window = {}

----------------------------------------------------------------------------
(* The speaker and the network. *)

Becomes(p, v) ==
  /\ value' = [value EXCEPT ![p] = v]
  /\ window' = IF asked = p THEN window \cup {v} ELSE window

Knob(p, v) ==
  /\ value[p] # v
  /\ Becomes(p, v)
  /\ UNCHANGED <<network, rx, handle, asked, retries, skipped, outcome>>

\* The speaker handles a GET: it reports the value, or an error status.
AnswerGet(d) ==
  /\ d.set = NoValue
  /\ \E r \in {value[d.param], NoValue} :
       replies' = replies \cup {[handle |-> d.handle, report |-> r]}
  /\ UNCHANGED <<value, requests, rx, handle, asked, retries, skipped, outcome, window>>

\* The speaker handles a SET and acknowledges it.
PerformSet(d) ==
  /\ d.set # NoValue
  /\ Becomes(d.param, d.set)
  /\ replies' = replies \cup {[handle |-> d.handle, report |-> NoValue]}
  /\ UNCHANGED <<requests, rx, handle, asked, retries, skipped, outcome>>

\* A datagram reaches the socket: a response, whole or cut short, or junk.
Arrive(d) ==
  /\ d \in replies \cup {[r EXCEPT !.report = Cut] : r \in replies} \cup {Junk}
  /\ Len(rx) < MaxBuffer
  /\ rx' = Append(rx, d)
  /\ UNCHANGED <<value, network, handle, asked, retries, skipped, outcome, window>>

----------------------------------------------------------------------------
(* Sending. *)

\* Mutant: the handle wraps too early.
_allocate_handle_Narrow == handle' = (handle % (HandleMax - 1)) + 1

_allocate_handle == handle' = (handle % HandleMax) + 1

\* A command goes out while the receive buffer holds q.  The handle due next
\* was last used HandleMax commands ago: nothing that carries it is left, or
\* if it still sits in the buffer it is no better than junk.
_command(p, v, q) ==
  LET Alive(d) == d.handle # (handle % HandleMax) + 1
  IN /\ _allocate_handle
     /\ requests' = {d \in requests : Alive(d)}
                      \cup {[handle |-> handle', param |-> p, set |-> v]}
     /\ replies' = {d \in replies : Alive(d)}
     /\ rx' = [i \in 1..Len(q) |-> IF Alive(q[i]) THEN q[i] ELSE Junk]

\* A setter sends its command and waits for nothing.
Set(p, v) ==
  /\ ~Reading
  /\ _command(p, v, rx)
  /\ UNCHANGED <<value, asked, retries, skipped, outcome, window>>

\* drain, before a poll: empties the buffer, or stops early at a socket error.
drain ==
  /\ ~Reading
  /\ rx # <<>>
  /\ \E n \in 1..Len(rx) : rx' = SubSeq(rx, n + 1, Len(rx))
  /\ UNCHANGED <<value, network, handle, asked, retries, skipped, outcome, window>>

\* send_keepalive, when the session starts: takes the first datagram that comes
\* for its acknowledgement.  (The keepalive itself has no handle and changes
\* nothing; what the speaker sends back is Junk; a timeout changes nothing.)
send_keepalive ==
  /\ ~Reading
  /\ rx # <<>>
  /\ rx' = Tail(rx)
  /\ UNCHANGED <<value, network, handle, asked, retries, skipped, outcome, window>>

----------------------------------------------------------------------------
(* Reading: _request for a verification, _request_with_retry in a poll. *)

Ask(p) ==
  /\ ~Reading
  /\ _command(p, NoValue, rx)
  /\ asked' = p
  /\ retries' \in {0, RetryAttempts}
  /\ skipped' = 0
  /\ outcome' = NoValue
  /\ window' = {value[p]}
  /\ UNCHANGED value

\* The read is over.
Return(r) ==
  /\ outcome' = r
  /\ asked' = NoParam
  /\ window' = {}
  /\ retries' = 0
  /\ skipped' = 0
  /\ UNCHANGED <<value, network, handle>>

\* An exception ends the attempt with q left in the buffer: ask again under a
\* new handle, or give up.
Raise(q) ==
  \/ /\ retries > 0
     /\ retries' = retries - 1
     /\ skipped' = 0
     /\ _command(asked, NoValue, q)
     /\ UNCHANGED <<value, asked, outcome, window>>
  \/ /\ retries = 0
     /\ rx' = q
     /\ Return(NoValue)

\* The socket times out or reports an error, when sending or when receiving.
Fail == Reading /\ Raise(rx)

\* Mutant: any response will do.
Matches_AnyHandle(d) == d.handle # 0 /\ d.report # Cut

\* The response belongs to the command that is waited for.
Matches(d) == d.handle = handle /\ d.report # Cut

\* receive_matching_response finds its response; without a usable value (an
\* error status, too few parameters) that is an error too.
Match ==
  /\ Reading
  /\ rx # <<>>
  /\ Matches(Head(rx))
  /\ IF Head(rx).report \in Values
       THEN rx' = Tail(rx) /\ Return(Head(rx).report)
       ELSE Raise(Tail(rx))

\* Mutant: junk and stale responses are skipped without counting them.
Skip_Uncounted ==
  /\ Reading
  /\ rx # <<>>
  /\ ~Matches(Head(rx)) /\ Head(rx).report # Cut
  /\ rx' = Tail(rx)
  /\ UNCHANGED <<value, network, handle, asked, retries, skipped, outcome, window>>

\* Mutant: one datagram too many is looked at.
Skip_OffByOne ==
  /\ Reading
  /\ rx # <<>>
  /\ ~Matches(Head(rx)) /\ Head(rx).report # Cut
  /\ IF skipped < MatchAttempts
       THEN /\ skipped' = skipped + 1
            /\ rx' = Tail(rx)
            /\ UNCHANGED <<value, network, handle, asked, retries, outcome, window>>
       ELSE Raise(Tail(rx))

\* Junk, or a response to an earlier command: look at the next datagram, but
\* at no more than MatchAttempts of them.
Skip ==
  /\ Reading
  /\ rx # <<>>
  /\ ~Matches(Head(rx)) /\ Head(rx).report # Cut
  /\ IF skipped + 1 < MatchAttempts
       THEN /\ skipped' = skipped + 1
            /\ rx' = Tail(rx)
            /\ UNCHANGED <<value, network, handle, asked, retries, outcome, window>>
       ELSE Raise(Tail(rx))

\* A response cut short raises before its handle is looked at.
ReceiveCut ==
  /\ Reading
  /\ rx # <<>>
  /\ Head(rx).report = Cut
  /\ Raise(Tail(rx))

----------------------------------------------------------------------------
Receive == Match \/ Skip \/ ReceiveCut

World ==
  \/ \E p \in Params, v \in Values : Knob(p, v)
  \/ \E d \in requests : AnswerGet(d) \/ PerformSet(d)
  \/ \E d \in Datagrams : Arrive(d)

Next ==
  \/ World
  \/ \E p \in Params : Ask(p) \/ (\E v \in Values : Set(p, v))
  \/ drain \/ send_keepalive
  \/ Receive
  \/ Fail

Spec == Init /\ [][Next]_vars

\* A read that waits gets a datagram or, after the socket timeout, an error.
FairSpec == Spec /\ WF_vars(Receive \/ Fail)

----------------------------------------------------------------------------
TypeOK ==
  /\ value \in [Params -> Values]
  /\ requests \subseteq Requests
  /\ replies \subseteq Responses
  /\ rx \in Seq(Datagrams)
  /\ handle \in Handles \cup {0}
  /\ asked \in Params \cup {NoParam}
  /\ retries \in 0..RetryAttempts
  /\ skipped \in 0..(MatchAttempts - 1)
  /\ outcome \in Values \cup {NoValue}
  /\ window \subseteq Values

\* Every usable response that carries the handle waited for, wherever it is,
\* reports a value the parameter had since it was asked for: late answers to
\* earlier reads, to reads of other parameters and to a read's own first
\* attempt can all still arrive, and none of them can be taken for it.
OnlyOurAnswersMatch ==
  Reading =>
    \A d \in replies \cup {rx[i] : i \in 1..Len(rx)} :
      Matches(d) /\ d.report \in Values => d.report \in window

\* The device layer implements the register the client module builds on.
Register == INSTANCE FreshRead
              WITH value <- value, asked <- asked, window <- window, outcome <- outcome
ImplementsRegister == Register!Spec

\* A read ends, however much junk keeps arriving.
ReadsEnd == Reading ~> ~Reading
=============================================================================
