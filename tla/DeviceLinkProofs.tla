-------------------------- MODULE DeviceLinkProofs --------------------------
(***************************************************************************)
(* Proofs about DeviceLink, for any parameters, values, handle width,      *)
(* attempt limits and buffer size: what the device layer returns is fresh. *)
(* The invariant says of each place a datagram can be, from the request on *)
(* its way to the response in the buffer, that if it carries the handle    *)
(* waited for it belongs to the read that waits.                           *)
(***************************************************************************)
EXTENDS DeviceWire, WireProofs

\* The requests with the current handle are the current read's.
OnlyOurRequests ==
  Reading => \A d \in requests :
               d.handle = handle => d.param = asked /\ d.set = NoValue

\* The responses with the current handle answer the current read.
OnlyOurReplies ==
  Reading => \A d \in replies :
               d.handle = handle /\ d.report \in Values => d.report \in window

OnlyOurBuffer ==
  Reading => \A i \in 1..Len(rx) :
               rx[i].handle = handle /\ rx[i].report \in Values
                 => rx[i].report \in window

WindowOpen == Reading => value[asked] \in window

\* Nothing has a handle before the first command.
HandleGiven == Reading => handle # 0

IInv ==
  /\ TypeOK
  /\ WindowOpen
  /\ HandleGiven
  /\ OnlyOurRequests
  /\ OnlyOurReplies
  /\ OnlyOurBuffer

LEMMA InitIInv == Init => IInv
<1> SUFFICES ASSUME Init PROVE IInv
  OBVIOUS
<1>1. 0 \in 0..RetryAttempts /\ 0 \in 0..(MatchAttempts - 1)
  BY LinkAssumption
<1>2. <<>> \in Seq(Datagrams)
  OBVIOUS
<1>3. TypeOK
  BY <1>1, <1>2 DEF Init, TypeOK
<1> QED
  BY <1>3 DEF Init, IInv, Reading, WindowOpen, HandleGiven, OnlyOurRequests,
              OnlyOurReplies, OnlyOurBuffer

\* A new handle is one of the handles, and only the new request carries it.
LEMMA CommandIsolates ==
  ASSUME TypeOK, NEW p \in Params, NEW v \in Values \cup {NoValue},
         NEW q \in Seq(Datagrams), _command(p, v, q)
  PROVE  /\ handle' \in Handles
         /\ requests' \subseteq Requests
         /\ replies' \subseteq Responses
         /\ rx' \in Seq(Datagrams)
         /\ \A d \in requests' : d.handle = handle' => d.param = p /\ d.set = v
         /\ \A d \in replies' : d.handle # handle'
         /\ \A i \in 1..Len(rx') : rx'[i].handle # handle'
<1> DEFINE h == (handle % HandleMax) + 1
           Alive(d) == d.handle # h
           new == [handle |-> handle', param |-> p, set |-> v]
<1>1. handle' = h /\ h \in Handles /\ h # 0
  BY LinkAssumption DEF _command, _allocate_handle, TypeOK, Handles
<1>2. requests' = {d \in requests : Alive(d)} \cup {new}
  BY DEF _command
<1>3. new \in Requests
  BY <1>1 DEF Requests
<1>4. replies' = {d \in replies : Alive(d)}
  BY DEF _command
<1>5. rx' = [i \in 1..Len(q) |-> IF Alive(q[i]) THEN q[i] ELSE Junk]
  BY DEF _command
<1>6. Junk \in Datagrams /\ Junk.handle = 0
  BY DEF Junk, Datagrams
<1>7. rx' \in Seq(Datagrams) /\ Len(rx') = Len(q)
  BY <1>5, <1>6
<1>8. \A i \in 1..Len(rx') : rx'[i].handle # handle'
  BY <1>1, <1>5, <1>6, <1>7
<1> QED
  BY <1>1, <1>2, <1>3, <1>4, <1>7, <1>8 DEF TypeOK

\* Reading under a new handle: nothing in flight can be mistaken for the answer.
LEMMA AskKeepsIInv ==
  ASSUME TypeOK, NEW p \in Params, NEW q \in Seq(Datagrams),
         _command(p, NoValue, q), asked' = p, value' = value,
         outcome' \in Values \cup {NoValue}, skipped' = 0,
         retries' \in 0..RetryAttempts,
         window' \subseteq Values, value[p] \in window'
  PROVE  IInv'
<1>1. /\ handle' \in Handles
      /\ requests' \subseteq Requests /\ replies' \subseteq Responses
      /\ rx' \in Seq(Datagrams)
      /\ \A d \in requests' : d.handle = handle' => d.param = p /\ d.set = NoValue
      /\ \A d \in replies' : d.handle # handle'
      /\ \A i \in 1..Len(rx') : rx'[i].handle # handle'
  BY CommandIsolates
<1>2. TypeOK'
  <2>1. 0 \in 0..(MatchAttempts - 1)
    BY LinkAssumption
  <2> QED
    BY <1>1, <2>1 DEF TypeOK
<1>3. WindowOpen' /\ HandleGiven'
  BY <1>1 DEF WindowOpen, HandleGiven, Handles
<1>4. OnlyOurRequests' /\ OnlyOurReplies' /\ OnlyOurBuffer'
  BY <1>1 DEF OnlyOurRequests, OnlyOurReplies, OnlyOurBuffer
<1> QED
  BY <1>2, <1>3, <1>4 DEF IInv

\* A read that is over.
LEMMA ReturnKeepsIInv ==
  ASSUME TypeOK, NEW r \in Values \cup {NoValue}, NEW q \in Seq(Datagrams),
         rx' = q, Return(r)
  PROVE  IInv'
<1>1. ~Reading'
  BY DEF Return, Reading
<1>2. 0 \in 0..(MatchAttempts - 1) /\ 0 \in 0..RetryAttempts
  BY LinkAssumption
<1>3. TypeOK'
  BY <1>2 DEF Return, TypeOK, network
<1> QED
  BY <1>1, <1>3 DEF IInv, WindowOpen, HandleGiven, OnlyOurRequests,
       OnlyOurReplies, OnlyOurBuffer

LEMMA RaiseKeepsIInv ==
  ASSUME IInv, Reading, NEW q \in Seq(Datagrams), Raise(q)
  PROVE  IInv'
<1>1. asked \in Params
  BY DEF IInv, TypeOK, Reading
<1>2. CASE retries > 0 /\ retries' = retries - 1 /\ skipped' = 0
           /\ _command(asked, NoValue, q)
           /\ UNCHANGED <<value, asked, outcome, window>>
  <2>1. retries' \in 0..RetryAttempts
    BY <1>2, LinkAssumption DEF IInv, TypeOK
  <2>2. value[asked] \in window'
    BY <1>2 DEF IInv, WindowOpen
  <2> QED
    BY <1>1, <1>2, <2>1, <2>2, AskKeepsIInv DEF IInv, TypeOK
<1>3. CASE rx' = q /\ Return(NoValue)
  BY <1>3, ReturnKeepsIInv DEF IInv
<1> QED
  BY <1>2, <1>3 DEF Raise

\* The speaker changes under a read: the window follows it.
LEMMA BecomesKeepsWindow ==
  ASSUME IInv, NEW p \in Params, NEW v \in Values, Becomes(p, v), asked' = asked
  PROVE  /\ value' \in [Params -> Values]
         /\ window' \subseteq Values
         /\ window \subseteq window'
         /\ WindowOpen'
BY DEF Becomes, IInv, TypeOK, WindowOpen, Reading

LEMMA NextIInv ==
  ASSUME IInv, [Next]_vars
  PROVE  IInv'
<1> USE DEF network
<1>0. /\ rx \in Seq(Datagrams) /\ replies \subseteq Responses
      /\ requests \subseteq Requests
  BY DEF IInv, TypeOK
<1>1. ASSUME NEW p \in Params, NEW v \in Values, Knob(p, v) PROVE IInv'
  BY <1>1, BecomesKeepsWindow DEF Knob, IInv, TypeOK, HandleGiven, Reading,
     OnlyOurRequests, OnlyOurReplies, OnlyOurBuffer
<1>2. ASSUME NEW d \in requests, AnswerGet(d) PROVE IInv'
  <2>1. PICK r \in {value[d.param], NoValue} :
          replies' = replies \cup {[handle |-> d.handle, report |-> r]}
    BY <1>2 DEF AnswerGet
  <2>2. d.handle \in Handles /\ d.param \in Params
    BY <1>0 DEF Requests
  <2>3. [handle |-> d.handle, report |-> r] \in Responses
    BY <2>1, <2>2 DEF Responses, IInv, TypeOK
  <2>4. UNCHANGED <<value, requests, rx, handle, asked, retries, skipped, outcome, window>>
    BY <1>2 DEF AnswerGet
  <2>5. TypeOK'
    BY <2>1, <2>3, <2>4 DEF IInv, TypeOK
  <2>6. OnlyOurReplies'
    BY <2>1, <2>4, LinkAssumption DEF IInv, OnlyOurRequests, OnlyOurReplies, WindowOpen, Reading
  <2> QED
    BY <2>4, <2>5, <2>6 DEF IInv, WindowOpen, HandleGiven, Reading,
       OnlyOurRequests, OnlyOurBuffer
<1>3. ASSUME NEW d \in requests, PerformSet(d) PROVE IInv'
  <2>1. d.param \in Params /\ d.set \in Values /\ d.handle \in Handles
    BY <1>0, <1>3 DEF PerformSet, Requests
  <2>2. replies' = replies \cup {[handle |-> d.handle, report |-> NoValue]}
    BY <1>3 DEF PerformSet
  <2>3. [handle |-> d.handle, report |-> NoValue] \in Responses
    BY <2>1 DEF Responses
  <2>4. /\ value' \in [Params -> Values] /\ window' \subseteq Values
        /\ window \subseteq window' /\ WindowOpen'
    BY <1>3, <2>1, BecomesKeepsWindow DEF PerformSet
  <2>5. UNCHANGED <<requests, rx, handle, asked, retries, skipped, outcome>>
    BY <1>3 DEF PerformSet
  <2>6. TypeOK'
    BY <2>2, <2>3, <2>4, <2>5 DEF IInv, TypeOK
  <2>7. OnlyOurReplies'
    BY <2>2, <2>4, <2>5, LinkAssumption DEF IInv, OnlyOurReplies, Reading
  <2> QED
    BY <2>4, <2>5, <2>6, <2>7 DEF IInv, HandleGiven, Reading, OnlyOurRequests,
       OnlyOurBuffer
<1>4. ASSUME NEW d \in Datagrams, Arrive(d) PROVE IInv'
  <2>1. Append(rx, d) \in Seq(Datagrams) /\ Len(Append(rx, d)) = Len(rx) + 1
        /\ \A i \in 1..Len(rx) : Append(rx, d)[i] = rx[i]
        /\ Append(rx, d)[Len(rx) + 1] = d
    BY <1>0
  <2>2. rx' = Append(rx, d)
        /\ UNCHANGED <<value, network, handle, asked, retries, skipped, outcome, window>>
    BY <1>4 DEF Arrive
  <2>3. Reading /\ d.handle = handle /\ d.report \in Values => d.report \in window
    <3>1. CASE d \in replies
      BY <3>1 DEF IInv, OnlyOurReplies
    <3>2. CASE d \in {[r EXCEPT !.report = Cut] : r \in replies}
      BY <1>0, <3>2, LinkAssumption DEF Responses
    <3>3. CASE d = Junk
      BY <3>3 DEF Junk, IInv, HandleGiven
    <3> QED
      BY <1>4, <3>1, <3>2, <3>3 DEF Arrive
  <2>4. OnlyOurBuffer'
    <3> SUFFICES ASSUME Reading, NEW i \in 1..Len(rx'),
                        rx'[i].handle = handle, rx'[i].report \in Values
                 PROVE  rx'[i].report \in window
      BY <2>2 DEF OnlyOurBuffer, Reading
    <3>1. CASE i = Len(rx) + 1
      BY <2>1, <2>2, <2>3, <3>1
    <3>2. CASE i \in 1..Len(rx)
      BY <2>1, <2>2, <3>2 DEF IInv, OnlyOurBuffer
    <3> QED
      BY <1>0, <2>1, <2>2, <3>1, <3>2
  <2>5. TypeOK'
    BY <2>1, <2>2 DEF IInv, TypeOK
  <2> QED
    BY <2>2, <2>4, <2>5 DEF IInv, WindowOpen, HandleGiven, Reading,
       OnlyOurRequests, OnlyOurReplies
<1>5. ASSUME NEW p \in Params, Ask(p) PROVE IInv'
  <2>1. /\ value[p] \in Values /\ retries' \in 0..RetryAttempts
    BY <1>5, LinkAssumption DEF Ask, IInv, TypeOK
  <2> QED
    BY <1>0, <1>5, <2>1, AskKeepsIInv DEF Ask, IInv
<1>6. ASSUME NEW p \in Params, NEW v \in Values, Set(p, v) PROVE IInv'
  <2>1. ~Reading' /\ ~Reading
    BY <1>6 DEF Set, Reading
  <2>2. TypeOK'
    BY <1>0, <1>6, CommandIsolates DEF Set, IInv, TypeOK
  <2> QED
    BY <2>1, <2>2 DEF IInv, WindowOpen, HandleGiven, OnlyOurRequests,
       OnlyOurReplies, OnlyOurBuffer
<1>7. CASE drain \/ send_keepalive
  <2>1. ~Reading' /\ UNCHANGED <<value, network, handle, asked, retries, skipped, outcome, window>>
    BY <1>7 DEF drain, send_keepalive, Reading
  <2>2. rx' \in Seq(Datagrams)
    <3>1. CASE drain
      BY <1>0, <3>1 DEF drain
    <3>2. CASE send_keepalive
      BY <1>0, <3>2 DEF send_keepalive
    <3> QED
      BY <1>7, <3>1, <3>2
  <2>3. TypeOK'
    BY <2>1, <2>2 DEF IInv, TypeOK
  <2> QED
    BY <2>1, <2>3 DEF IInv, WindowOpen, HandleGiven, OnlyOurRequests,
       OnlyOurReplies, OnlyOurBuffer
<1>8. CASE Fail
  BY <1>0, <1>8, RaiseKeepsIInv DEF Fail
<1>9. CASE Receive
  <2>1. /\ Reading /\ rx # <<>> /\ Head(rx) \in Datagrams
        /\ Tail(rx) \in Seq(Datagrams)
        /\ Len(Tail(rx)) = Len(rx) - 1
        /\ \A i \in 1..Len(Tail(rx)) : Tail(rx)[i] = rx[i + 1]
    BY <1>0, <1>9, HeadTailProperties DEF Receive, Match, Skip, ReceiveCut
  <2>2. CASE Raise(Tail(rx))
    BY <2>1, <2>2, RaiseKeepsIInv
  <2>3. CASE Head(rx).report \in Values /\ rx' = Tail(rx) /\ Return(Head(rx).report)
    BY <2>1, <2>3, ReturnKeepsIInv DEF IInv
  <2>4. CASE /\ skipped + 1 < MatchAttempts /\ skipped' = skipped + 1
             /\ rx' = Tail(rx)
             /\ UNCHANGED <<value, network, handle, asked, retries, outcome, window>>
    <3>1. skipped' \in 0..(MatchAttempts - 1)
      BY <2>4, LinkAssumption DEF IInv, TypeOK
    <3>2. TypeOK'
      BY <2>1, <2>4, <3>1 DEF IInv, TypeOK
    <3>3. OnlyOurBuffer'
      <4> SUFFICES ASSUME NEW i \in 1..Len(rx'), Reading,
                          rx'[i].handle = handle, rx'[i].report \in Values
                   PROVE  rx'[i].report \in window
        BY <2>4 DEF OnlyOurBuffer, Reading
      <4>1. i + 1 \in 1..Len(rx) /\ rx'[i] = rx[i + 1]
        BY <1>0, <2>1, <2>4
      <4> QED
        BY <4>1 DEF IInv, OnlyOurBuffer
    <3> QED
      BY <2>4, <3>2, <3>3 DEF IInv, WindowOpen, HandleGiven, Reading,
         OnlyOurRequests, OnlyOurReplies
  <2> QED
    BY <1>9, <2>2, <2>3, <2>4 DEF Receive, Match, Skip, ReceiveCut
<1>10. CASE UNCHANGED vars
  BY <1>10 DEF vars, IInv, TypeOK, WindowOpen, HandleGiven, Reading,
     OnlyOurRequests, OnlyOurReplies, OnlyOurBuffer
<1> QED
  BY <1>1, <1>2, <1>3, <1>4, <1>5, <1>6, <1>7, <1>8, <1>9, <1>10 DEF Next, World

LEMMA IInvCorrect == Spec => []IInv
BY InitIInv, NextIInv, PTL DEF Spec

\* Every variable of the link keeps its type, whatever the network does: the
\* buffer holds only datagrams, and the attempt counters stay within limits.
THEOREM LinkTypeCorrect == Spec => []TypeOK
BY IInvCorrect, PTL DEF IInv

\* For every handle width: no late, duplicated or reordered response can be
\* taken for the answer to the read that waits.
THEOREM HandlesIsolate == Spec => []OnlyOurAnswersMatch
<1>1. IInv => OnlyOurAnswersMatch
  BY DEF IInv, OnlyOurReplies, OnlyOurBuffer, OnlyOurAnswersMatch, Matches
<1> QED
  BY IInvCorrect, <1>1, PTL

----------------------------------------------------------------------------
(* Refinement: each step of the link is a step of the register, or none. *)

LEMMA InitRegister == Init => Register!Init
BY DEF Init, Register!Init

LEMMA RaiseRefines ==
  ASSUME IInv, Reading, NEW q, Raise(q)
  PROVE  Register!Next \/ UNCHANGED Register!vars
<1>1. CASE UNCHANGED <<value, asked, outcome, window>>
  BY <1>1 DEF Register!vars
<1>2. CASE Return(NoValue)
  BY <1>2 DEF Return, Reading, Register!Next, Register!Return
<1> QED
  BY <1>1, <1>2 DEF Raise

LEMMA NextRegister ==
  ASSUME IInv, [Next]_vars
  PROVE  [Register!Next]_(Register!vars)
<1> USE DEF Register!vars
<1>1. ASSUME NEW p \in Params, NEW v \in Values, Becomes(p, v),
             UNCHANGED <<asked, outcome>>
      PROVE  Register!Next
  BY <1>1 DEF Becomes, Register!Next, Register!Change
<1>2. ASSUME NEW p \in Params, NEW v \in Values, Knob(p, v) PROVE Register!Next
  BY <1>1, <1>2 DEF Knob
<1>3. ASSUME NEW d \in requests, PerformSet(d) PROVE Register!Next
  <2>1. d.param \in Params /\ d.set \in Values
    BY <1>3 DEF PerformSet, IInv, TypeOK, Requests
  <2> QED
    BY <1>1, <1>3, <2>1 DEF PerformSet
<1>4. ASSUME NEW p \in Params, Ask(p) PROVE Register!Next
  BY <1>4 DEF Ask, Reading, Register!Next, Register!Ask
<1>5. CASE Fail
  BY <1>5, RaiseRefines DEF Fail
<1>6. CASE Receive
  <2>1. Reading /\ rx # <<>>
    BY <1>6 DEF Receive, Match, Skip, ReceiveCut
  <2>2. CASE Raise(Tail(rx))
    BY <2>1, <2>2, RaiseRefines
  <2>3. CASE UNCHANGED <<value, asked, outcome, window>>
    BY <2>3
  <2>4. CASE Matches(Head(rx)) /\ Head(rx).report \in Values /\ Return(Head(rx).report)
    <3>1. Head(rx) = rx[1] /\ 1 \in 1..Len(rx)
      BY <2>1 DEF IInv, TypeOK
    <3>2. Head(rx).report \in window
      BY <2>1, <2>4, <3>1 DEF Matches, IInv, OnlyOurBuffer
    <3> QED
      BY <2>1, <2>4, <3>2 DEF Return, Reading, Register!Next, Register!Return
  <2> QED
    BY <1>6, <2>2, <2>3, <2>4 DEF Receive, Match, Skip, ReceiveCut
<1>7. ASSUME NEW d, (d \in requests /\ AnswerGet(d)) \/ Arrive(d)
      PROVE  UNCHANGED Register!vars
  BY <1>7 DEF AnswerGet, Arrive
<1>8. CASE drain \/ send_keepalive \/ UNCHANGED vars \/ \E p \in Params, v \in Values : Set(p, v)
  BY <1>8 DEF drain, send_keepalive, vars, Set
<1> QED
  BY <1>2, <1>3, <1>4, <1>5, <1>6, <1>7, <1>8 DEF Next, World

\* The device layer, over a network that loses, delays, duplicates and
\* reorders, is a register whose reads fail or return a value the parameter
\* had between question and answer.
THEOREM LinkImplementsRegister == Spec => ImplementsRegister
<1>1. Init => Register!Init
  BY InitRegister
<1>2. IInv /\ [Next]_vars => [Register!Next]_(Register!vars)
  BY NextRegister
<1> QED
  BY IInvCorrect, <1>1, <1>2, PTL DEF Spec, ImplementsRegister, Register!Spec

----------------------------------------------------------------------------
(* The bytes of the datagrams. *)

\* Every handle is a word of 32 bits.
LEMMA WordIs ==
  ASSUME NEW h \in 0..HandleMax
  PROVE  Word(h) \in Half \X Half
<1>1. h \in Nat /\ h <= HandleMax /\ HandleMax \in Nat
  BY LinkAssumption, SMT
<1>2. HandleMax \div 65536 < 65536
  BY WireAssumption
<1>3. h \div 65536 \in Nat /\ h \div 65536 < 65536
  BY <1>1, <1>2, SMT
<1>4. h % 65536 \in Nat /\ h % 65536 < 65536
  BY <1>1, SMT
<1>5. PICK m \in Half, n \in Half : m = h \div 65536 /\ n = h % 65536
  BY <1>3, <1>4, SMT DEF Half
<1> QED
  BY <1>5, SMT DEF Word

----------------------------------------------------------------------------
(* The datagrams of DeviceLink. *)

\* What the bytes are read as, given that they are a reply to d's command.
LEMMA ReplyIsRightlyRead ==
  ASSUME NEW type \in NumberTypes, NEW d \in Datagrams, handle \in Handles,
         NEW status, NEW count \in Byte, NEW length \in Nat, NEW s,
         StartsReply(s, Word(d.handle), status, count, length),
         length >= 10, Len(s) <= 10 + length
  PROVE  ReadRight(receive_matching_response(s, Word(handle), <<type>>),
                   type, s, d.handle = handle, status, count)
<1>1. PICK w, h : w = Word(d.handle) /\ h = Word(handle)
  OBVIOUS
<1>2. (w = h) = (d.handle = handle)
  <2>1. d.handle \in Nat /\ handle \in Nat
    BY LinkAssumption, SMT DEF Datagrams, Handles
  <2>2. w = h => d.handle = handle
    BY <1>1, <2>1, WordOnce
  <2> QED
    BY <1>1, <2>2
<1>3. StartsReply(s, w, status, count, length)
  BY <1>1
<1>4. ReadRight(receive_matching_response(s, h, <<type>>), type, s, w = h, status, count)
  BY <1>3, ReplyIsRead, Zenon
<1> QED
  BY <1>1, <1>2, <1>4, Zenon

\* A reply without a value is treated as Match and Skip treat it,
LEMMA NoValueTreated ==
  ASSUME NEW type, NEW d, NEW s, NEW status, NEW count, NEW rcv,
         ReadRight(rcv, type, s, d.handle = handle, status, count),
         d.report = NoValue, status # 0 \/ count < 1 \/ Len(s) - 20 < type.width
  PROVE  rcv = Treated(d)
<1>1. NoValue # Cut /\ NoValue \notin Values
  BY LinkAssumption
<1> QED
  BY <1>1, Zenon DEF ReadRight, Treated, Matches

\* and so is one with a value.
LEMMA ValueTreated ==
  ASSUME NEW type \in NumberTypes, NEW d, NEW s, NEW rcv, NEW v \in Values, v = d.report,
         ReadRight(rcv, type, s, d.handle = handle, 0, 1),
         HasValue(s, type, v)
  PROVE  rcv = Treated(d)
<1>1. Cut \notin Values
  BY LinkAssumption
<1>2. v \in Numbers(type)
  BY WireAssumption, SmallNumbers
<1>3. d.handle = handle => rcv = Returns(v)
  <2>1. 1 >= 1
    OBVIOUS
  <2> QED
    BY <1>2, <2>1, Zenon DEF ReadRight
<1>4. d.handle # handle => rcv = Skips
  BY Zenon DEF ReadRight
<1> QED
  BY <1>1, <1>3, <1>4 DEF Treated, Matches

\* s is a datagram of d's handle with that status, count and parameters.
RepliesWith(s, d, status, count, raw) ==
  /\ StartsReply(s, Word(d.handle), status, count, 10 + Len(raw))
  /\ Len(s) = 20 + Len(raw) /\ Len(raw) \in Nat
  /\ \A k \in 1..Len(raw) : s[20 + k] = raw[k]

\* The bytes of a reply to the command with the handle of d.
LEMMA ReplyStarts ==
  ASSUME NEW d \in Datagrams, NEW status \in Byte, NEW count \in Byte,
         NEW raw \in Seq(Byte), Len(raw) < 100
  PROVE  RepliesWith(Reply(d, status, count, raw), d, status, count, raw)
<1>1. d.handle \in 0..HandleMax
  BY LinkAssumption, SMT DEF Datagrams, Handles
<1>2. Word(d.handle) \in Half \X Half
  BY <1>1, WordIs
<1>3. PICK s : /\ s = Reply(d, status, count, raw)
               /\ s = send_pdus(RESPONSE, <<ResponseEncode(Word(d.handle), status, count, raw)>>)
  BY DEF Reply
<1>4. PICK w \in Half \X Half : w = Word(d.handle)
  BY <1>2
<1>5. /\ StartsReply(s, w, status, count, 10 + Len(raw)) /\ Len(s) = 20 + Len(raw)
      /\ \A k \in 1..Len(raw) : s[20 + k] = raw[k]
  BY <1>3, <1>4, ReplyBytes
<1>6. Len(raw) \in Nat
  BY LenProperties
<1> QED
  BY <1>3, <1>4, <1>5, <1>6, Zenon DEF RepliesWith

\* Replies with a value, with or without a range behind it.
LEMMA ValueIsTreated ==
  ASSUME NEW type \in NumberTypes, NEW d \in Datagrams, handle \in Handles,
         d.report \in Values, NEW s \in WithValue(d, type, d.report)
  PROVE  receive_matching_response(s, Word(handle), <<type>>) = Treated(d)
<1>1. PICK v \in Values : v = d.report
  OBVIOUS
<1>2. v \in Numbers(type)
  BY WireAssumption, SmallNumbers
<1>3. PICK e : e = OcaEncode(type, v)
  OBVIOUS
<1>4. type.width \in 1..2 /\ e \in Seq(Byte) /\ Len(e) = type.width
  BY <1>2, <1>3, EncodedIs
<1>5. PICK range \in Seq(Byte) :
        /\ Len(range) \in {0, 2}
        /\ s = Reply(d, STATUS_OK, 1, e \o range)
  <2>1. <<>> \in Seq(Byte) /\ Len(<<>>) = 0
    OBVIOUS
  <2>2. <<255, 1>> \in Seq(Byte) /\ Len(<<255, 1>>) = 2
    BY SMT DEF Byte
  <2>3. PICK range \in {<<>>, <<255, 1>>} : s = Reply(d, STATUS_OK, 1, e \o range)
    BY <1>1, <1>3 DEF WithValue
  <2> QED
    BY <2>1, <2>2, <2>3
<1>6. PICK raw : raw = e \o range
  OBVIOUS
<1>7. Joins(raw, e, range)
  BY <1>4, <1>6, Joined, Zenon
<1>8. /\ raw \in Seq(Byte) /\ Len(raw) < 100 /\ Len(raw) \in Nat /\ Len(raw) >= type.width
      /\ \A k \in 1..type.width : raw[k] = e[k]
  <2>1. PICK m \in {0, 2}, n \in 1..2 : m = Len(range) /\ n = type.width
    BY <1>4, <1>5
  <2>2. Len(raw) = n + m /\ raw \in Seq(Byte) /\ \A k \in 1..n : raw[k] = e[k]
    BY <1>4, <1>7, <2>1, Zenon DEF Joins
  <2>3. n + m < 100 /\ n + m \in Nat /\ n + m >= n
    BY SMT
  <2> QED
    BY <2>1, <2>2, <2>3, Zenon
<1>9. 0 \in Byte /\ 1 \in Byte
  BY SMT DEF Byte
<1>10. /\ StartsReply(s, Word(d.handle), 0, 1, 10 + Len(raw)) /\ Len(s) = 20 + Len(raw)
       /\ \A k \in 1..Len(raw) : s[20 + k] = raw[k]
  <2>1. s = Reply(d, 0, 1, raw)
    BY <1>5, <1>6 DEF STATUS_OK
  <2>2. RepliesWith(s, d, 0, 1, raw)
    BY <1>8, <1>9, <2>1, ReplyStarts, Zenon
  <2> QED
    BY <2>2, Zenon DEF RepliesWith
<1>11. /\ 10 + Len(raw) \in Nat /\ 10 + Len(raw) >= 10 /\ Len(s) <= 10 + (10 + Len(raw))
       /\ Len(s) - 20 >= type.width
  BY <1>4, <1>8, <1>10, SMT
<1>12. \A k \in 1..type.width : s[20 + k] = e[k]
  <2>1. \A k \in 1..type.width : k \in 1..Len(raw)
    BY <1>4, <1>8, SMT
  <2> QED
    BY <1>8, <1>10, <2>1, Zenon
<1>13. ReadRight(receive_matching_response(s, Word(handle), <<type>>),
                 type, s, d.handle = handle, 0, 1)
  BY <1>9, <1>10, <1>11, ReplyIsRightlyRead
<1> QED
  <2>1. \A k \in 1..type.width : s[20 + k] = OcaEncode(type, v)[k]
    BY <1>3, <1>12, Zenon
  <2>2. PICK rcv : rcv = receive_matching_response(s, Word(handle), <<type>>)
    OBVIOUS
  <2>3. ReadRight(rcv, type, s, d.handle = handle, 0, 1)
    BY <1>13, <2>2, Zenon
  <2>4. HasValue(s, type, v)
    BY <1>11, <2>1, Zenon DEF HasValue
  <2>5. rcv = Treated(d)
    BY <1>1, <2>1, <2>3, <2>4, ValueTreated
  <2> QED
    BY <2>2, <2>5

\* No value can be read from a response with those fields.
Useless(type, status, count, raw) == status # 0 \/ count < 1 \/ Len(raw) < type.width

\* A reply that is as long as it says, and has no value.
LEMMA EmptyReplyTreated ==
  ASSUME NEW type \in NumberTypes, NEW d \in Datagrams, handle \in Handles,
         d.report = NoValue, NEW status \in Byte, NEW count \in Byte,
         NEW raw \in Seq(Byte), Len(raw) < 100,
         Useless(type, status, count, raw),
         NEW s, s = Reply(d, status, count, raw)
  PROVE  receive_matching_response(s, Word(handle), <<type>>) = Treated(d)
<1>1. PICK rcv : rcv = receive_matching_response(s, Word(handle), <<type>>)
  OBVIOUS
<1>2. RepliesWith(s, d, status, count, raw)
  BY ReplyStarts, Zenon
<1>3. /\ StartsReply(s, Word(d.handle), status, count, 10 + Len(raw))
      /\ Len(s) = 20 + Len(raw) /\ Len(raw) \in Nat
  BY <1>2, Zenon DEF RepliesWith
<1>4. PICK n \in Nat : n = Len(raw)
  BY <1>3
<1>5. Len(s) = 20 + n
  BY <1>3, <1>4
<1>6. 10 + n \in Nat /\ 10 + n >= 10 /\ Len(s) <= 10 + (10 + n)
  BY <1>5, SMT
<1>7. StartsReply(s, Word(d.handle), status, count, 10 + n)
  BY <1>3, <1>4
<1>8. ReadRight(rcv, type, s, d.handle = handle, status, count)
  BY <1>1, <1>6, <1>7, ReplyIsRightlyRead
<1>9. status # 0 \/ count < 1 \/ Len(s) - 20 < type.width
  <2>1. Len(s) - 20 = n
    BY <1>5, SMT
  <2> QED
    BY <1>4, <2>1, Zenon DEF Useless
<1> QED
  BY <1>1, <1>8, <1>9, NoValueTreated

\* Replies without a value: errors, acknowledgements and what is cut in its value.
LEMMA WithoutValueTreated ==
  ASSUME NEW type \in NumberTypes, NEW d \in Datagrams, handle \in Handles,
         d.report = NoValue, NEW s \in WithoutValue(d, type)
  PROVE  receive_matching_response(s, Word(handle), <<type>>) = Treated(d)
<1>1. PICK raw : raw = OcaEncode(type, 1)
  OBVIOUS
<1>2. type.width \in 1..2 /\ raw \in Seq(Byte) /\ Len(raw) = type.width
  <2>1. 1 \in Numbers(type)
    BY SmallNumbers
  <2> QED
    BY <1>1, <2>1, EncodedIs
<1>3. Len(raw) < 100 /\ Len(raw) \in Nat
  BY <1>2, SMT
<1>4. PICK none \in Seq(Byte) : none = <<>> /\ Len(none) < 100
  <2>1. <<>> \in Seq(Byte) /\ Len(<<>>) < 100
    BY SMT
  <2> QED
    BY <2>1
<1>5. Len(none) < 100
  BY <1>4
<1>6. \/ s \in {Reply(d, 5, 0, <<>>), Reply(d, 5, 1, raw), Reply(d, STATUS_OK, 0, <<>>)}
      \/ \E n \in 0..(type.width - 1) : s = Reply(d, STATUS_OK, 1, SubSeq(raw, 1, n))
      \/ s \in CutAt(Reply(d, STATUS_OK, 1, raw),
                     (MessageSize + ResponseSize)..(MessageSize + ResponseSize + type.width - 1))
  BY <1>1 DEF WithoutValue
<1>7. CASE s = Reply(d, 5, 0, <<>>)
  <2>1. Useless(type, 5, 0, none)
    BY SMT DEF Useless
  <2>2. s = Reply(d, 5, 0, none)
    BY <1>4, <1>7
  <2> QED
    BY <1>5, <2>1, <2>2, SmallBytes, EmptyReplyTreated
<1>8. CASE s = Reply(d, 5, 1, raw)
  <2>1. Useless(type, 5, 1, raw)
    BY SMT DEF Useless
  <2> QED
    BY <1>2, <1>3, <1>8, <2>1, SmallBytes, EmptyReplyTreated
<1>9. CASE s = Reply(d, STATUS_OK, 0, <<>>)
  <2>1. Useless(type, 0, 0, none)
    BY SMT DEF Useless
  <2>2. s = Reply(d, 0, 0, none)
    BY <1>4, <1>9 DEF STATUS_OK
  <2> QED
    BY <1>5, <2>1, <2>2, SmallBytes, EmptyReplyTreated
<1>10. ASSUME NEW n \in 0..(type.width - 1), s = Reply(d, STATUS_OK, 1, SubSeq(raw, 1, n))
      PROVE  receive_matching_response(s, Word(handle), <<type>>) = Treated(d)
  <2>1. PICK part : part = SubSeq(raw, 1, n)
    OBVIOUS
  <2>2. n \in Nat /\ n <= Len(raw) /\ n < type.width /\ n < 100
    BY <1>2, SMT
  <2>3. part \in Seq(Byte) /\ Len(part) = n
    BY <1>2, <2>1, <2>2, CutBytes
  <2> QED
    <3>1. Useless(type, 0, 1, part)
      BY <2>2, <2>3, Zenon DEF Useless
    <3>2. s = Reply(d, 0, 1, part)
      BY <1>10, <2>1 DEF STATUS_OK
    <3>3. Len(part) < 100
      BY <2>2, <2>3, Zenon
    <3> QED
      BY <2>3, <3>1, <3>2, <3>3, SmallBytes, EmptyReplyTreated
<1>11. ASSUME s \in CutAt(Reply(d, STATUS_OK, 1, raw),
                     (MessageSize + ResponseSize)..(MessageSize + ResponseSize + type.width - 1))
       PROVE  receive_matching_response(s, Word(handle), <<type>>) = Treated(d)
  <2>1. PICK whole : whole = Reply(d, 0, 1, raw)
    OBVIOUS
  <2>2. PICK n \in 20..(20 + type.width - 1) : s = SubSeq(whole, 1, n)
    <3>1. MessageSize + ResponseSize = 20
      BY SMT DEF MessageSize, ResponseSize
    <3> QED
      BY <1>11, <2>1, <3>1 DEF CutAt, STATUS_OK
  <2>3. RepliesWith(whole, d, 0, 1, raw)
    BY <1>2, <1>3, <2>1, SmallBytes, ReplyStarts, Zenon
  <2>4. PICK m \in 1..2 : m = type.width
    BY <1>2
  <2>5. /\ StartsReply(whole, Word(d.handle), 0, 1, 10 + m)
        /\ Len(whole) = 20 + m
    BY <1>2, <2>3, <2>4, Zenon DEF RepliesWith
  <2>6. n \in Nat /\ 20 <= n /\ n < 20 + m
    BY <2>4, SMT
  <2>7. n <= Len(whole)
    BY <2>5, <2>6, SMT
  <2>8. StartsReply(s, Word(d.handle), 0, 1, 10 + m)
    BY <2>2, <2>5, <2>6, <2>7, StartsCut
  <2>9. Len(s) = n
    <3>1. whole \in Seq(Byte)
      BY <2>5, Zenon DEF StartsReply
    <3> QED
      BY <2>2, <2>6, <2>7, <3>1, CutBytes
  <2>10. 10 + m \in Nat /\ 10 + m >= 10 /\ Len(s) <= 10 + (10 + m)
    BY <2>6, <2>9, SMT
  <2>11. PICK rcv : rcv = receive_matching_response(s, Word(handle), <<type>>)
    OBVIOUS
  <2>12. ReadRight(rcv, type, s, d.handle = handle, 0, 1)
    BY <2>8, <2>10, <2>11, SmallBytes, ReplyIsRightlyRead
  <2>13. Len(s) - 20 < type.width
    <3>1. n - 20 < m
      BY <2>6, SMT
    <3> QED
      BY <2>4, <2>9, <3>1, Zenon
  <2> QED
    BY <2>11, <2>12, <2>13, NoValueTreated
<1> QED
  BY <1>6, <1>7, <1>8, <1>9, <1>10, <1>11

\* A message of one response whose length field says 9.
LEMMA TooShortTreated ==
  ASSUME NEW d \in Datagrams, NEW types, NEW h
  PROVE  receive_matching_response(
           MessageEncode(19, RESPONSE, 1) \o U32(Word(9)) \o U32(Word(d.handle)) \o <<0, 0>>,
           h, types) = Raises
<1>1. PICK m : m = MessageEncode(19, RESPONSE, 1)
  OBVIOUS
<1>2. m \in Seq(Byte) /\ Len(m) = 10 /\ m[1] = 59 /\ m[8] = 3 /\ At16(m, 9) = 1
  <2>1. 3 \in Byte
    BY SMT DEF Byte
  <2>2. 1 \in Half
    BY SMT DEF Half
  <2>3. 19 \in Nat
    BY SMT
  <2> QED
    BY <1>1, <2>1, <2>2, <2>3, EnvelopeBytes DEF RESPONSE
<1>3. PICK a : a = U32(Word(9))
  OBVIOUS
<1>4. a \in Seq(Byte) /\ Len(a) = 4 /\ a[1] = 0 /\ a[2] = 0 /\ a[3] = 0 /\ a[4] = 9
  <2>1. Word(9) = <<0, 9>>
    BY SMT DEF Word
  <2>2. U16(0) = <<0, 0>> /\ U16(9) = <<0, 9>>
    BY SMT DEF U16
  <2>3. PICK y, z : y = <<0, 0>> /\ z = <<0, 9>>
    OBVIOUS
  <2>4. 0 \in Byte /\ 9 \in Byte
    BY SMT DEF Byte
  <2>5. y \in Seq(Byte) /\ Len(y) = 2 /\ y[1] = 0 /\ y[2] = 0
    BY <2>3, <2>4
  <2>6. z \in Seq(Byte) /\ Len(z) = 2 /\ z[1] = 0 /\ z[2] = 9
    BY <2>3, <2>4
  <2>7. a = y \o z
    <3>1. U32(<<0, 9>>) = U16(0) \o U16(9)
      BY SMT DEF U32
    <3> QED
      BY <1>3, <2>1, <2>2, <2>3, <3>1, Zenon
  <2>8. Joins(a, y, z)
    BY <2>5, <2>6, <2>7, Joined, Zenon
  <2> QED
    BY <2>5, <2>6, <2>8, SMT DEF Joins
<1>5. PICK b : b = U32(Word(d.handle))
  OBVIOUS
<1>6. b \in Seq(Byte) /\ Len(b) = 4
  <2>1. d.handle \in 0..HandleMax
    BY LinkAssumption, SMT DEF Datagrams, Handles
  <2>2. PICK w \in Half \X Half : w = Word(d.handle)
    BY <2>1, WordIs
  <2> QED
    BY <1>5, <2>2, WordBytes
<1>7. PICK c \in Seq(Byte) : c = <<0, 0>> /\ Len(c) = 2
  <2>1. 0 \in Byte
    BY SMT DEF Byte
  <2>2. <<0, 0>> \in Seq(Byte) /\ Len(<<0, 0>>) = 2
    BY <2>1, SMT
  <2> QED
    BY <2>2, Zenon
<1>8. Len(c) = 2
  BY <1>7
<1>9. PICK ma : ma = m \o a
  OBVIOUS
<1>10. Joins(ma, m, a)
  BY <1>2, <1>4, <1>9, Joined, Zenon
<1>11. ma \in Seq(Byte) /\ Len(ma) = 14
  BY <1>2, <1>4, <1>10, SMT DEF Joins
<1>12. /\ ma[1] = m[1] /\ ma[8] = m[8] /\ ma[9] = m[9] /\ ma[10] = m[10]
       /\ ma[11] = a[1] /\ ma[12] = a[2] /\ ma[13] = a[3] /\ ma[14] = a[4]
  BY <1>2, <1>4, <1>10, SMT DEF Joins
<1>13. PICK mab : mab = ma \o b
  OBVIOUS
<1>14. Joins(mab, ma, b)
  BY <1>6, <1>11, <1>13, Joined, Zenon
<1>15. /\ mab \in Seq(Byte) /\ Len(mab) = 18
       /\ \A k \in 1..14 : mab[k] = ma[k]
  BY <1>6, <1>11, <1>14, SMT DEF Joins
<1>16. PICK s : s = mab \o c
  OBVIOUS
<1>17. Joins(s, mab, c)
  BY <1>15, <1>16, Joined, Zenon
<1>18. /\ s \in Seq(Byte) /\ Len(s) = 20
       /\ \A k \in 1..18 : s[k] = mab[k]
  BY <1>8, <1>15, <1>17, SMT DEF Joins
<1>19. \A k \in 1..14 : s[k] = ma[k]
  <2>1. \A k \in 1..14 : k \in 1..18
    BY SMT
  <2> QED
    BY <1>15, <1>18, <2>1, Zenon
<1>20. s[1] = ma[1] /\ s[8] = ma[8] /\ s[9] = ma[9] /\ s[10] = ma[10]
  BY <1>19, SMT
<1>21. s[11] = ma[11] /\ s[12] = ma[12] /\ s[13] = ma[13] /\ s[14] = ma[14]
  BY <1>19, SMT
<1>22. At16(s, 9) = 1
  <2>1. At16(s, 9) = At16(m, 9)
    BY <1>12, <1>20, SMT DEF At16
  <2> QED
    BY <1>2, <2>1, Zenon
<1>23. At16(s, 13) = 9
  BY <1>4, <1>12, <1>21, SMT DEF At16
<1>24. s[1] = 59 /\ s[8] = 3 /\ s[11] = 0 /\ s[12] = 0
  BY <1>2, <1>4, <1>12, <1>20, <1>21, Zenon
<1>25. StartsReply(s, At32(s, 15), s[19], s[20], 9)
  <2>1. 20 >= 20
    BY SMT
  <2> QED
    BY <1>18, <1>22, <1>23, <1>24, <2>1, Zenon DEF StartsReply
<1>26. ResponseDecode(s, 10) = Raised
  <2>1. 9 \in Nat /\ 9 < 10
    BY SMT
  <2> QED
    BY <1>25, <2>1, LengthTooShort
<1>27. Len(s) >= 10
  BY <1>18, SMT
<1>28. receive_matching_response(s, h, types) = Raises
  <2>1. s \in Seq(Byte) /\ s[1] = 59 /\ s[8] = 3
    BY <1>18, <1>24, Zenon
  <2> QED
    BY <1>22, <1>26, <1>27, <2>1, OneResponse
<1> QED
  BY <1>1, <1>3, <1>5, <1>7, <1>9, <1>13, <1>16, <1>28, Zenon

\* Replies cut in their head, or with a length that is too short.
LEMMA CutShortTreated ==
  ASSUME NEW type \in NumberTypes, NEW d \in Datagrams,
         d.report = Cut, NEW s \in CutShort(d, type)
  PROVE  receive_matching_response(s, Word(handle), <<type>>) = Treated(d)
<1>1. Treated(d) = Raises
  BY DEF Treated, Matches
<1>2. PICK raw : raw = OcaEncode(type, 1)
  OBVIOUS
<1>3. type.width \in 1..2 /\ raw \in Seq(Byte) /\ Len(raw) = type.width
  <2>1. 1 \in Numbers(type)
    BY SmallNumbers
  <2> QED
    BY <1>2, <2>1, EncodedIs
<1>4. Len(raw) < 100 /\ Len(raw) \in Nat
  BY <1>3, SMT
<1>5. \/ s \in CutAt(Reply(d, STATUS_OK, 1, raw), MessageSize..(MessageSize + ResponseSize - 1))
      \/ s = MessageEncode(19, RESPONSE, 1) \o U32(Word(9)) \o U32(Word(d.handle)) \o <<0, 0>>
  BY <1>2 DEF CutShort
<1>6. ASSUME s \in CutAt(Reply(d, STATUS_OK, 1, raw), MessageSize..(MessageSize + ResponseSize - 1))
      PROVE  receive_matching_response(s, Word(handle), <<type>>) = Raises
  <2>1. PICK whole : whole = Reply(d, 0, 1, raw)
    OBVIOUS
  <2>2. PICK n \in 10..19 : s = SubSeq(whole, 1, n)
    <3>1. MessageSize + ResponseSize - 1 = 19 /\ MessageSize = 10
      BY SMT DEF MessageSize, ResponseSize
    <3> QED
      BY <1>6, <2>1, <3>1 DEF CutAt, STATUS_OK
  <2>3. RepliesWith(whole, d, 0, 1, raw)
    BY <1>3, <1>4, <2>1, SmallBytes, ReplyStarts, Zenon
  <2>4. /\ whole \in Seq(Byte) /\ Len(whole) >= 20
        /\ whole[1] = 59 /\ whole[8] = 3 /\ At16(whole, 9) = 1
    BY <2>3, Zenon DEF RepliesWith, StartsReply
  <2>5. n \in Nat /\ 10 <= n /\ n < 20
    BY SMT
  <2>6. n <= Len(whole)
    BY <2>4, <2>5, LenProperties, SMT
  <2>7. s \in Seq(Byte) /\ Len(s) = n /\ \A k \in 1..n : s[k] = whole[k]
    BY <2>2, <2>4, <2>5, <2>6, CutBytes
  <2>8. s[1] = whole[1] /\ s[8] = whole[8] /\ s[9] = whole[9] /\ s[10] = whole[10]
    BY <2>5, <2>7, SMT
  <2>9. At16(s, 9) = At16(whole, 9)
    BY <2>8, SMT DEF At16
  <2>10. ResponseDecode(s, 10) = Raised
    <3>1. 10 \in Nat /\ 10 + 10 > Len(s)
      BY <2>5, <2>7, SMT
    <3> QED
      BY <2>7, <3>1, ResponseIs
  <2>11. Len(s) >= 10
    BY <2>5, <2>7, SMT
  <2>12. s[1] = 59 /\ s[8] = 3 /\ At16(s, 9) = 1
    BY <2>4, <2>8, <2>9, Zenon
  <2> QED
    BY <2>7, <2>10, <2>11, <2>12, OneResponse
<1> QED
  BY <1>1, <1>5, <1>6, TooShortTreated

\* What is no response is skipped.
LEMMA NoResponseTreated ==
  ASSUME NEW type \in NumberTypes, handle \in Handles, NEW types, NEW s \in NoResponse(type)
  PROVE  receive_matching_response(s, Word(handle), types) = Skips
<1>1. PICK h \in Half \X Half : h = Word(handle)
  <2>1. handle \in 0..HandleMax
    BY LinkAssumption, SMT DEF Handles
  <2> QED
    BY <2>1, WordIs
<1>2. PICK raw : raw = OcaEncode(type, 1)
  OBVIOUS
<1>3. raw \in Seq(Byte) /\ 10 + Len(raw) \in Half
  <2>1. 1 \in Numbers(type)
    BY SmallNumbers
  <2>2. type.width \in 1..2 /\ raw \in Seq(Byte) /\ Len(raw) = type.width
    BY <1>2, <2>1, EncodedIs
  <2>3. Len(raw) \in Nat /\ 10 + Len(raw) < 65536
    BY <2>2, SMT
  <2> QED
    BY <2>2, <2>3, SMT DEF Half
<1>4. PICK reply : reply = send_pdus(RESPONSE, <<ResponseEncode(h, STATUS_OK, 1, raw)>>)
  OBVIOUS
<1>5. \/ s = <<>>
      \/ s = <<0>> \o reply
      \/ s = send_pdus(KEEPALIVE, <<KeepaliveEncode(30)>>)
      \/ s = send_pdus(COMMAND, <<GetCommand(h, Parameters[1])>>)
      \/ s = MessageEncode(MessageSize - 1, RESPONSE, 0)
      \/ s \in CutAt(MessageEncode(MessageSize - 1, RESPONSE, 1), 1..(MessageSize - 1))
  BY <1>1, <1>2, <1>4, Zenon DEF NoResponse
<1>6. CASE s = <<>>
  <2>1. s \in Seq(Byte) /\ Len(s) < 10
    BY <1>6, SMT
  <2> QED
    BY <2>1, NoMessage
<1>7. CASE s = <<0>> \o reply
  <2>1. reply \in Seq(Byte)
    <3>1. PICK r : r = ResponseEncode(h, STATUS_OK, 1, raw)
      OBVIOUS
    <3>2. r \in Seq(Byte)
      <4>1. IsResponse(r, h, 0, 1, raw)
        BY <1>3, <3>1, SmallBytes, ResponseBytes DEF STATUS_OK
      <4> QED
        BY <4>1, Zenon DEF IsResponse
    <3>3. RESPONSE \in Byte
      BY SMT DEF Byte, RESPONSE
    <3>4. IsPacket(reply, RESPONSE, r)
      BY <1>4, <3>1, <3>2, <3>3, PacketBytes
    <3> QED
      BY <3>4, Zenon DEF IsPacket
  <2>2. PICK z \in Seq(Byte) : z = <<0>> /\ Len(z) = 1 /\ z[1] = 0
    <3>1. <<0>> \in Seq(Byte) /\ Len(<<0>>) = 1 /\ <<0>>[1] = 0
      BY SmallBytes, SMT
    <3> QED
      BY <3>1, Zenon
  <2>3. Joins(s, z, reply)
    BY <1>7, <2>1, <2>2, Joined, Zenon
  <2>4. Len(z) = 1 /\ z[1] = 0
    BY <2>2
  <2>5. s \in Seq(Byte) /\ s[1] = 0
    BY <2>3, <2>4, SMT DEF Joins
  <2>6. s[1] # 59
    BY <2>5, SMT
  <2> QED
    BY <2>5, <2>6, NoMessage, Zenon
<1>8. CASE s = send_pdus(KEEPALIVE, <<KeepaliveEncode(30)>>)
  <2>1. 30 \in Nat /\ 4 # 3
    BY SMT
  <2>2. KeepaliveEncode(30) \in Seq(Byte)
    BY <2>1, U16Bytes DEF KeepaliveEncode
  <2>3. 4 \in Byte
    BY SMT DEF Byte
  <2>4. IsPacket(s, 4, KeepaliveEncode(30))
    BY <1>8, <2>2, <2>3, PacketBytes DEF KEEPALIVE
  <2>5. s \in Seq(Byte) /\ s[8] # 3
    BY <2>1, <2>4, Zenon DEF IsPacket
  <2> QED
    BY <2>5, NoMessage, Zenon
<1>9. CASE s = send_pdus(COMMAND, <<GetCommand(h, Parameters[1])>>)
  <2>1. Parameters[1].target \in Nat /\ Parameters[1].level \in Nat
    BY SMT DEF Parameters, Parameter, TARGET_MUTE
  <2>2. PICK c \in Seq(Byte) : c = GetCommand(h, Parameters[1])
    BY <2>1, CommandBytes
  <2>3. IsPacket(s, 1, c)
    BY <1>9, <2>2, SmallBytes, PacketBytes DEF COMMAND
  <2>4. 1 # 3
    BY SMT
  <2>5. s \in Seq(Byte) /\ s[8] # 3
    BY <2>3, <2>4, Zenon DEF IsPacket
  <2> QED
    BY <2>5, NoMessage, Zenon
<1>10. MessageSize - 1 \in Nat /\ RESPONSE = 3 /\ 3 \in Byte
  <2>1. 3 \in Byte
    BY SMT DEF Byte
  <2> QED
    BY <2>1, SMT DEF MessageSize, RESPONSE
<1>11. CASE s = MessageEncode(MessageSize - 1, RESPONSE, 0)
  <2>1. 0 \in Half
    BY SMT DEF Half
  <2>2. s \in Seq(Byte) /\ Len(s) = 10 /\ s[1] = 59 /\ s[8] = 3 /\ At16(s, 9) = 0
    BY <1>10, <1>11, <2>1, EnvelopeBytes
  <2>3. Len(s) >= 10
    BY <2>2, SMT
  <2> QED
    BY <2>2, <2>3, EmptyMessage
<1>12. CASE s \in CutAt(MessageEncode(MessageSize - 1, RESPONSE, 1), 1..(MessageSize - 1))
  <2>1. PICK m : m = MessageEncode(MessageSize - 1, RESPONSE, 1)
    OBVIOUS
  <2>2. 1 \in Half
    BY SMT DEF Half
  <2>3. m \in Seq(Byte) /\ Len(m) = 10
    BY <1>10, <2>1, <2>2, EnvelopeBytes
  <2>4. PICK n \in 1..9 : s = SubSeq(m, 1, n)
    BY <1>12, <2>1, SMT DEF CutAt, MessageSize
  <2>5. n \in Nat /\ n <= Len(m) /\ n < 10
    BY <2>3, SMT
  <2>6. s \in Seq(Byte) /\ Len(s) = n
    BY <2>3, <2>4, <2>5, CutBytes, SMTT(30)
  <2>7. Len(s) < 10
    BY <2>5, <2>6, Zenon
  <2> QED
    BY <2>6, <2>7, NoMessage, Zenon
<1> QED
  BY <1>1, <1>5, <1>6, <1>7, <1>8, <1>9, <1>11, <1>12, Zenon

\* Every datagram that can be in the buffer.
LEMMA EachIsTreated ==
  ASSUME NEW type \in NumberTypes, NEW d \in Datagrams, handle \in Handles,
         NEW s \in AsBytes(d, type)
  PROVE  receive_matching_response(s, Word(handle), <<type>>) = Treated(d)
<1>1. NoValue # Cut /\ NoValue \notin Values /\ Cut \notin Values
  BY LinkAssumption
<1>2. d.report \in Values \cup {NoValue, Cut} /\ handle # 0
  BY SMT DEF Datagrams, Handles
<1>3. CASE d = Junk
  <2>1. Treated(d) = Skips
    BY <1>1, <1>2, <1>3 DEF Treated, Matches, Junk
  <2>2. s \in NoResponse(type)
    BY <1>3 DEF AsBytes
  <2> QED
    BY <2>1, <2>2, NoResponseTreated
<1>4. CASE d # Junk /\ d.report = Cut
  <2>1. s \in CutShort(d, type)
    BY <1>1, <1>4 DEF AsBytes
  <2> QED
    BY <1>4, <2>1, CutShortTreated
<1>5. CASE d # Junk /\ d.report = NoValue
  <2>1. s \in WithoutValue(d, type)
    BY <1>1, <1>5 DEF AsBytes
  <2> QED
    BY <1>5, <2>1, WithoutValueTreated
<1>6. CASE d # Junk /\ d.report \in Values
  <2>1. s \in WithValue(d, type, d.report)
    BY <1>1, <1>6 DEF AsBytes
  <2> QED
    BY <1>6, <2>1, ValueIsTreated
<1> QED
  BY <1>2, <1>3, <1>4, <1>5, <1>6

\* For every handle, in every state a read waits in: what the device layer makes
\* of the bytes of any datagram is what DeviceLink does with that datagram, so
\* that what is proved of DeviceLink holds of the bytes
\* (receive_matching_response, Response.decode, parse_params).
THEOREM BytesMatchTheModel == Spec => []BytesAreTreatedSo
<1>1. IInv => BytesAreTreatedSo
  <2> SUFFICES ASSUME IInv, Reading, NEW i \in 1..Len(rx), NEW type \in PolledTypes,
                      NEW s \in AsBytes(rx[i], type)
               PROVE  receive_matching_response(s, Word(handle), <<type>>) = Treated(rx[i])
    BY DEF BytesAreTreatedSo
  <2>1. rx[i] \in Datagrams
    BY DEF IInv, TypeOK
  <2>2. handle \in Handles
    BY LinkAssumption, SMT DEF IInv, TypeOK, HandleGiven, Handles
  <2> QED
    BY <2>1, <2>2, EachIsTreated DEF PolledTypes, NumberTypes
<1> QED
  BY <1>1, InitIInv, NextIInv, PTL DEF Spec

\* Whatever a setter sends is decoded as that command and read back as that value,
\* the lengths in a message agree with its bytes, and of two answers in one
\* message each is read as its own value (encode and decode of Command, Response
\* and OcaType, send_pdus, and the receive_... methods of Device).
THEOREM EncodersAgreeWithDecoders == Spec => []WhatIsSentIsRead
<1>1. WhatIsSentIsRead
  BY SetThenReadHolds, LengthsAgreeHolds, EachHasItsOwnHolds, Zenon DEF WhatIsSentIsRead
<1> QED
  BY <1>1, PTL

\* A message of two answers that is cut after any number of bytes gives the value
\* that was sent, or none (unpack_from_stream and Response.decode).
THEOREM CutGivesNoOtherValue == Spec => []CutIsNeverMisread
<1>1. CutIsNeverMisread
  BY PrefixesAreSafeHolds, Zenon DEF CutIsNeverMisread
<1> QED
  BY <1>1, PTL
=============================================================================
