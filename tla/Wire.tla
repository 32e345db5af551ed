-------------------------------- MODULE Wire --------------------------------
(***************************************************************************)
(* The bytes of the protocol (lib/pyadamaudiocontroller): the message      *)
(* envelope, commands, responses, keepalives and typed parameters, and     *)
(* what the receiving functions of Device make of a datagram.              *)
(*                                                                         *)
(* A byte string is a sequence over 0..255.  A 32-bit field is a word, the *)
(* pair of its upper and lower half, as TLC's integers are 32 bits wide    *)
(* and signed.  Strings are sequences of code points up to 2047, the ones  *)
(* that UTF-8 writes in one or two bytes; longer forms behave like the     *)
(* two-byte one.                                                           *)
(*                                                                         *)
(* What a decoder returns is <<v>>; <<>> stands for the exception it       *)
(* raises, an AdamAudioProtocolError (or, in a string that is no UTF-8, a  *)
(* UnicodeDecodeError).                                                    *)
(***************************************************************************)
EXTENDS Integers, SequencesExt

Raised == <<>>

----------------------------------------------------------------------------
(* struct: big-endian fields. *)

Word(n)  == <<n \div 65536, n % 65536>>
U8(n)    == <<n % 256>>
U16(n)   == <<(n \div 256) % 256, n % 256>>
U32(w)   == U16(w[1]) \o U16(w[2])
At16(s, i) == 256 * s[i] + s[i + 1]
At32(s, i) == <<At16(s, i), At16(s, i + 2)>>

\* BytesIO.read(n) at position i of s (counted from 0): what is there.
Read(s, i, n) == SubSeq(s, i + 1, IF i + n < Len(s) THEN i + n ELSE Len(s))

\* Mutant: short data is padded instead of refused.
unpack_from_stream_Padded(s, i, n) ==
  << Read(s, i, n) \o [k \in 1..(n - Len(Read(s, i, n))) |-> 0] >>

\* The n bytes at position i, all of them or none.
unpack_from_stream(s, i, n) ==
  IF Len(Read(s, i, n)) = n THEN <<Read(s, i, n)>> ELSE Raised

\* f of what was decoded, unless that raised.
Then(result, f(_)) == IF result = Raised THEN Raised ELSE f(result[1])

----------------------------------------------------------------------------
(* OcaType: the types the device layer uses. *)

OcaInt8   == [width |-> 1, signed |-> TRUE]
OcaUint16 == [width |-> 2, signed |-> FALSE]
OcaString == [width |-> 0, signed |-> FALSE]

Utf8(c) == IF c < 128 THEN <<c>> ELSE <<192 + c \div 64, 128 + (c % 64)>>

Utf8Encode(t) == FlattenSeq([i \in DOMAIN t |-> Utf8(t[i])])

\* The code points of b; raises where a lead or a continuation is missing.
Utf8Decode(b) ==
  LET from[i \in 1..(Len(b) + 2)] ==
        IF i > Len(b) THEN << <<>> >>
        ELSE LET two == i < Len(b) /\ b[i] \in 194..223 /\ b[i + 1] \in 128..191
                 c == IF two THEN (b[i] - 192) * 64 + b[i + 1] - 128 ELSE b[i]
             IN IF ~two /\ b[i] > 127 THEN Raised
                ELSE Then(from[IF two THEN i + 2 ELSE i + 1], LAMBDA t : << <<c>> \o t >>)
  IN from[1]

\* Mutant: the length of a string counts its characters.
OcaEncode_Characters(type, v) ==
  CASE type.width = 0 -> U16(Len(v)) \o Utf8Encode(v)
    [] type.width = 1 -> U8(v)
    [] OTHER          -> U16(v)

OcaEncode(type, v) ==
  CASE type.width = 0 -> LET b == Utf8Encode(v) IN U16(Len(b)) \o b
    [] type.width = 1 -> U8(v)
    [] OTHER          -> U16(v)

\* Mutant: a signed byte is read as an unsigned one.
Number_Unsigned(type, b) == IF type.width = 1 THEN b[1] ELSE At16(b, 1)

\* struct.unpack of a number of the type.
Number(type, b) ==
  LET n    == IF type.width = 1 THEN b[1] ELSE At16(b, 1)
      half == IF type.width = 1 THEN 128 ELSE 32768
  IN IF type.signed /\ n >= half THEN n - 2 * half ELSE n

\* The value at the start of s.
OcaDecode(type, s) ==
  IF type.width > 0
    THEN Then(unpack_from_stream(s, 0, type.width), LAMBDA b : <<Number(type, b)>>)
    ELSE Then(unpack_from_stream(s, 0, 2),
              LAMBDA b : Then(unpack_from_stream(s, 2, At16(b, 1)), Utf8Decode))

----------------------------------------------------------------------------
(* Message: the envelope of one datagram. *)

SYNC        == 59     \* 0x3B
MessageSize == 10     \* struct.calcsize("!BHIBH")
COMMAND     == 1
RESPONSE    == 3
KEEPALIVE   == 4

MessageEncode(size, type, count) ==
  U8(SYNC) \o U16(1) \o U32(Word(size)) \o U8(type) \o U16(count)

MessageDecode(s) ==
  Then(unpack_from_stream(s, 0, MessageSize),
       LAMBDA b : IF b[1] # SYNC THEN Raised
                  ELSE <<[size |-> At32(b, 4), type |-> b[8], count |-> At16(b, 9)]>>)

\* Mutant: the size counts the synchronisation byte.
send_pdus_CountsSync(type, pdus) ==
  LET body == FlattenSeq(pdus)
  IN MessageEncode(MessageSize + Len(body), type, Len(pdus)) \o body

\* The datagram that carries the encoded PDUs, all of one type.
send_pdus(type, pdus) ==
  LET body == FlattenSeq(pdus)
  IN MessageEncode(MessageSize - 1 + Len(body), type, Len(pdus)) \o body

----------------------------------------------------------------------------
(* Command and Keepalive. *)

CommandSize == 17     \* struct.calcsize("!IIIHHB")

\* params: the encoded parameters, each a byte string.
CommandEncode(handle, target, level, index, params) ==
  LET body == FlattenSeq(params)
  IN U32(Word(CommandSize + Len(body))) \o U32(handle) \o U32(Word(target))
       \o U16(level) \o U16(index) \o U8(Len(params)) \o body

\* At position i of s, with the types of the parameters that are expected: at
\* most one, as in every command of the device.
CommandDecode(s, i, types) ==
  Then(unpack_from_stream(s, i, CommandSize), LAMBDA b :
    LET Decoded(params) == <<[handle |-> At32(b, 5), target |-> At32(b, 9),
                              level |-> At16(b, 13), index |-> At16(b, 15), params |-> params]>>
    IN CASE b[17] # Len(types) -> Raised
         [] b[17] = Len(types) /\ types = <<>> -> Decoded(<<>>)
         [] OTHER -> Then(OcaDecode(types[1], Read(s, i + CommandSize, Len(s))),
                          LAMBDA v : Decoded(<<v>>)))

KeepaliveEncode(seconds) == U16(seconds)

----------------------------------------------------------------------------
(* Response. *)

ResponseSize == 10    \* _HEADER_SIZE
STATUS_OK    == 0

\* What a speaker sends; Response has no encode of its own.
ResponseEncode(handle, status, count, raw) ==
  U32(Word(ResponseSize + Len(raw))) \o U32(handle) \o U8(status) \o U8(count) \o raw

\* Mutant: a response's length is ignored, its parameters are all that follows.
ResponseDecode_Greedy(s, i) ==
  Then(unpack_from_stream(s, i, ResponseSize), LAMBDA b :
    <<[handle |-> At32(b, 5), status |-> b[9], count |-> b[10],
       raw |-> Read(s, i + ResponseSize, Len(s)), next |-> Len(s)]>>)

\* The length in the header b; one of 2^24 or more is taken as all of s, as no
\* datagram is that long.
ResponseLength(s, b) ==
  IF b[1] > 0 THEN Len(s) + ResponseSize ELSE 65536 * b[2] + At16(b, 3)

\* The response with the header b, and the position after it.
ResponseAt(s, i, b) ==
  LET raw == Read(s, i + ResponseSize, ResponseLength(s, b) - ResponseSize)
  IN [handle |-> At32(b, 5), status |-> b[9], count |-> b[10],
      raw |-> raw, next |-> i + ResponseSize + Len(raw)]

\* The response at position i of s: its length says how far its parameters go,
\* but they may be cut short.
ResponseDecode(s, i) ==
  Then(unpack_from_stream(s, i, ResponseSize), LAMBDA b :
    IF ResponseLength(s, b) < ResponseSize THEN Raised ELSE <<ResponseAt(s, i, b)>>)

\* The value of the one expected parameter; <<>> when none is expected.  What
\* follows it (a range, say) is left alone.
parse_params(response, types) ==
  CASE response.count < Len(types) -> Raised
    [] response.count >= Len(types) /\ types = <<>> -> << <<>> >>
    [] OTHER -> OcaDecode(types[1], response.raw)

----------------------------------------------------------------------------
(* Device.receive_...: what a datagram is taken for. *)

Skips     == [kind |-> "skip"]
Raises    == [kind |-> "raise"]
Returns(v) == [kind |-> "return", value |-> v]
Outcome(result) == IF result = Raised THEN Raises ELSE Returns(result[1])

\* The responses of a message, each decoded where the one before it ends.
ResponsesOf(s, count) ==
  LET nth[k \in 1..count] ==
        IF k = 1 THEN ResponseDecode(s, MessageSize)
        ELSE Then(nth[k - 1], LAMBDA r : ResponseDecode(s, r.next))
  IN [k \in 1..count |-> nth[k]]

\* The message s is, if it is one and holds responses.
ResponseMessage(s) ==
  Then(MessageDecode(s), LAMBDA m : IF m.type = RESPONSE THEN <<m>> ELSE Raised)

\* Mutant: the status is not looked at.
receive_matching_response_AnyStatus(s, handle, types) ==
  IF ResponseMessage(s) = Raised THEN Skips
  ELSE LET rs == ResponsesOf(s, ResponseMessage(s)[1].count)
           k  == SelectInSeq(rs, LAMBDA r : r = Raised \/ r[1].handle = handle)
       IN CASE k = 0 -> Skips
            [] k > 0 -> Outcome(Then(rs[k], LAMBDA r : parse_params(r, types)))

\* One round of receive_matching_response: what is no message of responses, or
\* has only responses to other commands, is skipped; the first response that
\* cannot be decoded, or is ours, decides.
receive_matching_response(s, handle, types) ==
  IF ResponseMessage(s) = Raised THEN Skips
  ELSE LET rs == ResponsesOf(s, ResponseMessage(s)[1].count)
           k  == SelectInSeq(rs, LAMBDA r : r = Raised \/ r[1].handle = handle)
       IN CASE k = 0 -> Skips
            [] k > 0 -> Outcome(Then(rs[k], LAMBDA r :
                          IF r.status = STATUS_OK THEN parse_params(r, types) ELSE Raised))

\* receive_response: the first response of a message, whatever its handle and
\* its status.
receive_response(s, types) ==
  IF ResponseMessage(s) = Raised THEN Raises
  ELSE IF ResponseMessage(s)[1].count < 1 THEN Raises
  ELSE Outcome(Then(ResponseDecode(s, MessageSize), LAMBDA r : parse_params(r, types)))

\* receive_responses: every response of a message, whatever its handle and its
\* status, with the types each is expected to have.
receive_responses(s, types) ==
  IF ResponseMessage(s) = Raised THEN Raises
  ELSE LET rs == ResponsesOf(s, ResponseMessage(s)[1].count)
           Typed(k) == Then(rs[k], LAMBDA r :
                         parse_params(r, IF k <= Len(types) THEN types[k] ELSE <<>>))
       IN IF \E k \in DOMAIN rs : Typed(k) = Raised THEN Raises
          ELSE Returns([k \in DOMAIN rs |-> Typed(k)[1]])

----------------------------------------------------------------------------
(* The commands of the device. *)

Parameter(target, level, type, values) ==
  [target |-> target, level |-> level, type |-> type, values |-> values]

TARGET_MUTE  == 33619989
TARGET_SLEEP == 50528364

\* _STATE_QUERIES, in order, with the values each setter sends, and the
\* description, which has no part in polls.
Parameters == <<
  Parameter(TARGET_MUTE, 4, OcaUint16, {1, 5}),      \* mute: 5 when muted
  Parameter(TARGET_SLEEP, 4, OcaUint16, {0, 1}),     \* sleep
  Parameter(16842763, 4, OcaUint16, {0, 1}),         \* input
  Parameter(50397289, 4, OcaUint16, {0, 1, 2}),      \* voicing
  Parameter(50397285, 5, OcaInt8, -2..1),            \* bass
  Parameter(50397286, 5, OcaInt8, -2..0),            \* desk
  Parameter(50397287, 5, OcaInt8, -1..1),            \* presence
  Parameter(50397288, 5, OcaInt8, -1..1),            \* treble
  Parameter(50593843, 5, OcaString, {<<>>, <<76, 233>>}) >>  \* "", "Lé"

METHOD_GET == 1
METHOD_SET == 2

GetCommand(handle, p)    == CommandEncode(handle, p.target, p.level, METHOD_GET, <<>>)
SetCommand(handle, p, v) ==
  CommandEncode(handle, p.target, p.level, METHOD_SET, <<OcaEncode(p.type, v)>>)

\* What a setter accepts: a Boolean for mute and sleep, else a value in range.
Accepted(p) == IF p.target \in {TARGET_MUTE, TARGET_SLEEP} THEN BOOLEAN ELSE p.values

\* The value on the wire for what the caller gave, and what the getter makes
\* of the value on the wire.
ToWire(p, x) ==
  IF p.target = TARGET_MUTE THEN IF x THEN 5 ELSE 1
  ELSE IF p.target = TARGET_SLEEP THEN IF x THEN 1 ELSE 0
  ELSE x

FromWire_Truthy(p, v) == IF p.target \in {TARGET_MUTE, TARGET_SLEEP} THEN v # 0 ELSE v
FromWire(p, v) ==
  IF p.target = TARGET_MUTE THEN v = 5
  ELSE IF p.target = TARGET_SLEEP THEN v # 0
  ELSE v

\* What a setter sends; out of range it raises and sends nothing.
Setter(handle, p, x) ==
  IF x \in Accepted(p) THEN Returns(SetCommand(handle, p, ToWire(p, x))) ELSE Raises

\* What a getter makes of the message s it has received.
Getter(s, handle, p) ==
  LET outcome == receive_matching_response(s, handle, <<p.type>>)
  IN IF outcome.kind = "return" THEN Returns(FromWire(p, outcome.value)) ELSE outcome

----------------------------------------------------------------------------
(* What the encoders and decoders promise each other.  The instances are    *)
(* fixed: handles that differ in one byte only, and small messages.         *)

SomeHandles == {<<0, 1>>, <<0, 256>>, <<1, 0>>, <<256, 0>>, <<65535, 65535>>}

\* What a speaker answers: the value, and the range it may add to it.
Answer(handle, type, v, range) ==
  ResponseEncode(handle, STATUS_OK, 1, OcaEncode(type, v) \o range)

\* What a setter sends is decoded, on the speaker's side, as a SET of that
\* parameter, and once the speaker holds what was sent, the getter gives back
\* what the setter was given, with or without a range behind the value: also
\* the negative ones, the mute's 5, and a text whose bytes outnumber its
\* characters (encode and decode of Command, Response and OcaType, the
\* targets, types and conversions of the setters and the getters).
SetThenRead ==
  \A i \in DOMAIN Parameters, h \in SomeHandles :
    LET p == Parameters[i]
    IN \A x \in Accepted(p) :
         LET v == ToWire(p, x)
         IN /\ CommandDecode(send_pdus(COMMAND, <<Setter(h, p, x).value>>), MessageSize, <<p.type>>)
                 = <<[handle |-> h, target |-> Word(p.target), level |-> p.level,
                      index |-> METHOD_SET, params |-> <<v>>]>>
            /\ \A range \in {<<>>, <<254, 1>>} :
                 Getter(send_pdus(RESPONSE, <<Answer(h, p.type, v, range)>>), h, p) = Returns(x)

\* A message of two responses, cut at any length, is read as the whole message
\* is, or not at all: no prefix gives a value the speaker did not send, and
\* none gives one response's value for the other (unpack_from_stream, and the
\* short read of Response.decode).
PrefixesAreSafe ==
  \A g, h \in SomeHandles, i, j \in DOMAIN Parameters :
    g # h =>
      LET p == Parameters[i]
          q == Parameters[j]
          v == CHOOSE x \in p.values : TRUE
          w == CHOOSE x \in q.values : TRUE
          whole == send_pdus(RESPONSE, <<Answer(g, p.type, v, <<>>), Answer(h, q.type, w, <<1, 2>>)>>)
      IN \A n \in 0..Len(whole) :
           receive_matching_response(SubSeq(whole, 1, n), h, <<q.type>>)
             \in {Skips, Raises, Returns(w)}

\* The lengths agree with the bytes: a message's size counts all of it but the
\* first byte, and the lengths of its commands lead from each to the next and
\* from the last to the end (send_pdus, Command.encode).
LengthsAgree ==
  \A h \in SomeHandles, i, j \in DOMAIN Parameters :
    \A v \in Parameters[i].values :
      LET first == SetCommand(h, Parameters[i], v)
          s == send_pdus(COMMAND, <<first, GetCommand(h, Parameters[j])>>)
          After(at) == at + At16(s, at + 3)
      IN /\ MessageDecode(s)[1].size = Word(Len(s) - 1)
         /\ MessageDecode(s)[1].count = 2
         /\ After(After(MessageSize)) = Len(s)

\* In a message of several responses each has its own parameters, whatever
\* stands behind them: read together they come in order, and each is found by
\* its handle (Response.decode and the receive_... methods of Device).
EachHasItsOwn ==
  \A g, h \in SomeHandles, i, j \in DOMAIN Parameters :
    g # h =>
      LET p == Parameters[i]
          q == Parameters[j]
      IN \A v \in p.values, w \in q.values :
           LET s == send_pdus(RESPONSE, <<Answer(g, p.type, v, <<3>>), Answer(h, q.type, w, <<>>)>>)
           IN /\ receive_response(s, <<p.type>>) = Returns(v)
              /\ receive_responses(s, <<<<p.type>>, <<q.type>>>>) = Returns(<<v, w>>)
              /\ receive_matching_response(s, g, <<p.type>>) = Returns(v)
              /\ receive_matching_response(s, h, <<q.type>>) = Returns(w)
=============================================================================
