----------------------------- MODULE DeviceWire -----------------------------
(***************************************************************************)
(* The datagrams of DeviceLink as the bytes of Wire.  DeviceLink tells     *)
(* four kinds of datagram apart (a value, none, cut short, junk) and lets  *)
(* each be matched, skipped or refused; here every kind is given bytes     *)
(* that stand for it, and receive_matching_response is run on them.        *)
(***************************************************************************)
EXTENDS DeviceLink, Wire

\* The values are numbers that every type of a polled parameter can hold, and
\* handles have 32 bits, as in the code.
ASSUME WireAssumption ==
  /\ Values \subseteq 0..127
  /\ HandleMax \div 65536 < 65536

\* The types of the polled parameters.
PolledTypes == {OcaUint16, OcaInt8}

Reply(d, status, count, raw) ==
  send_pdus(RESPONSE, <<ResponseEncode(Word(d.handle), status, count, raw)>>)

CutAt(s, lengths) == {SubSeq(s, 1, n) : n \in lengths}

\* A reply with a value: what may follow the value is a range.
WithValue(d, type, v) ==
  {Reply(d, STATUS_OK, 1, OcaEncode(type, v) \o range) : range \in {<<>>, <<255, 1>>}}

\* A reply without a usable one: an error, an acknowledgement, or a value cut
\* short (by the network, or by a count that promises more than there is).
WithoutValue(d, type) ==
  LET raw == OcaEncode(type, 1)
  IN {Reply(d, 5, 0, <<>>), Reply(d, 5, 1, raw), Reply(d, STATUS_OK, 0, <<>>)}
       \cup {Reply(d, STATUS_OK, 1, SubSeq(raw, 1, n)) : n \in 0..(type.width - 1)}
       \cup CutAt(Reply(d, STATUS_OK, 1, raw),
                  (MessageSize + ResponseSize)..(MessageSize + ResponseSize + type.width - 1))

\* A reply that ends before its handle, status and count do, or whose length
\* is shorter than those.
CutShort(d, type) ==
  CutAt(Reply(d, STATUS_OK, 1, OcaEncode(type, 1)), MessageSize..(MessageSize + ResponseSize - 1))
    \cup {MessageEncode(19, RESPONSE, 1) \o U32(Word(9)) \o U32(Word(d.handle)) \o <<0, 0>>}

\* No response: what is no message, a keepalive's acknowledgement, a command,
\* an empty message, and what is left of a reply cut in the envelope.
NoResponse(type) ==
  {<<>>, <<0>> \o send_pdus(RESPONSE, <<ResponseEncode(Word(handle), STATUS_OK, 1, OcaEncode(type, 1))>>)}
    \cup {send_pdus(KEEPALIVE, <<KeepaliveEncode(30)>>),
          send_pdus(COMMAND, <<GetCommand(Word(handle), Parameters[1])>>),
          MessageEncode(MessageSize - 1, RESPONSE, 0)}
    \cup CutAt(MessageEncode(MessageSize - 1, RESPONSE, 1), 1..(MessageSize - 1))

AsBytes(d, type) ==
  CASE d = Junk -> NoResponse(type)
    [] d # Junk /\ d.report = Cut -> CutShort(d, type)
    [] d # Junk /\ d.report = NoValue -> WithoutValue(d, type)
    [] OTHER -> WithValue(d, type, d.report)

\* What DeviceLink's Match, Skip and ReceiveCut do with d.
Treated(d) ==
  CASE d.report = Cut -> Raises
    [] d.report # Cut /\ ~Matches(d) -> Skips
    [] Matches(d) /\ d.report \in Values -> Returns(d.report)
    [] OTHER -> Raises

\* What a read makes of any datagram in the socket's buffer, computed from its
\* bytes, is what DeviceLink's actions do with it: a reply cut in its value is
\* refused only if it is ours, one cut before that whoever it was meant for.
\* So what is shown of DeviceLink holds for the bytes on the wire
\* (receive_matching_response, Response.decode, parse_params).
BytesAreTreatedSo ==
  Reading =>
    \A i \in 1..Len(rx), type \in PolledTypes :
      \A s \in AsBytes(rx[i], type) :
        receive_matching_response(s, Word(handle), <<type>>) = Treated(rx[i])

\* The codec has no state.  It is evaluated where the device has just
\* connected, as evaluating it again in every state would show nothing more.
JustConnected == handle = 0 /\ requests = {} /\ replies = {} /\ rx = <<>>

\* The encoders and the decoders agree, for one command or response in a
\* message and for several, and their lengths with the bytes that are there
\* (encode, decode and send_pdus, and the receive_... methods of Device).
WhatIsSentIsRead == JustConnected => SetThenRead /\ LengthsAgree /\ EachHasItsOwn

\* Nothing that is cut short is taken for what was not sent
\* (unpack_from_stream and Response.decode).
CutIsNeverMisread == JustConnected => PrefixesAreSafe
=============================================================================
