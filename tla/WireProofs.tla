----------------------------- MODULE WireProofs -----------------------------
(***************************************************************************)
(* Proofs about Wire, for every handle, value, text and byte string: what  *)
(* is sent is read back, a message of many responses keeps them apart, and *)
(* what is left of a message that is cut is never read as something else.  *)
(* The lemmas go from fields to messages: what is in each byte of what is  *)
(* sent, then what is decoded from a byte string of which certain bytes    *)
(* are known.                                                              *)
(***************************************************************************)
EXTENDS Wire, SequenceTheorems, WellFoundedInduction, TLAPS

Byte == 0..255
Half == {n \in Nat : n < 65536}

\* The bytes of a 16-bit field, and the number they stand for.
LEMMA Halves ==
  ASSUME NEW n \in Nat
  PROVE  /\ n \div 256 \in Nat /\ (n \div 256) % 256 \in Byte /\ n % 256 \in Byte
         /\ 256 * ((n \div 256) % 256) + (n % 256) = n % 65536
<1>1. (n \div 256) % 256 \in Byte /\ n % 256 \in Byte /\ n \div 256 \in Nat
  BY SMT DEF Byte
<1>2. 256 * ((n \div 256) % 256) + (n % 256) = n % 65536
  BY SMT
<1> QED
  BY <1>1, <1>2, SMT

\* A number of 16 bits fits in one field.
LEMMA Small ==
  ASSUME NEW n \in Half
  PROVE  n \in Nat /\ n % 65536 = n /\ n \div 65536 = 0
<1>1. n \in Nat /\ 0 <= n /\ n < 65536
  BY SMT DEF Half
<1>2. n % 65536 = n
  BY <1>1, SMT
<1>3. n \div 65536 = 0
  BY <1>1, SMT
<1> QED
  BY <1>1, <1>2, <1>3, SMT

\* U16 writes two bytes, which hold the number as far as 16 bits go.
LEMMA U16Bytes ==
  ASSUME NEW n \in Nat
  PROVE  /\ U16(n) \in Seq(Byte) /\ Len(U16(n)) = 2
         /\ 256 * U16(n)[1] + U16(n)[2] = n % 65536
<1> DEFINE a == (n \div 256) % 256
           b == n % 256
<1>1. a \in Byte /\ b \in Byte /\ 256 * a + b = n % 65536
  BY Halves, SMT
<1>2. U16(n) = <<a, b>>
  BY DEF U16
<1> HIDE DEF a, b
<1>3. U16(n) \in Seq(Byte) /\ Len(U16(n)) = 2 /\ U16(n)[1] = a /\ U16(n)[2] = b
  BY <1>1, <1>2, SMT
<1> QED
  BY <1>1, <1>3, SMT

\* A number of 16 bits can be read back.
LEMMA U16Half ==
  ASSUME NEW n \in Half
  PROVE  /\ U16(n) \in Seq(Byte) /\ Len(U16(n)) = 2
         /\ 256 * U16(n)[1] + U16(n)[2] = n
  BY U16Bytes, Small, SMT

\* So can a word of 32 bits.
LEMMA WordBytes ==
  ASSUME NEW w \in Half \X Half
  PROVE  /\ U32(w) \in Seq(Byte) /\ Len(U32(w)) = 4
         /\ At32(U32(w), 1) = w
<1>1. w[1] \in Half /\ w[2] \in Half /\ w = <<w[1], w[2]>>
  OBVIOUS
<1>2. PICK a \in Seq(Byte), b \in Seq(Byte) : a = U16(w[1]) /\ b = U16(w[2])
  BY <1>1, U16Half, SMT
<1>3. /\ Len(a) = 2 /\ 256 * a[1] + a[2] = w[1]
      /\ Len(b) = 2 /\ 256 * b[1] + b[2] = w[2]
  BY <1>1, <1>2, U16Half, SMT
<1>4. /\ a \o b \in Seq(Byte) /\ Len(a \o b) = 4
      /\ (a \o b)[1] = a[1] /\ (a \o b)[2] = a[2]
      /\ (a \o b)[3] = b[1] /\ (a \o b)[4] = b[2]
  BY <1>3, ConcatProperties, SMT
<1>5. U32(w) = a \o b
  BY <1>2 DEF U32
<1>6. At32(a \o b, 1) = <<w[1], w[2]>>
  BY <1>3, <1>4, SMT DEF At32, At16
<1> QED
  BY <1>1, <1>4, <1>5, <1>6, SMT

----------------------------------------------------------------------------
(* Reading fields from a byte string. *)

\* Reading n bytes at position i: what is there, and all of it or none.
LEMMA ReadAll ==
  ASSUME NEW s \in Seq(Byte), NEW i \in Nat, NEW n \in Nat, i + n <= Len(s)
  PROVE  /\ Read(s, i, n) \in Seq(Byte) /\ Len(Read(s, i, n)) = n
         /\ \A k \in 1..n : Read(s, i, n)[k] = s[i + k]
<1>1. Read(s, i, n) = SubSeq(s, i + 1, i + n)
  BY SMT DEF Read
<1>2. i + 1 \in Int /\ i + n \in Int /\ \A k \in (i + 1)..(i + n) : s[k] \in Byte
  BY ElementOfSeq, SMT
<1>3. \A k \in 1..n : (i + 1) + k - 1 = i + k
  BY SMT
<1>4. /\ SubSeq(s, i + 1, i + n) \in Seq(Byte)
      /\ Len(SubSeq(s, i + 1, i + n)) = IF i + 1 <= i + n THEN i + n - (i + 1) + 1 ELSE 0
      /\ \A k \in 1..(i + n - (i + 1) + 1) : SubSeq(s, i + 1, i + n)[k] = s[(i + 1) + k - 1]
  BY <1>2, SubSeqProperties, SMT
<1> QED
  BY <1>1, <1>3, <1>4, SMT

\* Reading past the end: what there is.
LEMMA ReadShort ==
  ASSUME NEW s \in Seq(Byte), NEW i \in Nat, NEW n \in Nat, i + n > Len(s)
  PROVE  /\ Read(s, i, n) \in Seq(Byte)
         /\ Len(Read(s, i, n)) = IF i < Len(s) THEN Len(s) - i ELSE 0
         /\ \A k \in 1..(Len(s) - i) : Read(s, i, n)[k] = s[i + k]
<1>1. Read(s, i, n) = SubSeq(s, i + 1, Len(s)) /\ Len(s) \in Nat
  BY LenProperties, SMT DEF Read
<1>2. \A k \in (i + 1)..Len(s) : s[k] \in Byte
  BY ElementOfSeq, SMT
<1>3. i + 1 \in Int /\ Len(s) \in Int
  BY <1>1, SMT
<1>4. /\ SubSeq(s, i + 1, Len(s)) \in Seq(Byte)
      /\ Len(SubSeq(s, i + 1, Len(s)))
           = IF i + 1 <= Len(s) THEN Len(s) - (i + 1) + 1 ELSE 0
      /\ \A k \in 1..(Len(s) - (i + 1) + 1) :
           SubSeq(s, i + 1, Len(s))[k] = s[(i + 1) + k - 1]
  BY <1>2, <1>3, SubSeqProperties, SMT
<1>5. \A k \in 1..(Len(s) - i) : (i + 1) + k - 1 = i + k
  BY <1>1, SMT
<1>6. Len(s) - (i + 1) + 1 = Len(s) - i
  BY <1>1, SMT
<1> QED
  BY <1>1, <1>4, <1>5, <1>6, SMT

\* unpack_from_stream returns what is all there.
LEMMA UnpackAll ==
  ASSUME NEW s \in Seq(Byte), NEW i \in Nat, NEW n \in Nat, i + n <= Len(s)
  PROVE  unpack_from_stream(s, i, n) = <<Read(s, i, n)>>
  BY ReadAll, SMT DEF unpack_from_stream

\* It raises where something is missing.
LEMMA UnpackShort ==
  ASSUME NEW s \in Seq(Byte), NEW i \in Nat, NEW n \in Nat, i + n > Len(s), n > 0
  PROVE  unpack_from_stream(s, i, n) = Raised
<1>1. Len(s) \in Nat
  BY LenProperties
<1>2. Len(Read(s, i, n)) # n
  BY <1>1, ReadShort, SMT
<1> QED
  BY <1>2 DEF unpack_from_stream

\* An exception is not taken for a value.
LEMMA RaisedIs == Raised = <<>> /\ \A v : <<v>> # Raised /\ <<v>>[1] = v
  BY SMT DEF Raised

\* MessageDecode by the bytes it looks at.
LEMMA MessageIs ==
  ASSUME NEW s \in Seq(Byte)
  PROVE  MessageDecode(s) =
           IF Len(s) < 10 \/ s[1] # 59 THEN Raised
           ELSE <<[size |-> <<At16(s, 4), At16(s, 6)>>, type |-> s[8], count |-> At16(s, 9)]>>
<1>1. 0 \in Nat /\ 10 \in Nat /\ Len(s) \in Nat
  BY LenProperties, SMT
<1>2. CASE Len(s) < 10
  <2>1. unpack_from_stream(s, 0, 10) = Raised
    BY <1>1, <1>2, UnpackShort, SMT
  <2> QED
    BY <1>2, <2>1, SMT DEF MessageDecode, MessageSize, Then
<1>3. CASE ~(Len(s) < 10)
  <2>1. PICK b : b = Read(s, 0, 10)
    OBVIOUS
  <2>2. unpack_from_stream(s, 0, 10) = <<b>> /\ \A k \in 1..10 : b[k] = s[k]
    <3>1. 0 + 10 <= Len(s)
      BY <1>1, <1>3, SMT
    <3>2. unpack_from_stream(s, 0, 10) = <<b>>
      BY <1>1, <2>1, <3>1, UnpackAll
    <3>3. \A k \in 1..10 : b[k] = s[0 + k]
      BY <1>1, <2>1, <3>1, ReadAll
    <3>4. \A k \in 1..10 : 0 + k = k
      BY SMT
    <3> QED
      BY <3>2, <3>3, <3>4
  <2>3. <<b>> # Raised /\ <<b>>[1] = b
    BY RaisedIs
  <2>4. b[1] = s[1] /\ b[8] = s[8] /\ At16(b, 9) = At16(s, 9)
        /\ At32(b, 4) = <<At16(s, 4), At16(s, 6)>>
    BY <2>2, SMT DEF At16, At32
  <2>5. MessageDecode(s) =
          IF b[1] # 59 THEN Raised
          ELSE <<[size |-> At32(b, 4), type |-> b[8], count |-> At16(b, 9)]>>
    BY <2>2, <2>3, SMT DEF MessageDecode, MessageSize, Then, SYNC
  <2> QED
    BY <1>3, <2>4, <2>5, SMT
<1> QED
  BY <1>2, <1>3, SMT

\* The header of the response at position i.
Header(s, i) == Read(s, i, 10)

\* ResponseDecode by the bytes it looks at.
LEMMA ResponseIs ==
  ASSUME NEW s \in Seq(Byte), NEW i \in Nat
  PROVE  /\ i + 10 > Len(s) => ResponseDecode(s, i) = Raised
         /\ i + 10 <= Len(s) =>
              /\ \A k \in 1..10 : Header(s, i)[k] = s[i + k]
              /\ ResponseDecode(s, i) =
                   IF ResponseLength(s, Header(s, i)) < 10 THEN Raised
                   ELSE <<ResponseAt(s, i, Header(s, i))>>
<1>1. 10 \in Nat /\ Len(s) \in Nat
  BY LenProperties, SMT
<1>2. ASSUME i + 10 > Len(s) PROVE ResponseDecode(s, i) = Raised
  <2>1. unpack_from_stream(s, i, 10) = Raised
    BY <1>1, <1>2, UnpackShort, SMT
  <2> QED
    BY <2>1 DEF ResponseDecode, ResponseSize, Then
<1>3. ASSUME i + 10 <= Len(s)
      PROVE  /\ \A k \in 1..10 : Header(s, i)[k] = s[i + k]
             /\ ResponseDecode(s, i) =
                  IF ResponseLength(s, Header(s, i)) < 10 THEN Raised
                  ELSE <<ResponseAt(s, i, Header(s, i))>>
  <2>1. unpack_from_stream(s, i, 10) = <<Header(s, i)>>
    BY <1>1, <1>3, UnpackAll DEF Header
  <2>2. <<Header(s, i)>> # Raised /\ <<Header(s, i)>>[1] = Header(s, i)
    BY RaisedIs
  <2>3. ResponseDecode(s, i) =
                  IF ResponseLength(s, Header(s, i)) < 10 THEN Raised
                  ELSE <<ResponseAt(s, i, Header(s, i))>>
    BY <2>1, <2>2 DEF ResponseDecode, ResponseSize, Then
  <2>4. \A k \in 1..10 : Header(s, i)[k] = s[i + k]
    BY <1>1, <1>3, ReadAll DEF Header
  <2> QED
    BY <2>3, <2>4
<1> QED
  BY <1>2, <1>3

----------------------------------------------------------------------------
(* What is in each byte of a message. *)

\* s is a, followed by b.
Joins(s, a, b) ==
  /\ s \in Seq(Byte)
  /\ Len(s) = Len(a) + Len(b)
  /\ \A k \in 1..Len(a) : s[k] = a[k]
  /\ \A k \in Len(a) + 1 .. Len(a) + Len(b) : s[k] = b[k - Len(a)]

\* What concatenation does.
LEMMA Joined ==
  ASSUME NEW a \in Seq(Byte), NEW b \in Seq(Byte)
  PROVE  Joins(a \o b, a, b)
<1>1. /\ a \o b \in Seq(Byte) /\ Len(a \o b) = Len(a) + Len(b)
      /\ \A i \in 1..Len(a) + Len(b) :
           (a \o b)[i] = IF i <= Len(a) THEN a[i] ELSE b[i - Len(a)]
  BY ConcatProperties, Zenon
<1>2. PICK s : s = a \o b
  OBVIOUS
<1>3. /\ s \in Seq(Byte) /\ Len(s) = Len(a) + Len(b)
      /\ \A i \in 1..Len(a) + Len(b) : s[i] = IF i <= Len(a) THEN a[i] ELSE b[i - Len(a)]
  BY <1>1, <1>2, Zenon
<1>4. Joins(s, a, b)
  BY <1>3, LenProperties, SMT DEF Joins
<1> QED
  BY <1>2, <1>4, Zenon

\* A message of one PDU has the bytes of that PDU.
LEMMA FlattenOne ==
  ASSUME NEW p
  PROVE  FlattenSeq(<<p>>) = p
<1> DEFINE Rec(f) == f = [i \in 1..1 |-> IF i = 1 THEN <<p>>[i] ELSE f[i - 1] \o <<p>>[i]]
           f == CHOOSE g : Rec(g)
<1>1. Rec([i \in 1..1 |-> p])
  OBVIOUS
<1>2. Rec(f)
  BY <1>1
<1>3. f[1] = p
  BY <1>2
<1>4. FlattenSeq(<<p>>) = f[1]
  BY DEF FlattenSeq
<1> QED
  BY <1>3, <1>4

\* U8 writes one byte.
LEMMA ByteBytes ==
  ASSUME NEW n \in Byte
  PROVE  U8(n) \in Seq(Byte) /\ Len(U8(n)) = 1 /\ U8(n)[1] = n
<1>1. n % 256 = n
  BY SMT DEF Byte
<1> QED
  BY <1>1, SMT DEF U8

\* Four bytes, whatever the number.
LEMMA WordOf ==
  ASSUME NEW m \in Nat, NEW n \in Nat
  PROVE  U32(<<m, n>>) \in Seq(Byte) /\ Len(U32(<<m, n>>)) = 4
<1>1. PICK x \in Seq(Byte), y \in Seq(Byte) :
         x = U16(m) /\ y = U16(n) /\ Len(x) = 2 /\ Len(y) = 2
  BY U16Bytes
<1>2. Joins(x \o y, x, y)
  BY Joined, Zenon
<1>3. x \o y \in Seq(Byte) /\ Len(x \o y) = 4
  BY <1>1, <1>2, SMT DEF Joins
<1>4. U32(<<m, n>>) = x \o y
  BY <1>1, SMT DEF U32
<1> QED
  BY <1>3, <1>4, Zenon

\* The envelope's bytes, whatever its size field says.
LEMMA EnvelopeBytes ==
  ASSUME NEW size \in Nat, NEW type \in Byte, NEW count \in Half,
         NEW s, s = MessageEncode(size, type, count)
  PROVE  s \in Seq(Byte) /\ Len(s) = 10 /\ s[1] = 59 /\ s[8] = type /\ At16(s, 9) = count
<1>1. PICK a \in Seq(Byte) : a = U8(59) /\ Len(a) = 1 /\ a[1] = 59
  <2>1. 59 \in Byte
    BY SMT DEF Byte
  <2> QED
    BY <2>1, ByteBytes
<1>2. PICK b \in Seq(Byte) : b = U16(1) /\ Len(b) = 2
  BY U16Bytes
<1>3. PICK c \in Seq(Byte) : c = U32(Word(size)) /\ Len(c) = 4
  <2>1. size \div 65536 \in Nat /\ size % 65536 \in Nat
    <3>1. size \div 65536 \in Nat
      BY SMT
    <3>2. size % 65536 \in Nat
      BY SMT
    <3> QED
      BY <3>1, <3>2, SMT
  <2>2. PICK m \in Nat, n \in Nat : Word(size) = <<m, n>>
    BY <2>1, SMT DEF Word
  <2> QED
    BY <2>2, WordOf
<1>4. PICK d \in Seq(Byte) : d = U8(type) /\ Len(d) = 1 /\ d[1] = type
  BY ByteBytes
<1>5. PICK e \in Seq(Byte) : e = U16(count) /\ Len(e) = 2 /\ 256 * e[1] + e[2] = count
  BY U16Half, Zenon
<1>6. PICK ab : ab = a \o b
  OBVIOUS
<1>7. Joins(ab, a, b)
  BY <1>6, Joined, Zenon
<1>8. ab \in Seq(Byte) /\ Len(ab) = 3 /\ ab[1] = 59
  <2>1. Len(a) = 1 /\ a[1] = 59 /\ Len(b) = 2
    BY <1>1, <1>2, Zenon
  <2> QED
    BY <1>7, <2>1, SMT DEF Joins
<1>9. PICK abc : abc = ab \o c
  OBVIOUS
<1>10. Joins(abc, ab, c)
  BY <1>8, <1>9, Joined, Zenon
<1>11. abc \in Seq(Byte) /\ Len(abc) = 7 /\ abc[1] = 59
  BY <1>3, <1>8, <1>10, SMT DEF Joins
<1>12. PICK abcd : abcd = abc \o d
  OBVIOUS
<1>13. Joins(abcd, abc, d)
  BY <1>11, <1>12, Joined, Zenon
<1>14. abcd \in Seq(Byte) /\ Len(abcd) = 8 /\ abcd[1] = 59 /\ abcd[8] = type
  BY <1>4, <1>11, <1>13, SMT DEF Joins
<1>15. PICK m : m = abcd \o e
  OBVIOUS
<1>16. Joins(m, abcd, e)
  BY <1>14, <1>15, Joined, Zenon
<1>17. /\ m \in Seq(Byte) /\ Len(m) = 10 /\ m[1] = 59 /\ m[8] = type
       /\ m[9] = e[1] /\ m[10] = e[2]
  BY <1>5, <1>14, <1>16, SMT DEF Joins
<1>18. At16(m, 9) = count
  BY <1>5, <1>17, SMT DEF At16
<1>19. MessageEncode(size, type, count) = m
  BY <1>1, <1>2, <1>3, <1>4, <1>5, <1>6, <1>9, <1>12, <1>15 DEF MessageEncode, SYNC
<1> QED
  BY <1>17, <1>18, <1>19, Zenon

\* The bytes of a response.
IsResponse(s, w, status, count, raw) ==
  /\ s \in Seq(Byte) /\ Len(s) = 10 + Len(raw)
  /\ s[1] = 0 /\ s[2] = 0 /\ At16(s, 3) = 10 + Len(raw)
  /\ At32(s, 5) = w /\ s[9] = status /\ s[10] = count
  /\ \A k \in 1..Len(raw) : s[10 + k] = raw[k]

LEMMA ResponseBytes ==
  ASSUME NEW w \in Half \X Half, NEW status \in Byte, NEW count \in Byte,
         NEW raw \in Seq(Byte), 10 + Len(raw) \in Half
  PROVE  IsResponse(ResponseEncode(w, status, count, raw), w, status, count, raw)
<1>1. PICK n \in Half : n = 10 + Len(raw)
  BY Zenon
<1>2. Word(n) = <<0, n>>
  <2>1. n \div 65536 = 0
    BY Small, SMT
  <2>2. n % 65536 = n
    BY Small
  <2> QED
    BY <2>1, <2>2, SMT DEF Word
<1>3. PICK z \in Seq(Byte) : z = U16(0) /\ Len(z) = 2 /\ z[1] = 0 /\ z[2] = 0
  <2>1. U16(0) = <<0, 0>>
    BY SMT DEF U16
  <2>2. 0 \in Byte
    BY SMT DEF Byte
  <2>3. PICK z : z = <<0, 0>>
    OBVIOUS
  <2>4. z \in Seq(Byte) /\ Len(z) = 2 /\ z[1] = 0 /\ z[2] = 0
    BY <2>2, <2>3, SMT
  <2> QED
    BY <2>1, <2>3, <2>4, Zenon
<1>4. PICK b \in Seq(Byte) : b = U16(n) /\ Len(b) = 2 /\ 256 * b[1] + b[2] = n
  BY U16Half, Zenon
<1>5. PICK c \in Seq(Byte) : c = U32(w) /\ Len(c) = 4 /\ At32(c, 1) = w
  BY WordBytes, Zenon
<1>6. PICK d \in Seq(Byte) : d = U8(status) /\ Len(d) = 1 /\ d[1] = status
  BY ByteBytes
<1>7. PICK e \in Seq(Byte) : e = U8(count) /\ Len(e) = 1 /\ e[1] = count
  BY ByteBytes
<1>8. PICK a : a = z \o b
  OBVIOUS
<1>9. Joins(a, z, b)
  BY <1>8, Joined, Zenon
<1>10. a \in Seq(Byte) /\ Len(a) = 4 /\ a[1] = 0 /\ a[2] = 0 /\ a[3] = b[1] /\ a[4] = b[2]
  <2>1. Len(z) = 2 /\ z[1] = 0 /\ z[2] = 0 /\ Len(b) = 2
    BY <1>3, <1>4, Zenon
  <2> QED
    BY <1>9, <2>1, SMT DEF Joins
<1>11. PICK ac : ac = a \o c
  OBVIOUS
<1>12. Joins(ac, a, c)
  BY <1>10, <1>11, Joined, Zenon
<1>13. /\ ac \in Seq(Byte) /\ Len(ac) = 8
       /\ ac[1] = 0 /\ ac[2] = 0 /\ ac[3] = b[1] /\ ac[4] = b[2]
       /\ ac[5] = c[1] /\ ac[6] = c[2] /\ ac[7] = c[3] /\ ac[8] = c[4]
  BY <1>5, <1>10, <1>12, SMT DEF Joins
<1>14. PICK acd : acd = ac \o d
  OBVIOUS
<1>15. Joins(acd, ac, d)
  BY <1>13, <1>14, Joined, Zenon
<1>16. PICK acde : acde = acd \o e
  OBVIOUS
<1>17. acd \in Seq(Byte) /\ Len(acd) = 9 /\ acd[9] = status /\ \A k \in 1..8 : acd[k] = ac[k]
  BY <1>6, <1>13, <1>15, SMT DEF Joins
<1>18. Joins(acde, acd, e)
  BY <1>16, <1>17, Joined, Zenon
<1>19. /\ acde \in Seq(Byte) /\ Len(acde) = 10 /\ acde[9] = status /\ acde[10] = count
       /\ \A k \in 1..8 : acde[k] = ac[k]
  BY <1>7, <1>17, <1>18, SMT DEF Joins
<1>20. PICK r : r = acde \o raw
  OBVIOUS
<1>21. Joins(r, acde, raw)
  BY <1>19, <1>20, Joined, Zenon
<1>22. /\ r \in Seq(Byte) /\ Len(r) = 10 + Len(raw)
       /\ \A k \in 1..10 : r[k] = acde[k]
       /\ \A k \in 11..(10 + Len(raw)) : r[k] = raw[k - 10]
  BY <1>19, <1>21, SMT DEF Joins
<1>23. /\ r[1] = 0 /\ r[2] = 0 /\ r[3] = b[1] /\ r[4] = b[2] /\ r[9] = status /\ r[10] = count
       /\ r[5] = c[1] /\ r[6] = c[2] /\ r[7] = c[3] /\ r[8] = c[4]
  <2>1. \A k \in 1..8 : k \in 1..10
    BY SMT
  <2>2. r[9] = status /\ r[10] = count
    BY <1>19, <1>22, SMT
  <2>3. \A k \in 1..8 : r[k] = ac[k]
    BY <1>19, <1>22, <2>1, Zenon
  <2>4. /\ r[1] = ac[1] /\ r[2] = ac[2] /\ r[3] = ac[3] /\ r[4] = ac[4]
        /\ r[5] = ac[5] /\ r[6] = ac[6] /\ r[7] = ac[7] /\ r[8] = ac[8]
    BY <2>3, SMT
  <2> QED
    BY <1>13, <2>2, <2>4, Zenon
<1>24. At32(r, 5) = w
  BY <1>5, <1>23, SMTT(30) DEF At32, At16
<1>25. At16(r, 3) = 10 + Len(raw)
  BY <1>1, <1>4, <1>23, SMT DEF At16
<1>26. \A k \in 1..Len(raw) : r[10 + k] = raw[k]
  <2>1. Len(raw) \in Nat
    BY LenProperties
  <2>2. ASSUME NEW k \in 1..Len(raw) PROVE r[10 + k] = raw[k]
    <3>1. 10 + k \in 11..(10 + Len(raw)) /\ 10 + k - 10 = k
      BY <2>1, SMT
    <3> QED
      BY <1>22, <3>1, SMTT(30)
  <2> QED
    BY <2>2
<1>27. ResponseEncode(w, status, count, raw) = r
  <2>1. U32(Word(n)) = z \o b
    BY <1>2, <1>3, <1>4, SMT DEF U32
  <2>2. ResponseEncode(w, status, count, raw) = (z \o b) \o c \o d \o e \o raw
    BY <1>1, <1>5, <1>6, <1>7, <2>1, Zenon DEF ResponseEncode, ResponseSize
  <2> QED
    BY <1>8, <1>11, <1>14, <1>16, <1>20, <2>2, Zenon
<1> QED
  BY <1>22, <1>23, <1>24, <1>25, <1>26, <1>27, Zenon DEF IsResponse

----------------------------------------------------------------------------
(* What is made of a message. *)

\* Of a message of one response, one response is decoded.
LEMMA OnlyOne ==
  ASSUME NEW s, NEW x, x = ResponseDecode(s, 10)
  PROVE  ResponsesOf(s, 1) = [k \in 1..1 |-> x]
<1> DEFINE Rec(f) ==
             f = [k \in 1..1 |-> IF k = 1 THEN ResponseDecode(s, MessageSize)
                                 ELSE Then(f[k - 1], LAMBDA r : ResponseDecode(s, r.next))]
           nth == CHOOSE f : Rec(f)
<1>1. Rec([k \in 1..1 |-> x])
  BY DEF MessageSize
<1>2. Rec(nth)
  BY <1>1
<1>3. \A k \in 1..1 : nth[k] = x
  BY <1>2 DEF MessageSize
<1>4. ResponsesOf(s, 1) = [k \in 1..1 |-> nth[k]]
  BY DEF ResponsesOf
<1> HIDE DEF nth
<1> QED
  BY <1>3, <1>4

\* receive_matching_response on a message of one response.
LEMMA OneResponse ==
  ASSUME NEW s \in Seq(Byte), NEW h, NEW types, NEW x, x = ResponseDecode(s, 10),
         Len(s) >= 10, s[1] = 59, s[8] = 3, At16(s, 9) = 1
  PROVE  receive_matching_response(s, h, types) =
           CASE x = Raised -> Raises
             [] x # Raised /\ x[1].handle # h -> Skips
             [] OTHER -> IF x[1].status = 0 THEN Outcome(parse_params(x[1], types))
                         ELSE Raises
<1> DEFINE m == [size |-> <<At16(s, 4), At16(s, 6)>>, type |-> s[8], count |-> At16(s, 9)]
<1>1. MessageDecode(s) = <<m>>
  <2>1. ~(Len(s) < 10 \/ s[1] # 59)
    BY LenProperties, SMT
  <2> QED
    BY <2>1, MessageIs
<1>2. m.type = 3 /\ m.count = 1
  OBVIOUS
<1> HIDE DEF m
<1>3. ResponseMessage(s) = <<m>> /\ <<m>> # Raised /\ <<m>>[1] = m
  <2>1. <<m>> # Raised /\ <<m>>[1] = m
    BY RaisedIs
  <2> QED
    BY <1>1, <1>2, <2>1 DEF ResponseMessage, Then, RESPONSE
<1> DEFINE Test(r) == r = Raised \/ r[1].handle = h
<1>4. PICK rs : rs = [k \in 1..1 |-> x]
  OBVIOUS
<1>5. ResponsesOf(s, ResponseMessage(s)[1].count) = rs
  BY <1>2, <1>3, <1>4, OnlyOne
<1>6. rs[1] = x /\ Len(rs) = 1
  BY <1>4
<1>7. PICK k : k = SelectInSeq(rs, LAMBDA r : r = Raised \/ r[1].handle = h)
  OBVIOUS
<1>8. k = IF Test(x) THEN 1 ELSE 0
  <2>1. PICK I : I = {i \in 1..Len(rs) : Test(rs[i])}
    OBVIOUS
  <2>2. I = IF Test(x) THEN {1} ELSE {}
    BY <1>6, <2>1
  <2>3. Min({1}) = 1
    BY DEF Min
  <2>4. k = IF I # {} THEN Min(I) ELSE 0
    BY <1>7, <2>1 DEF SelectInSeq
  <2> QED
    BY <2>2, <2>3, <2>4
<1>9. receive_matching_response(s, h, types) =
        CASE k = 0 -> Skips
          [] k > 0 -> Outcome(Then(rs[k], LAMBDA r :
                        IF r.status = STATUS_OK THEN parse_params(r, types) ELSE Raised))
  BY <1>3, <1>5, <1>7 DEF receive_matching_response
<1>10. CASE x = Raised
  <2>1. k = 1
    BY <1>8, <1>10
  <2>2. receive_matching_response(s, h, types) = Outcome(Raised)
    BY <1>6, <1>9, <1>10, <2>1 DEF Then
  <2> QED
    BY <1>10, <2>2 DEF Outcome
<1>11. CASE x # Raised /\ x[1].handle # h
  BY <1>8, <1>9, <1>11
<1>12. CASE x # Raised /\ x[1].handle = h
  <2>1. k = 1
    BY <1>8, <1>12
  <2>2. receive_matching_response(s, h, types) =
          Outcome(IF x[1].status = STATUS_OK THEN parse_params(x[1], types) ELSE Raised)
    BY <1>6, <1>9, <1>12, <2>1 DEF Then
  <2> QED
    BY <1>12, <2>2 DEF Outcome, STATUS_OK
<1> QED
  BY <1>10, <1>11, <1>12

\* What is no message of responses is skipped.
LEMMA NoMessage ==
  ASSUME NEW s \in Seq(Byte), NEW h, NEW types, Len(s) < 10 \/ s[1] # 59 \/ s[8] # 3
  PROVE  receive_matching_response(s, h, types) = Skips
<1>1. ResponseMessage(s) = Raised
  <2>1. CASE Len(s) < 10 \/ s[1] # 59
    BY <2>1, MessageIs DEF ResponseMessage, Then
  <2>2. CASE ~(Len(s) < 10 \/ s[1] # 59)
    <3> DEFINE m == [size |-> <<At16(s, 4), At16(s, 6)>>, type |-> s[8], count |-> At16(s, 9)]
    <3>1. MessageDecode(s) = <<m>>
      BY <2>2, MessageIs
    <3>2. m.type # 3
      BY <2>2
    <3> HIDE DEF m
    <3>3. <<m>> # Raised /\ <<m>>[1] = m
      BY RaisedIs
    <3> QED
      BY <3>1, <3>2, <3>3 DEF ResponseMessage, Then, RESPONSE
  <2> QED
    BY <2>1, <2>2
<1> QED
  BY <1>1 DEF receive_matching_response

\* So is a message of no response.
LEMMA EmptyMessage ==
  ASSUME NEW s \in Seq(Byte), NEW h, NEW types,
         Len(s) >= 10, s[1] = 59, s[8] = 3, At16(s, 9) = 0
  PROVE  receive_matching_response(s, h, types) = Skips
<1> DEFINE m == [size |-> <<At16(s, 4), At16(s, 6)>>, type |-> s[8], count |-> At16(s, 9)]
<1>1. MessageDecode(s) = <<m>>
  <2>1. ~(Len(s) < 10 \/ s[1] # 59)
    BY LenProperties, SMT
  <2> QED
    BY <2>1, MessageIs
<1>2. m.type = 3 /\ m.count = 0
  OBVIOUS
<1> HIDE DEF m
<1>3. ResponseMessage(s) = <<m>> /\ <<m>> # Raised /\ <<m>>[1] = m
  <2>1. <<m>> # Raised /\ <<m>>[1] = m
    BY RaisedIs
  <2> QED
    BY <1>1, <1>2, <2>1 DEF ResponseMessage, Then, RESPONSE
<1>4. PICK rs : rs = ResponsesOf(s, 0)
  OBVIOUS
<1>5. Len(rs) = 0
  <2>1. PICK f : rs = [k \in 1..0 |-> f[k]]
    BY <1>4 DEF ResponsesOf
  <2> QED
    BY <2>1
<1>6. SelectInSeq(rs, LAMBDA r : r = Raised \/ r[1].handle = h) = 0
  BY <1>5 DEF SelectInSeq
<1> QED
  BY <1>2, <1>3, <1>4, <1>6 DEF receive_matching_response

----------------------------------------------------------------------------
(* Messages of one response, and what is left of them. *)

\* s is a message of that type with the one PDU p.
IsPacket(s, type, p) ==
  /\ s \in Seq(Byte) /\ Len(s) = 10 + Len(p)
  /\ s[1] = 59 /\ s[8] = type /\ At16(s, 9) = 1
  /\ \A k \in 1..Len(p) : s[10 + k] = p[k]

\* The bytes of a message of one PDU.
LEMMA PacketBytes ==
  ASSUME NEW type \in Byte, NEW p \in Seq(Byte), NEW s, s = send_pdus(type, <<p>>)
  PROVE  IsPacket(s, type, p)
<1>1. Len(p) \in Nat
  BY LenProperties
<1>2. PICK size \in Nat : size = MessageSize - 1 + Len(p)
  BY <1>1, SMT DEF MessageSize
<1>3. PICK m : m = MessageEncode(size, type, 1)
  OBVIOUS
<1>4. m \in Seq(Byte) /\ Len(m) = 10 /\ m[1] = 59 /\ m[8] = type /\ At16(m, 9) = 1
  <2>1. 1 \in Half
    BY SMT DEF Half
  <2> QED
    BY <1>3, <2>1, EnvelopeBytes
<1>5. s = m \o p
  <2>1. FlattenSeq(<<p>>) = p /\ Len(<<p>>) = 1
    BY FlattenOne
  <2> QED
    BY <1>2, <1>3, <2>1 DEF send_pdus
<1>6. Joins(s, m, p)
  BY <1>4, <1>5, Joined, Zenon
<1>7. s \in Seq(Byte) /\ Len(s) = 10 + Len(p)
  BY <1>1, <1>4, <1>6, SMT DEF Joins
<1>8. s[1] = m[1] /\ s[8] = m[8] /\ s[9] = m[9] /\ s[10] = m[10]
  <2>1. \A k \in 1..10 : s[k] = m[k]
    BY <1>4, <1>6, SMT DEF Joins
  <2> QED
    BY <2>1, SMT
<1>9. At16(s, 9) = At16(m, 9)
  BY <1>8, SMT DEF At16
<1>10. \A k \in 1..Len(p) : s[10 + k] = p[k]
  <2>1. \A k \in 1..Len(p) :
          10 + k \in Len(m) + 1 .. Len(m) + Len(p) /\ 10 + k - Len(m) = k
    BY <1>1, <1>4, SMT
  <2> QED
    BY <1>6, <2>1, SMT DEF Joins
<1> QED
  BY <1>4, <1>7, <1>8, <1>9, <1>10, Zenon DEF IsPacket

\* The start of a datagram with one response, whose length field is length.
StartsReply(s, w, status, count, length) ==
  /\ s \in Seq(Byte) /\ Len(s) >= 20
  /\ s[1] = 59 /\ s[8] = 3 /\ At16(s, 9) = 1
  /\ s[11] = 0 /\ s[12] = 0 /\ At16(s, 13) = length
  /\ At32(s, 15) = w /\ s[19] = status /\ s[20] = count

\* The bytes of a message of one response.
LEMMA ReplyBytes ==
  ASSUME NEW w \in Half \X Half, NEW status \in Byte, NEW count \in Byte,
         NEW raw \in Seq(Byte), Len(raw) < 100, NEW s,
         s = send_pdus(RESPONSE, <<ResponseEncode(w, status, count, raw)>>)
  PROVE  /\ StartsReply(s, w, status, count, 10 + Len(raw)) /\ Len(s) = 20 + Len(raw)
         /\ \A k \in 1..Len(raw) : s[20 + k] = raw[k]
<1>1. 10 + Len(raw) \in Half /\ Len(raw) \in Nat
  <2>1. Len(raw) \in Nat
    BY LenProperties
  <2>2. 10 + Len(raw) \in Half
    BY <2>1, SMT DEF Half
  <2> QED
    BY <2>1, <2>2
<1>2. PICK r : r = ResponseEncode(w, status, count, raw)
  OBVIOUS
<1>3. /\ r \in Seq(Byte) /\ Len(r) = 10 + Len(raw)
      /\ r[1] = 0 /\ r[2] = 0 /\ At16(r, 3) = 10 + Len(raw)
      /\ At32(r, 5) = w /\ r[9] = status /\ r[10] = count
      /\ \A k \in 1..Len(raw) : r[10 + k] = raw[k]
  <2>1. IsResponse(r, w, status, count, raw)
    BY <1>1, <1>2, ResponseBytes
  <2> QED
    BY <2>1, Zenon DEF IsResponse
<1>4. /\ s \in Seq(Byte) /\ Len(s) = 10 + Len(r)
      /\ s[1] = 59 /\ s[8] = 3 /\ At16(s, 9) = 1
      /\ \A k \in 1..Len(r) : s[10 + k] = r[k]
  <2>1. 3 \in Byte
    BY SMT DEF Byte
  <2>2. IsPacket(s, 3, r)
    BY <1>2, <1>3, <2>1, PacketBytes DEF RESPONSE
  <2> QED
    BY <2>2, Zenon DEF IsPacket
<1>5. s \in Seq(Byte) /\ Len(s) = 20 + Len(raw)
  <2>1. Len(s) = 10 + (10 + Len(raw))
    BY <1>3, <1>4, Zenon
  <2> QED
    BY <1>1, <1>4, <2>1, SMT
<1>6. \A k \in 1..(10 + Len(raw)) : s[10 + k] = r[k]
  BY <1>3, <1>4, Zenon
<1>7. /\ s[11] = r[1] /\ s[12] = r[2] /\ s[13] = r[3] /\ s[14] = r[4] /\ s[15] = r[5]
       /\ s[16] = r[6] /\ s[17] = r[7] /\ s[18] = r[8] /\ s[19] = r[9] /\ s[20] = r[10]
  <2>1. \A k \in 1..10 : k \in 1..(10 + Len(raw))
    BY <1>1, SMT
  <2>2. \A k \in 1..10 : s[10 + k] = r[k]
    BY <1>6, <2>1, Zenon
  <2> QED
    BY <2>2, SMT
<1>8. At16(s, 9) = 1 /\ At16(s, 13) = 10 + Len(raw) /\ At32(s, 15) = w
  <2>1. At16(s, 13) = At16(r, 3)
    BY <1>7, SMT DEF At16
  <2>2. At32(s, 15) = At32(r, 5)
    BY <1>7, SMT DEF At16, At32
  <2> QED
    BY <1>3, <1>4, <2>1, <2>2, Zenon
<1>9. StartsReply(s, w, status, count, 10 + Len(raw))
  <2>1. Len(s) >= 20
    BY <1>1, <1>5, SMT
  <2> QED
    BY <1>3, <1>4, <1>5, <1>7, <1>8, <2>1, Zenon DEF StartsReply
<1>10. ASSUME NEW k \in 1..Len(raw) PROVE s[20 + k] = raw[k]
  <2>1. 10 + k \in 1..(10 + Len(raw)) /\ 10 + (10 + k) = 20 + k
    BY <1>1, SMT
  <2>2. s[10 + (10 + k)] = r[10 + k]
    BY <1>6, <2>1, Zenon
  <2> QED
    BY <1>3, <2>1, <2>2, Zenon
<1> QED
  BY <1>5, <1>9, <1>10

\* No two numbers are the same word.
LEMMA WordOnce ==
  ASSUME NEW g \in Nat, NEW h \in Nat, Word(g) = Word(h)
  PROVE  g = h
<1>1. g \div 65536 = h \div 65536 /\ g % 65536 = h % 65536
  BY SMT DEF Word
<1> QED
  BY <1>1, SMT

\* What is left of a byte string that is cut.
LEMMA CutBytes ==
  ASSUME NEW s \in Seq(Byte), NEW n \in Nat, n <= Len(s), NEW t, t = SubSeq(s, 1, n)
  PROVE  t \in Seq(Byte) /\ Len(t) = n /\ \A k \in 1..n : t[k] = s[k]
<1>1. \A k \in 1..n : s[k] \in Byte
  BY ElementOfSeq, LenProperties, SMT
<1>2. 1 \in Int /\ n \in Int
  BY SMT
<1>3. /\ SubSeq(s, 1, n) \in Seq(Byte)
      /\ Len(SubSeq(s, 1, n)) = IF 1 <= n THEN n - 1 + 1 ELSE 0
      /\ \A k \in 1..(n - 1 + 1) : SubSeq(s, 1, n)[k] = s[1 + k - 1]
  BY <1>1, <1>2, SubSeqProperties, SMT
<1>4. t \in Seq(Byte) /\ Len(t) = n /\ \A k \in 1..n : t[k] = s[1 + k - 1]
  <2>1. n - 1 + 1 = n /\ (IF 1 <= n THEN n - 1 + 1 ELSE 0) = n
    BY SMT
  <2> QED
    BY <1>3, <2>1, Zenon
<1> QED
  BY <1>4, SMT

\* Cut after its head, a message of one response still starts like one.
LEMMA StartsCut ==
  ASSUME NEW s, NEW w, NEW status, NEW count, NEW length, NEW n \in Nat,
         StartsReply(s, w, status, count, length), 20 <= n, n <= Len(s),
         NEW t, t = SubSeq(s, 1, n)
  PROVE  StartsReply(t, w, status, count, length)
<1>1. t \in Seq(Byte) /\ Len(t) = n /\ \A k \in 1..n : t[k] = s[k]
  BY CutBytes DEF StartsReply
<1>2. t[1] = s[1] /\ t[8] = s[8] /\ t[11] = s[11] /\ t[12] = s[12]
  BY <1>1, SMT
<1>3. t[19] = s[19] /\ t[20] = s[20]
  BY <1>1, SMT
<1>4. t[9] = s[9] /\ t[10] = s[10] /\ t[13] = s[13] /\ t[14] = s[14]
  BY <1>1, SMT
<1>5. t[15] = s[15] /\ t[16] = s[16] /\ t[17] = s[17] /\ t[18] = s[18]
  BY <1>1, SMT
<1>6. At16(t, 9) = At16(s, 9) /\ At16(t, 13) = At16(s, 13)
  BY <1>4, SMT DEF At16
<1>7. At32(t, 15) = At32(s, 15)
  BY <1>5, SMT DEF At16, At32
<1> QED
  BY <1>1, <1>2, <1>3, <1>6, <1>7, Zenon DEF StartsReply

\* The response r has the fields of the one in s, and what is there of its
\* parameters.
HoldsReply(r, s, w, status, count) ==
  /\ r.handle = w /\ r.status = status /\ r.count = count
  /\ r.raw \in Seq(Byte) /\ Len(r.raw) = Len(s) - 20
  /\ \A k \in 1..(Len(s) - 20) : r.raw[k] = s[20 + k]

\* What is decoded from a datagram with one response: what its length promises,
\* as far as it is there.
LEMMA DecodeOne ==
  ASSUME NEW s, NEW w, NEW status, NEW count, NEW length \in Nat,
         StartsReply(s, w, status, count, length), length >= 10, Len(s) <= 10 + length,
         NEW x, x = ResponseDecode(s, 10)
  PROVE  x # Raised /\ HoldsReply(x[1], s, w, status, count)
<1>1. s \in Seq(Byte) /\ Len(s) \in Nat /\ 20 <= Len(s) /\ 10 \in Nat /\ 20 \in Nat
  BY LenProperties, SMT DEF StartsReply
<1>2. PICK b : b = Header(s, 10)
  OBVIOUS
<1>3. /\ \A k \in 1..10 : b[k] = s[10 + k]
      /\ x = IF ResponseLength(s, b) < 10 THEN Raised ELSE <<ResponseAt(s, 10, b)>>
  <2>1. 10 + 10 <= Len(s)
    BY <1>1, SMT
  <2> QED
    BY <1>1, <1>2, <2>1, ResponseIs
<1>4. /\ b[1] = s[11] /\ b[2] = s[12] /\ b[9] = s[19] /\ b[10] = s[20]
      /\ At16(b, 3) = At16(s, 13) /\ At32(b, 5) = At32(s, 15)
  <2>1. b[1] = s[11] /\ b[2] = s[12] /\ b[9] = s[19] /\ b[10] = s[20]
    BY <1>3, SMT
  <2>2. b[3] = s[13] /\ b[4] = s[14]
    BY <1>3, SMT
  <2>3. b[5] = s[15] /\ b[6] = s[16] /\ b[7] = s[17] /\ b[8] = s[18]
    BY <1>3, SMT
  <2>4. At16(b, 3) = At16(s, 13)
    BY <2>2, SMT DEF At16
  <2>5. At32(b, 5) = At32(s, 15)
    BY <2>3, SMT DEF At16, At32
  <2> QED
    BY <2>1, <2>4, <2>5
<1>5. ResponseLength(s, b) = length
  <2>1. b[1] = 0 /\ b[2] = 0 /\ At16(b, 3) = length
    BY <1>4 DEF StartsReply
  <2> QED
    BY <2>1, SMT DEF ResponseLength
<1>6. PICK r : r = ResponseAt(s, 10, b)
  OBVIOUS
<1>7. x = <<r>> /\ x # Raised /\ x[1] = r
  <2>1. ~(ResponseLength(s, b) < 10)
    BY <1>5, SMT
  <2>2. x = <<r>>
    BY <1>3, <1>6, <2>1, Zenon
  <2> QED
    BY <2>2, RaisedIs
<1>8. PICK m \in Nat : m = length - 10
  BY SMT
<1>9. r.handle = w /\ r.status = status /\ r.count = count /\ r.raw = Read(s, 20, m)
  <2>1. 10 + ResponseSize = 20 /\ ResponseLength(s, b) - ResponseSize = m
    BY <1>5, <1>8 DEF ResponseSize
  <2>2. /\ r.handle = At32(b, 5) /\ r.status = b[9] /\ r.count = b[10]
        /\ r.raw = Read(s, 10 + ResponseSize, ResponseLength(s, b) - ResponseSize)
    BY <1>6 DEF ResponseAt
  <2> QED
    BY <1>4, <2>1, <2>2, Zenon DEF StartsReply
<1>10. /\ r.raw \in Seq(Byte) /\ Len(r.raw) = Len(s) - 20
       /\ \A k \in 1..(Len(s) - 20) : r.raw[k] = s[20 + k]
  <2>1. PICK q : q = r.raw /\ q = Read(s, 20, m)
    BY <1>9
  <2>2. PICK n \in Nat : n = Len(s)
    BY <1>1
  <2>3. 20 <= n
    BY <1>1, <2>2, Zenon
  <2>4. q \in Seq(Byte) /\ Len(q) = n - 20 /\ \A k \in 1..(n - 20) : q[k] = s[20 + k]
    <3>1. CASE 20 + m <= n
      <4>1. m = n - 20
        BY <1>8, <2>2, <3>1, SMT
      <4>2. q \in Seq(Byte) /\ Len(q) = m /\ \A k \in 1..m : q[k] = s[20 + k]
        <5>1. 20 + m <= Len(s)
          BY <2>2, <3>1, Zenon
        <5>2. /\ Read(s, 20, m) \in Seq(Byte) /\ Len(Read(s, 20, m)) = m
              /\ \A k \in 1..m : Read(s, 20, m)[k] = s[20 + k]
          BY <1>1, <5>1, ReadAll, Zenon
        <5> QED
          BY <2>1, <5>2, Zenon
      <4> QED
        BY <4>1, <4>2, Zenon
    <3>2. CASE 20 + m > n
      <4>1. (IF 20 < n THEN n - 20 ELSE 0) = n - 20
        <5>1. 20 < n \/ n - 20 = 0
          BY <2>3, SMT
        <5> QED
          BY <5>1, Zenon
      <4>2. 20 + m > Len(s)
        BY <2>2, <3>2, Zenon
      <4>3. /\ Read(s, 20, m) \in Seq(Byte)
            /\ Len(Read(s, 20, m)) = IF 20 < Len(s) THEN Len(s) - 20 ELSE 0
            /\ \A k \in 1..(Len(s) - 20) : Read(s, 20, m)[k] = s[20 + k]
        BY <1>1, <4>2, ReadShort, Zenon
      <4> QED
        BY <2>1, <2>2, <4>1, <4>3, Zenon
    <3> QED
      BY <2>2, <3>1, <3>2, SMT
  <2> QED
    BY <2>1, <2>2, <2>4, Zenon
<1> QED
  BY <1>7, <1>9, <1>10, Zenon DEF HoldsReply

\* A response that says it is shorter than its own head is refused.
LEMMA LengthTooShort ==
  ASSUME NEW s, NEW w, NEW status, NEW count, NEW length \in Nat,
         StartsReply(s, w, status, count, length), length < 10
  PROVE  ResponseDecode(s, 10) = Raised
<1>1. s \in Seq(Byte) /\ 10 + 10 <= Len(s) /\ 10 \in Nat
  BY SMT DEF StartsReply
<1>2. PICK b : b = Header(s, 10)
  OBVIOUS
<1>3. /\ \A k \in 1..10 : b[k] = s[10 + k]
      /\ ResponseDecode(s, 10) =
           IF ResponseLength(s, b) < 10 THEN Raised ELSE <<ResponseAt(s, 10, b)>>
  BY <1>1, <1>2, ResponseIs
<1>4. b[1] = 0 /\ b[2] = 0 /\ At16(b, 3) = length
  <2>1. b[1] = s[11] /\ b[2] = s[12]
    BY <1>3, SMT
  <2>2. At16(b, 3) = At16(s, 13)
    BY <1>3, SMT DEF At16
  <2> QED
    BY <2>1, <2>2 DEF StartsReply
<1>5. ResponseLength(s, b) = length
  BY <1>4, SMT DEF ResponseLength
<1> QED
  BY <1>3, <1>5, SMT

----------------------------------------------------------------------------
(* Values. *)

\* The types of numbers.
NumberTypes == {OcaUint16, OcaInt8}

\* The numbers of a type.
Numbers(type) == IF type.signed THEN -128..127 ELSE Half

\* Small numbers have every type.
LEMMA SmallNumbers ==
  ASSUME NEW type \in NumberTypes, NEW v \in 0..127
  PROVE  v \in Numbers(type)
<1>1. v \in Nat /\ v < 65536 /\ v \in -128..127
  BY SMT
<1> QED
  BY <1>1 DEF Numbers, Half

\* A number of a type is written in its width, and read back.
LEMMA EncodedIs ==
  ASSUME NEW type \in NumberTypes, NEW v \in Numbers(type)
  PROVE  /\ type.width \in 1..2
         /\ OcaEncode(type, v) \in Seq(Byte) /\ Len(OcaEncode(type, v)) = type.width
         /\ \A b : type.width = 1 /\ b[1] = OcaEncode(type, v)[1] => Number(type, b) = v
         /\ \A b : type.width = 2 /\ b[1] = OcaEncode(type, v)[1] /\ b[2] = OcaEncode(type, v)[2]
                     => Number(type, b) = v
<1>1. CASE type = OcaUint16
  <2>1. type.width = 2 /\ type.signed = FALSE
    BY <1>1 DEF OcaUint16
  <2>2. v \in Half
    BY <2>1 DEF Numbers
  <2>3. PICK e : e = OcaEncode(type, v)
    OBVIOUS
  <2>4. e = U16(v)
    BY <2>1, <2>3 DEF OcaEncode
  <2>5. e \in Seq(Byte) /\ Len(e) = 2 /\ 256 * e[1] + e[2] = v
    BY <2>2, <2>4, U16Half
  <2>6. ASSUME NEW a, a[1] = e[1], a[2] = e[2] PROVE Number(type, a) = v
    <3>1. Number(type, a) = At16(a, 1)
      BY <2>1 DEF Number
    <3> QED
      BY <2>5, <2>6, <3>1, SMT DEF At16
  <2> QED
    BY <2>1, <2>3, <2>5, <2>6, SMT
<1>2. CASE type = OcaInt8
  <2>1. type.width = 1 /\ type.signed = TRUE
    BY <1>2 DEF OcaInt8
  <2>2. v \in -128..127
    BY <2>1 DEF Numbers
  <2>3. PICK n \in Byte : n = v % 256
    BY <2>2, SMT DEF Byte
  <2>4. v = IF n >= 128 THEN n - 256 ELSE n
    BY <2>2, <2>3, SMTT(30) DEF Byte
  <2>5. PICK e : e = <<n>>
    OBVIOUS
  <2>6. e \in Seq(Byte) /\ Len(e) = 1 /\ e[1] = n
    BY <2>5
  <2>7. OcaEncode(type, v) = e
    BY <2>1, <2>3, <2>5 DEF OcaEncode, U8
  <2>8. ASSUME NEW a, a[1] = n PROVE Number(type, a) = v
    <3>1. Number(type, a) = IF a[1] >= 128 THEN a[1] - 2 * 128 ELSE a[1]
      BY <2>1 DEF Number
    <3> QED
      BY <2>4, <2>8, <3>1, SMT DEF Byte
  <2> QED
    BY <2>1, <2>6, <2>7, <2>8, SMT
<1> QED
  BY <1>1, <1>2 DEF NumberTypes

\* OcaDecode returns the number whose bytes come first,
LEMMA DecodedIs ==
  ASSUME NEW type \in NumberTypes, NEW v \in Numbers(type), NEW s \in Seq(Byte),
         type.width <= Len(s), \A k \in 1..type.width : s[k] = OcaEncode(type, v)[k]
  PROVE  OcaDecode(type, s) = <<v>>
<1>1. 0 \in Nat /\ type.width \in Nat /\ 0 + type.width <= Len(s) /\ type.width > 0
  <2>1. type.width \in 1..2
    BY EncodedIs
  <2> QED
    BY <2>1, LenProperties, SMT
<1>2. PICK b : b = Read(s, 0, type.width)
  OBVIOUS
<1>3. unpack_from_stream(s, 0, type.width) = <<b>>
  BY <1>1, <1>2, UnpackAll
<1>4. \A k \in 1..type.width : b[k] = s[0 + k]
  BY <1>1, <1>2, ReadAll
<1>5. \A k \in 1..type.width : b[k] = OcaEncode(type, v)[k]
  <2>1. \A k \in 1..type.width : 0 + k = k
    BY <1>1, SMT
  <2> QED
    BY <1>4, <2>1, Zenon
<1>6. Number(type, b) = v
  <2>1. PICK w \in 1..2 : w = type.width
    BY EncodedIs
  <2>2. CASE w = 1
    <3>1. b[1] = OcaEncode(type, v)[1]
      BY <1>5, <2>1, <2>2, SMT
    <3> QED
      BY <2>1, <2>2, <3>1, EncodedIs
  <2>3. CASE w = 2
    <3>1. b[1] = OcaEncode(type, v)[1] /\ b[2] = OcaEncode(type, v)[2]
      BY <1>5, <2>1, <2>3, SMT
    <3> QED
      BY <2>1, <2>3, <3>1, EncodedIs
  <2> QED
    BY <2>2, <2>3, SMT
<1>7. <<b>> # Raised /\ <<b>>[1] = b
  BY RaisedIs
<1> QED
  BY <1>1, <1>3, <1>6, <1>7 DEF OcaDecode, Then

\* and raises where they are not all there.
LEMMA DecodedShort ==
  ASSUME NEW type \in NumberTypes, NEW s \in Seq(Byte), Len(s) < type.width
  PROVE  OcaDecode(type, s) = Raised
<1>1. 0 \in Nat /\ type.width \in Nat /\ 0 + type.width > Len(s) /\ type.width > 0
  <2>1. 1 \in Numbers(type)
    BY SmallNumbers
  <2>2. type.width \in 1..2
    BY <2>1, EncodedIs
  <2> QED
    BY <2>2, LenProperties, SMT
<1>2. unpack_from_stream(s, 0, type.width) = Raised
  BY <1>1, UnpackShort
<1> QED
  BY <1>1, <1>2 DEF OcaDecode, Then

\* The first value after the head of the one response in s is v.
HasValue(s, type, v) ==
  /\ Len(s) - 20 >= type.width
  /\ \A k \in 1..type.width : s[20 + k] = OcaEncode(type, v)[k]

\* rcv is what the response in s should be read as.
ReadRight(rcv, type, s, ours, status, count) ==
  /\ ~ours => rcv = Skips
  /\ ours /\ (status # 0 \/ count < 1 \/ Len(s) - 20 < type.width) => rcv = Raises
  /\ \A v \in Numbers(type) :
       ours /\ status = 0 /\ count >= 1 /\ HasValue(s, type, v) => rcv = Returns(v)

\* A datagram with one response: skipped if it is not ours, else refused or
\* read as its status, its count and what is there of its parameters say.
LEMMA ReplyIsRead ==
  ASSUME NEW type \in NumberTypes, NEW w, NEW h,
         NEW s, NEW status, NEW count \in Byte, NEW length \in Nat,
         StartsReply(s, w, status, count, length), length >= 10, Len(s) <= 10 + length
  PROVE  ReadRight(receive_matching_response(s, h, <<type>>), type, s, w = h, status, count)
<1>1. PICK x : x = ResponseDecode(s, 10)
  OBVIOUS
<1>2. PICK r : r = x[1]
  OBVIOUS
<1>3. /\ x # Raised /\ r.handle = w /\ r.status = status /\ r.count = count
      /\ r.raw \in Seq(Byte) /\ Len(r.raw) = Len(s) - 20
      /\ \A k \in 1..(Len(s) - 20) : r.raw[k] = s[20 + k]
  <2>1. x # Raised /\ HoldsReply(r, s, w, status, count)
    BY <1>1, <1>2, DecodeOne
  <2> QED
    BY <2>1, Zenon DEF HoldsReply
<1>4. PICK rcv : rcv = receive_matching_response(s, h, <<type>>)
  OBVIOUS
<1>5. rcv = CASE x = Raised -> Raises
              [] x # Raised /\ x[1].handle # h -> Skips
              [] OTHER -> IF x[1].status = 0 THEN Outcome(parse_params(x[1], <<type>>))
                          ELSE Raises
  <2>1. /\ s \in Seq(Byte) /\ Len(s) >= 10 /\ s[1] = 59 /\ s[8] = 3 /\ At16(s, 9) = 1
    <3>1. s \in Seq(Byte) /\ s[1] = 59 /\ s[8] = 3 /\ At16(s, 9) = 1 /\ Len(s) >= 20
      BY DEF StartsReply
    <3> QED
      BY <3>1, LenProperties, SMT
  <2> QED
    BY <1>1, <1>4, <2>1, OneResponse
<1>6. rcv = IF w # h THEN Skips
            ELSE IF status = 0 THEN Outcome(parse_params(r, <<type>>)) ELSE Raises
  BY <1>2, <1>3, <1>5
<1>7. parse_params(r, <<type>>) = IF count < 1 THEN Raised ELSE OcaDecode(type, r.raw)
  <2>1. Len(<<type>>) = 1 /\ <<type>> # <<>> /\ <<type>>[1] = type
    OBVIOUS
  <2>2. count < 1 \/ count >= 1
    BY SMT DEF Byte
  <2> QED
    BY <1>3, <2>1, <2>2 DEF parse_params
<1>8. Outcome(Raised) = Raises
  BY DEF Outcome
<1>9. ASSUME w = h, status # 0 \/ count < 1 \/ Len(s) - 20 < type.width
      PROVE  rcv = Raises
  <2>1. CASE Len(s) - 20 < type.width
    <3>1. OcaDecode(type, r.raw) = Raised
      BY <1>3, <2>1, DecodedShort
    <3> QED
      BY <1>6, <1>7, <1>8, <1>9, <3>1
  <2> QED
    BY <1>6, <1>7, <1>8, <1>9, <2>1
<1>10. ASSUME NEW v \in Numbers(type), w = h, status = 0, count >= 1, HasValue(s, type, v)
       PROVE  rcv = Returns(v)
  <2>1. /\ Len(s) - 20 >= type.width
         /\ \A k \in 1..type.width : s[20 + k] = OcaEncode(type, v)[k]
    BY <1>10 DEF HasValue
  <2>2. \A k \in 1..type.width : k \in 1..(Len(s) - 20)
    <3>1. Len(s) \in Nat /\ type.width \in 1..2
      BY LenProperties, EncodedIs DEF StartsReply
    <3> QED
      BY <2>1, <3>1, SMT
  <2>3. \A k \in 1..type.width : r.raw[k] = OcaEncode(type, v)[k]
    BY <1>3, <2>1, <2>2, Zenon
  <2>4. type.width <= Len(r.raw)
    BY <1>3, <2>1, SMT
  <2>5. OcaDecode(type, r.raw) = <<v>>
    BY <1>3, <2>3, <2>4, DecodedIs
  <2>6. ~(count < 1)
    BY <1>10, SMT DEF Byte
  <2>7. rcv = Outcome(<<v>>)
    BY <1>6, <1>7, <1>10, <2>5, <2>6
  <2> QED
    BY <2>7, RaisedIs DEF Outcome
<1> QED
  BY <1>4, <1>6, <1>9, <1>10, Zenon DEF ReadRight

\* The status and the count of the replies are bytes.
LEMMA SmallBytes == 0 \in Byte /\ 1 \in Byte /\ 5 \in Byte
BY SMT DEF Byte

\* Byte strings are closed under concatenation.
LEMMA Closed ==
  ASSUME NEW a \in Seq(Byte), NEW b \in Seq(Byte)
  PROVE  a \o b \in Seq(Byte)
BY Joined, Zenon DEF Joins

\* A command is a byte string.
LEMMA CommandBytes ==
  ASSUME NEW w \in Half \X Half, NEW p, p.target \in Nat, p.level \in Nat
  PROVE  GetCommand(w, p) \in Seq(Byte)
<1>1. FlattenSeq(<<>>) = <<>> /\ Len(<<>>) = 0 /\ <<>> \in Seq(Byte)
  BY DEF FlattenSeq
<1>2. PICK a \in Seq(Byte) : a = U32(Word(CommandSize + 0))
  <2>1. PICK m \in Nat, n \in Nat : Word(CommandSize + 0) = <<m, n>>
    BY SMT DEF Word, CommandSize
  <2> QED
    BY <2>1, WordOf
<1>3. PICK b \in Seq(Byte) : b = U32(w)
  BY WordBytes
<1>4. PICK c \in Seq(Byte) : c = U32(Word(p.target))
  <2>1. PICK t \in Nat : t = p.target
    OBVIOUS
  <2>2. t \div 65536 \in Nat
    BY SMT
  <2>3. t % 65536 \in Nat
    BY SMT
  <2>4. PICK m \in Nat, n \in Nat : Word(t) = <<m, n>>
    BY <2>2, <2>3, SMT DEF Word
  <2> QED
    BY <2>1, <2>4, WordOf
<1>5. PICK d \in Seq(Byte), e \in Seq(Byte) : d = U16(p.level) /\ e = U16(METHOD_GET)
  <2>1. METHOD_GET \in Nat
    BY SMT DEF METHOD_GET
  <2> QED
    BY <2>1, U16Bytes, SMTT(30)
<1>6. PICK f \in Seq(Byte) : f = U8(0)
  BY SmallBytes, ByteBytes
<1>7. GetCommand(w, p) = a \o b \o c \o d \o e \o f \o <<>>
  BY <1>1, <1>2, <1>3, <1>4, <1>5, <1>6 DEF GetCommand, CommandEncode
<1>8. a \o b \o c \o d \o e \o f \o <<>> \in Seq(Byte)
  BY <1>1, Closed
<1> QED
  BY <1>7, <1>8

----------------------------------------------------------------------------
(* What the bytes are read as. *)

\* What is left of a speaker's answer, cut after any number of bytes, is read as
\* the value that was sent, or as nothing: for every handle, every number and
\* every range behind it, and the whole answer, if it is ours, as the value.
THEOREM AnswerIsReadOrRefused ==
  ASSUME NEW type \in NumberTypes, NEW v \in Numbers(type),
         NEW w \in Half \X Half, NEW h \in Half \X Half,
         NEW range \in Seq(Byte), Len(range) < 90,
         NEW n \in 0..Len(send_pdus(RESPONSE, <<Answer(w, type, v, range)>>))
  PROVE  LET whole == send_pdus(RESPONSE, <<Answer(w, type, v, range)>>)
             rcv   == receive_matching_response(SubSeq(whole, 1, n), h, <<type>>)
         IN rcv = IF n < 10 THEN Skips
                  ELSE IF n < 20 THEN Raises
                  ELSE IF w # h THEN Skips
                  ELSE IF n < 20 + type.width THEN Raises ELSE Returns(v)
<1>1. PICK e : e = OcaEncode(type, v)
  OBVIOUS
<1>2. type.width \in 1..2 /\ e \in Seq(Byte) /\ Len(e) = type.width
  BY <1>1, EncodedIs
<1>3. PICK raw : raw = e \o range
  OBVIOUS
<1>4. Joins(raw, e, range)
  BY <1>2, <1>3, Joined, Zenon
<1>5. /\ raw \in Seq(Byte) /\ Len(raw) < 100 /\ Len(raw) \in Nat /\ Len(raw) >= type.width
      /\ \A k \in 1..type.width : raw[k] = e[k]
  <2>1. PICK m \in Nat, q \in 1..2 : m = Len(range) /\ q = type.width
    BY <1>2, LenProperties
  <2>2. Len(raw) = q + m /\ raw \in Seq(Byte) /\ \A k \in 1..q : raw[k] = e[k]
    BY <1>2, <1>4, <2>1, Zenon DEF Joins
  <2>3. m < 90
    BY <2>1
  <2>4. q + m < 100 /\ q + m \in Nat /\ q + m >= q
    BY <2>3, SMT
  <2> QED
    BY <2>1, <2>2, <2>4, ZenonT(60)
<1>6. PICK whole : whole = send_pdus(RESPONSE, <<Answer(w, type, v, range)>>)
  OBVIOUS
<1>7. whole = send_pdus(RESPONSE, <<ResponseEncode(w, 0, 1, raw)>>)
  BY <1>1, <1>3, <1>6 DEF Answer, STATUS_OK
<1>8. /\ StartsReply(whole, w, 0, 1, 10 + Len(raw)) /\ Len(whole) = 20 + Len(raw)
      /\ \A k \in 1..Len(raw) : whole[20 + k] = raw[k]
  BY <1>5, <1>7, SmallBytes, ReplyBytes
<1>9. PICK s : s = SubSeq(whole, 1, n)
  OBVIOUS
<1>10. whole \in Seq(Byte)
  BY <1>8, Zenon DEF StartsReply
<1>11. n \in Nat /\ n <= Len(whole)
  <2>1. n \in 0..Len(whole) /\ Len(whole) \in Nat
    BY <1>6, <1>10, LenProperties
  <2> QED
    BY <2>1, SMT
<1>12. s \in Seq(Byte) /\ Len(s) = n /\ \A k \in 1..n : s[k] = whole[k]
  BY <1>9, <1>10, <1>11, CutBytes
<1>13. PICK rcv : rcv = receive_matching_response(s, h, <<type>>)
  OBVIOUS
<1>14. ASSUME n < 10 PROVE rcv = Skips
  <2>1. Len(s) < 10
    BY <1>12, <1>14, Zenon
  <2> QED
    BY <1>12, <1>13, <2>1, NoMessage, Zenon
<1>15. ASSUME n >= 10, n < 20 PROVE rcv = Raises
  <2>1. s[1] = whole[1] /\ s[8] = whole[8] /\ s[9] = whole[9] /\ s[10] = whole[10]
    BY <1>11, <1>12, <1>15, SMT
  <2>2. At16(s, 9) = At16(whole, 9)
    BY <2>1, SMT DEF At16
  <2>3. s[1] = 59 /\ s[8] = 3 /\ At16(s, 9) = 1
    BY <1>8, <2>1, <2>2, Zenon DEF StartsReply
  <2>4. s \in Seq(Byte) /\ Len(s) >= 10
    BY <1>12, <1>15
  <2>5. ResponseDecode(s, 10) = Raised
    <3>1. 10 \in Nat /\ 10 + 10 > Len(s)
      BY <1>11, <1>12, <1>15, SMT
    <3> QED
      BY <2>4, <3>1, ResponseIs
  <2> QED
    BY <1>13, <2>3, <2>4, <2>5, OneResponse
<1>16. ASSUME n >= 20
       PROVE  /\ w # h => rcv = Skips
              /\ w = h /\ n < 20 + type.width => rcv = Raises
              /\ w = h /\ n >= 20 + type.width => rcv = Returns(v)
  <2>1. StartsReply(s, w, 0, 1, 10 + Len(raw))
    BY <1>8, <1>9, <1>11, <1>16, StartsCut
  <2>2. PICK m \in Nat : m = Len(raw)
    BY <1>5
  <2>3. Len(whole) = 20 + m
    BY <1>8, <2>2, Zenon
  <2>4. 10 + m \in Nat /\ 10 + m >= 10 /\ Len(s) <= 10 + (10 + m)
    BY <1>11, <1>12, <2>3, SMT
  <2>5. ReadRight(rcv, type, s, w = h, 0, 1)
    <3>1. StartsReply(s, w, 0, 1, 10 + m)
      BY <2>1, <2>2, Zenon
    <3> QED
      BY <1>13, <2>4, <3>1, SmallBytes, ReplyIsRead
  <2>6. w # h => rcv = Skips
    BY <2>5, Zenon DEF ReadRight
  <2>7. ASSUME w = h, n < 20 + type.width PROVE rcv = Raises
    <3>1. Len(s) - 20 < type.width
      BY <1>2, <1>11, <1>12, <2>7, SMT
    <3> QED
      BY <2>5, <2>7, <3>1, Zenon DEF ReadRight
  <2>8. ASSUME w = h, n >= 20 + type.width PROVE rcv = Returns(v)
    <3>1. Len(s) - 20 >= type.width
      BY <1>2, <1>11, <1>12, <2>8, SMT
    <3>2. ASSUME NEW k \in 1..type.width PROVE s[20 + k] = OcaEncode(type, v)[k]
      <4>1. k \in 1..Len(raw)
        BY <1>2, <1>5, SMT
      <4>2. 20 + k \in 1..n
        BY <1>2, <1>11, <2>8, SMT
      <4>3. s[20 + k] = whole[20 + k]
        BY <1>12, <4>2, Zenon
      <4>4. whole[20 + k] = raw[k]
        BY <1>8, <4>1, Zenon
      <4> QED
        BY <1>1, <1>5, <4>3, <4>4, Zenon
    <3>3. HasValue(s, type, v)
      BY <3>1, <3>2, Zenon DEF HasValue
    <3>4. 1 >= 1
      OBVIOUS
    <3> QED
      BY <2>5, <2>8, <3>3, <3>4, Zenon DEF ReadRight
  <2> QED
    BY <2>6, <2>7, <2>8
<1>17. rcv = IF n < 10 THEN Skips
             ELSE IF n < 20 THEN Raises
             ELSE IF w # h THEN Skips
             ELSE IF n < 20 + type.width THEN Raises ELSE Returns(v)
  <2>1. type.width \in Nat
    BY <1>2, SMT
  <2>2. (n < 10 \/ n >= 10) /\ (n < 20 \/ n >= 20) /\ (n < 20 + type.width \/ n >= 20 + type.width)
    BY <1>11, <2>1, SMT
  <2> QED
    BY <1>14, <1>15, <1>16, <2>2, Zenon
<1> QED
  BY <1>6, <1>9, <1>13, <1>17, Zenon

----------------------------------------------------------------------------
(* Induction, and byte strings that are joined from any number of parts. *)

\* Induction over the natural numbers, for sets of them.
LEMMA Induction ==
  ASSUME NEW S \in SUBSET Nat, 0 \in S, \A n \in S : n + 1 \in S
  PROVE  Nat \subseteq S
<1> DEFINE T == Nat \ S
<1>1. SUFFICES ASSUME T # {} PROVE FALSE
  OBVIOUS
<1>2. PICK R : R = OpToRel(<, Nat) /\ IsWellFoundedOn(R, Nat)
  BY NatLessThanWellFounded
<1>3. PICK x \in T : \A y \in T : <<y, x>> \notin R
  BY <1>1, <1>2, WFMin
<1>4. x \in Nat /\ x # 0 /\ x - 1 \in Nat
  BY <1>3
<1>5. <<x - 1, x>> \in R
  BY <1>2, <1>4 DEF OpToRel
<1>6. x - 1 \in S
  BY <1>3, <1>4, <1>5
<1> QED
  BY <1>3, <1>4, <1>6

\* Induction from 1 to n.
LEMMA InductionTo ==
  ASSUME NEW n \in Nat, NEW S \in SUBSET Nat, 1 \in S,
         \A k \in 1..(n - 1) : k \in S => k + 1 \in S
  PROVE  1..n \subseteq S
<1> DEFINE T == {k \in Nat : k \in 1..n => k \in S}
<1>1. 0 \in T
  OBVIOUS
<1>2. ASSUME NEW k \in T PROVE k + 1 \in T
  OBVIOUS
<1>3. Nat \subseteq T
  <2> HIDE DEF T
  <2>1. T \in SUBSET Nat
    BY DEF T
  <2> QED
    BY <1>1, <1>2, <2>1, Induction
<1> QED
  BY <1>3

\* f joins the parts one after the other: f[i] is the first i of them.
Piles(f, parts) ==
  /\ DOMAIN f = 1..Len(parts)
  /\ \A i \in 1..Len(parts) : f[i] = IF i = 1 THEN parts[i] ELSE f[i - 1] \o parts[i]

\* FlattenSeq returns the last of the piles, all parts joined.
LEMMA FlattenIs ==
  ASSUME NEW parts, Len(parts) \in Nat \ {0}
  PROVE  \E f : Piles(f, parts) /\ FlattenSeq(parts) = f[Len(parts)]
<1> DEFINE Body(f, i) == IF i = 1 THEN parts[i] ELSE f[i - 1] \o parts[i]
           Rec(f, n) == f = [i \in 1..n |-> Body(f, i)]
           S == {n \in Nat : \E f : Rec(f, n)}
           flatten == CHOOSE f : Rec(f, Len(parts))
<1>1. 0 \in S
  <2>1. Rec([i \in 1..0 |-> 0], 0)
    OBVIOUS
  <2> QED
    BY <2>1
<1>2. ASSUME NEW n \in S PROVE n + 1 \in S
  <2>1. n \in Nat /\ \E f : Rec(f, n)
    OBVIOUS
  <2>2. PICK f : Rec(f, n)
    BY <2>1
  <2>3. PICK g : g = [i \in 1..(n + 1) |-> Body(f, i)]
    OBVIOUS
  <2>4. ASSUME NEW i \in 1..n PROVE f[i] = g[i]
    <3>1. i \in 1..(n + 1)
      BY <2>1
    <3>2. f[i] = Body(f, i)
      <4> HIDE DEF Body
      <4> QED
        BY <2>2
    <3>3. g[i] = Body(f, i)
      <4> HIDE DEF Body
      <4> QED
        BY <2>3, <3>1
    <3> QED
      BY <3>2, <3>3
  <2>5. \A i \in 1..(n + 1) : Body(f, i) = Body(g, i)
    <3>1. \A i \in 1..(n + 1) : i = 1 \/ i - 1 \in 1..n
      BY <2>1
    <3> QED
      BY <2>4, <3>1
  <2>6. Rec(g, n + 1)
    BY <2>3, <2>5
  <2>7. n + 1 \in Nat
    BY <2>1
  <2> QED
    BY <2>6, <2>7
<1>3. Nat \subseteq S
  <2> HIDE DEF S
  <2>1. S \in SUBSET Nat
    BY DEF S
  <2> QED
    BY <1>1, <1>2, <2>1, Induction
<1>4. Rec(flatten, Len(parts))
  BY <1>3
<1>5. FlattenSeq(parts) = flatten[Len(parts)]
  BY DEF FlattenSeq
<1> HIDE DEF flatten
<1>6. Piles(flatten, parts)
  BY <1>4 DEF Piles
<1> QED
  BY <1>5, <1>6

\* Each pile holds the bytes of the one before, then those of its own part.
LEMMA PilesGrow ==
  ASSUME NEW parts, Len(parts) \in Nat, \A i \in 1..Len(parts) : parts[i] \in Seq(Byte),
         NEW f, Piles(f, parts)
  PROVE  /\ \A i \in 1..Len(parts) : f[i] \in Seq(Byte)
         /\ \A i \in 2..Len(parts) : Joins(f[i], f[i - 1], parts[i])
<1>1. PICK n \in Nat : n = Len(parts)
  OBVIOUS
<1>2. CASE n = 0
  BY <1>1, <1>2
<1>3. CASE n # 0
  <2> DEFINE S == {k \in Nat : f[k] \in Seq(Byte)}
  <2>0. \A i \in 1..n : f[i] = IF i = 1 THEN parts[i] ELSE f[i - 1] \o parts[i]
    BY <1>1, Zenon DEF Piles
  <2>1. \A i \in 2..n : f[i] = f[i - 1] \o parts[i] /\ i \in 1..n /\ i - 1 \in 1..n
    <3>1. \A i \in 2..n : i \in 1..n /\ i - 1 \in 1..n /\ i # 1
      OBVIOUS
    <3> QED
      BY <2>0, <3>1, Zenon
  <2>2. 1 \in S
    <3>1. f[1] = parts[1] /\ 1 \in 1..n
      <4>1. 1 \in 1..n
        BY <1>3
      <4> QED
        BY <2>0, <4>1, Zenon
    <3> QED
      BY <1>1, <3>1, Zenon
  <2>3. ASSUME NEW k \in 1..(n - 1), k \in S PROVE k + 1 \in S
    <3>1. PICK j \in 2..n : j = k + 1 /\ j - 1 = k /\ j \in Nat
      OBVIOUS
    <3>2. f[j] = f[k] \o parts[j] /\ j \in 1..n
      BY <2>1, <3>1, Zenon
    <3>3. f[k] \in Seq(Byte) /\ parts[j] \in Seq(Byte)
      BY <1>1, <2>3, <3>2
    <3>4. f[j] \in Seq(Byte)
      BY <3>2, <3>3, Closed
    <3> QED
      BY <3>1, <3>4
  <2>4. 1..n \subseteq S
    <3> HIDE DEF S
    <3>1. S \in SUBSET Nat
      BY DEF S
    <3> QED
      BY <2>2, <2>3, <3>1, InductionTo
  <2>5. \A i \in 1..n : f[i] \in Seq(Byte)
    BY <2>4
  <2>6. ASSUME NEW i \in 2..n PROVE Joins(f[i], f[i - 1], parts[i])
    <3>1. f[i] = f[i - 1] \o parts[i] /\ f[i - 1] \in Seq(Byte) /\ parts[i] \in Seq(Byte)
      BY <1>1, <2>1, <2>5
    <3>2. Joins(f[i - 1] \o parts[i], f[i - 1], parts[i])
      BY <3>1, Joined, Zenon
    <3> QED
      BY <3>1, <3>2, Zenon
  <2> QED
    BY <1>1, <2>5, <2>6
<1> QED
  BY <1>2, <1>3

\* s begins with the bytes of p.
Begins(s, p) ==
  /\ s \in Seq(Byte) /\ Len(p) <= Len(s)
  /\ \A k \in 1..Len(p) : s[k] = p[k]

\* Every byte string begins with itself.
LEMMA BeginsItself ==
  ASSUME NEW s \in Seq(Byte)
  PROVE  Begins(s, s)
BY LenProperties, SMT DEF Begins

\* A byte string still begins as it did when a part is joined to it.
LEMMA BeginsAfter ==
  ASSUME NEW p \in Seq(Byte), NEW q \in Seq(Byte), NEW r, NEW part \in Seq(Byte),
         Begins(q, p), Joins(r, q, part)
  PROVE  Begins(r, p)
<1>1. PICK l \in Nat, m \in Nat, n \in Nat : l = Len(p) /\ m = Len(q) /\ n = Len(part)
  BY LenProperties
<1>2. l <= m /\ \A k \in 1..l : q[k] = p[k]
  BY <1>1, Zenon DEF Begins
<1>3. r \in Seq(Byte) /\ Len(r) = m + n /\ \A k \in 1..m : r[k] = q[k]
  BY <1>1, Zenon DEF Joins
<1>4. l <= m + n /\ \A k \in 1..l : k \in 1..m
  BY <1>2, SMT
<1> QED
  BY <1>1, <1>2, <1>3, <1>4, Zenon DEF Begins

\* Every pile begins with the piles before it.
LEMMA PilesBegin ==
  ASSUME NEW parts, NEW n \in Nat, n = Len(parts),
         \A i \in 1..n : parts[i] \in Seq(Byte),
         NEW f, Piles(f, parts), NEW i \in 1..n, NEW j \in i..n
  PROVE  Begins(f[j], f[i])
<1> DEFINE S == {d \in Nat : i + d <= n => Begins(f[i + d], f[i])}
<1>1. /\ \A k \in 1..n : f[k] \in Seq(Byte)
      /\ \A k \in 2..n : Joins(f[k], f[k - 1], parts[k])
  BY PilesGrow
<1>2. 0 \in S
  <2>1. i + 0 = i /\ 0 \in Nat
    OBVIOUS
  <2>2. Begins(f[i], f[i])
    BY <1>1, BeginsItself
  <2> QED
    BY <2>1, <2>2, Zenon
<1>3. ASSUME NEW d \in S PROVE d + 1 \in S
  <2>1. d \in Nat /\ (i + d <= n => Begins(f[i + d], f[i])) /\ d + 1 \in Nat
    OBVIOUS
  <2>2. ASSUME i + (d + 1) <= n PROVE Begins(f[i + (d + 1)], f[i])
    <3>1. PICK q \in 2..n, k \in 1..n : q = i + (d + 1) /\ k = i + d /\ q - 1 = k
      BY <2>1, <2>2
    <3>2. Begins(f[k], f[i])
      <4>1. i + d <= n
        BY <3>1
      <4> QED
        BY <2>1, <3>1, <4>1, Zenon
    <3>3. Joins(f[q], f[k], parts[q])
      BY <1>1, <3>1, Zenon
    <3>4. f[i] \in Seq(Byte) /\ f[k] \in Seq(Byte) /\ parts[q] \in Seq(Byte)
      <4>1. q \in 1..n
        OBVIOUS
      <4> QED
        BY <1>1, <4>1, Zenon
    <3>5. Begins(f[q], f[i])
      BY <3>2, <3>3, <3>4, BeginsAfter, Zenon
    <3> QED
      BY <3>1, <3>5, Zenon
  <2> QED
    BY <2>1, <2>2, Zenon
<1>4. Nat \subseteq S
  <2> HIDE DEF S
  <2>1. S \in SUBSET Nat
    BY DEF S
  <2> QED
    BY <1>2, <1>3, <2>1, Induction
<1>5. j - i \in Nat /\ i + (j - i) = j /\ i + (j - i) <= n
  OBVIOUS
<1>6. i + (j - i) <= n => Begins(f[i + (j - i)], f[i])
  BY <1>4, <1>5, Zenon
<1> QED
  BY <1>5, <1>6, Zenon

\* s has the bytes of part from position at on (counted from 0).
Holds(s, at, part) ==
  /\ at \in Nat /\ at + Len(part) <= Len(s)
  /\ \A k \in 1..Len(part) : s[at + k] = part[k]

\* Where the i-th part starts, in the pile of them all.
Start(f, i) == IF i = 1 THEN 0 ELSE Len(f[i - 1])

\* Each part is where the one before it ends.
LEMMA PartsAre ==
  ASSUME NEW parts, NEW n \in Nat, n = Len(parts),
         \A i \in 1..n : parts[i] \in Seq(Byte),
         NEW f, Piles(f, parts), NEW i \in 1..n
  PROVE  /\ Holds(f[n], Start(f, i), parts[i])
         /\ Len(f[i]) = Start(f, i) + Len(parts[i])
<1>1. /\ \A k \in 1..n : f[k] \in Seq(Byte)
      /\ \A k \in 2..n : Joins(f[k], f[k - 1], parts[k])
  BY PilesGrow
<1>2. Begins(f[n], f[i])
  <2>1. n \in i..n
    OBVIOUS
  <2> QED
    BY <2>1, PilesBegin
<1>3. PICK l \in Nat : l = Len(parts[i])
  BY LenProperties
<1>4. /\ Start(f, i) \in Nat /\ Len(f[i]) = Start(f, i) + l
      /\ \A k \in 1..l : f[i][Start(f, i) + k] = parts[i][k]
  <2>1. CASE i = 1
    <3>1. Start(f, i) = 0
      BY <2>1 DEF Start
    <3>2. f[i] = parts[i]
      BY <2>1, Zenon DEF Piles
    <3>3. 0 + l = l /\ \A k \in 1..l : 0 + k = k
      OBVIOUS
    <3>4. 0 \in Nat
      OBVIOUS
    <3> QED
      BY <1>3, <3>1, <3>2, <3>3, <3>4, Zenon
  <2>2. CASE i # 1
    <3>1. i \in 2..n /\ i - 1 \in 1..n
      BY <2>2
    <3>2. Joins(f[i], f[i - 1], parts[i]) /\ f[i - 1] \in Seq(Byte)
      BY <1>1, <3>1, Zenon
    <3>3. PICK m \in Nat : m = Len(f[i - 1])
      BY <3>2, LenProperties
    <3>4. Start(f, i) = m
      BY <2>2, <3>3, Zenon DEF Start
    <3>5. Len(f[i]) = m + l /\ \A k \in m + 1 .. m + l : f[i][k] = parts[i][k - m]
      BY <1>3, <3>2, <3>3, Zenon DEF Joins
    <3>6. ASSUME NEW k \in 1..l PROVE f[i][m + k] = parts[i][k]
      <4>1. PICK q \in m + 1 .. m + l : q = m + k /\ q - m = k
        BY SMT
      <4> QED
        BY <3>5, <4>1, Zenon
    <3> QED
      BY <3>3, <3>4, <3>5, <3>6, Zenon
  <2> QED
    BY <2>1, <2>2
<1>5. PICK a \in Nat : a = Start(f, i)
  BY <1>4
<1>6. Len(f[i]) = a + l /\ Len(f[i]) <= Len(f[n]) /\ \A k \in 1..Len(f[i]) : f[n][k] = f[i][k]
  BY <1>2, <1>4, <1>5, Zenon DEF Begins
<1>7. \A k \in 1..l : a + k \in 1..(a + l)
  BY SMT
<1>8. \A k \in 1..l : f[n][a + k] = parts[i][k]
  BY <1>4, <1>5, <1>6, <1>7, Zenon
<1>9. a + l <= Len(f[n])
  BY <1>6, Zenon
<1> QED
  BY <1>3, <1>4, <1>5, <1>8, <1>9, Zenon DEF Holds

----------------------------------------------------------------------------
(* Messages of any number of responses. *)

\* Every set of natural numbers has a least one, which is its Min.
LEMMA LeastIs ==
  ASSUME NEW I \in SUBSET Nat, I # {}
  PROVE  Min(I) \in I /\ \A i \in I : Min(I) <= i
<1>1. PICK R : R = OpToRel(<, Nat) /\ IsWellFoundedOn(R, Nat)
  BY NatLessThanWellFounded
<1>2. PICK x \in I : \A y \in I : <<y, x>> \notin R
  BY <1>1, WFMin
<1>3. ASSUME NEW y \in I PROVE x <= y
  <2>1. x \in Nat /\ y \in Nat
    OBVIOUS
  <2>2. CASE y < x
    <3>1. <<y, x>> \in R
      BY <1>1, <2>1, <2>2 DEF OpToRel
    <3> QED
      BY <1>2, <3>1
  <2> QED
    BY <2>1, <2>2
<1>4. \E z \in I : \A y \in I : z <= y
  BY <1>3
<1> QED
  BY <1>4 DEF Min

\* The response after the decoded one x.
Follow(s, x) == IF x = Raised THEN Raised ELSE ResponseDecode(s, x[1].next)

\* rs are n responses, each decoded where the one before it ends.
InTurn(rs, s, n) ==
  /\ DOMAIN rs = 1..n /\ Len(rs) = n
  /\ \A k \in 1..n : rs[k] = IF k = 1 THEN ResponseDecode(s, 10) ELSE Follow(s, rs[k - 1])

\* The recursion of ResponsesOf has a solution, which it returns.
LEMMA ResponsesAre ==
  ASSUME NEW s, NEW n \in Nat
  PROVE  InTurn(ResponsesOf(s, n), s, n)
<1> DEFINE Body(f, k) == IF k = 1 THEN ResponseDecode(s, MessageSize)
                         ELSE Then(f[k - 1], LAMBDA r : ResponseDecode(s, r.next))
           Rec(f, m) == f = [k \in 1..m |-> Body(f, k)]
           S == {m \in Nat : \E f : Rec(f, m)}
           nth == CHOOSE f : Rec(f, n)
<1>1. 0 \in S
  <2>1. Rec([k \in 1..0 |-> 0], 0)
    OBVIOUS
  <2> QED
    BY <2>1
<1>2. ASSUME NEW m \in S PROVE m + 1 \in S
  <2>1. m \in Nat /\ \E f : Rec(f, m)
    OBVIOUS
  <2>2. PICK f : Rec(f, m)
    BY <2>1
  <2>3. PICK g : g = [k \in 1..(m + 1) |-> Body(f, k)]
    OBVIOUS
  <2>4. ASSUME NEW k \in 1..m PROVE f[k] = g[k]
    <3>1. k \in 1..(m + 1)
      BY <2>1
    <3>2. f[k] = Body(f, k)
      <4> HIDE DEF Body
      <4> QED
        BY <2>2
    <3>3. g[k] = Body(f, k)
      <4> HIDE DEF Body
      <4> QED
        BY <2>3, <3>1
    <3> QED
      BY <3>2, <3>3
  <2>5. \A k \in 1..(m + 1) : Body(f, k) = Body(g, k)
    <3>1. \A k \in 1..(m + 1) : k = 1 \/ k - 1 \in 1..m
      BY <2>1
    <3> QED
      BY <2>4, <3>1, Zenon
  <2>6. Rec(g, m + 1)
    <3> HIDE DEF Body
    <3> QED
      BY <2>3, <2>5
  <2>7. m + 1 \in Nat
    BY <2>1
  <2> QED
    BY <2>6, <2>7
<1>3. Nat \subseteq S
  <2> HIDE DEF S
  <2>1. S \in SUBSET Nat
    BY DEF S
  <2> QED
    BY <1>1, <1>2, <2>1, Induction
<1>4. Rec(nth, n)
  BY <1>3
<1>5. ResponsesOf(s, n) = [k \in 1..n |-> nth[k]]
  BY DEF ResponsesOf
<1>6. ASSUME NEW k \in 1..n
      PROVE  nth[k] = IF k = 1 THEN ResponseDecode(s, 10) ELSE Follow(s, nth[k - 1])
  <2> HIDE DEF nth
  <2>1. nth[k] = Body(nth, k)
    <3> HIDE DEF Body
    <3> QED
      BY <1>4
  <2> QED
    BY <2>1 DEF Follow, Then, MessageSize
<1> HIDE DEF nth
<1>7. PICK rs : rs = [k \in 1..n |-> nth[k]]
  OBVIOUS
<1>8. DOMAIN rs = 1..n /\ Len(rs) = n /\ \A k \in 1..n : rs[k] = nth[k]
  BY <1>7
<1>9. ASSUME NEW k \in 1..n
      PROVE  rs[k] = IF k = 1 THEN ResponseDecode(s, 10) ELSE Follow(s, rs[k - 1])
  <2>1. k = 1 \/ k - 1 \in 1..n
    OBVIOUS
  <2> QED
    BY <1>6, <1>8, <2>1, Zenon
<1> QED
  BY <1>5, <1>7, <1>8, <1>9, Zenon DEF InTurn

\* receive_matching_response stops at the decoded response x.
Stops(x, h) == x = Raised \/ x[1].handle = h

\* What it makes of it.
Judged(x, types) ==
  CASE x = Raised -> Raises
    [] x # Raised /\ x[1].status = 0 -> Outcome(parse_params(x[1], types))
    [] OTHER -> Raises

\* rcv is what it makes of a message with the responses rs.
Matched(rcv, rs, n, h, types) ==
  \/ rcv = Skips /\ \A k \in 1..n : ~Stops(rs[k], h)
  \/ \E k \in 1..n : /\ Stops(rs[k], h) /\ \A i \in 1..(k - 1) : ~Stops(rs[i], h)
                     /\ rcv = Judged(rs[k], types)

\* A message of n responses.
IsMessage(s, n) == s \in Seq(Byte) /\ Len(s) >= 10 /\ s[1] = 59 /\ s[8] = 3 /\ At16(s, 9) = n

\* The envelope of such a message is read, with its number of responses.
LEMMA MessageRead ==
  ASSUME NEW s, NEW n, IsMessage(s, n)
  PROVE  \E m : ResponseMessage(s) = <<m>> /\ <<m>> # Raised /\ <<m>>[1] = m /\ m.count = n
<1> DEFINE m == [size |-> <<At16(s, 4), At16(s, 6)>>, type |-> s[8], count |-> At16(s, 9)]
<1>1. MessageDecode(s) = <<m>>
  <2>1. s \in Seq(Byte) /\ ~(Len(s) < 10 \/ s[1] # 59)
    BY LenProperties, SMT DEF IsMessage
  <2> QED
    BY <2>1, MessageIs
<1>2. m.type = 3 /\ m.count = n
  BY DEF IsMessage
<1> HIDE DEF m
<1>3. <<m>> # Raised /\ <<m>>[1] = m
  BY RaisedIs
<1>4. ResponseMessage(s) = <<m>>
  BY <1>1, <1>2, <1>3 DEF ResponseMessage, Then, RESPONSE
<1> QED
  BY <1>2, <1>3, <1>4

\* The first of them at which it stops.
FirstStop(rs, h) == SelectInSeq(rs, LAMBDA r : r = Raised \/ r[1].handle = h)

\* SelectInSeq finds the first response that decides, if there is one.
LEMMA FirstThatStops ==
  ASSUME NEW rs, NEW n \in Nat, Len(rs) = n, NEW h,
         NEW k, k = FirstStop(rs, h)
  PROVE  \/ k = 0 /\ \A i \in 1..n : ~Stops(rs[i], h)
         \/ k \in 1..n /\ Stops(rs[k], h) /\ \A i \in 1..(k - 1) : ~Stops(rs[i], h)
<1>1. PICK I : I = {i \in 1..n : Stops(rs[i], h)}
  OBVIOUS
<1>2. k = IF I # {} THEN Min(I) ELSE 0
  BY <1>1 DEF FirstStop, SelectInSeq, Stops
<1>3. CASE I = {}
  BY <1>1, <1>2, <1>3
<1>4. CASE I # {}
  <2>1. I \in SUBSET Nat
    BY <1>1
  <2>2. Min(I) \in I /\ \A i \in I : Min(I) <= i
    BY <1>4, <2>1, LeastIs
  <2>3. k \in 1..n /\ Stops(rs[k], h) /\ \A i \in I : k <= i
    BY <1>1, <1>2, <1>4, <2>2, Zenon
  <2>4. ASSUME NEW i \in 1..(k - 1) PROVE ~Stops(rs[i], h)
    <3>1. i \in 1..n /\ ~(k <= i)
      BY <2>3
    <3> QED
      BY <1>1, <2>3, <3>1, Zenon
  <2> QED
    BY <2>3, <2>4
<1> QED
  BY <1>3, <1>4

\* receive_matching_response makes of a message what Matched says.
LEMMA MatchedIs ==
  ASSUME NEW s, NEW n \in Nat, IsMessage(s, n), NEW h, NEW types
  PROVE  Matched(receive_matching_response(s, h, types), ResponsesOf(s, n), n, h, types)
<1>1. PICK m : ResponseMessage(s) = <<m>> /\ <<m>> # Raised /\ <<m>>[1] = m /\ m.count = n
  BY MessageRead
<1>2. PICK rs : rs = ResponsesOf(s, n)
  OBVIOUS
<1>3. Len(rs) = n
  BY <1>2, ResponsesAre DEF InTurn
<1>4. PICK k : k = FirstStop(rs, h)
  OBVIOUS
<1>5. \/ k = 0 /\ \A i \in 1..n : ~Stops(rs[i], h)
      \/ k \in 1..n /\ Stops(rs[k], h) /\ \A i \in 1..(k - 1) : ~Stops(rs[i], h)
  BY <1>3, <1>4, FirstThatStops
<1>6. PICK rcv : rcv = receive_matching_response(s, h, types)
  OBVIOUS
<1>7. rcv = CASE k = 0 -> Skips
              [] k > 0 -> Outcome(Then(rs[k], LAMBDA r :
                            IF r.status = STATUS_OK THEN parse_params(r, types) ELSE Raised))
  BY <1>1, <1>2, <1>4, <1>6 DEF receive_matching_response, FirstStop
<1>8. CASE k = 0 /\ \A i \in 1..n : ~Stops(rs[i], h)
  BY <1>2, <1>6, <1>7, <1>8 DEF Matched
<1>9. CASE k \in 1..n /\ Stops(rs[k], h) /\ \A i \in 1..(k - 1) : ~Stops(rs[i], h)
  <2>1. k # 0 /\ k > 0
    BY <1>9
  <2>2. rcv = Outcome(Then(rs[k], LAMBDA r :
                        IF r.status = STATUS_OK THEN parse_params(r, types) ELSE Raised))
    BY <1>7, <2>1
  <2>3. rcv = Judged(rs[k], types)
    <3>1. CASE rs[k] = Raised
      BY <2>2, <3>1 DEF Judged, Then, Outcome
    <3>2. CASE rs[k] # Raised /\ rs[k][1].status = 0
      BY <2>2, <3>2 DEF Judged, Then, STATUS_OK
    <3>3. CASE rs[k] # Raised /\ rs[k][1].status # 0
      BY <2>2, <3>3 DEF Judged, Then, Outcome, STATUS_OK
    <3> QED
      BY <3>1, <3>2, <3>3
  <2> QED
    BY <1>2, <1>6, <1>9, <2>3, Zenon DEF Matched
<1> QED
  BY <1>5, <1>8, <1>9

----------------------------------------------------------------------------
(* What is left of any message. *)

\* What Read returns.
LEMMA ReadIs ==
  ASSUME NEW s \in Seq(Byte), NEW i \in Nat, NEW n \in Nat
  PROVE  /\ Read(s, i, n) \in Seq(Byte)
         /\ Len(Read(s, i, n)) = IF i + n <= Len(s) THEN n
                                 ELSE IF i < Len(s) THEN Len(s) - i ELSE 0
         /\ \A k \in 1..Len(Read(s, i, n)) : Read(s, i, n)[k] = s[i + k]
<1>1. PICK l \in Nat : l = Len(s)
  BY LenProperties
<1>2. CASE i + n <= l
  <2>1. i + n <= Len(s)
    BY <1>1, <1>2
  <2>2. /\ Read(s, i, n) \in Seq(Byte) /\ Len(Read(s, i, n)) = n
        /\ \A k \in 1..n : Read(s, i, n)[k] = s[i + k]
    BY <2>1, ReadAll, Zenon
  <2> QED
    BY <2>1, <2>2, Zenon
<1>3. CASE ~(i + n <= l)
  <2>1. i + n > Len(s) /\ ~(i + n <= Len(s))
    BY <1>1, <1>3
  <2>2. /\ Read(s, i, n) \in Seq(Byte)
        /\ Len(Read(s, i, n)) = IF i < Len(s) THEN Len(s) - i ELSE 0
        /\ \A k \in 1..(Len(s) - i) : Read(s, i, n)[k] = s[i + k]
    BY <2>1, ReadShort, Zenon
  <2>3. CASE i < Len(s)
    BY <2>1, <2>2, <2>3, Zenon
  <2>4. CASE ~(i < Len(s))
    <3>1. 1..0 = {}
      BY SMT
    <3> QED
      BY <2>1, <2>2, <2>4, <3>1, Zenon
  <2> QED
    BY <2>3, <2>4
<1> QED
  BY <1>2, <1>3

\* What is cut off is not read, or is missed.
LEMMA UnpackBegins ==
  ASSUME NEW s, NEW p \in Seq(Byte), Begins(s, p), NEW i \in Nat, NEW n \in Nat
  PROVE  unpack_from_stream(p, i, n) \in {Raised, unpack_from_stream(s, i, n)}
<1>1. s \in Seq(Byte)
  BY DEF Begins
<1>2. PICK l \in Nat, m \in Nat : l = Len(p) /\ m = Len(s) /\ l <= m
  BY <1>1, LenProperties DEF Begins
<1>3. PICK a, b : a = Read(p, i, n) /\ b = Read(s, i, n)
  OBVIOUS
<1>4. /\ a \in Seq(Byte)
      /\ Len(a) = IF i + n <= l THEN n ELSE IF i < l THEN l - i ELSE 0
      /\ \A k \in 1..Len(a) : a[k] = p[i + k]
  <2>1. /\ Read(p, i, n) \in Seq(Byte)
        /\ Len(Read(p, i, n)) = IF i + n <= Len(p) THEN n
                                ELSE IF i < Len(p) THEN Len(p) - i ELSE 0
        /\ \A k \in 1..Len(Read(p, i, n)) : Read(p, i, n)[k] = p[i + k]
    BY ReadIs, Zenon
  <2> QED
    BY <1>2, <1>3, <2>1
<1>5. /\ b \in Seq(Byte)
      /\ Len(b) = IF i + n <= m THEN n ELSE IF i < m THEN m - i ELSE 0
      /\ \A k \in 1..Len(b) : b[k] = s[i + k]
  <2>1. /\ Read(s, i, n) \in Seq(Byte)
        /\ Len(Read(s, i, n)) = IF i + n <= Len(s) THEN n
                                ELSE IF i < Len(s) THEN Len(s) - i ELSE 0
        /\ \A k \in 1..Len(Read(s, i, n)) : Read(s, i, n)[k] = s[i + k]
    BY <1>1, ReadIs, Zenon
  <2> QED
    BY <1>2, <1>3, <2>1
<1>6. CASE Len(a) # n
  BY <1>3, <1>6 DEF unpack_from_stream
<1>7. CASE Len(a) = n
  <2>1. Len(b) = n
    BY <1>2, <1>4, <1>5, <1>7, SMT
  <2>2. ASSUME NEW k \in 1..n PROVE a[k] = b[k]
    <3>1. i + k \in 1..l
      BY <1>2, <1>4, <1>7, SMT
    <3>2. s[i + k] = p[i + k]
      BY <1>2, <3>1, Zenon DEF Begins
    <3> QED
      BY <1>4, <1>5, <1>7, <2>1, <3>2, Zenon
  <2>3. a = b
    BY <1>4, <1>5, <1>7, <2>1, <2>2, SeqEqual, Zenon
  <2> QED
    BY <1>3, <2>1, <2>3 DEF unpack_from_stream
<1> QED
  BY <1>6, <1>7

\* The types of parameters.
OcaTypes == {OcaInt8, OcaUint16, OcaString}

\* A value whose bytes are cut off is refused, or read as it would be in whole.
LEMMA DecodeBegins ==
  ASSUME NEW s, NEW p \in Seq(Byte), Begins(s, p), NEW type \in OcaTypes
  PROVE  OcaDecode(type, p) \in {Raised, OcaDecode(type, s)}
<1>1. s \in Seq(Byte)
  BY DEF Begins
<1>2. type.width \in 0..2 /\ 0 \in Nat /\ 2 \in Nat /\ type.width \in Nat
  BY SMT DEF OcaTypes, OcaInt8, OcaUint16, OcaString
<1>3. CASE type.width > 0
  <2>1. unpack_from_stream(p, 0, type.width) \in {Raised, unpack_from_stream(s, 0, type.width)}
    BY <1>2, UnpackBegins
  <2> QED
    BY <1>3, <2>1 DEF OcaDecode, Then
<1>4. CASE ~(type.width > 0)
  <2>1. PICK x, y : x = unpack_from_stream(p, 0, 2) /\ y = unpack_from_stream(s, 0, 2)
    OBVIOUS
  <2>2. x = Raised \/ x = y
    BY <1>2, <2>1, UnpackBegins
  <2>3. CASE x = Raised
    BY <1>4, <2>1, <2>3 DEF OcaDecode, Then
  <2>4. CASE x # Raised
    <3>1. PICK b : b = Read(p, 0, 2)
      OBVIOUS
    <3>2. x = <<b>> /\ x[1] = b /\ Len(b) = 2
      BY <2>1, <2>4, <3>1 DEF unpack_from_stream
    <3>3. b \in Seq(Byte)
      BY <1>2, <3>1, ReadIs
    <3>4. At16(b, 1) \in Nat
      <4>1. 1 \in 1..Len(b) /\ 2 \in 1..Len(b)
        BY <3>2
      <4>2. PICK c \in Byte, d \in Byte : c = b[1] /\ d = b[2]
        BY <3>3, <4>1, ElementOfSeq
      <4>3. At16(b, 1) = 256 * c + d
        BY <4>2, SMT DEF At16
      <4> QED
        BY <4>3, SMT DEF Byte
    <3>5. PICK n \in Nat : n = At16(b, 1)
      BY <3>4
    <3>6. PICK v, w : v = unpack_from_stream(p, 2, n) /\ w = unpack_from_stream(s, 2, n)
      OBVIOUS
    <3>7. v = Raised \/ v = w
      BY <1>2, <3>6, UnpackBegins
    <3>8. OcaDecode(type, p) = IF v = Raised THEN Raised ELSE Utf8Decode(v[1])
      BY <1>4, <2>1, <2>4, <3>2, <3>5, <3>6 DEF OcaDecode, Then
    <3>9. OcaDecode(type, s) = IF w = Raised THEN Raised ELSE Utf8Decode(w[1])
      BY <1>4, <2>1, <2>2, <2>4, <3>2, <3>5, <3>6 DEF OcaDecode, Then
    <3> QED
      BY <3>7, <3>8, <3>9
  <2> QED
    BY <2>3, <2>4
<1> QED
  BY <1>3, <1>4

\* x, decoded from a byte string of length l, is y or what is left of it.
LeftOf(x, y, l) ==
  x # Raised =>
    /\ y # Raised
    /\ x[1].handle = y[1].handle /\ x[1].status = y[1].status /\ x[1].count = y[1].count
    /\ x[1].count \in Nat
    /\ x[1].raw \in Seq(Byte) /\ Begins(y[1].raw, x[1].raw)
    /\ x[1].next \in Nat /\ (x[1].next = y[1].next \/ x[1].next = l)

\* What is left of a response is refused, or judged as the whole of it is.
LEMMA JudgedLeft ==
  ASSUME NEW x, NEW y, NEW l, LeftOf(x, y, l), NEW types \in Seq(OcaTypes)
  PROVE  Judged(x, types) \in {Raises, Judged(y, types)}
<1>1. CASE x = Raised
  BY <1>1 DEF Judged
<1>2. CASE x # Raised
  <2>1. PICK r, q : r = x[1] /\ q = y[1]
    OBVIOUS
  <2>2. /\ y # Raised /\ r.status = q.status /\ r.count = q.count /\ r.count \in Nat
        /\ r.raw \in Seq(Byte) /\ Begins(q.raw, r.raw)
    BY <1>2, <2>1 DEF LeftOf
  <2>3. parse_params(r, types) \in {Raised, parse_params(q, types)}
    <3>1. CASE r.count < Len(types)
      BY <2>2, <3>1 DEF parse_params
    <3>2. CASE ~(r.count < Len(types)) /\ types = <<>>
      <4>1. r.count >= Len(types) /\ q.count >= Len(types)
        BY <2>2, <3>2, EmptySeq, SMT
      <4> QED
        BY <2>2, <3>2, <4>1 DEF parse_params
    <3>3. CASE ~(r.count < Len(types)) /\ types # <<>>
      <4>1. types[1] \in OcaTypes
        <5>1. 1 \in 1..Len(types)
          BY <3>3, EmptySeq, LenProperties, SMT
        <5> QED
          BY <5>1, ElementOfSeq
      <4>2. OcaDecode(types[1], r.raw) \in {Raised, OcaDecode(types[1], q.raw)}
        BY <2>2, <4>1, DecodeBegins
      <4> QED
        BY <2>2, <3>3, <4>2 DEF parse_params
    <3> QED
      BY <3>1, <3>2, <3>3
  <2>4. CASE r.status # 0
    BY <1>2, <2>1, <2>4 DEF Judged
  <2>5. CASE r.status = 0
    <3>1. Judged(x, types) = Outcome(parse_params(r, types))
      BY <1>2, <2>1, <2>5 DEF Judged
    <3>2. Judged(y, types) = Outcome(parse_params(q, types))
      BY <2>1, <2>2, <2>5 DEF Judged
    <3> QED
      BY <2>3, <3>1, <3>2 DEF Outcome
  <2> QED
    BY <2>4, <2>5
<1> QED
  BY <1>1, <1>2

\* Decoding at any position of what is left of s.
LEMMA DecodeLeft ==
  ASSUME NEW s, NEW t \in Seq(Byte), Begins(s, t), NEW i \in Nat
  PROVE  LeftOf(ResponseDecode(t, i), ResponseDecode(s, i), Len(t))
<1>1. s \in Seq(Byte)
  BY DEF Begins
<1>2. PICK l \in Nat, m \in Nat : l = Len(t) /\ m = Len(s) /\ l <= m
  BY <1>1, LenProperties DEF Begins
<1>3. PICK x, y : x = ResponseDecode(t, i) /\ y = ResponseDecode(s, i)
  OBVIOUS
<1>4. CASE i + 10 > l
  <2>1. x = Raised
    BY <1>2, <1>3, <1>4, ResponseIs
  <2> QED
    BY <1>3, <2>1 DEF LeftOf
<1>5. CASE ~(i + 10 > l)
  <2>1. i + 10 <= Len(t) /\ i + 10 <= Len(s) /\ 10 \in Nat
    BY <1>2, <1>5
  <2>2. PICK b : b = Header(t, i)
    OBVIOUS
  <2>3. b \in Seq(Byte) /\ Len(b) = 10 /\ \A k \in 1..10 : b[k] = t[i + k]
    BY <2>1, <2>2, ReadAll, Zenon DEF Header
  <2>4. b = Header(s, i)
    <3>1. PICK c : c = Header(s, i)
      OBVIOUS
    <3>2. c \in Seq(Byte) /\ Len(c) = 10 /\ \A k \in 1..10 : c[k] = s[i + k]
      BY <1>1, <2>1, <3>1, ReadAll, Zenon DEF Header
    <3>3. \A k \in 1..10 : i + k \in 1..l
      BY <1>2, <1>5, SMT
    <3>4. \A k \in 1..10 : b[k] = c[k]
      BY <1>2, <2>3, <3>2, <3>3, Zenon DEF Begins
    <3> QED
      BY <2>3, <3>1, <3>2, <3>4, SeqEqual, Zenon
  <2>5. PICK u, v : u = ResponseLength(t, b) /\ v = ResponseLength(s, b)
    OBVIOUS
  <2>6. /\ x = IF u < 10 THEN Raised ELSE <<ResponseAt(t, i, b)>>
        /\ y = IF v < 10 THEN Raised ELSE <<ResponseAt(s, i, b)>>
    BY <1>1, <1>3, <2>1, <2>2, <2>4, <2>5, ResponseIs, Zenon
  <2>7. /\ u \in Nat /\ v \in Nat
        /\ u = v \/ (u = l + 10 /\ v = m + 10)
    <3>1. PICK c \in Byte, d \in Byte, e \in Byte, f \in Byte :
            c = b[1] /\ d = b[2] /\ e = b[3] /\ f = b[4]
      <4>1. 1 \in 1..Len(b) /\ 2 \in 1..Len(b) /\ 3 \in 1..Len(b) /\ 4 \in 1..Len(b)
        BY <2>3
      <4> QED
        BY <2>3, <4>1, ElementOfSeq
    <3>2. At16(b, 3) = 256 * e + f
      BY <3>1, SMT DEF At16
    <3>3. u = IF c > 0 THEN l + 10 ELSE 65536 * d + (256 * e + f)
      <4>1. u = IF b[1] > 0 THEN Len(t) + ResponseSize ELSE 65536 * b[2] + At16(b, 3)
        BY <2>5 DEF ResponseLength
      <4> QED
        BY <1>2, <3>1, <3>2, <4>1 DEF ResponseSize
    <3>4. v = IF c > 0 THEN m + 10 ELSE 65536 * d + (256 * e + f)
      <4>1. v = IF b[1] > 0 THEN Len(s) + ResponseSize ELSE 65536 * b[2] + At16(b, 3)
        BY <2>5 DEF ResponseLength
      <4> QED
        BY <1>2, <3>1, <3>2, <4>1 DEF ResponseSize
    <3> QED
      BY <3>3, <3>4, SMT DEF Byte
  <2>8. CASE u < 10
    BY <1>3, <2>6, <2>8 DEF LeftOf
  <2>9. CASE ~(u < 10)
    <3>1. PICK g \in Nat, h \in Nat, j \in Nat : g = u - 10 /\ h = v - 10 /\ j = i + 10
      <4>1. u - 10 \in Nat /\ v - 10 \in Nat /\ i + 10 \in Nat
        BY <1>2, <2>7, <2>9
      <4> QED
        BY <4>1
    <3>2. j <= l /\ (g = h \/ (g = l /\ h = m)) /\ ~(v < 10)
      BY <1>2, <1>5, <2>7, <2>9, <3>1
    <3>3. PICK r, q : r = ResponseAt(t, i, b) /\ q = ResponseAt(s, i, b)
      OBVIOUS
    <3>4. x = <<r>> /\ y = <<q>>
      BY <2>6, <2>9, <3>2, <3>3
    <3>5. /\ r.handle = At32(b, 5) /\ r.status = b[9] /\ r.count = b[10]
          /\ r.raw = Read(t, j, g) /\ r.next = j + Len(Read(t, j, g))
      BY <2>5, <3>1, <3>3 DEF ResponseAt, ResponseSize
    <3>6. /\ q.handle = At32(b, 5) /\ q.status = b[9] /\ q.count = b[10]
          /\ q.raw = Read(s, j, h) /\ q.next = j + Len(Read(s, j, h))
      BY <2>5, <3>1, <3>3 DEF ResponseAt, ResponseSize
    <3>7. PICK a, c : a = Read(t, j, g) /\ c = Read(s, j, h)
      OBVIOUS
    <3>8. /\ a \in Seq(Byte)
          /\ Len(a) = IF j + g <= l THEN g ELSE IF j < l THEN l - j ELSE 0
          /\ \A k \in 1..Len(a) : a[k] = t[j + k]
      <4>1. /\ Read(t, j, g) \in Seq(Byte)
            /\ Len(Read(t, j, g)) = IF j + g <= Len(t) THEN g
                                    ELSE IF j < Len(t) THEN Len(t) - j ELSE 0
            /\ \A k \in 1..Len(Read(t, j, g)) : Read(t, j, g)[k] = t[j + k]
        BY ReadIs, Zenon
      <4> QED
        BY <1>2, <3>7, <4>1, Zenon
    <3>9. /\ c \in Seq(Byte)
          /\ Len(c) = IF j + h <= m THEN h ELSE IF j < m THEN m - j ELSE 0
          /\ \A k \in 1..Len(c) : c[k] = s[j + k]
      <4>1. /\ Read(s, j, h) \in Seq(Byte)
            /\ Len(Read(s, j, h)) = IF j + h <= Len(s) THEN h
                                    ELSE IF j < Len(s) THEN Len(s) - j ELSE 0
            /\ \A k \in 1..Len(Read(s, j, h)) : Read(s, j, h)[k] = s[j + k]
        BY <1>1, ReadIs, Zenon
      <4> QED
        BY <1>2, <3>7, <4>1, Zenon
    <3>10. PICK n \in Nat, o \in Nat : n = Len(a) /\ o = Len(c)
      BY <3>8, <3>9, LenProperties
    <3>11. n <= o /\ j + n <= l /\ (j + n = j + o \/ j + n = l)
      <4>1. n = IF j + g <= l THEN g ELSE IF j < l THEN l - j ELSE 0
        BY <3>8, <3>10, Zenon
      <4>2. o = IF j + h <= m THEN h ELSE IF j < m THEN m - j ELSE 0
        BY <3>9, <3>10, Zenon
      <4> QED
        BY <1>2, <3>2, <4>1, <4>2, SMT
    <3>12. Begins(c, a)
      <4>1. ASSUME NEW k \in 1..n PROVE c[k] = a[k]
        <5>1. j + k \in 1..l /\ k \in 1..o
          BY <3>11
        <5>2. t[j + k] = s[j + k]
          BY <1>2, <5>1, Zenon DEF Begins
        <5> QED
          BY <3>8, <3>9, <3>10, <5>1, <5>2, Zenon
      <4> QED
        BY <3>9, <3>10, <3>11, <4>1, Zenon DEF Begins
    <3>13. r.next \in Nat /\ (r.next = q.next \/ r.next = l)
      <4>1. r.next = j + n /\ q.next = j + o
        BY <3>5, <3>6, <3>7, <3>10, Zenon
      <4> QED
        BY <3>11, <4>1
    <3>14. r.count \in Nat
      <4>1. 10 \in 1..Len(b)
        BY <2>3
      <4>2. b[10] \in Byte
        BY <2>3, <4>1, ElementOfSeq
      <4>3. b[10] \in Nat
        <5>1. Byte \subseteq Nat
          BY DEF Byte
        <5> QED
          BY <4>2, <5>1, Zenon
      <4> QED
        BY <3>5, <4>3, Zenon
    <3>15. x # Raised /\ y # Raised /\ x[1] = r /\ y[1] = q
      BY <3>4, RaisedIs
    <3> QED
      BY <1>2, <1>3, <3>5, <3>6, <3>7, <3>8, <3>12, <3>13, <3>14, <3>15, Zenon DEF LeftOf
  <2> QED
    BY <2>8, <2>9
<1> QED
  BY <1>4, <1>5

\* Each response of what is left of s is what is left of that of s.
LEMMA ResponsesLeft ==
  ASSUME NEW s, NEW t \in Seq(Byte), Begins(s, t), NEW n \in Nat,
         NEW ts, InTurn(ts, t, n), NEW ss, InTurn(ss, s, n)
  PROVE  \A k \in 1..n : LeftOf(ts[k], ss[k], Len(t))
<1> DEFINE S == {k \in Nat : LeftOf(ts[k], ss[k], Len(t))}
<1>1. PICK l \in Nat : l = Len(t)
  BY LenProperties
<1>2. CASE n = 0
  BY <1>2
<1>3. CASE n # 0
  <2>1. 1 \in S
    <3>1. 1 \in 1..n /\ 10 \in Nat /\ 1 \in Nat
      BY <1>3
    <3>2. ts[1] = ResponseDecode(t, 10) /\ ss[1] = ResponseDecode(s, 10)
      BY <3>1, Zenon DEF InTurn
    <3>3. LeftOf(ts[1], ss[1], Len(t))
      BY <3>1, <3>2, DecodeLeft, Zenon
    <3> QED
      BY <3>1, <3>3
  <2>2. ASSUME NEW k \in 1..(n - 1), k \in S PROVE k + 1 \in S
    <3>1. PICK j \in 1..n : j = k + 1 /\ j - 1 = k /\ j # 1
      OBVIOUS
    <3>2. PICK x, y : x = ts[k] /\ y = ss[k]
      OBVIOUS
    <3>3. LeftOf(x, y, l)
      BY <1>1, <2>2, <3>2
    <3>4. ts[j] = Follow(t, x) /\ ss[j] = Follow(s, y)
      BY <3>1, <3>2, Zenon DEF InTurn
    <3>5. CASE x = Raised
      <4>1. ts[j] = Raised
        BY <3>4, <3>5 DEF Follow
      <4> QED
        BY <3>1, <4>1 DEF LeftOf
    <3>6. CASE x # Raised
      <4>1. PICK i \in Nat : i = x[1].next /\ (i = y[1].next \/ i = l) /\ y # Raised
        BY <3>3, <3>6, Zenon DEF LeftOf
      <4>2. ts[j] = ResponseDecode(t, i)
        BY <3>4, <3>6, <4>1, Zenon DEF Follow
      <4>3. CASE i = y[1].next
        <5>1. ss[j] = ResponseDecode(s, i)
          BY <3>4, <4>1, <4>3, Zenon DEF Follow
        <5>2. LeftOf(ts[j], ss[j], Len(t))
          BY <4>2, <5>1, DecodeLeft, Zenon
        <5> QED
          BY <3>1, <5>2
      <4>4. CASE i = l
        <5>1. i + 10 > Len(t)
          BY <1>1, <4>4
        <5>2. ts[j] = Raised
          BY <4>2, <5>1, ResponseIs
        <5> QED
          BY <3>1, <5>2 DEF LeftOf
      <4> QED
        BY <4>1, <4>3, <4>4
    <3> QED
      BY <3>5, <3>6
  <2>3. 1..n \subseteq S
    <3> HIDE DEF S
    <3>1. S \in SUBSET Nat
      BY DEF S
    <3> QED
      BY <2>1, <2>2, <3>1, InductionTo
  <2> QED
    BY <2>3
<1> QED
  BY <1>2, <1>3

\* What is left of a byte string that is cut after any number of bytes, whatever
\* it is, is skipped, refused or read as the whole of it is.
THEOREM CutIsNoLie ==
  ASSUME NEW s \in Seq(Byte), NEW n \in 0..Len(s), NEW h, NEW types \in Seq(OcaTypes)
  PROVE  receive_matching_response(SubSeq(s, 1, n), h, types)
           \in {Skips, Raises, receive_matching_response(s, h, types)}
<1>1. PICK t : t = SubSeq(s, 1, n)
  OBVIOUS
<1>2. n \in Nat /\ n <= Len(s) /\ Len(s) \in Nat
  BY LenProperties, SMT
<1>3. t \in Seq(Byte) /\ Len(t) = n /\ \A k \in 1..n : t[k] = s[k]
  BY <1>1, <1>2, CutBytes, Zenon
<1>4. Begins(s, t)
  BY <1>2, <1>3, Zenon DEF Begins
<1>5. PICK rcv, whole : /\ rcv = receive_matching_response(t, h, types)
                        /\ whole = receive_matching_response(s, h, types)
  OBVIOUS
<1>6. CASE Len(t) < 10 \/ t[1] # 59 \/ t[8] # 3
  <2>1. rcv = Skips
    BY <1>3, <1>5, <1>6, NoMessage
  <2> QED
    BY <1>1, <1>5, <2>1
<1>7. CASE ~(Len(t) < 10 \/ t[1] # 59 \/ t[8] # 3)
  <2>1. Len(t) >= 10 /\ Len(s) >= 10 /\ t[1] = 59 /\ t[8] = 3
    BY <1>2, <1>3, <1>7, SMT
  <2>2. PICK c \in Byte, d \in Byte : c = t[9] /\ d = t[10] /\ c = s[9] /\ d = s[10]
    <3>1. 9 \in 1..Len(t) /\ 10 \in 1..Len(t) /\ 9 \in 1..n /\ 10 \in 1..n
      BY <1>2, <1>3, <2>1, SMT
    <3>2. t[9] \in Byte /\ t[10] \in Byte
      BY <1>3, <3>1, ElementOfSeq
    <3> QED
      BY <1>3, <3>1, <3>2, Zenon
  <2>3. PICK m \in Nat : m = 256 * c + d
    BY SMT DEF Byte
  <2>4. s[1] = 59 /\ s[8] = 3
    <3>1. 1 \in 1..n /\ 8 \in 1..n
      BY <1>2, <1>3, <2>1, SMT
    <3> QED
      BY <1>3, <2>1, <3>1, Zenon
  <2>5. At16(t, 9) = m /\ At16(s, 9) = m
    <3>1. 9 + 1 = 10
      OBVIOUS
    <3>2. At16(t, 9) = 256 * t[9] + t[10] /\ At16(s, 9) = 256 * s[9] + s[10]
      BY <3>1, Zenon DEF At16
    <3> QED
      BY <2>2, <2>3, <3>2, Zenon
  <2>6. IsMessage(t, m) /\ IsMessage(s, m)
    BY <1>3, <2>1, <2>4, <2>5, Zenon DEF IsMessage
  <2>7. PICK ts, ss : ts = ResponsesOf(t, m) /\ ss = ResponsesOf(s, m)
    OBVIOUS
  <2>8. Matched(rcv, ts, m, h, types) /\ Matched(whole, ss, m, h, types)
    BY <1>5, <2>6, <2>7, MatchedIs, Zenon
  <2>9. InTurn(ts, t, m) /\ InTurn(ss, s, m)
    BY <2>7, ResponsesAre, Zenon
  <2>10. \A k \in 1..m : LeftOf(ts[k], ss[k], Len(t))
    BY <1>3, <1>4, <2>9, ResponsesLeft, Zenon
  <2>11. ASSUME NEW k \in 1..m, ~Stops(ts[k], h) PROVE ~Stops(ss[k], h)
    BY <2>10, <2>11, Zenon DEF LeftOf, Stops
  <2>12. ASSUME NEW k \in 1..m, ts[k] # Raised, Stops(ts[k], h) PROVE Stops(ss[k], h)
    BY <2>10, <2>12, Zenon DEF LeftOf, Stops
  <2>13. rcv \in {Skips, Raises, whole}
    <3>1. CASE rcv = Skips
      BY <3>1
    <3>2. ASSUME NEW k \in 1..m, Stops(ts[k], h), \A i \in 1..(k - 1) : ~Stops(ts[i], h),
                 rcv = Judged(ts[k], types)
          PROVE  rcv \in {Skips, Raises, whole}
      <4>1. CASE ts[k] = Raised
        BY <3>2, <4>1 DEF Judged
      <4>2. CASE ts[k] # Raised
        <5>1. Stops(ss[k], h)
          BY <2>12, <3>2, <4>2
        <5>2. ASSUME NEW i \in 1..(k - 1) PROVE ~Stops(ss[i], h)
          <6>1. i \in 1..m
            BY SMT
          <6> QED
            BY <2>11, <3>2, <6>1
        <5>3. whole = Judged(ss[k], types)
          <6>1. CASE \A i \in 1..m : ~Stops(ss[i], h)
            BY <5>1, <6>1
          <6>2. ASSUME NEW j \in 1..m, Stops(ss[j], h), \A i \in 1..(j - 1) : ~Stops(ss[i], h),
                       whole = Judged(ss[j], types)
                PROVE  whole = Judged(ss[k], types)
            <7>1. CASE j < k
              <8>1. j \in 1..(k - 1)
                BY <7>1, SMT
              <8> QED
                BY <5>2, <6>2, <8>1
            <7>2. CASE k < j
              <8>1. k \in 1..(j - 1)
                BY <7>2, SMT
              <8> QED
                BY <5>1, <6>2, <8>1
            <7>3. j < k \/ k < j \/ j = k
              BY SMT
            <7> QED
              BY <6>2, <7>1, <7>2, <7>3
          <6> QED
            BY <2>8, <6>1, <6>2 DEF Matched
        <5>4. rcv \in {Raises, Judged(ss[k], types)}
          BY <2>10, <3>2, JudgedLeft
        <5> QED
          BY <5>3, <5>4
      <4> QED
        BY <4>1, <4>2
    <3> QED
      BY <2>8, <3>1, <3>2 DEF Matched
  <2> QED
    BY <1>1, <1>5, <2>13
<1> QED
  BY <1>6, <1>7

----------------------------------------------------------------------------
(* Texts. *)

\* The characters that UTF-8 writes in one or two bytes.
Characters == {c \in Nat : c < 2048}

\* The two-byte form at position i of b, and the character it stands for.
IsPair(b, i) == i < Len(b) /\ b[i] \in 194..223 /\ b[i + 1] \in 128..191
PairAt(b, i) == (b[i] - 192) * 64 + b[i + 1] - 128

\* c before what was decoded after it.
Before(c, x) == IF x = Raised THEN Raised ELSE << <<c>> \o x[1] >>

\* What from[i] is in Utf8Decode.
Step(f, b, i) ==
  IF i > Len(b) THEN << <<>> >>
  ELSE IF IsPair(b, i) THEN Before(PairAt(b, i), f[i + 2])
  ELSE IF b[i] > 127 THEN Raised
  ELSE Before(b[i], f[i + 1])

\* The recursion of Utf8Decode has a solution.
LEMMA Utf8DecodeIs ==
  ASSUME NEW b \in Seq(Byte), NEW l \in Nat, l = Len(b)
  PROVE  \E f : /\ \A i \in 1..(l + 2) : f[i] = Step(f, b, i)
                /\ Utf8Decode(b) = f[1]
<1> DEFINE Body(f, i) ==
             IF i > Len(b) THEN << <<>> >>
             ELSE LET two == i < Len(b) /\ b[i] \in 194..223 /\ b[i + 1] \in 128..191
                      c == IF two THEN (b[i] - 192) * 64 + b[i + 1] - 128 ELSE b[i]
                  IN IF ~two /\ b[i] > 127 THEN Raised
                     ELSE Then(f[IF two THEN i + 2 ELSE i + 1], LAMBDA t : << <<c>> \o t >>)
           Rec(f, d) == f = [i \in (l + 3 - d)..(l + 2) |-> Body(f, i)]
           S == {d \in Nat : d <= l + 2 => \E f : Rec(f, d)}
           from == CHOOSE f : f = [i \in 1..(Len(b) + 2) |-> Body(f, i)]
<1>1. ASSUME NEW f, NEW i PROVE Body(f, i) = Step(f, b, i)
  <2>1. CASE i > Len(b)
    BY <2>1 DEF Step
  <2>2. CASE ~(i > Len(b)) /\ IsPair(b, i)
    BY <2>2 DEF Step, IsPair, PairAt, Before, Then
  <2>3. CASE ~(i > Len(b)) /\ ~IsPair(b, i)
    BY <2>3 DEF Step, IsPair, Before, Then
  <2> QED
    BY <2>1, <2>2, <2>3
<1> HIDE DEF Body
<1>2. 0 \in S
  <2>1. Rec([i \in (l + 3)..(l + 2) |-> 0], 0)
    OBVIOUS
  <2> QED
    BY <2>1
<1>3. ASSUME NEW d \in S PROVE d + 1 \in S
  <2>1. d \in Nat /\ (d <= l + 2 => \E f : Rec(f, d)) /\ d + 1 \in Nat
    OBVIOUS
  <2>2. ASSUME d + 1 <= l + 2 PROVE \E g : Rec(g, d + 1)
    <3>1. d <= l + 2
      BY <2>1, <2>2
    <3>2. PICK f : Rec(f, d)
      BY <2>1, <3>1
    <3>3. PICK j \in 1..(l + 2) : j = l + 2 - d
      <4>1. l + 2 - d \in 1..(l + 2)
        BY <2>1, <2>2
      <4> QED
        BY <4>1
    <3>4. PICK J, K : J = j..(l + 2) /\ K = (j + 1)..(l + 2)
      OBVIOUS
    <3>5. PICK g : g = [i \in J |-> Body(f, i)]
      OBVIOUS
    <3>6. ASSUME NEW i \in K PROVE f[i] = g[i]
      <4>1. i \in J
        BY <3>4
      <4>2. (l + 3 - d)..(l + 2) = K
        BY <2>1, <3>3, <3>4
      <4>3. f[i] = Body(f, i)
        BY <3>2, <4>2
      <4>4. g[i] = Body(f, i)
        BY <3>5, <4>1
      <4> QED
        BY <4>3, <4>4
    <3>7. ASSUME NEW i \in J PROVE Body(f, i) = Body(g, i)
      <4>1. i \in Nat
        BY <3>4
      <4>2. ~(i > l) => i + 1 \in K
        BY <3>4, <4>1
      <4>3. i < l => i + 2 \in K
        BY <3>4, <4>1
      <4>4. Step(f, b, i) = Step(g, b, i)
        <5>1. CASE i > l
          BY <5>1 DEF Step
        <5>2. CASE ~(i > l) /\ IsPair(b, i)
          <6>1. f[i + 2] = g[i + 2]
            <7>1. i < l
              BY <5>2 DEF IsPair
            <7> QED
              BY <3>6, <4>3, <7>1, Zenon
          <6> QED
            BY <5>2, <6>1, Zenon DEF Step
        <5>3. CASE ~(i > l) /\ ~IsPair(b, i)
          <6>1. f[i + 1] = g[i + 1]
            BY <3>6, <4>2, <5>3, Zenon
          <6> QED
            BY <5>3, <6>1, Zenon DEF Step
        <5> QED
          BY <5>1, <5>2, <5>3
      <4> QED
        BY <1>1, <4>4, Zenon
    <3>8. g = [i \in J |-> Body(g, i)]
      BY <3>5, <3>7, Zenon
    <3>9. l + 3 - (d + 1) = j
      BY <2>1, <3>3
    <3> QED
      BY <3>4, <3>8, <3>9
  <2> QED
    BY <2>1, <2>2
<1>4. Nat \subseteq S
  <2> HIDE DEF S
  <2>1. S \in SUBSET Nat
    BY DEF S
  <2> QED
    BY <1>2, <1>3, <2>1, Induction
<1>5. \E f : f = [i \in 1..(Len(b) + 2) |-> Body(f, i)]
  <2>1. l + 2 \in Nat /\ l + 2 <= l + 2 /\ l + 3 - (l + 2) = 1
    OBVIOUS
  <2>2. \E f : Rec(f, l + 2)
    BY <1>4, <2>1
  <2> QED
    BY <2>1, <2>2
<1>6. from = [i \in 1..(Len(b) + 2) |-> Body(from, i)]
  BY <1>5
<1>7. Utf8Decode(b) = from[1]
  BY DEF Utf8Decode, Body
<1> HIDE DEF from
<1>8. ASSUME NEW i \in 1..(l + 2) PROVE from[i] = Step(from, b, i)
  <2>1. from[i] = Body(from, i)
    BY <1>6
  <2> QED
    BY <1>1, <2>1
<1> QED
  BY <1>7, <1>8

\* One character takes one byte, or a pair of them.
LEMMA Utf8Bytes ==
  ASSUME NEW c \in Characters
  PROVE  /\ Utf8(c) \in Seq(Byte)
         /\ c < 128 => Len(Utf8(c)) = 1 /\ Utf8(c)[1] = c
         /\ ~(c < 128) => /\ Len(Utf8(c)) = 2
                          /\ Utf8(c)[1] \in 194..223 /\ Utf8(c)[2] \in 128..191
                          /\ (Utf8(c)[1] - 192) * 64 + Utf8(c)[2] - 128 = c
<1>1. PICK q \in Int, r \in 0..63 : q = c \div 64 /\ r = c % 64 /\ c = 64 * q + r
  <2>1. c \in Nat
    BY DEF Characters
  <2>2. c \div 64 \in Int /\ c % 64 \in 0..63 /\ c = 64 * (c \div 64) + (c % 64)
    BY <2>1, SMT
  <2> QED
    BY <2>2
<1>2. CASE c < 128
  <2>1. Utf8(c) = <<c>>
    BY <1>2 DEF Utf8
  <2>2. c \in Byte
    BY <1>2, SMT DEF Characters, Byte
  <2> QED
    BY <1>2, <2>1, <2>2
<1>3. CASE ~(c < 128)
  <2>1. PICK x, y : x = 192 + q /\ y = 128 + r
    OBVIOUS
  <2>2. Utf8(c) = <<x, y>>
    BY <1>1, <1>3, <2>1, Zenon DEF Utf8
  <2>3. q >= 2 /\ q < 32
    BY <1>1, <1>3, SMT DEF Characters
  <2>4. x \in 194..223 /\ y \in 128..191 /\ (x - 192) * 64 + y - 128 = c
    BY <1>1, <2>1, <2>3, SMT
  <2>5. x \in Byte /\ y \in Byte
    BY <2>4, SMT DEF Byte
  <2>6. <<x, y>> \in Seq(Byte) /\ Len(<<x, y>>) = 2 /\ <<x, y>>[1] = x /\ <<x, y>>[2] = y
    BY <2>5
  <2> QED
    BY <1>3, <2>2, <2>4, <2>6
<1> QED
  BY <1>2, <1>3

\* b has the character c after a bytes, and x is decoded behind it.
LeadsTo(f, b, a, c, x) ==
  Holds(b, a, Utf8(c)) /\ f[a + 1 + Len(Utf8(c))] = x

\* What is decoded at a character, when the rest of the text is decoded behind it.
LEMMA StepIs ==
  ASSUME NEW f, NEW b \in Seq(Byte), NEW c \in Characters, NEW a \in Nat,
         NEW x, LeadsTo(f, b, a, c, x)
  PROVE  Step(f, b, a + 1) = Before(c, x)
<1>1. PICK i \in Nat, l \in Nat : i = a + 1 /\ l = Len(b)
  <2>1. a + 1 \in Nat
    OBVIOUS
  <2> QED
    BY <2>1, LenProperties
<1>3. Holds(b, a, Utf8(c)) /\ f[a + 1 + Len(Utf8(c))] = x
  BY DEF LeadsTo
<1>2. Step(f, b, i) = Before(c, x)
  <2>1. CASE c < 128
    <3>1. Len(Utf8(c)) = 1 /\ Utf8(c)[1] = c
      BY <2>1, Utf8Bytes
    <3>2. a + 1 <= l /\ b[a + 1] = c
      <4>1. 1 \in 1..1
        OBVIOUS
      <4> QED
        BY <1>1, <1>3, <3>1, <4>1, Zenon DEF Holds
    <3>3. ~(i > l) /\ b[i] = c
      BY <1>1, <3>2
    <3>4. c \notin 194..223 /\ ~(c > 127)
      <4>1. c \in Nat
        BY DEF Characters
      <4> QED
        BY <2>1, <4>1, SMT
    <3>5. ~IsPair(b, i)
      BY <3>3, <3>4, Zenon DEF IsPair
    <3>6. f[i + 1] = x
      BY <1>1, <1>3, <3>1, Zenon
    <3>7. Step(f, b, i) = Before(c, x)
      BY <1>1, <3>3, <3>4, <3>5, <3>6, Zenon DEF Step
    <3> QED
      BY <3>7, Zenon
  <2>2. CASE ~(c < 128)
    <3>1. PICK u, v : u = Utf8(c)[1] /\ v = Utf8(c)[2]
      OBVIOUS
    <3>2. Len(Utf8(c)) = 2 /\ u \in 194..223 /\ v \in 128..191 /\ (u - 192) * 64 + v - 128 = c
      BY <2>2, <3>1, Utf8Bytes
    <3>3. a + 2 <= l /\ b[a + 1] = u /\ b[a + 2] = v
      <4>1. 1 \in 1..2 /\ 2 \in 1..2
        OBVIOUS
      <4> QED
        BY <1>1, <1>3, <3>1, <3>2, <4>1, Zenon DEF Holds
    <3>4. i < l /\ ~(i > l) /\ i + 1 = a + 2 /\ i + 2 = a + 1 + 2
      BY <1>1, <3>3
    <3>5. b[i] = u /\ b[i + 1] = v
      BY <1>1, <3>3, <3>4, Zenon
    <3>6. IsPair(b, i) /\ PairAt(b, i) = c
      BY <1>1, <3>2, <3>4, <3>5, Zenon DEF IsPair, PairAt
    <3>7. f[i + 2] = x
      BY <1>3, <3>2, <3>4, Zenon
    <3>8. Step(f, b, i) = Before(c, x)
      BY <1>1, <3>4, <3>6, <3>7, Zenon DEF Step
    <3> QED
      BY <3>8, Zenon
  <2> QED
    BY <2>1, <2>2
<1> QED
  BY <1>1, <1>2

\* The characters of t from the k-th on.
From(t, k) == SubSeq(t, k, Len(t))

\* A text is its first character and what comes from the next one on.
LEMMA FromIs ==
  ASSUME NEW t \in Seq(Characters)
  PROVE  /\ From(t, 1) = t /\ From(t, Len(t) + 1) = <<>>
         /\ \A k \in 1..Len(t) : <<t[k]>> \o From(t, k + 1) = From(t, k)
<1>1. PICK n \in Nat : n = Len(t) /\ \A k \in 1..n : t[k] \in Characters
  BY LenProperties, ElementOfSeq
<1>2. SubSeq(t, n + 1, n) = <<>>
  <2>1. n + 1 \in Int /\ n \in Int /\ n < n + 1
    OBVIOUS
  <2> QED
    BY <2>1, SubSeqEmpty
<1>3. \A k \in 1..(n + 1) :
        /\ SubSeq(t, k, n) \in Seq(Characters) /\ Len(SubSeq(t, k, n)) = n - k + 1
        /\ \A i \in 1..(n - k + 1) : SubSeq(t, k, n)[i] = t[k + i - 1]
  <2>1. TAKE k \in 1..(n + 1)
  <2>2. k \in Int /\ n \in Int /\ \A i \in k..n : t[i] \in Characters
    BY <1>1
  <2>3. /\ SubSeq(t, k, n) \in Seq(Characters)
        /\ Len(SubSeq(t, k, n)) = IF k <= n THEN n - k + 1 ELSE 0
        /\ \A i \in 1..(n - k + 1) : SubSeq(t, k, n)[i] = t[k + i - 1]
    BY <2>2, SubSeqProperties
  <2>4. n - k + 1 = IF k <= n THEN n - k + 1 ELSE 0
    OBVIOUS
  <2> QED
    BY <2>3, <2>4
<1>4. SubSeq(t, 1, n) = t
  <2>1. 1 \in 1..(n + 1) /\ n - 1 + 1 = n
    OBVIOUS
  <2>2. /\ SubSeq(t, 1, n) \in Seq(Characters) /\ Len(SubSeq(t, 1, n)) = n
        /\ \A i \in 1..n : SubSeq(t, 1, n)[i] = t[1 + i - 1]
    BY <1>3, <2>1, Zenon
  <2>3. \A i \in 1..n : 1 + i - 1 = i
    OBVIOUS
  <2> QED
    BY <1>1, <2>2, <2>3, SeqEqual
<1>5. ASSUME NEW k \in 1..n PROVE <<t[k]>> \o SubSeq(t, k + 1, n) = SubSeq(t, k, n)
  <2>1. PICK m \in 1..(n + 1) : m = k + 1 /\ k \in 1..(n + 1)
    OBVIOUS
  <2>2. PICK x, y, c : x = SubSeq(t, m, n) /\ y = SubSeq(t, k, n) /\ c = t[k]
    OBVIOUS
  <2>3. /\ x \in Seq(Characters) /\ Len(x) = n - m + 1
        /\ \A i \in 1..(n - m + 1) : x[i] = t[m + i - 1]
    BY <1>3, <2>2
  <2>4. /\ y \in Seq(Characters) /\ Len(y) = n - k + 1
        /\ \A i \in 1..(n - k + 1) : y[i] = t[k + i - 1]
    BY <1>3, <2>1, <2>2
  <2>5. c \in Characters /\ <<c>> \in Seq(Characters) /\ Len(<<c>>) = 1 /\ <<c>>[1] = c
    BY <1>1, <2>2
  <2>6. PICK p : p = <<c>>
    OBVIOUS
  <2>7. /\ p \o x \in Seq(Characters) /\ Len(p \o x) = Len(p) + Len(x)
        /\ \A i \in 1..Len(p) + Len(x) : (p \o x)[i] = IF i <= Len(p) THEN p[i] ELSE x[i - Len(p)]
    BY <2>3, <2>5, <2>6, ConcatProperties, ZenonT(60)
  <2>8. Len(p) = 1 /\ p[1] = c /\ 1 + (n - m + 1) = n - k + 1
    BY <2>1, <2>5, <2>6
  <2>9. ASSUME NEW i \in 1..(n - k + 1) PROVE (p \o x)[i] = y[i]
    <3>1. (p \o x)[i] = IF i <= 1 THEN p[i] ELSE x[i - 1]
      BY <2>3, <2>7, <2>8, Zenon
    <3>2. CASE i = 1
      <4>1. y[1] = t[k]
        <5>1. 1 \in 1..(n - k + 1) /\ k + 1 - 1 = k
          OBVIOUS
        <5> QED
          BY <2>4, <5>1, Zenon
      <4>2. (p \o x)[i] = p[i]
        BY <3>1, <3>2
      <4> QED
        BY <2>2, <2>8, <3>2, <4>1, <4>2, Zenon
    <3>3. CASE i # 1
      <4>1. PICK j \in 1..(n - m + 1) : j = i - 1 /\ m + j - 1 = k + i - 1 /\ ~(i <= 1)
        <5>1. i - 1 \in 1..(n - m + 1) /\ m + (i - 1) - 1 = k + i - 1 /\ ~(i <= 1)
          BY <2>1, <3>3
        <5> QED
          BY <5>1
      <4>2. x[j] = t[k + i - 1] /\ y[i] = t[k + i - 1]
        BY <2>3, <2>4, <4>1, Zenon
      <4> QED
        BY <3>1, <4>1, <4>2, Zenon
    <3> QED
      BY <3>2, <3>3
  <2>10. p \o x = y
    BY <2>3, <2>4, <2>7, <2>8, <2>9, SeqEqual, Zenon
  <2> QED
    BY <2>1, <2>2, <2>6, <2>10
<1> QED
  BY <1>1, <1>2, <1>4, <1>5, Zenon DEF From

\* Every text of such characters is a byte string in UTF-8, and is decoded from it.
THEOREM TextsComeBack ==
  ASSUME NEW t \in Seq(Characters)
  PROVE  Utf8Encode(t) \in Seq(Byte) /\ Utf8Decode(Utf8Encode(t)) = <<t>>
<1>1. PICK n \in Nat : n = Len(t) /\ DOMAIN t = 1..n /\ \A k \in 1..n : t[k] \in Characters
  BY LenProperties, ElementOfSeq
<1>2. PICK parts : parts = [i \in 1..n |-> Utf8(t[i])]
  OBVIOUS
<1>3. Len(parts) = n /\ \A i \in 1..n : parts[i] = Utf8(t[i]) /\ parts[i] \in Seq(Byte)
  BY <1>1, <1>2, Utf8Bytes
<1>4. Utf8Encode(t) = FlattenSeq(parts)
  BY <1>1, <1>2 DEF Utf8Encode
<1>5. PICK b : b = Utf8Encode(t)
  OBVIOUS
<1>6. CASE n = 0
  <2>1. parts = <<>> /\ t = <<>>
    <3>1. t = <<>>
      BY <1>1, <1>6, EmptySeq
    <3>2. parts = <<>>
      BY <1>2, <1>6
    <3> QED
      BY <3>1, <3>2
  <2>2. b = <<>>
    BY <1>3, <1>4, <1>5, <1>6, <2>1 DEF FlattenSeq
  <2>3. b \in Seq(Byte) /\ Len(b) = 0
    BY <2>2, EmptySeq
  <2>4. PICK f : (\A i \in 1..(0 + 2) : f[i] = Step(f, b, i)) /\ Utf8Decode(b) = f[1]
    <3>1. 0 \in Nat /\ 0 = Len(b)
      BY <2>3
    <3> QED
      BY <2>3, <3>1, Utf8DecodeIs, Zenon
  <2>5. 1 \in 1..(0 + 2) /\ 1 > 0
    OBVIOUS
  <2>6. f[1] = << <<>> >>
    BY <2>3, <2>4, <2>5, Zenon DEF Step
  <2> QED
    BY <1>5, <2>1, <2>3, <2>4, <2>6, Zenon
<1>7. CASE n # 0
  <2>1. Len(parts) \in Nat \ {0}
    BY <1>3, <1>7
  <2>2. PICK g : Piles(g, parts) /\ FlattenSeq(parts) = g[Len(parts)]
    BY <2>1, FlattenIs
  <2>3. b = g[n]
    BY <1>3, <1>4, <1>5, <2>2
  <2>4. n \in 1..n
    BY <1>7
  <2>5. b \in Seq(Byte)
    BY <1>3, <2>2, <2>3, <2>4, PilesGrow
  <2>6. PICK l \in Nat : l = Len(b)
    BY <2>5, LenProperties
  <2>7. PICK f : (\A i \in 1..(l + 2) : f[i] = Step(f, b, i)) /\ Utf8Decode(b) = f[1]
    BY <2>5, <2>6, Utf8DecodeIs
  <2>8. \A i \in 1..n : /\ Holds(b, Start(g, i), parts[i])
                        /\ Len(g[i]) = Start(g, i) + Len(parts[i])
    BY <1>3, <2>2, <2>3, PartsAre
  \* The last d characters, backwards.
  <2> DEFINE Done(i) == f[Start(g, i) + 1] = << From(t, i) >>
             S == {d \in Nat : d \in 1..n => Done(n + 1 - d)}
  <2>9. ASSUME NEW i \in 1..n, f[Len(g[i]) + 1] = << From(t, i + 1) >>
        PROVE  Done(i)
    <3>1. PICK a \in Nat, c \in Characters : a = Start(g, i) /\ c = t[i]
      <4>1. Start(g, i) \in Nat
        BY <2>8 DEF Holds
      <4> QED
        BY <1>1, <4>1
    <3>2. Holds(b, a, Utf8(c)) /\ Len(g[i]) = a + Len(Utf8(c))
      BY <1>3, <2>8, <3>1
    <3>3. PICK m \in Nat : m = Len(Utf8(c)) /\ a + m <= l /\ m >= 1
      <4>1. Utf8(c) \in Seq(Byte) /\ (Len(Utf8(c)) = 1 \/ Len(Utf8(c)) = 2)
        BY Utf8Bytes
      <4>2. a + Len(Utf8(c)) <= l
        BY <2>6, <3>2, Zenon DEF Holds
      <4>3. PICK m \in {1, 2} : m = Len(Utf8(c))
        BY <4>1
      <4>4. m \in Nat /\ m >= 1
        OBVIOUS
      <4>5. a + m <= l
        BY <4>2, <4>3, Zenon
      <4> QED
        BY <4>3, <4>4, <4>5, Zenon
    <3>4. a + m + 1 = a + 1 + m /\ a + 1 \in 1..(l + 2)
      BY <3>3
    <3>5. PICK u : u = From(t, i + 1)
      OBVIOUS
    <3>10. PICK x : x = <<u>>
      OBVIOUS
    <3>6. f[a + 1 + Len(Utf8(c))] = x
      BY <2>9, <3>2, <3>3, <3>4, <3>5, <3>10, Zenon
    <3>7. Step(f, b, a + 1) = Before(c, x)
      <4>1. LeadsTo(f, b, a, c, x)
        BY <3>2, <3>6, Zenon DEF LeadsTo
      <4>2. b \in Seq(Byte) /\ a \in Nat /\ c \in Characters
        BY <2>5
      <4> HIDE DEF Done, S
      <4> QED
        BY <4>1, <4>2, StepIs
    <3>8. <<c>> \o u = From(t, i)
      BY <1>1, <3>1, <3>5, FromIs, Zenon
    <3>9. f[a + 1] = << From(t, i) >>
      <4>1. f[a + 1] = Before(c, x)
        BY <2>7, <3>4, <3>7, Zenon
      <4> QED
        BY <3>8, <3>10, <4>1, RaisedIs DEF Before
    <3> QED
      BY <3>1, <3>9, Zenon
  <2>10. Done(n)
    <3>1. l + 1 \in 1..(l + 2) /\ l + 1 > l
      OBVIOUS
    <3>2. f[l + 1] = << <<>> >>
      BY <2>6, <2>7, <3>1, Zenon DEF Step
    <3>3. From(t, n + 1) = <<>>
      BY <1>1, FromIs, Zenon
    <3>4. f[Len(g[n]) + 1] = << From(t, n + 1) >>
      BY <2>3, <2>6, <3>2, <3>3, Zenon
    <3> HIDE DEF Done
    <3> QED
      BY <2>4, <2>9, <3>4, Zenon
  <2>11. 1 \in S
    <3>1. n + 1 - 1 = n
      OBVIOUS
    <3> HIDE DEF Done
    <3> QED
      BY <2>10, <3>1
  <2>12. ASSUME NEW d \in 1..(n - 1), d \in S PROVE d + 1 \in S
    <3>1. PICK i \in 1..n, j \in 1..n : i = n + 1 - (d + 1) /\ j = n + 1 - d /\ j = i + 1 /\ j - 1 = i /\ j # 1
      <4>1. n + 1 - (d + 1) \in 1..n /\ n + 1 - d \in 1..n
        OBVIOUS
      <4> QED
        BY <4>1
    <3>2. Done(j)
      <4> HIDE DEF Done
      <4> QED
        BY <2>12, <3>1
    <3>3. Start(g, j) = Len(g[i])
      BY <3>1, Zenon DEF Start
    <3>4. f[Len(g[i]) + 1] = << From(t, i + 1) >>
      BY <3>1, <3>2, <3>3, Zenon
    <3>5. Done(i)
      <4> HIDE DEF Done
      <4> QED
        BY <2>9, <3>4, Zenon
    <3> HIDE DEF Done
    <3> QED
      BY <3>1, <3>5
  <2>13. 1..n \subseteq S
    <3> HIDE DEF S
    <3>1. S \in SUBSET Nat
      BY DEF S
    <3> QED
      BY <2>11, <2>12, <3>1, InductionTo
  <2>14. Done(1)
    <3>1. n + 1 - n = 1 /\ n \in 1..n
      BY <2>4
    <3> HIDE DEF Done
    <3> QED
      BY <2>13, <3>1
  <2>15. f[1] = <<t>>
    <3>1. Start(g, 1) = 0
      BY DEF Start
    <3>2. From(t, 1) = t
      BY FromIs
    <3>3. 0 + 1 = 1
      OBVIOUS
    <3> QED
      BY <2>14, <3>1, <3>2, <3>3, Zenon
  <2> QED
    BY <1>5, <2>5, <2>7, <2>15, Zenon
<1> QED
  BY <1>6, <1>7

\* The texts whose length fits its field.
Texts == {t \in Seq(Characters) : Len(Utf8Encode(t)) \in Half}

\* v can be sent as a value of the type.
Fits(type, v) ==
  \/ type \in NumberTypes /\ v \in Numbers(type)
  \/ type = OcaString /\ v \in Texts

\* A text is its length and its bytes.
LEMMA TextBytes ==
  ASSUME NEW t \in Texts, NEW b, b = Utf8Encode(t)
  PROVE  /\ b \in Seq(Byte) /\ Len(b) \in Half /\ Utf8Decode(b) = <<t>>
         /\ Joins(OcaEncode(OcaString, t), U16(Len(b)), b)
<1>1. t \in Seq(Characters) /\ Len(b) \in Half
  BY DEF Texts
<1>2. b \in Seq(Byte) /\ Utf8Decode(b) = <<t>>
  BY <1>1, TextsComeBack
<1>3. PICK n : n = Len(b)
  OBVIOUS
<1>4. U16(n) \in Seq(Byte)
  BY <1>1, <1>3, U16Half, Zenon
<1>5. OcaEncode(OcaString, t) = U16(n) \o b
  BY <1>3 DEF OcaEncode, OcaString
<1>6. Joins(U16(n) \o b, U16(n), b)
  BY <1>2, <1>4, Joined, Zenon
<1> QED
  BY <1>1, <1>2, <1>3, <1>5, <1>6, Zenon

\* An encoded value is a byte string.
LEMMA EncodedBytes ==
  ASSUME NEW type, NEW v, Fits(type, v)
  PROVE  OcaEncode(type, v) \in Seq(Byte)
<1>1. CASE type \in NumberTypes /\ v \in Numbers(type)
  BY <1>1, EncodedIs
<1>2. CASE type = OcaString /\ v \in Texts
  <2>1. PICK b : b = Utf8Encode(v)
    OBVIOUS
  <2>2. Joins(OcaEncode(OcaString, v), U16(Len(b)), b)
    BY <1>2, <2>1, TextBytes
  <2> QED
    BY <1>2, <2>2, Zenon DEF Joins
<1> QED
  BY <1>1, <1>2 DEF Fits

\* Every value is decoded from what it was encoded to, whatever stands behind it.
THEOREM ValuesComeBack ==
  ASSUME NEW type, NEW v, Fits(type, v), NEW s, Begins(s, OcaEncode(type, v))
  PROVE  OcaDecode(type, s) = <<v>>
<1>1. s \in Seq(Byte)
  BY DEF Begins
<1>2. PICK p \in Seq(Byte) : p = OcaEncode(type, v)
  BY EncodedBytes
<1>3. PICK l \in Nat, m \in Nat : l = Len(p) /\ m = Len(s) /\ l <= m
  <2>1. Len(p) \in Nat /\ Len(s) \in Nat
    BY <1>1, LenProperties
  <2> QED
    BY <1>2, <2>1 DEF Begins
<1>4. \A k \in 1..l : s[k] = p[k]
  BY <1>2, <1>3, Zenon DEF Begins
<1>5. CASE type \in NumberTypes /\ v \in Numbers(type)
  <2>1. Len(OcaEncode(type, v)) = type.width
    BY <1>5, EncodedIs
  <2>2. l = type.width
    BY <1>2, <1>3, <2>1
  <2>3. type.width <= Len(s) /\ \A k \in 1..type.width : s[k] = OcaEncode(type, v)[k]
    BY <1>2, <1>3, <1>4, <2>2
  <2> QED
    BY <1>1, <1>5, <2>3, DecodedIs
<1>6. CASE type = OcaString /\ v \in Texts
  <2>1. PICK b : b = Utf8Encode(v)
    OBVIOUS
  <2>2. /\ b \in Seq(Byte) /\ Len(b) \in Half /\ Utf8Decode(b) = <<v>>
        /\ Joins(p, U16(Len(b)), b)
    BY <1>2, <1>6, <2>1, TextBytes
  <2>3. PICK n \in Half : n = Len(b)
    BY <2>2
  <2>4. PICK a : a = U16(n)
    OBVIOUS
  <2>5. a \in Seq(Byte) /\ Len(a) = 2 /\ 256 * a[1] + a[2] = n
    BY <2>4, U16Half, Zenon
  <2>6. l = 2 + n /\ (\A k \in 1..2 : p[k] = a[k]) /\ \A k \in 2 + 1 .. 2 + n : p[k] = b[k - 2]
    BY <1>3, <2>2, <2>3, <2>4, <2>5, ZenonT(60) DEF Joins
  <2>7. n \in Nat /\ 2 + n <= m /\ 0 + 2 <= m
    BY <1>3, <2>6, SMT DEF Half
  <2>8. PICK x : x = Read(s, 0, 2)
    OBVIOUS
  <2>9. Len(x) = 2 /\ x[1] = a[1] /\ x[2] = a[2]
    <3>1. 0 \in Nat /\ 2 \in Nat /\ 1 \in 1..2 /\ 2 \in 1..2 /\ 0 + 1 = 1 /\ 0 + 2 = 2
      OBVIOUS
    <3>2. Len(x) = 2 /\ \A k \in 1..2 : x[k] = s[0 + k]
      <4>1. 0 + 2 <= Len(s)
        BY <1>3, <2>7
      <4>2. Len(Read(s, 0, 2)) = 2 /\ \A k \in 1..2 : Read(s, 0, 2)[k] = s[0 + k]
        BY <1>1, <3>1, <4>1, ReadAll, Zenon
      <4> QED
        BY <2>8, <4>2
    <3>3. 1 \in 1..l /\ 2 \in 1..l
      BY <2>6, <2>7
    <3>4. x[1] = s[1] /\ x[2] = s[2]
      BY <3>1, <3>2
    <3>5. s[1] = a[1] /\ s[2] = a[2]
      <4>1. s[1] = p[1] /\ s[2] = p[2]
        BY <1>4, <3>3
      <4>2. p[1] = a[1] /\ p[2] = a[2]
        BY <2>6
      <4> QED
        BY <4>1, <4>2
    <3> QED
      BY <3>2, <3>4, <3>5, Zenon
  <2>10. At16(x, 1) = n
    <3>1. 1 + 1 = 2
      OBVIOUS
    <3> QED
      BY <2>5, <2>9, <3>1, Zenon DEF At16
  <2>11. unpack_from_stream(s, 0, 2) = <<x>>
    BY <2>8, <2>9 DEF unpack_from_stream
  <2>12. unpack_from_stream(s, 2, n) = <<b>>
    <3>1. PICK y : y = Read(s, 2, n)
      OBVIOUS
    <3>2. y \in Seq(Byte) /\ Len(y) = n /\ \A k \in 1..n : y[k] = s[2 + k]
      <4>1. 2 \in Nat
        OBVIOUS
      <4>2. 2 + n <= Len(s)
        BY <1>3, <2>7
      <4>3. /\ Read(s, 2, n) \in Seq(Byte) /\ Len(Read(s, 2, n)) = n
            /\ \A k \in 1..n : Read(s, 2, n)[k] = s[2 + k]
        BY <1>1, <2>7, <4>1, <4>2, ReadAll
      <4> QED
        BY <3>1, <4>3
    <3>3. ASSUME NEW k \in 1..n PROVE y[k] = b[k]
      <4>1. PICK j \in 2 + 1 .. 2 + n : j = 2 + k /\ j - 2 = k /\ j \in 1..l
        <5>1. 2 + k \in 2 + 1 .. 2 + n /\ 2 + k - 2 = k /\ 2 + k \in 1..l
          BY <2>6, <2>7
        <5> QED
          BY <5>1
      <4> QED
        BY <1>4, <2>6, <3>2, <4>1, Zenon
    <3>4. y = b
      BY <2>2, <2>3, <3>2, <3>3, SeqEqual, Zenon
    <3> QED
      BY <3>1, <3>2, <3>4 DEF unpack_from_stream
  <2>13. OcaDecode(type, s) = Utf8Decode(b)
    <3>1. ~(type.width > 0)
      BY <1>6 DEF OcaString
    <3> QED
      BY <2>10, <2>11, <2>12, <3>1, RaisedIs DEF OcaDecode, Then
  <2> QED
    BY <2>2, <2>13
<1> QED
  BY <1>5, <1>6 DEF Fits

----------------------------------------------------------------------------
(* Fields and parts within longer byte strings. *)

\* Bytes that are in a part are in the whole.
LEMMA HoldsIn ==
  ASSUME NEW s \in Seq(Byte), NEW r \in Seq(Byte), NEW at, Holds(s, at, r),
         NEW i, NEW p \in Seq(Byte), Holds(r, i, p)
  PROVE  Holds(s, at + i, p)
<1>1. PICK a \in Nat, j \in Nat, l \in Nat, m \in Nat, t \in Nat :
        a = at /\ j = i /\ l = Len(r) /\ m = Len(p) /\ t = Len(s)
  <2>1. at \in Nat /\ i \in Nat /\ Len(r) \in Nat /\ Len(p) \in Nat /\ Len(s) \in Nat
    BY LenProperties DEF Holds
  <2> QED
    BY <2>1
<1>2. a + l <= t /\ \A k \in 1..l : s[a + k] = r[k]
  BY <1>1, Zenon DEF Holds
<1>3. j + m <= l /\ \A k \in 1..m : r[j + k] = p[k]
  BY <1>1, Zenon DEF Holds
<1>4. PICK q \in Nat : q = a + j /\ q + m <= t
  BY <1>2, <1>3
<1>5. ASSUME NEW k \in 1..m PROVE s[q + k] = p[k]
  <2>1. PICK o \in 1..l : o = j + k /\ a + o = q + k
    <3>1. j + k \in 1..l /\ a + (j + k) = q + k
      BY <1>3, <1>4
    <3> QED
      BY <3>1
  <2> QED
    BY <1>2, <1>3, <2>1, Zenon
<1>6. Holds(s, q, p)
  BY <1>1, <1>4, <1>5, Zenon DEF Holds
<1> QED
  BY <1>1, <1>4, <1>6, Zenon

\* Bytes that are in the beginning are in the whole.
LEMMA HoldsFirst ==
  ASSUME NEW s, NEW r \in Seq(Byte), Begins(s, r), NEW i, NEW p \in Seq(Byte), Holds(r, i, p)
  PROVE  Holds(s, i, p)
<1>1. PICK j \in Nat, l \in Nat, m \in Nat, t \in Nat :
        j = i /\ l = Len(r) /\ m = Len(p) /\ t = Len(s)
  <2>1. i \in Nat /\ Len(r) \in Nat /\ Len(p) \in Nat /\ Len(s) \in Nat
    BY LenProperties DEF Holds, Begins
  <2> QED
    BY <2>1
<1>2. l <= t /\ \A k \in 1..l : s[k] = r[k]
  BY <1>1, Zenon DEF Begins
<1>3. j + m <= l /\ \A k \in 1..m : r[j + k] = p[k]
  BY <1>1, Zenon DEF Holds
<1>4. j + m <= t /\ \A k \in 1..m : j + k \in 1..l
  BY <1>2, <1>3
<1>5. \A k \in 1..m : s[j + k] = p[k]
  BY <1>2, <1>3, <1>4, Zenon
<1> QED
  BY <1>1, <1>4, <1>5, Zenon DEF Holds

\* The beginning of a beginning.
LEMMA BeginsFirst ==
  ASSUME NEW s, NEW r, Begins(s, r), NEW p \in Seq(Byte), Begins(r, p)
  PROVE  Begins(s, p)
<1>1. s \in Seq(Byte) /\ r \in Seq(Byte)
  BY DEF Begins
<1>2. PICK l \in Nat, m \in Nat, t \in Nat : l = Len(r) /\ m = Len(p) /\ t = Len(s)
  BY <1>1, LenProperties
<1>3. l <= t /\ \A k \in 1..l : s[k] = r[k]
  BY <1>2, Zenon DEF Begins
<1>4. m <= l /\ \A k \in 1..m : r[k] = p[k]
  BY <1>2, Zenon DEF Begins
<1>5. m <= t /\ \A k \in 1..m : k \in 1..l
  BY <1>3, <1>4
<1> QED
  BY <1>1, <1>2, <1>3, <1>4, <1>5, Zenon DEF Begins

\* r is a with b written behind it.
Adds(r, a, b) ==
  r \in Seq(Byte) /\ Len(r) = Len(a) + Len(b) /\ Begins(r, a) /\ Holds(r, Len(a), b)

\* What concatenation writes.
LEMMA Written ==
  ASSUME NEW a \in Seq(Byte), NEW b \in Seq(Byte)
  PROVE  Adds(a \o b, a, b)
<1>0. PICK r : r = a \o b
  OBVIOUS
<1>8. PICK m \in Nat, n \in Nat : m = Len(a) /\ n = Len(b)
  BY LenProperties
<1>1. Joins(r, a, b)
  BY <1>0, Joined, Zenon
<1>2. r \in Seq(Byte) /\ Len(r) = m + n /\ \A k \in 1..m : r[k] = a[k]
  BY <1>1, <1>8, Zenon DEF Joins
<1>3. \A k \in m + 1 .. m + n : r[k] = b[k - m]
  BY <1>1, <1>8, Zenon DEF Joins
<1>4. ASSUME NEW k \in 1..n PROVE r[m + k] = b[k]
  <2>1. PICK q \in m + 1 .. m + n : q = m + k /\ q - m = k
    <3>1. m + k \in m + 1 .. m + n /\ m + k - m = k
      OBVIOUS
    <3>2. PICK q \in m + 1 .. m + n : q = m + k
      BY <3>1
    <3>3. q - m = k
      BY <3>1, <3>2
    <3> QED
      BY <3>2, <3>3
  <2> QED
    BY <1>3, <2>1, Zenon
<1>5. m <= m + n /\ m + n <= m + n
  OBVIOUS
<1>6. Begins(r, a)
  BY <1>8, <1>2, <1>5, Zenon DEF Begins
<1>7. Holds(r, m, b)
  BY <1>8, <1>2, <1>4, <1>5, Zenon DEF Holds
<1> QED
  BY <1>0, <1>2, <1>6, <1>7, <1>8, Zenon DEF Adds

\* Fields that are read where they were written.
LEMMA HalfHeld ==
  ASSUME NEW s, NEW i, NEW n \in Half, Holds(s, i, U16(n))
  PROVE  At16(s, i + 1) = n
<1>1. PICK a : a = U16(n)
  OBVIOUS
<1>2. a \in Seq(Byte) /\ Len(a) = 2 /\ 256 * a[1] + a[2] = n
  BY <1>1, U16Half
<1>3. i \in Nat /\ \A k \in 1..2 : s[i + k] = a[k]
  BY <1>1, <1>2, Zenon DEF Holds
<1>4. s[i + 1] = a[1] /\ s[i + 2] = a[2] /\ i + 1 + 1 = i + 2
  BY <1>3
<1>5. At16(s, i + 1) = 256 * s[i + 1] + s[i + 2]
  BY <1>4, Zenon DEF At16
<1> QED
  BY <1>2, <1>4, <1>5, Zenon

\* A field of 32 bits.
LEMMA WordHeld ==
  ASSUME NEW s, NEW i, NEW w \in Half \X Half, Holds(s, i, U32(w))
  PROVE  At32(s, i + 1) = w
<1>1. PICK a : a = U32(w)
  OBVIOUS
<1>2. a \in Seq(Byte) /\ Len(a) = 4 /\ At32(a, 1) = w
  BY <1>1, WordBytes
<1>3. i \in Nat /\ \A k \in 1..4 : s[i + k] = a[k]
  BY <1>1, <1>2, Zenon DEF Holds
<1>4. s[i + 1] = a[1] /\ s[i + 2] = a[2] /\ s[i + 3] = a[3] /\ s[i + 4] = a[4]
  BY <1>3
<1>5. i + 1 + 1 = i + 2 /\ i + 1 + 2 = i + 3 /\ i + 3 + 1 = i + 4
  BY <1>3
<1>6. At32(s, i + 1) = <<256 * s[i + 1] + s[i + 2], 256 * s[i + 3] + s[i + 4]>>
  BY <1>5, Zenon DEF At32, At16
<1>7. At32(a, 1) = <<256 * a[1] + a[2], 256 * a[3] + a[4]>>
  BY DEF At32, At16
<1> QED
  BY <1>2, <1>4, <1>6, <1>7, ZenonT(60)

\* A field of 8 bits.
LEMMA ByteHeld ==
  ASSUME NEW s, NEW i, NEW n \in Byte, Holds(s, i, U8(n))
  PROVE  s[i + 1] = n
<1>1. Len(U8(n)) = 1 /\ U8(n)[1] = n
  BY ByteBytes
<1>2. \A k \in 1..1 : s[i + k] = U8(n)[k]
  BY <1>1, Zenon DEF Holds
<1>3. s[i + 1] = U8(n)[1]
  BY <1>2
<1> QED
  BY <1>1, <1>3, Zenon

\* What is read behind a position is what is there.
LEMMA RestBegins ==
  ASSUME NEW s \in Seq(Byte), NEW i, NEW p \in Seq(Byte), Holds(s, i, p),
         NEW n \in Nat, n >= Len(p)
  PROVE  Begins(Read(s, i, n), p)
<1>1. PICK l \in Nat, m \in Nat : l = Len(p) /\ m = Len(s) /\ l <= n
  BY LenProperties
<1>2. i \in Nat /\ i + l <= m /\ \A k \in 1..l : s[i + k] = p[k]
  BY <1>1, Zenon DEF Holds
<1>3. PICK x : x = Read(s, i, n)
  OBVIOUS
<1>4. /\ x \in Seq(Byte)
      /\ Len(x) = IF i + n <= m THEN n ELSE IF i < m THEN m - i ELSE 0
      /\ \A k \in 1..Len(x) : x[k] = s[i + k]
  <2>1. /\ Read(s, i, n) \in Seq(Byte)
        /\ Len(Read(s, i, n)) = IF i + n <= Len(s) THEN n
                                ELSE IF i < Len(s) THEN Len(s) - i ELSE 0
        /\ \A k \in 1..Len(Read(s, i, n)) : Read(s, i, n)[k] = s[i + k]
    BY <1>2, ReadIs, Zenon
  <2> QED
    BY <1>1, <1>3, <2>1, Zenon
<1>5. PICK o \in Nat : o = Len(x) /\ l <= o
  <2>1. l <= IF i + n <= m THEN n ELSE IF i < m THEN m - i ELSE 0
    BY <1>1, <1>2
  <2>2. Len(x) \in Nat /\ l <= Len(x)
    BY <1>4, <2>1, LenProperties
  <2> QED
    BY <2>2
<1>6. \A k \in 1..l : k \in 1..o
  BY <1>5
<1>7. \A k \in 1..l : x[k] = p[k]
  BY <1>2, <1>4, <1>5, <1>6, Zenon
<1> QED
  BY <1>1, <1>3, <1>4, <1>5, <1>7, Zenon DEF Begins

----------------------------------------------------------------------------
(* Messages of any number of PDUs. *)

\* The size in a message's envelope.
LEMMA EnvelopeSize ==
  ASSUME NEW size \in Nat, Word(size) \in Half \X Half, NEW type \in Byte, NEW count \in Half,
         NEW s, s = MessageEncode(size, type, count)
  PROVE  At32(s, 4) = Word(size)
<1>1. PICK w \in Half \X Half : w = Word(size)
  OBVIOUS
<1>2. PICK a, b, c, d, e : a = U8(59) /\ b = U16(1) /\ c = U32(w) /\ d = U8(type) /\ e = U16(count)
  OBVIOUS
<1>3. /\ a \in Seq(Byte) /\ Len(a) = 1 /\ b \in Seq(Byte) /\ Len(b) = 2
      /\ c \in Seq(Byte) /\ Len(c) = 4 /\ d \in Seq(Byte) /\ Len(d) = 1
      /\ e \in Seq(Byte) /\ Len(e) = 2
  <2>1. 59 \in Byte
    BY SMT DEF Byte
  <2>2. a \in Seq(Byte) /\ Len(a) = 1 /\ d \in Seq(Byte) /\ Len(d) = 1
    BY <1>2, <2>1, ByteBytes
  <2>3. b \in Seq(Byte) /\ Len(b) = 2
    BY <1>2, U16Bytes
  <2>4. c \in Seq(Byte) /\ Len(c) = 4
    BY <1>2, WordBytes
  <2>5. e \in Seq(Byte) /\ Len(e) = 2
    BY <1>2, U16Half
  <2> QED
    BY <2>2, <2>3, <2>4, <2>5
<1>4. PICK ab : ab = a \o b
  OBVIOUS
<1>5. ab \in Seq(Byte) /\ Len(ab) = 3
  <2>1. Adds(ab, a, b)
    BY <1>3, <1>4, Written, Zenon
  <2> QED
    BY <1>3, <2>1 DEF Adds
<1>6. PICK abc : abc = ab \o c
  OBVIOUS
<1>7. abc \in Seq(Byte) /\ Len(abc) = 7 /\ Holds(abc, 3, c)
  <2>1. Adds(abc, ab, c)
    BY <1>3, <1>5, <1>6, Written, Zenon
  <2> QED
    BY <1>3, <1>5, <2>1 DEF Adds
<1>8. PICK abcd : abcd = abc \o d
  OBVIOUS
<1>9. abcd \in Seq(Byte) /\ Len(abcd) = 8 /\ Begins(abcd, abc)
  <2>1. Adds(abcd, abc, d)
    BY <1>3, <1>7, <1>8, Written, Zenon
  <2> QED
    BY <1>3, <1>7, <2>1 DEF Adds
<1>10. PICK m : m = abcd \o e
  OBVIOUS
<1>11. m \in Seq(Byte) /\ Begins(m, abcd)
  <2>1. Adds(m, abcd, e)
    BY <1>3, <1>9, <1>10, Written, Zenon
  <2> QED
    BY <2>1 DEF Adds
<1>12. s = m
  BY <1>1, <1>2, <1>4, <1>6, <1>8, <1>10 DEF MessageEncode, SYNC
<1>13. Holds(m, 3, c)
  <2>1. Begins(m, abc)
    BY <1>7, <1>9, <1>11, BeginsFirst
  <2> QED
    BY <1>3, <1>7, <2>1, HoldsFirst
<1>14. At32(m, 3 + 1) = w
  BY <1>2, <1>13, WordHeld
<1>15. 3 + 1 = 4
  OBVIOUS
<1> QED
  BY <1>1, <1>12, <1>14, <1>15

\* s is a message of the pdus, of which the i-th is at at[i].
IsMessageOf(s, type, pdus, n, at) ==
  /\ s \in Seq(Byte) /\ Len(s) >= 10 /\ s[1] = 59 /\ s[8] = type /\ At16(s, 9) = n
  /\ Word(Len(s) - 1) \in Half \X Half => At32(s, 4) = Word(Len(s) - 1)
  /\ at[1] = 10 /\ at[n + 1] = Len(s)
  /\ \A i \in 1..n : Holds(s, at[i], pdus[i]) /\ at[i + 1] = at[i] + Len(pdus[i])

\* What send_pdus sends.
LEMMA MessageBytes ==
  ASSUME NEW type \in Byte, NEW pdus, NEW n \in Half, n = Len(pdus),
         n = 0 => pdus = <<>>, \A i \in 1..n : pdus[i] \in Seq(Byte),
         NEW s, s = send_pdus(type, pdus)
  PROVE  \E at : IsMessageOf(s, type, pdus, n, at)
<1>1. PICK body : body = FlattenSeq(pdus)
  OBVIOUS
<1>2. n \in Nat
  BY DEF Half
<1>3. /\ body \in Seq(Byte)
      /\ \E in : /\ in[1] = 0 /\ in[n + 1] = Len(body)
                 /\ \A i \in 1..n : Holds(body, in[i], pdus[i]) /\ in[i + 1] = in[i] + Len(pdus[i])
  <2>1. CASE n = 0
    <3>1. body = <<>>
      <4>1. Len(pdus) = 0
        BY <2>1
      <4> QED
        BY <1>1, <2>1, <4>1 DEF FlattenSeq
    <3>2. body \in Seq(Byte) /\ Len(body) = 0
      BY <3>1, EmptySeq
    <3>3. PICK in : in = [i \in 1..1 |-> 0]
      OBVIOUS
    <3>4. in[1] = 0 /\ n + 1 = 1 /\ \A i \in 1..n : FALSE
      BY <2>1, <3>3
    <3> QED
      BY <3>2, <3>4
  <2>2. CASE n # 0
    <3>1. n \in Nat \ {0} /\ n \in 1..n
      BY <1>2, <2>2
    <3>2. PICK g : Piles(g, pdus) /\ FlattenSeq(pdus) = g[n]
      BY <3>1, FlattenIs
    <3>3. body \in Seq(Byte)
      <4>1. g[n] \in Seq(Byte)
        BY <1>2, <3>1, <3>2, PilesGrow
      <4> QED
        BY <1>1, <3>2, <4>1
    <3>4. \A i \in 1..n : Holds(body, Start(g, i), pdus[i]) /\ Len(g[i]) = Start(g, i) + Len(pdus[i])
      BY <1>1, <1>2, <3>2, PartsAre
    <3>5. PICK in : in = [i \in 1..(n + 1) |-> Start(g, i)]
      OBVIOUS
    <3>6. \A i \in 1..(n + 1) : in[i] = Start(g, i)
      BY <3>5
    <3>7. in[1] = 0
      <4>1. 1 \in 1..(n + 1)
        BY <1>2
      <4> QED
        BY <3>6, <4>1, Zenon DEF Start
    <3>8. ASSUME NEW i \in 1..n PROVE in[i + 1] = Len(g[i]) /\ in[i] = Start(g, i)
      <4>1. PICK j \in 1..(n + 1) : j = i + 1 /\ j # 1 /\ j - 1 = i /\ i \in 1..(n + 1)
        <5>1. i + 1 \in 1..(n + 1) /\ i + 1 # 1 /\ i + 1 - 1 = i /\ i \in 1..(n + 1)
          BY <1>2
        <5>2. PICK j \in 1..(n + 1) : j = i + 1
          BY <5>1
        <5> QED
          BY <5>1, <5>2
      <4>2. in[j] = Len(g[i])
        BY <3>6, <4>1, Zenon DEF Start
      <4> QED
        BY <3>6, <4>1, <4>2, Zenon
    <3>9. in[n + 1] = Len(body)
      BY <1>1, <3>1, <3>2, <3>8
    <3>10. \A i \in 1..n : Holds(body, in[i], pdus[i]) /\ in[i + 1] = in[i] + Len(pdus[i])
      BY <3>4, <3>8, Zenon
    <3> QED
      BY <3>3, <3>7, <3>9, <3>10
  <2> QED
    BY <2>1, <2>2
<1>4. PICK in : /\ in[1] = 0 /\ in[n + 1] = Len(body)
                /\ \A i \in 1..n : Holds(body, in[i], pdus[i]) /\ in[i + 1] = in[i] + Len(pdus[i])
  BY <1>3
<1>5. PICK l \in Nat : l = Len(body)
  BY <1>3, LenProperties
<1>6. PICK size \in Nat : size = MessageSize - 1 + l /\ size = 9 + l
  <2>1. MessageSize - 1 + l = 9 + l /\ 9 + l \in Nat
    BY DEF MessageSize
  <2> QED
    BY <2>1
<1>7. PICK head : head = MessageEncode(size, type, n)
  OBVIOUS
<1>8. /\ head \in Seq(Byte) /\ Len(head) = 10 /\ head[1] = 59 /\ head[8] = type /\ At16(head, 9) = n
      /\ Word(size) \in Half \X Half => At32(head, 4) = Word(size)
  <2>1. head \in Seq(Byte) /\ Len(head) = 10 /\ head[1] = 59 /\ head[8] = type /\ At16(head, 9) = n
    BY <1>7, EnvelopeBytes
  <2>2. Word(size) \in Half \X Half => At32(head, 4) = Word(size)
    BY <1>7, EnvelopeSize
  <2> QED
    BY <2>1, <2>2
<1>9. s = head \o body
  BY <1>1, <1>5, <1>6, <1>7 DEF send_pdus
<1>10. s \in Seq(Byte) /\ Len(s) = 10 + l /\ Begins(s, head) /\ Holds(s, 10, body)
  <2>1. Adds(s, head, body)
    BY <1>3, <1>8, <1>9, Written, Zenon
  <2> QED
    BY <1>5, <1>8, <2>1 DEF Adds
<1>11. \A k \in 1..10 : s[k] = head[k]
  BY <1>8, <1>10, Zenon DEF Begins
<1>12. s[1] = 59 /\ s[8] = type /\ At16(s, 9) = At16(head, 9) /\ At32(s, 4) = At32(head, 4)
  <2>1. /\ s[1] = head[1] /\ s[4] = head[4] /\ s[5] = head[5] /\ s[6] = head[6] /\ s[7] = head[7]
        /\ s[8] = head[8] /\ s[9] = head[9] /\ s[10] = head[10]
    BY <1>11
  <2>2. 4 + 1 = 5 /\ 4 + 2 = 6 /\ 6 + 1 = 7 /\ 9 + 1 = 10
    OBVIOUS
  <2>3. At16(s, 9) = At16(head, 9) /\ At16(s, 4) = At16(head, 4) /\ At16(s, 6) = At16(head, 6)
    BY <2>1, <2>2 DEF At16
  <2> QED
    BY <1>8, <2>1, <2>2, <2>3, Zenon DEF At32
<1>13. Len(s) - 1 = size /\ Len(s) >= 10
  BY <1>6, <1>10
<1>14. Word(Len(s) - 1) \in Half \X Half => At32(s, 4) = Word(Len(s) - 1)
  BY <1>8, <1>12, <1>13, Zenon
<1>15. PICK at : at = [i \in 1..(n + 1) |-> 10 + in[i]]
  OBVIOUS
<1>16. \A i \in 1..(n + 1) : at[i] = 10 + in[i]
  BY <1>15
<1>17. at[1] = 10 /\ at[n + 1] = Len(s)
  <2>1. 1 \in 1..(n + 1) /\ n + 1 \in 1..(n + 1)
    BY <1>2
  <2>2. at[1] = 10 + 0 /\ at[n + 1] = 10 + l
    BY <1>4, <1>5, <1>16, <2>1, Zenon
  <2> QED
    BY <1>10, <2>2
<1>18. ASSUME NEW i \in 1..n PROVE Holds(s, at[i], pdus[i]) /\ at[i + 1] = at[i] + Len(pdus[i])
  <2>0. PICK a : a = in[i]
    OBVIOUS
  <2>1. PICK p \in Seq(Byte), m \in Nat : p = pdus[i] /\ m = Len(p)
    <3>1. pdus[i] \in Seq(Byte)
      OBVIOUS
    <3>2. Len(pdus[i]) \in Nat
      BY <3>1, LenProperties
    <3> QED
      BY <3>1, <3>2
  <2>2. Holds(body, a, p) /\ in[i + 1] = a + m
    BY <1>4, <2>0, <2>1, Zenon
  <2>3. a \in Nat
    BY <2>2, Zenon DEF Holds
  <2>4. i + 1 \in 1..(n + 1) /\ i \in 1..(n + 1)
    BY <1>2
  <2>5. at[i] = 10 + a /\ at[i + 1] = 10 + (a + m)
    BY <1>16, <2>0, <2>2, <2>4, Zenon
  <2>6. Holds(s, 10 + a, p)
    BY <1>3, <1>10, <2>2, HoldsIn, Zenon
  <2>7. 10 + (a + m) = (10 + a) + m
    BY <2>3
  <2> QED
    BY <2>1, <2>5, <2>6, <2>7, Zenon
<1> QED
  BY <1>8, <1>10, <1>12, <1>13, <1>14, <1>17, <1>18, ZenonT(60) DEF IsMessageOf

----------------------------------------------------------------------------
(* SentResponses, as they are sent and as they are decoded. *)

\* The responses that have a length.
SentResponses ==
  [handle : Half \X Half, status : Byte, count : Byte, raw : {b \in Seq(Byte) : 10 + Len(b) \in Half}]

Encoded(r) == ResponseEncode(r.handle, r.status, r.count, r.raw)

\* x is r, decoded.
ReadsAs(x, r) ==
  /\ x # Raised
  /\ x[1].handle = r.handle /\ x[1].status = r.status /\ x[1].count = r.count /\ x[1].raw = r.raw

\* A response is decoded where it is, whatever stands before and behind it.
LEMMA ResponseIn ==
  ASSUME NEW s \in Seq(Byte), NEW at, NEW r \in SentResponses, Holds(s, at, Encoded(r)),
         NEW x, x = ResponseDecode(s, at)
  PROVE  ReadsAs(x, r) /\ x[1].next = at + Len(Encoded(r))
<1>1. PICK w \in Half \X Half, status \in Byte, count \in Byte, raw \in Seq(Byte) :
        w = r.handle /\ status = r.status /\ count = r.count /\ raw = r.raw /\ 10 + Len(raw) \in Half
  BY DEF SentResponses
<1>2. PICK p : p = Encoded(r)
  OBVIOUS
<1>3. IsResponse(p, w, status, count, raw)
  <2>1. p = ResponseEncode(w, status, count, raw)
    BY <1>1, <1>2 DEF Encoded
  <2> QED
    BY <1>1, <2>1, ResponseBytes
<1>4. PICK l \in Nat : l = Len(raw)
  BY LenProperties
<1>5. p \in Seq(Byte) /\ Len(p) = 10 + l /\ \A k \in 1..l : p[10 + k] = raw[k]
  BY <1>3, <1>4, Zenon DEF IsResponse
<1>6. Holds(s, at, p)
  BY <1>2
<1>7. PICK i \in Nat : i = at
  BY <1>6 DEF Holds
<1>8. i + (10 + l) <= Len(s) /\ \A k \in 1..(10 + l) : s[i + k] = p[k]
  BY <1>5, <1>6, <1>7, Zenon DEF Holds
<1>9. i + 10 <= Len(s) /\ Len(s) \in Nat /\ 10 \in Nat
  <2>1. Len(s) \in Nat
    BY LenProperties
  <2> QED
    BY <1>8, <2>1
<1>10. PICK b : b = Header(s, i)
  OBVIOUS
<1>11. \A k \in 1..10 : b[k] = p[k]
  <2>1. \A k \in 1..10 : Header(s, i)[k] = s[i + k]
    BY <1>9, ResponseIs, Zenon
  <2>2. \A k \in 1..10 : k \in 1..(10 + l)
    OBVIOUS
  <2> QED
    BY <1>8, <1>10, <2>1, <2>2, Zenon
<1>12. /\ b[1] = 0 /\ b[2] = 0 /\ At16(b, 3) = 10 + l
       /\ At32(b, 5) = w /\ b[9] = status /\ b[10] = count
  <2>1. /\ b[1] = p[1] /\ b[2] = p[2] /\ b[3] = p[3] /\ b[4] = p[4] /\ b[5] = p[5]
        /\ b[6] = p[6] /\ b[7] = p[7] /\ b[8] = p[8] /\ b[9] = p[9] /\ b[10] = p[10]
    BY <1>11
  <2>2. 3 + 1 = 4 /\ 5 + 1 = 6 /\ 5 + 2 = 7 /\ 7 + 1 = 8
    OBVIOUS
  <2>3. At16(b, 3) = At16(p, 3) /\ At16(b, 5) = At16(p, 5) /\ At16(b, 7) = At16(p, 7)
    BY <2>1, <2>2 DEF At16
  <2>4. At32(b, 5) = At32(p, 5)
    BY <2>2, <2>3, Zenon DEF At32
  <2> QED
    BY <1>3, <1>4, <2>1, <2>3, <2>4, Zenon DEF IsResponse
<1>13. ResponseLength(s, b) = 10 + l
  <2>1. ~(b[1] > 0) /\ 65536 * b[2] + At16(b, 3) = 10 + l
    BY <1>12
  <2> QED
    BY <2>1 DEF ResponseLength
<1>14. x = <<ResponseAt(s, i, b)>>
  <2>1. x = IF ResponseLength(s, b) < 10 THEN Raised ELSE <<ResponseAt(s, i, b)>>
    BY <1>7, <1>9, <1>10, ResponseIs, Zenon
  <2>2. ~(10 + l < 10)
    OBVIOUS
  <2> QED
    BY <1>13, <2>1, <2>2
<1>15. PICK j \in Nat : j = i + 10
  OBVIOUS
<1>16. Read(s, j, l) = raw
  <2>1. j + l <= Len(s)
    BY <1>8, <1>15
  <2>2. PICK y : y = Read(s, j, l)
    OBVIOUS
  <2>3. y \in Seq(Byte) /\ Len(y) = l /\ \A k \in 1..l : y[k] = s[j + k]
    <3>1. /\ Read(s, j, l) \in Seq(Byte) /\ Len(Read(s, j, l)) = l
          /\ \A k \in 1..l : Read(s, j, l)[k] = s[j + k]
      BY <2>1, ReadAll, Zenon
    <3> QED
      BY <2>2, <3>1
  <2>4. ASSUME NEW k \in 1..l PROVE y[k] = raw[k]
    <3>1. PICK q \in 1..(10 + l) : q = 10 + k /\ i + q = j + k
      <4>1. 10 + k \in 1..(10 + l) /\ i + (10 + k) = j + k
        BY <1>15
      <4> QED
        BY <4>1
    <3> QED
      BY <1>5, <1>8, <2>3, <3>1, ZenonT(60)
  <2> QED
    BY <1>4, <2>2, <2>3, <2>4, SeqEqual, Zenon
<1>17. PICK q : q = ResponseAt(s, i, b)
  OBVIOUS
<1>18. /\ q.handle = w /\ q.status = status /\ q.count = count
       /\ q.raw = raw /\ q.next = j + l
  <2>1. (10 + l) - 10 = l
    OBVIOUS
  <2>2. q.raw = Read(s, j, l) /\ q.next = j + Len(Read(s, j, l))
    BY <1>13, <1>15, <1>17, <2>1 DEF ResponseAt, ResponseSize
  <2>3. q.handle = At32(b, 5) /\ q.status = b[9] /\ q.count = b[10]
    BY <1>17 DEF ResponseAt
  <2> QED
    BY <1>4, <1>12, <1>16, <2>2, <2>3, Zenon
<1>19. x # Raised /\ x[1] = q
  BY <1>14, <1>17, RaisedIs
<1>20. j + l = i + (10 + l)
  BY <1>15
<1>21. x[1].next = at + Len(Encoded(r))
  BY <1>2, <1>5, <1>7, <1>18, <1>19, <1>20, Zenon
<1>22. ReadsAs(x, r)
  BY <1>1, <1>18, <1>19, Zenon DEF ReadsAs
<1> QED
  BY <1>21, <1>22

\* A message of responses, as speakers send them.
AnswerTo(rs) == send_pdus(RESPONSE, [k \in 1..Len(rs) |-> Encoded(rs[k])])

\* ps are the responses rs, decoded.
AllRead(ps, rs, n) ==
  DOMAIN ps = 1..n /\ Len(ps) = n /\ \A k \in 1..n : ReadsAs(ps[k], rs[k])

\* The responses of a message are decoded as they were encoded, however many they are.
LEMMA ResponsesRead ==
  ASSUME NEW rs \in Seq(SentResponses), NEW n \in Half, n = Len(rs), NEW s, s = AnswerTo(rs)
  PROVE  IsMessage(s, n) /\ AllRead(ResponsesOf(s, n), rs, n)
<1>1. n \in Nat /\ \A k \in 1..n : rs[k] \in SentResponses
  BY ElementOfSeq DEF Half
<1>2. PICK pdus : pdus = [k \in 1..n |-> Encoded(rs[k])]
  OBVIOUS
<1>3. Len(pdus) = n /\ (n = 0 => pdus = <<>>) /\ \A k \in 1..n : pdus[k] = Encoded(rs[k])
  BY <1>1, <1>2
<1>4. ASSUME NEW k \in 1..n PROVE pdus[k] \in Seq(Byte)
  <2>1. PICK r \in SentResponses : r = rs[k]
    BY <1>1
  <2>2. IsResponse(ResponseEncode(r.handle, r.status, r.count, r.raw), r.handle, r.status, r.count, r.raw)
    <3>1. /\ r.handle \in Half \X Half /\ r.status \in Byte /\ r.count \in Byte
          /\ r.raw \in Seq(Byte) /\ 10 + Len(r.raw) \in Half
      BY DEF SentResponses
    <3> QED
      BY <3>1, ResponseBytes, Zenon
  <2>3. Encoded(r) \in Seq(Byte)
    BY <2>2, Zenon DEF IsResponse, Encoded
  <2> QED
    BY <1>3, <2>1, <2>3, Zenon
<1>5. s = send_pdus(3, pdus) /\ 3 \in Byte
  <2>1. 3 \in Byte
    BY SMT DEF Byte
  <2> QED
    BY <1>2, <2>1 DEF AnswerTo, RESPONSE
<1>6. PICK at : IsMessageOf(s, 3, pdus, n, at)
  <2>1. n = Len(pdus)
    BY <1>3
  <2> QED
    BY <1>3, <1>4, <1>5, <2>1, MessageBytes
<1>7. s \in Seq(Byte) /\ IsMessage(s, n)
  BY <1>6, Zenon DEF IsMessageOf, IsMessage
<1>8. /\ at[1] = 10
      /\ \A k \in 1..n : Holds(s, at[k], Encoded(rs[k])) /\ at[k + 1] = at[k] + Len(Encoded(rs[k]))
  BY <1>3, <1>6, Zenon DEF IsMessageOf
<1>9. PICK ps : ps = ResponsesOf(s, n)
  OBVIOUS
<1>10. InTurn(ps, s, n)
  BY <1>1, <1>9, ResponsesAre
<1>11. ASSUME NEW k \in 1..n, ps[k] = ResponseDecode(s, at[k])
       PROVE  ReadsAs(ps[k], rs[k]) /\ ps[k][1].next = at[k + 1]
  <2>0. PICK a, x : a = at[k] /\ x = ps[k]
    OBVIOUS
  <2>1. PICK r \in SentResponses : r = rs[k]
    BY <1>1
  <2>2. Holds(s, a, Encoded(r)) /\ at[k + 1] = a + Len(Encoded(r)) /\ x = ResponseDecode(s, a)
    BY <1>8, <1>11, <2>0, <2>1, Zenon
  <2>3. ReadsAs(x, r) /\ x[1].next = a + Len(Encoded(r))
    BY <1>7, <2>2, ResponseIn
  <2> QED
    BY <2>0, <2>1, <2>2, <2>3, Zenon
<1>12. CASE n = 0
  BY <1>7, <1>9, <1>10, <1>12 DEF AllRead, InTurn
<1>13. CASE n # 0
  <2> DEFINE S == {k \in Nat : ps[k] = ResponseDecode(s, at[k])}
  <2>1. 1 \in S
    <3>1. 1 \in 1..n /\ 1 \in Nat
      BY <1>1, <1>13
    <3>2. ps[1] = ResponseDecode(s, 10)
      BY <1>10, <3>1, Zenon DEF InTurn
    <3> QED
      BY <1>8, <3>1, <3>2
  <2>2. ASSUME NEW k \in 1..(n - 1), k \in S PROVE k + 1 \in S
    <3>1. PICK j \in 1..n : j = k + 1 /\ j - 1 = k /\ j # 1 /\ k \in 1..n
      <4>1. k + 1 \in 1..n /\ k + 1 - 1 = k /\ k + 1 # 1 /\ k \in 1..n
        BY <1>1
      <4>2. PICK j \in 1..n : j = k + 1
        BY <4>1
      <4> QED
        BY <4>1, <4>2
    <3>2. ps[k] = ResponseDecode(s, at[k])
      BY <2>2
    <3>3. ReadsAs(ps[k], rs[k]) /\ ps[k][1].next = at[k + 1]
      BY <1>11, <3>1, <3>2
    <3>4. ps[j] = Follow(s, ps[k])
      BY <1>10, <3>1, Zenon DEF InTurn
    <3>5. ps[j] = ResponseDecode(s, at[j])
      BY <3>1, <3>3, <3>4 DEF Follow, ReadsAs
    <3> QED
      BY <3>1, <3>5
  <2>3. 1..n \subseteq S
    <3> HIDE DEF S
    <3>1. S \in SUBSET Nat
      BY DEF S
    <3> QED
      BY <1>1, <2>1, <2>2, <3>1, InductionTo
  <2>4. \A k \in 1..n : ReadsAs(ps[k], rs[k])
    BY <1>11, <2>3
  <2> QED
    BY <1>7, <1>9, <1>10, <2>4, Zenon DEF AllRead, InTurn
<1> QED
  BY <1>12, <1>13

\* What a decoded response is parsed to does not depend on where it was.
LEMMA ParsedAlike ==
  ASSUME NEW x, NEW r, ReadsAs(x, r), NEW types
  PROVE  parse_params(x[1], types) = parse_params(r, types)
BY DEF ReadsAs, parse_params

\* What is made of the response r, when it is the one that was waited for.
Taken(r, types) ==
  IF r.status = STATUS_OK THEN Outcome(parse_params(r, types)) ELSE Raises

\* The k-th response is the first to the command with the handle h.
FirstTo(rs, k, h) == rs[k].handle = h /\ \A i \in 1..(k - 1) : rs[i].handle # h

\* receive_matching_response finds, in a message of any responses, the first to
\* the command: it returns its value or raises its status.
THEOREM MatchedAmongOthers ==
  ASSUME NEW rs \in Seq(SentResponses), Len(rs) \in Half, NEW h, NEW types
  PROVE  /\ (\A k \in 1..Len(rs) : rs[k].handle # h)
              => receive_matching_response(AnswerTo(rs), h, types) = Skips
         /\ \A k \in 1..Len(rs) :
              FirstTo(rs, k, h)
                => receive_matching_response(AnswerTo(rs), h, types) = Taken(rs[k], types)
<1>0. PICK n, s : n = Len(rs) /\ s = AnswerTo(rs)
  OBVIOUS
<1>8. n \in Half
  BY <1>0
<1>1. PICK ps : ps = ResponsesOf(s, n)
  OBVIOUS
<1>2. IsMessage(s, n) /\ AllRead(ps, rs, n) /\ n \in Nat
  BY <1>0, <1>1, <1>8, ResponsesRead DEF Half
<1>3. PICK rcv : rcv = receive_matching_response(s, h, types)
  OBVIOUS
<1>4. Matched(rcv, ps, n, h, types)
  BY <1>1, <1>2, <1>3, MatchedIs
<1>5. \A k \in 1..n : Stops(ps[k], h) <=> rs[k].handle = h
  BY <1>2 DEF AllRead, ReadsAs, Stops
<1>6. ASSUME \A k \in 1..n : rs[k].handle # h PROVE rcv = Skips
  BY <1>4, <1>5, <1>6 DEF Matched
<1>7. ASSUME NEW k \in 1..n, FirstTo(rs, k, h)
      PROVE  rcv = Taken(rs[k], types)
  <2>0. rs[k].handle = h /\ \A i \in 1..(k - 1) : rs[i].handle # h
    BY <1>7 DEF FirstTo
  <2>1. ~(\A i \in 1..n : ~Stops(ps[i], h))
    BY <1>5, <2>0
  <2>2. PICK j \in 1..n : /\ Stops(ps[j], h) /\ \A i \in 1..(j - 1) : ~Stops(ps[i], h)
                          /\ rcv = Judged(ps[j], types)
    BY <1>4, <2>1, Zenon DEF Matched
  <2>3. j = k
    <3>1. CASE j < k
      <4>1. j \in 1..(k - 1)
        BY <1>2, <3>1
      <4> QED
        BY <1>5, <2>0, <2>2, <4>1
    <3>2. CASE k < j
      <4>1. k \in 1..(j - 1)
        BY <1>2, <3>2
      <4> QED
        BY <1>5, <2>0, <2>2, <4>1
    <3>3. j < k \/ k < j \/ j = k
      BY <1>2
    <3> QED
      BY <3>1, <3>2, <3>3
  <2>4. ReadsAs(ps[k], rs[k])
    BY <1>2 DEF AllRead
  <2>5. parse_params(ps[k][1], types) = parse_params(rs[k], types)
    BY <2>4, ParsedAlike, Zenon
  <2>6. ps[k] # Raised /\ ps[k][1].status = rs[k].status
    BY <2>4, Zenon DEF ReadsAs
  <2>7. Judged(ps[k], types) = Taken(rs[k], types)
    BY <2>5, <2>6 DEF Judged, Taken, STATUS_OK
  <2> QED
    BY <2>2, <2>3, <2>7
<1> QED
  BY <1>0, <1>3, <1>6, <1>7

\* receive_response takes the first response of a message, whoever it answers.
THEOREM FirstIsTaken ==
  ASSUME NEW rs \in Seq(SentResponses), NEW n \in Half, n = Len(rs),
         NEW s, s = AnswerTo(rs), NEW types
  PROVE  receive_response(s, types) =
           IF n = 0 THEN Raises ELSE Outcome(parse_params(rs[1], types))
<1>1. PICK ps : ps = ResponsesOf(s, n)
  OBVIOUS
<1>2. IsMessage(s, n) /\ AllRead(ps, rs, n) /\ n \in Nat
  BY <1>1, ResponsesRead DEF Half
<1>3. PICK m : ResponseMessage(s) = <<m>> /\ <<m>> # Raised /\ <<m>>[1] = m /\ m.count = n
  BY <1>2, MessageRead
<1>4. CASE n = 0
  <2>1. n < 1
    BY <1>4
  <2> QED
    BY <1>3, <1>4, <2>1 DEF receive_response
<1>5. CASE n # 0
  <2>1. ~(n < 1) /\ 1 \in 1..n
    BY <1>2, <1>5
  <2>2. PICK x : x = ResponseDecode(s, 10)
    OBVIOUS
  <2>3. ps[1] = x
    <3>1. InTurn(ps, s, n)
      BY <1>1, <1>2, ResponsesAre
    <3> QED
      BY <2>1, <2>2, <3>1, Zenon DEF InTurn
  <2>4. ReadsAs(x, rs[1])
    BY <1>2, <2>1, <2>3, Zenon DEF AllRead
  <2>5. x # Raised /\ parse_params(x[1], types) = parse_params(rs[1], types)
    BY <2>4, ParsedAlike, Zenon DEF ReadsAs
  <2>6. receive_response(s, types) = Outcome(parse_params(x[1], types))
    BY <1>3, <2>1, <2>2, <2>5 DEF receive_response, Then, MessageSize
  <2> QED
    BY <1>5, <2>5, <2>6
<1> QED
  BY <1>4, <1>5

\* The types that the k-th response is expected to have.
TypesAt(types, k) == IF k <= Len(types) THEN types[k] ELSE <<>>

\* receive_responses returns the value of every response, in their order, or
\* raises when one of them has none.
THEOREM AllAreTaken ==
  ASSUME NEW rs \in Seq(SentResponses), NEW n \in Half, n = Len(rs),
         NEW s, s = AnswerTo(rs), NEW types
  PROVE  receive_responses(s, types) =
           IF \E k \in 1..n : parse_params(rs[k], TypesAt(types, k)) = Raised THEN Raises
           ELSE Returns([k \in 1..n |-> parse_params(rs[k], TypesAt(types, k))[1]])
<1>1. PICK ps : ps = ResponsesOf(s, n)
  OBVIOUS
<1>2. IsMessage(s, n) /\ AllRead(ps, rs, n) /\ n \in Nat
  BY <1>1, ResponsesRead DEF Half
<1>3. PICK m : ResponseMessage(s) = <<m>> /\ <<m>> # Raised /\ <<m>>[1] = m /\ m.count = n
  BY <1>2, MessageRead
<1> DEFINE Typed(k) == Then(ps[k], LAMBDA r : parse_params(r, TypesAt(types, k)))
<1>4. receive_responses(s, types) =
        IF \E k \in 1..n : Typed(k) = Raised THEN Raises
        ELSE Returns([k \in 1..n |-> Typed(k)[1]])
  <2>1. DOMAIN ps = 1..n
    BY <1>2 DEF AllRead
  <2> QED
    BY <1>1, <1>3, <2>1 DEF receive_responses, TypesAt, Then
<1>5. ASSUME NEW k \in 1..n PROVE Typed(k) = parse_params(rs[k], TypesAt(types, k))
  <2>1. ReadsAs(ps[k], rs[k])
    BY <1>2, Zenon DEF AllRead
  <2>2. parse_params(ps[k][1], TypesAt(types, k)) = parse_params(rs[k], TypesAt(types, k))
    BY <2>1, ParsedAlike, Zenon
  <2>3. ps[k] # Raised
    BY <2>1, Zenon DEF ReadsAs
  <2> QED
    BY <2>2, <2>3 DEF Then
<1> HIDE DEF Typed
<1>6. [k \in 1..n |-> Typed(k)[1]] = [k \in 1..n |-> parse_params(rs[k], TypesAt(types, k))[1]]
  BY <1>5, Zenon
<1> QED
  BY <1>4, <1>5, <1>6, Zenon

----------------------------------------------------------------------------
(* Commands, as they are sent and as they are decoded. *)

\* What a field of 32 bits can hold.
Full == {n \in Nat : n < 4294967296}

\* Both halves of such a number fit their fields.
LEMMA FullWord ==
  ASSUME NEW n \in Full
  PROVE  Word(n) \in Half \X Half
<1>1. n \in Nat /\ n < 4294967296
  BY SMT DEF Full
<1>2. n \div 65536 \in Nat /\ n \div 65536 < 65536
  BY <1>1, SMT
<1>3. n % 65536 \in Nat /\ n % 65536 < 65536
  BY <1>1, SMT
<1>4. n \div 65536 \in Half /\ n % 65536 \in Half
  BY <1>2, <1>3, SMT DEF Half
<1> QED
  BY <1>4 DEF Word

\* The bytes of a command whose parameters are body.
IsCommand(c, h, target, level, index, count, body) ==
  /\ c \in Seq(Byte) /\ Len(c) = 17 + Len(body)
  /\ At32(c, 1) = Word(17 + Len(body))
  /\ At32(c, 5) = h /\ At32(c, 9) = target /\ At16(c, 13) = level /\ At16(c, 15) = index
  /\ c[17] = count /\ Holds(c, 17, body)

\* What CommandEncode writes, field by field.
LEMMA CommandBytesAre ==
  ASSUME NEW h \in Half \X Half, NEW target, Word(target) \in Half \X Half,
         NEW level \in Half, NEW index \in Half, NEW params, Len(params) \in Byte,
         NEW body \in Seq(Byte), body = FlattenSeq(params), 17 + Len(body) \in Full
  PROVE  IsCommand(CommandEncode(h, target, level, index, params), h, Word(target), level, index,
                   Len(params), body)
<1>1. PICK l \in Nat : l = Len(body)
  BY LenProperties
<1>2. PICK v \in Half \X Half, w \in Half \X Half, m \in Byte :
        v = Word(17 + Len(body)) /\ w = Word(target) /\ m = Len(params)
  BY FullWord
<1>3. PICK a, b, c, d, e, f : /\ a = U32(v) /\ b = U32(h) /\ c = U32(w)
                              /\ d = U16(level) /\ e = U16(index) /\ f = U8(m)
  OBVIOUS
<1>4. /\ a \in Seq(Byte) /\ Len(a) = 4 /\ b \in Seq(Byte) /\ Len(b) = 4
      /\ c \in Seq(Byte) /\ Len(c) = 4 /\ d \in Seq(Byte) /\ Len(d) = 2
      /\ e \in Seq(Byte) /\ Len(e) = 2 /\ f \in Seq(Byte) /\ Len(f) = 1
  <2>1. a \in Seq(Byte) /\ Len(a) = 4
    BY <1>3, WordBytes
  <2>2. b \in Seq(Byte) /\ Len(b) = 4
    BY <1>3, WordBytes
  <2>3. c \in Seq(Byte) /\ Len(c) = 4
    BY <1>3, WordBytes
  <2>4. d \in Seq(Byte) /\ Len(d) = 2
    BY <1>3, U16Half
  <2>5. e \in Seq(Byte) /\ Len(e) = 2
    BY <1>3, U16Half
  <2>6. f \in Seq(Byte) /\ Len(f) = 1
    BY <1>3, ByteBytes
  <2> QED
    BY <2>1, <2>2, <2>3, <2>4, <2>5, <2>6, Zenon
<1>5. PICK ab : ab = a \o b
  OBVIOUS
<1>6. PICK abc : abc = ab \o c
  OBVIOUS
<1>7. PICK abcd : abcd = abc \o d
  OBVIOUS
<1>8. PICK abcde : abcde = abcd \o e
  OBVIOUS
<1>9. PICK head : head = abcde \o f
  OBVIOUS
<1>10. PICK r : r = head \o body
  OBVIOUS
<1>11. CommandEncode(h, target, level, index, params) = r
  BY <1>2, <1>3, <1>5, <1>6, <1>7, <1>8, <1>9, <1>10 DEF CommandEncode, CommandSize
<1>12. Adds(ab, a, b)
  BY <1>4, <1>5, Written, Zenon
<1>13. ab \in Seq(Byte) /\ Len(ab) = 8 /\ Begins(ab, a) /\ Holds(ab, 4, b)
  BY <1>4, <1>12 DEF Adds
<1>14. Adds(abc, ab, c)
  BY <1>4, <1>6, <1>13, Written, Zenon
<1>15. abc \in Seq(Byte) /\ Len(abc) = 12 /\ Begins(abc, ab) /\ Holds(abc, 8, c)
  BY <1>4, <1>13, <1>14 DEF Adds
<1>16. Adds(abcd, abc, d)
  BY <1>4, <1>7, <1>15, Written, Zenon
<1>17. abcd \in Seq(Byte) /\ Len(abcd) = 14 /\ Begins(abcd, abc) /\ Holds(abcd, 12, d)
  BY <1>4, <1>15, <1>16 DEF Adds
<1>18. Adds(abcde, abcd, e)
  BY <1>4, <1>8, <1>17, Written, Zenon
<1>19. abcde \in Seq(Byte) /\ Len(abcde) = 16 /\ Begins(abcde, abcd) /\ Holds(abcde, 14, e)
  BY <1>4, <1>17, <1>18 DEF Adds
<1>20. Adds(head, abcde, f)
  BY <1>4, <1>9, <1>19, Written, Zenon
<1>21. head \in Seq(Byte) /\ Len(head) = 17 /\ Begins(head, abcde) /\ Holds(head, 16, f)
  BY <1>4, <1>19, <1>20 DEF Adds
<1>22. Adds(r, head, body)
  BY <1>10, <1>21, Written, Zenon
<1>23. r \in Seq(Byte) /\ Len(r) = 17 + l /\ Begins(r, head) /\ Holds(r, 17, body)
  BY <1>1, <1>21, <1>22 DEF Adds
<1>24. Begins(r, abcde)
  BY <1>19, <1>21, <1>23, BeginsFirst, Zenon
<1>25. Begins(r, abcd)
  BY <1>17, <1>19, <1>24, BeginsFirst, Zenon
<1>26. Begins(r, abc)
  BY <1>15, <1>17, <1>25, BeginsFirst, Zenon
<1>27. Begins(r, ab)
  BY <1>13, <1>15, <1>26, BeginsFirst, Zenon
<1>28. Begins(r, a)
  BY <1>4, <1>13, <1>27, BeginsFirst, Zenon
<1>29. Holds(r, 0, a)
  <2>1. 4 <= Len(r) /\ \A k \in 1..4 : r[k] = a[k]
    BY <1>4, <1>28, Zenon DEF Begins
  <2>2. 0 \in Nat /\ 0 + 4 = 4 /\ \A k \in 1..4 : 0 + k = k
    OBVIOUS
  <2>3. \A k \in 1..4 : r[0 + k] = a[k]
    BY <2>1, <2>2
  <2> QED
    BY <1>4, <2>1, <2>2, <2>3 DEF Holds
<1>30. Holds(r, 4, b)
  BY <1>4, <1>13, <1>27, HoldsFirst, Zenon
<1>31. Holds(r, 8, c)
  BY <1>4, <1>15, <1>26, HoldsFirst, Zenon
<1>32. Holds(r, 12, d)
  BY <1>4, <1>17, <1>25, HoldsFirst, Zenon
<1>33. Holds(r, 14, e)
  BY <1>4, <1>19, <1>24, HoldsFirst, Zenon
<1>34. Holds(r, 16, f)
  BY <1>4, <1>21, <1>23, HoldsFirst, Zenon
<1>35. At32(r, 0 + 1) = v /\ At32(r, 4 + 1) = h /\ At32(r, 8 + 1) = w
  <2>1. At32(r, 0 + 1) = v
    BY <1>3, <1>29, WordHeld
  <2>2. At32(r, 4 + 1) = h
    BY <1>3, <1>30, WordHeld
  <2>3. At32(r, 8 + 1) = w
    BY <1>3, <1>31, WordHeld
  <2> QED
    BY <2>1, <2>2, <2>3, Zenon
<1>36. At16(r, 12 + 1) = level /\ At16(r, 14 + 1) = index /\ r[16 + 1] = m
  <2>1. At16(r, 12 + 1) = level
    BY <1>3, <1>32, HalfHeld
  <2>2. At16(r, 14 + 1) = index
    BY <1>3, <1>33, HalfHeld
  <2>3. r[16 + 1] = m
    BY <1>3, <1>34, ByteHeld
  <2> QED
    BY <2>1, <2>2, <2>3, Zenon
<1>37. 0 + 1 = 1 /\ 4 + 1 = 5 /\ 8 + 1 = 9 /\ 12 + 1 = 13 /\ 14 + 1 = 15 /\ 16 + 1 = 17
  OBVIOUS
<1>38. /\ At32(r, 1) = v /\ At32(r, 5) = h /\ At32(r, 9) = w
       /\ At16(r, 13) = level /\ At16(r, 15) = index /\ r[17] = m
  BY <1>35, <1>36, <1>37
<1> QED
  BY <1>1, <1>2, <1>11, <1>23, <1>38, Zenon DEF IsCommand

\* The beginning of a part is read as it is.
LEMMA UnpackHeld ==
  ASSUME NEW s \in Seq(Byte), NEW i, NEW p \in Seq(Byte), Holds(s, i, p),
         NEW n \in Nat, n <= Len(p)
  PROVE  \E b : unpack_from_stream(s, i, n) = <<b>> /\ \A k \in 1..n : b[k] = p[k]
<1>1. PICK l \in Nat, m \in Nat : l = Len(p) /\ m = Len(s) /\ n <= l
  BY LenProperties
<1>2. i \in Nat /\ i + l <= m /\ \A k \in 1..l : s[i + k] = p[k]
  BY <1>1, Zenon DEF Holds
<1>3. i + n <= Len(s)
  BY <1>1, <1>2
<1>4. PICK b : b = Read(s, i, n)
  OBVIOUS
<1>5. unpack_from_stream(s, i, n) = <<b>>
  BY <1>2, <1>3, <1>4, UnpackAll
<1>6. \A k \in 1..n : b[k] = s[i + k]
  BY <1>2, <1>3, <1>4, ReadAll, Zenon
<1>7. \A k \in 1..n : k \in 1..l
  BY <1>1
<1>8. \A k \in 1..n : b[k] = p[k]
  BY <1>2, <1>6, <1>7, Zenon
<1> QED
  BY <1>5, <1>8

\* A command without parameters has nothing behind its fields.
LEMMA FlattenNone == FlattenSeq(<<>>) = <<>> /\ <<>> \in Seq(Byte) /\ Len(<<>>) = 0
BY EmptySeq DEF FlattenSeq

\* What a command is taken for, on the speaker's side.
Command(h, target, level, index, params) ==
  [handle |-> h, target |-> target, level |-> level, index |-> index, params |-> params]

\* A command with count parameters is decoded by its fields and the value that is
\* read behind them, if one is expected.
DecodesTo(s, i, h, target, level, index, count) ==
  \A types :
    count = Len(types) =>
      /\ types = <<>> => CommandDecode(s, i, types) = <<Command(h, target, level, index, <<>>)>>
      /\ \A v : types # <<>> /\ OcaDecode(types[1], Read(s, i + 17, Len(s))) = <<v>>
                => CommandDecode(s, i, types) = <<Command(h, target, level, index, <<v>>)>>

\* CommandDecode reads what CommandEncode wrote, wherever it stands.
LEMMA CommandIs ==
  ASSUME NEW s \in Seq(Byte), NEW i,
         NEW h, NEW target, NEW level, NEW index, NEW count, NEW body \in Seq(Byte),
         NEW c, IsCommand(c, h, target, level, index, count, body), Holds(s, i, c)
  PROVE  DecodesTo(s, i, h, target, level, index, count)
<1>1. c \in Seq(Byte) /\ 17 <= Len(c)
  <2>1. Len(body) \in Nat
    BY LenProperties
  <2>2. c \in Seq(Byte) /\ Len(c) = 17 + Len(body)
    BY Zenon DEF IsCommand
  <2> QED
    BY <2>1, <2>2
<1>2. 17 \in Nat
  OBVIOUS
<1>3. PICK b : unpack_from_stream(s, i, 17) = <<b>> /\ \A k \in 1..17 : b[k] = c[k]
  BY <1>1, <1>2, UnpackHeld, SMTT(30)
<1>4. At32(b, 5) = h /\ At32(b, 9) = target /\ At16(b, 13) = level /\ At16(b, 15) = index /\ b[17] = count
  <2>1. /\ b[5] = c[5] /\ b[6] = c[6] /\ b[7] = c[7] /\ b[8] = c[8] /\ b[9] = c[9] /\ b[10] = c[10]
        /\ b[11] = c[11] /\ b[12] = c[12] /\ b[13] = c[13] /\ b[14] = c[14] /\ b[15] = c[15]
        /\ b[16] = c[16] /\ b[17] = c[17]
    BY <1>3
  <2>2. /\ 5 + 1 = 6 /\ 5 + 2 = 7 /\ 7 + 1 = 8 /\ 9 + 1 = 10 /\ 9 + 2 = 11 /\ 11 + 1 = 12
        /\ 13 + 1 = 14 /\ 15 + 1 = 16
    OBVIOUS
  <2>3. /\ At16(b, 5) = At16(c, 5) /\ At16(b, 7) = At16(c, 7) /\ At16(b, 9) = At16(c, 9)
        /\ At16(b, 11) = At16(c, 11) /\ At16(b, 13) = At16(c, 13) /\ At16(b, 15) = At16(c, 15)
    BY <2>1, <2>2 DEF At16
  <2>4. At32(b, 5) = At32(c, 5) /\ At32(b, 9) = At32(c, 9)
    BY <2>2, <2>3, Zenon DEF At32
  <2> QED
    BY <2>1, <2>3, <2>4, Zenon DEF IsCommand
<1>5. ASSUME NEW types, count = Len(types), types = <<>>
      PROVE  CommandDecode(s, i, types) = <<Command(h, target, level, index, <<>>)>>
  BY <1>3, <1>4, <1>5, RaisedIs DEF CommandDecode, Then, CommandSize, Command
<1>6. ASSUME NEW types, NEW v, count = Len(types), types # <<>>,
             OcaDecode(types[1], Read(s, i + 17, Len(s))) = <<v>>
      PROVE  CommandDecode(s, i, types) = <<Command(h, target, level, index, <<v>>)>>
  BY <1>3, <1>4, <1>6, RaisedIs DEF CommandDecode, Then, CommandSize, Command
<1> QED
  BY <1>5, <1>6 DEF DecodesTo

\* A command with one value of any type is decoded as it was encoded, whatever
\* its handle, its target and its level are and wherever in a message it is.
THEOREM CommandIsUnderstood ==
  ASSUME NEW h \in Half \X Half, NEW target \in Full, NEW level \in Half, NEW index \in Half,
         NEW type, NEW v, Fits(type, v), 17 + Len(OcaEncode(type, v)) \in Full,
         NEW s \in Seq(Byte), NEW i,
         Holds(s, i, CommandEncode(h, target, level, index, <<OcaEncode(type, v)>>))
  PROVE  CommandDecode(s, i, <<type>>) = <<Command(h, Word(target), level, index, <<v>>)>>
<1>1. PICK p \in Seq(Byte) : p = OcaEncode(type, v)
  BY EncodedBytes
<1>2. PICK w \in Half \X Half : w = Word(target)
  BY FullWord
<1>3. PICK c : c = CommandEncode(h, target, level, index, <<p>>)
  OBVIOUS
<1>4. FlattenSeq(<<p>>) = p /\ Len(<<p>>) = 1 /\ 1 \in Byte
  BY FlattenOne, SmallBytes
<1>5. IsCommand(c, h, w, level, index, 1, p)
  <2>1. PICK params : params = <<p>>
    OBVIOUS
  <2>2. p = FlattenSeq(params) /\ Len(params) \in Byte /\ Len(params) = 1
    BY <1>4, <2>1
  <2>3. 17 + Len(p) \in Full /\ Word(target) \in Half \X Half
    BY <1>1, <1>2
  <2>4. IsCommand(CommandEncode(h, target, level, index, params), h, Word(target), level, index,
                  Len(params), p)
    BY <2>2, <2>3, CommandBytesAre, Zenon
  <2> QED
    BY <1>2, <1>3, <2>1, <2>2, <2>4
<1>6. Holds(s, i, c)
  BY <1>1, <1>3
<1>7. c \in Seq(Byte) /\ Len(c) = 17 + Len(p) /\ Holds(c, 17, p)
  BY <1>5, Zenon DEF IsCommand
<1>8. Holds(s, i + 17, p)
  BY <1>6, <1>7, HoldsIn
<1>9. Begins(Read(s, i + 17, Len(s)), OcaEncode(type, v))
  <2>1. Len(s) \in Nat /\ Len(p) \in Nat /\ Len(s) >= Len(p)
    <3>1. Len(s) \in Nat /\ Len(p) \in Nat
      BY LenProperties
    <3>2. (i + 17) \in Nat /\ (i + 17) + Len(p) <= Len(s)
      BY <1>8, Zenon DEF Holds
    <3> QED
      BY <3>1, <3>2
  <2>2. Begins(Read(s, i + 17, Len(s)), p)
    BY <1>8, <2>1, RestBegins
  <2> QED
    BY <1>1, <2>2
<1>10. OcaDecode(type, Read(s, i + 17, Len(s))) = <<v>>
  BY <1>9, ValuesComeBack
<1>11. DecodesTo(s, i, h, w, level, index, 1)
  BY <1>5, <1>6, CommandIs, Zenon
<1>12. <<type>> # <<>> /\ <<type>>[1] = type /\ 1 = Len(<<type>>)
  OBVIOUS
<1> QED
  BY <1>2, <1>10, <1>11, <1>12 DEF DecodesTo

\* A command without parameters is decoded as it was encoded.
THEOREM QueryIsUnderstood ==
  ASSUME NEW h \in Half \X Half, NEW target \in Full, NEW level \in Half, NEW index \in Half,
         NEW s \in Seq(Byte), NEW i, Holds(s, i, CommandEncode(h, target, level, index, <<>>))
  PROVE  CommandDecode(s, i, <<>>) = <<Command(h, Word(target), level, index, <<>>)>>
<1>1. PICK w \in Half \X Half : w = Word(target)
  BY FullWord
<1>2. PICK c : c = CommandEncode(h, target, level, index, <<>>)
  OBVIOUS
<1>3. PICK none : none = <<>>
  OBVIOUS
<1>6. none \in Seq(Byte) /\ Len(none) = 0 /\ none = FlattenSeq(none)
  BY <1>3, FlattenNone
<1>4. IsCommand(c, h, w, level, index, 0, none)
  <2>1. 17 + Len(none) \in Full /\ Len(none) \in Byte
    <3>1. 17 + 0 \in Full
      BY SMT DEF Full
    <3> QED
      BY <1>6, <3>1, SmallBytes
  <2>2. Word(target) \in Half \X Half
    BY <1>1
  <2>3. IsCommand(CommandEncode(h, target, level, index, none), h, Word(target), level, index,
                  Len(none), none)
    BY <1>6, <2>1, <2>2, CommandBytesAre, Zenon
  <2> QED
    BY <1>1, <1>2, <1>3, <1>6, <2>3
<1>5. Holds(s, i, c)
  BY <1>2
<1>7. DecodesTo(s, i, h, w, level, index, 0)
  BY <1>4, <1>5, <1>6, CommandIs
<1>8. 0 = Len(<<>>)
  OBVIOUS
<1> QED
  BY <1>1, <1>7, <1>8 DEF DecodesTo

----------------------------------------------------------------------------
(* The parameters of the device. *)

\* A text takes at most two bytes per character.
LEMMA TextLength ==
  ASSUME NEW t \in Seq(Characters), NEW n \in Nat, n = Len(t)
  PROVE  Len(Utf8Encode(t)) <= 2 * n
<1>1. DOMAIN t = 1..n /\ \A k \in 1..n : t[k] \in Characters
  BY LenProperties, ElementOfSeq
<1>2. PICK parts : parts = [i \in 1..n |-> Utf8(t[i])]
  OBVIOUS
<1>3. Len(parts) = n /\ \A i \in 1..n : parts[i] = Utf8(t[i])
  BY <1>2
<1>4. Utf8Encode(t) = FlattenSeq(parts)
  BY <1>1, <1>2 DEF Utf8Encode
<1>5. \A i \in 1..n : parts[i] \in Seq(Byte) /\ (Len(parts[i]) = 1 \/ Len(parts[i]) = 2)
  BY <1>1, <1>3, Utf8Bytes
<1>6. CASE n = 0
  <2>1. parts = <<>>
    BY <1>2, <1>6
  <2>2. Len(FlattenSeq(parts)) = 0
    BY <2>1, FlattenNone
  <2> QED
    BY <1>4, <1>6, <2>2
<1>7. CASE n # 0
  <2>1. Len(parts) \in Nat \ {0} /\ n \in 1..n
    BY <1>3, <1>7
  <2>2. PICK g : Piles(g, parts) /\ FlattenSeq(parts) = g[n]
    BY <1>3, <2>1, FlattenIs
  <2>3. \A i \in 1..n : Len(g[i]) = Start(g, i) + Len(parts[i])
    BY <1>3, <1>5, <2>2, PartsAre
  <2>4. \A i \in 1..n : Len(g[i]) \in Nat
    <3>1. \A i \in 1..n : g[i] \in Seq(Byte)
      BY <1>3, <1>5, <2>2, PilesGrow
    <3> QED
      BY <3>1, LenProperties
  <2> DEFINE S == {k \in Nat : Len(g[k]) <= 2 * k}
  <2>5. 1 \in S
    <3>1. 1 \in 1..n /\ 1 \in Nat
      BY <2>1
    <3>2. PICK m : m = Len(parts[1])
      OBVIOUS
    <3>3. m = 1 \/ m = 2
      BY <1>5, <3>1, <3>2, Zenon
    <3>4. Start(g, 1) = 0
      BY DEF Start
    <3>5. Len(g[1]) = 0 + m
      BY <2>3, <3>1, <3>2, <3>4, Zenon
    <3>6. Len(g[1]) <= 2 * 1
      BY <3>3, <3>5
    <3> QED
      BY <3>1, <3>6
  <2>6. ASSUME NEW k \in 1..(n - 1), k \in S PROVE k + 1 \in S
    <3>1. PICK j \in 1..n : j = k + 1
      OBVIOUS
    <3>2. j - 1 = k /\ j # 1 /\ k \in 1..n /\ k \in Nat
      BY <3>1
    <3>3. Start(g, j) = Len(g[k])
      BY <3>2, Zenon DEF Start
    <3>4. Len(g[j]) = Len(g[k]) + Len(parts[j])
      BY <2>3, <3>3, Zenon
    <3>5. Len(parts[j]) = 1 \/ Len(parts[j]) = 2
      BY <1>5, Zenon
    <3>6. Len(g[k]) <= 2 * k /\ Len(g[k]) \in Nat
      BY <2>4, <2>6, <3>2
    <3>7. PICK m \in Nat : m = Len(g[k])
      BY <3>6
    <3>8. m <= 2 * k /\ (Len(g[j]) = m + 1 \/ Len(g[j]) = m + 2)
      BY <3>4, <3>5, <3>6, <3>7, Zenon
    <3>9. Len(g[j]) <= 2 * j /\ j \in Nat
      BY <3>1, <3>8
    <3> QED
      BY <3>1, <3>9
  <2>7. 1..n \subseteq S
    <3> HIDE DEF S
    <3>1. S \in SUBSET Nat
      BY DEF S
    <3> QED
      BY <2>5, <2>6, <3>1, InductionTo
  <2> QED
    BY <1>4, <2>1, <2>2, <2>7
<1> QED
  BY <1>6, <1>7

\* v can be sent as a value of the type, and takes few bytes.
Short(type, v) == Fits(type, v) /\ Len(OcaEncode(type, v)) < 100

\* The numbers are short, and so are the texts of a few characters.
LEMMA NumbersAreShort ==
  ASSUME NEW type \in NumberTypes, NEW v \in Numbers(type)
  PROVE  Short(type, v)
<1>1. Len(OcaEncode(type, v)) = type.width /\ type.width \in 1..2
  BY EncodedIs
<1>2. Len(OcaEncode(type, v)) < 100
  BY <1>1
<1> QED
  BY <1>2 DEF Short, Fits

\* A text of few characters is short, though some take two bytes.
LEMMA WordsAreShort ==
  ASSUME NEW t \in Seq(Characters), Len(t) < 40
  PROVE  Short(OcaString, t)
<1>0. PICK b : b = Utf8Encode(t)
  OBVIOUS
<1>1. b = Utf8Encode(t) /\ \E n \in Nat : n = Len(t) /\ n < 40
  BY <1>0, LenProperties
<1>2. b \in Seq(Byte)
  BY <1>1, TextsComeBack
<1>3. PICK l \in Nat : l = Len(b) /\ l < 80
  <2>3. PICK n \in Nat : n = Len(t) /\ n < 40
    BY <1>1
  <2>1. Len(b) \in Nat
    BY <1>2, LenProperties
  <2>2. Len(b) <= 2 * n
    BY <1>1, <2>3, TextLength
  <2> QED
    BY <2>1, <2>2, <2>3
<1>4. l \in Half
  BY <1>3, SMT DEF Half
<1>5. t \in Texts
  BY <1>1, <1>3, <1>4 DEF Texts
<1>6. Joins(OcaEncode(OcaString, t), U16(l), b)
  BY <1>1, <1>3, <1>5, TextBytes
<1>7. Len(U16(l)) = 2
  BY U16Bytes
<1>8. Len(OcaEncode(OcaString, t)) = 2 + l
  BY <1>3, <1>6, <1>7, Zenon DEF Joins
<1>9. 2 + l < 100
  BY <1>3
<1> QED
  BY <1>5, <1>8, <1>9 DEF Short, Fits

\* The parameter can be read and set: its fields are wide enough, and its
\* values are short values of its type.
Sound(p) ==
  /\ p.target \in Full /\ p.level \in Half /\ p.type \in OcaTypes
  /\ p.values # {} /\ \A v \in p.values : Short(p.type, v)

\* A parameter is sound if what it is made of is.
LEMMA SoundIs ==
  ASSUME NEW target \in Full, NEW level \in Half, NEW type \in OcaTypes, NEW values,
         values # {}, \A v \in values : Short(type, v)
  PROVE  Sound(Parameter(target, level, type, values))
BY Zenon DEF Sound, Parameter

\* The values of the parameters.
LEMMA ValuesAreShort ==
  /\ {1, 5} # {} /\ \A v \in {1, 5} : Short(OcaUint16, v)
  /\ {0, 1} # {} /\ \A v \in {0, 1} : Short(OcaUint16, v)
  /\ {0, 1, 2} # {} /\ \A v \in {0, 1, 2} : Short(OcaUint16, v)
  /\ -2..1 # {} /\ \A v \in -2..1 : Short(OcaInt8, v)
  /\ -2..0 # {} /\ \A v \in -2..0 : Short(OcaInt8, v)
  /\ -1..1 # {} /\ \A v \in -1..1 : Short(OcaInt8, v)
  /\ {<<>>, <<76, 233>>} # {} /\ \A v \in {<<>>, <<76, 233>>} : Short(OcaString, v)
<1>1. OcaUint16 \in NumberTypes /\ OcaInt8 \in NumberTypes
  BY DEF NumberTypes
<1>2. \A v \in 0..127 : Short(OcaUint16, v)
  BY <1>1, SmallNumbers, NumbersAreShort
<1>3. \A v \in -128..127 : Short(OcaInt8, v)
  <2>1. Numbers(OcaInt8) = -128..127
    BY DEF Numbers, OcaInt8
  <2> QED
    BY <1>1, <2>1, NumbersAreShort
<1>4. {1, 5} \subseteq 0..127 /\ {0, 1} \subseteq 0..127 /\ {0, 1, 2} \subseteq 0..127
  OBVIOUS
<1>5. 0 \in -2..1 /\ 0 \in -2..0 /\ 0 \in -1..1
  OBVIOUS
<1>6. -2..1 \subseteq -128..127 /\ -2..0 \subseteq -128..127 /\ -1..1 \subseteq -128..127
  OBVIOUS
<1>7. Short(OcaString, <<>>)
  <2>1. <<>> \in Seq(Characters) /\ Len(<<>>) < 40
    BY EmptySeq
  <2> QED
    BY <2>1, WordsAreShort
<1>8. Short(OcaString, <<76, 233>>)
  <2>1. 76 \in Characters /\ 233 \in Characters
    BY DEF Characters
  <2>2. <<76, 233>> \in Seq(Characters) /\ Len(<<76, 233>>) < 40
    BY <2>1
  <2> QED
    BY <2>2, WordsAreShort
<1>9. \A v \in {1, 5} : Short(OcaUint16, v)
  BY <1>2, <1>4
<1>10. \A v \in {0, 1} : Short(OcaUint16, v)
  BY <1>2, <1>4
<1>11. \A v \in {0, 1, 2} : Short(OcaUint16, v)
  BY <1>2, <1>4
<1>12. \A v \in -2..1 : Short(OcaInt8, v)
  BY <1>3, <1>6
<1>13. \A v \in -2..0 : Short(OcaInt8, v)
  BY <1>3, <1>6
<1>14. \A v \in -1..1 : Short(OcaInt8, v)
  BY <1>3, <1>6
<1>15. \A v \in {<<>>, <<76, 233>>} : Short(OcaString, v)
  BY <1>7, <1>8
<1>16. {1, 5} # {} /\ {0, 1} # {} /\ {0, 1, 2} # {} /\ {<<>>, <<76, 233>>} # {}
  OBVIOUS
<1>17. -2..1 # {} /\ -2..0 # {} /\ -1..1 # {}
  BY <1>5
<1> QED
  BY <1>9, <1>10, <1>11, <1>12, <1>13, <1>14, <1>15, <1>16, <1>17

\* The kinds of parameter.
LEMMA SoundKinds ==
  ASSUME NEW target \in Full, NEW level \in Half
  PROVE  /\ Sound(Parameter(target, level, OcaUint16, {1, 5}))
         /\ Sound(Parameter(target, level, OcaUint16, {0, 1}))
         /\ Sound(Parameter(target, level, OcaUint16, {0, 1, 2}))
         /\ Sound(Parameter(target, level, OcaInt8, -2..1))
         /\ Sound(Parameter(target, level, OcaInt8, -2..0))
         /\ Sound(Parameter(target, level, OcaInt8, -1..1))
         /\ Sound(Parameter(target, level, OcaString, {<<>>, <<76, 233>>}))
<1>1. OcaUint16 \in OcaTypes /\ OcaInt8 \in OcaTypes /\ OcaString \in OcaTypes
  BY DEF OcaTypes
<1>2. Sound(Parameter(target, level, OcaUint16, {1, 5}))
  BY <1>1, ValuesAreShort, SoundIs, Zenon
<1>3. Sound(Parameter(target, level, OcaUint16, {0, 1}))
  BY <1>1, ValuesAreShort, SoundIs, Zenon
<1>4. Sound(Parameter(target, level, OcaUint16, {0, 1, 2}))
  BY <1>1, ValuesAreShort, SoundIs, Zenon
<1>5. Sound(Parameter(target, level, OcaInt8, -2..1))
  BY <1>1, ValuesAreShort, SoundIs, Zenon
<1>6. Sound(Parameter(target, level, OcaInt8, -2..0))
  BY <1>1, ValuesAreShort, SoundIs, Zenon
<1>7. Sound(Parameter(target, level, OcaInt8, -1..1))
  BY <1>1, ValuesAreShort, SoundIs, Zenon
<1>8. Sound(Parameter(target, level, OcaString, {<<>>, <<76, 233>>}))
  BY <1>1, ValuesAreShort, SoundIs, Zenon
<1> QED
  BY <1>2, <1>3, <1>4, <1>5, <1>6, <1>7, <1>8, Zenon

\* Every parameter of the device is sound.
LEMMA ParametersFit ==
  ASSUME NEW i \in DOMAIN Parameters
  PROVE  Sound(Parameters[i])
<1>1. i \in 1..9
  BY SMT DEF Parameters
<1>2. 4 \in Half /\ 5 \in Half
  BY SMT DEF Half
<1>3. /\ 33619989 \in Full /\ 50528364 \in Full /\ 16842763 \in Full /\ 50397289 \in Full
      /\ 50397285 \in Full /\ 50397286 \in Full /\ 50397287 \in Full /\ 50397288 \in Full
      /\ 50593843 \in Full
  BY SMT DEF Full
<1>5. CASE i = 1
  <2>1. Parameters[i] = Parameter(33619989, 4, OcaUint16, {1, 5})
    BY <1>5, SMT DEF Parameters, TARGET_MUTE
  <2> QED
    BY <1>2, <1>3, <2>1, SoundKinds, SMT
<1>6. CASE i = 2
  <2>1. Parameters[i] = Parameter(50528364, 4, OcaUint16, {0, 1})
    BY <1>6, SMT DEF Parameters, TARGET_SLEEP
  <2> QED
    BY <1>2, <1>3, <2>1, SoundKinds, SMT
<1>7. CASE i = 3
  <2>1. Parameters[i] = Parameter(16842763, 4, OcaUint16, {0, 1})
    BY <1>7, SMT DEF Parameters
  <2> QED
    BY <1>2, <1>3, <2>1, SoundKinds, SMT
<1>8. CASE i = 4
  <2>1. Parameters[i] = Parameter(50397289, 4, OcaUint16, {0, 1, 2})
    BY <1>8, SMT DEF Parameters
  <2> QED
    BY <1>2, <1>3, <2>1, SoundKinds, SMT
<1>9. CASE i = 5
  <2>1. Parameters[i] = Parameter(50397285, 5, OcaInt8, -2..1)
    BY <1>9, SMT DEF Parameters
  <2> QED
    BY <1>2, <1>3, <2>1, SoundKinds, SMT
<1>10. CASE i = 6
  <2>1. Parameters[i] = Parameter(50397286, 5, OcaInt8, -2..0)
    BY <1>10, SMT DEF Parameters
  <2> QED
    BY <1>2, <1>3, <2>1, SoundKinds, SMT
<1>11. CASE i = 7
  <2>1. Parameters[i] = Parameter(50397287, 5, OcaInt8, -1..1)
    BY <1>11, SMT DEF Parameters
  <2> QED
    BY <1>2, <1>3, <2>1, SoundKinds, SMT
<1>12. CASE i = 8
  <2>1. Parameters[i] = Parameter(50397288, 5, OcaInt8, -1..1)
    BY <1>12, SMT DEF Parameters
  <2> QED
    BY <1>2, <1>3, <2>1, SoundKinds, SMT
<1>13. CASE i = 9
  <2>1. Parameters[i] = Parameter(50593843, 5, OcaString, {<<>>, <<76, 233>>})
    BY <1>13, SMT DEF Parameters
  <2> QED
    BY <1>2, <1>3, <2>1, SoundKinds, SMT
<1>14. i = 1 \/ i = 2 \/ i = 3 \/ i = 4 \/ i = 5 \/ i = 6 \/ i = 7 \/ i = 8 \/ i = 9
  BY <1>1
<1> QED
  BY <1>5, <1>6, <1>7, <1>8, <1>9, <1>10, <1>11, <1>12, <1>13, <1>14

----------------------------------------------------------------------------
(* What the properties of Wire say. *)

\* The response with the value v and a range behind it.
Given(h, type, v, range) ==
  [handle |-> h, status |-> 0, count |-> 1, raw |-> OcaEncode(type, v) \o range]

\* The value of r is v.
Gives(r, type, v) ==
  /\ parse_params(r, <<type>>) = <<v>>
  /\ Taken(r, <<type>>) = Returns(v)

\* An answer is a response, and its value is the one it was made for.
LEMMA AnswerIs ==
  ASSUME NEW h \in Half \X Half, NEW type, NEW v, Short(type, v),
         NEW range \in Seq(Byte), Len(range) < 90
  PROVE  /\ Given(h, type, v, range) \in SentResponses /\ Given(h, type, v, range).handle = h
         /\ Encoded(Given(h, type, v, range)) = Answer(h, type, v, range)
         /\ Gives(Given(h, type, v, range), type, v)
<1>1. Fits(type, v) /\ Len(OcaEncode(type, v)) < 100
  BY DEF Short
<1>2. PICK p \in Seq(Byte) : p = OcaEncode(type, v)
  BY <1>1, EncodedBytes
<1>3. PICK raw : raw = p \o range
  OBVIOUS
<1>4. Adds(raw, p, range)
  BY <1>3, Written, Zenon
<1>5. raw \in Seq(Byte) /\ Len(raw) = Len(p) + Len(range) /\ Begins(raw, p)
  BY <1>4, Zenon DEF Adds
<1>6. 10 + Len(raw) \in Half
  <2>1. PICK k \in Nat, l \in Nat : k = Len(p) /\ l = Len(range) /\ k < 100 /\ l < 90
    <3>1. Len(p) \in Nat /\ Len(range) \in Nat
      BY LenProperties
    <3> QED
      BY <1>1, <1>2, <3>1
  <2>2. 10 + (k + l) \in Half
    BY <2>1, SMT DEF Half
  <2> QED
    BY <1>5, <2>1, <2>2, Zenon
<1>7. PICK r : r = Given(h, type, v, range)
  OBVIOUS
<1>8. r = [handle |-> h, status |-> 0, count |-> 1, raw |-> raw]
  BY <1>2, <1>3, <1>7, Zenon DEF Given
<1>9. r.handle = h /\ r.status = 0 /\ r.count = 1 /\ r.raw = raw
  BY <1>8
<1>10. r \in SentResponses
  <2>1. 0 \in Byte /\ 1 \in Byte
    BY SmallBytes
  <2>2. raw \in {b \in Seq(Byte) : 10 + Len(b) \in Half}
    BY <1>5, <1>6, Zenon
  <2> QED
    BY <1>8, <2>1, <2>2 DEF SentResponses
<1>11. Encoded(r) = Answer(h, type, v, range)
  BY <1>2, <1>3, <1>9, Zenon DEF Encoded, Answer, STATUS_OK
<1>12. OcaDecode(type, raw) = <<v>>
  BY <1>1, <1>2, <1>5, ValuesComeBack
<1>13. parse_params(r, <<type>>) = <<v>>
  BY <1>9, <1>12 DEF parse_params
<1>14. Taken(r, <<type>>) = Returns(v)
  BY <1>9, <1>13, RaisedIs DEF Taken, Outcome, STATUS_OK
<1> QED
  BY <1>7, <1>9, <1>10, <1>11, <1>13, <1>14, Zenon DEF Gives

\* A message with one answer is read as its value.
LEMMA OneIsRead ==
  ASSUME NEW h \in Half \X Half, NEW type, NEW v, Short(type, v),
         NEW range \in Seq(Byte), Len(range) < 90
  PROVE  receive_matching_response(send_pdus(RESPONSE, <<Answer(h, type, v, range)>>), h, <<type>>)
           = Returns(v)
<1>1. PICK r \in SentResponses : /\ r.handle = h /\ Encoded(r) = Answer(h, type, v, range)
                             /\ Gives(r, type, v)
  BY AnswerIs, Zenon
<1>2. PICK rs : rs = <<r>>
  OBVIOUS
<1>3. rs \in Seq(SentResponses) /\ Len(rs) = 1 /\ rs[1] = r
  BY <1>2
<1>4. PICK s : s = send_pdus(RESPONSE, <<Answer(h, type, v, range)>>)
  OBVIOUS
<1>5. s = AnswerTo(rs)
  <2>1. [k \in 1..Len(rs) |-> Encoded(rs[k])] = <<Encoded(r)>>
    BY <1>3
  <2> QED
    BY <1>1, <1>4, <2>1, Zenon DEF AnswerTo
<1>6. Len(rs) \in Half
  BY <1>3, SMT DEF Half
<1>7. 1 \in 1..Len(rs) /\ FirstTo(rs, 1, h)
  BY <1>1, <1>3 DEF FirstTo
<1>8. PICK types : types = <<type>>
  OBVIOUS
<1>9. receive_matching_response(AnswerTo(rs), h, types) = Taken(rs[1], types)
  <2>1. rs \in Seq(SentResponses)
    BY <1>3
  <2> QED
    BY <1>6, <1>7, <2>1, MatchedAmongOthers, Zenon
<1> QED
  BY <1>1, <1>3, <1>4, <1>5, <1>8, <1>9, Zenon DEF Gives

\* The handles of the instances.
LEMMA HandlesAre == SomeHandles \subseteq Half \X Half
<1>1. 0 \in Half /\ 1 \in Half /\ 256 \in Half /\ 65535 \in Half
  BY SMT DEF Half
<1> QED
  BY <1>1, SMT DEF SomeHandles

\* A message of two answers.
LEMMA TwoAre ==
  ASSUME NEW r \in SentResponses, NEW q \in SentResponses, r.handle # q.handle,
         NEW s, s = send_pdus(RESPONSE, <<Encoded(r), Encoded(q)>>), NEW types
  PROVE  /\ <<r, q>> \in Seq(SentResponses) /\ Len(<<r, q>>) = 2 /\ s = AnswerTo(<<r, q>>)
         /\ receive_matching_response(s, r.handle, types) = Taken(r, types)
         /\ receive_matching_response(s, q.handle, types) = Taken(q, types)
<1>1. PICK rs : rs = <<r, q>>
  OBVIOUS
<1>2. rs \in Seq(SentResponses) /\ Len(rs) = 2 /\ rs[1] = r /\ rs[2] = q
  BY <1>1
<1>3. s = AnswerTo(rs)
  <2>1. [k \in 1..Len(rs) |-> Encoded(rs[k])] = <<Encoded(r), Encoded(q)>>
    BY <1>2
  <2> QED
    BY <2>1, Zenon DEF AnswerTo
<1>4. Len(rs) \in Half
  BY <1>2, SMT DEF Half
<1>5. 1 \in 1..Len(rs) /\ FirstTo(rs, 1, r.handle)
  BY <1>2 DEF FirstTo
<1>6. 2 \in 1..Len(rs) /\ FirstTo(rs, 2, q.handle)
  BY <1>2 DEF FirstTo
<1>7. rs \in Seq(SentResponses)
  BY <1>2
<1>8. receive_matching_response(AnswerTo(rs), r.handle, types) = Taken(rs[1], types)
  BY <1>4, <1>5, <1>7, MatchedAmongOthers, Zenon
<1>9. receive_matching_response(AnswerTo(rs), q.handle, types) = Taken(rs[2], types)
  BY <1>4, <1>6, <1>7, MatchedAmongOthers, Zenon
<1> QED
  BY <1>1, <1>2, <1>3, <1>8, <1>9

\* receive_responses and receive_response on a message of two answers.
LEMMA BothAreTaken ==
  ASSUME NEW r \in SentResponses, NEW q \in SentResponses, NEW s, s = AnswerTo(<<r, q>>),
         NEW t, NEW u, NEW v, NEW w,
         parse_params(r, <<t>>) = <<v>>, parse_params(q, <<u>>) = <<w>>
  PROVE  /\ receive_response(s, <<t>>) = Returns(v)
         /\ receive_responses(s, <<<<t>>, <<u>>>>) = Returns(<<v, w>>)
<1>1. PICK rs : rs = <<r, q>>
  OBVIOUS
<1>2. rs \in Seq(SentResponses) /\ Len(rs) = 2 /\ rs[1] = r /\ rs[2] = q
  BY <1>1
<1>3. s = AnswerTo(rs)
  BY <1>1
<1>4. 2 \in Half /\ 2 # 0
  BY SMT DEF Half
<1>5. receive_response(s, <<t>>) = Returns(v)
  <2>1. receive_response(s, <<t>>) = Outcome(parse_params(rs[1], <<t>>))
    BY <1>2, <1>3, <1>4, FirstIsTaken
  <2> QED
    BY <1>2, <2>1, RaisedIs DEF Outcome
<1>6. PICK types : types = << <<t>>, <<u>> >>
  OBVIOUS
<1>7. TypesAt(types, 1) = <<t>> /\ TypesAt(types, 2) = <<u>>
  BY <1>6 DEF TypesAt
<1>8. parse_params(rs[1], TypesAt(types, 1)) = <<v>> /\ parse_params(rs[2], TypesAt(types, 2)) = <<w>>
  BY <1>2, <1>7, Zenon
<1>9. receive_responses(s, types) =
        IF \E k \in 1..2 : parse_params(rs[k], TypesAt(types, k)) = Raised THEN Raises
        ELSE Returns([k \in 1..2 |-> parse_params(rs[k], TypesAt(types, k))[1]])
  <2>1. PICK n : n = 2
    OBVIOUS
  <2>2. n \in Half /\ n = Len(rs)
    BY <1>2, <1>4, <2>1
  <2>3. receive_responses(s, types) =
          IF \E k \in 1..n : parse_params(rs[k], TypesAt(types, k)) = Raised THEN Raises
          ELSE Returns([k \in 1..n |-> parse_params(rs[k], TypesAt(types, k))[1]])
    <3>1. rs \in Seq(SentResponses)
      BY <1>2
    <3> QED
      BY <1>3, <2>2, <3>1, AllAreTaken, SMTT(30)
  <2> QED
    BY <2>1, <2>3, Zenon
<1>10. \A k \in 1..2 : k = 1 \/ k = 2
  OBVIOUS
<1>11. \A k \in 1..2 : parse_params(rs[k], TypesAt(types, k)) # Raised
  BY <1>8, <1>10, RaisedIs, Zenon
<1>12. [k \in 1..2 |-> parse_params(rs[k], TypesAt(types, k))[1]] = <<v, w>>
  BY <1>8, <1>10
<1>13. receive_responses(s, types) = Returns(<<v, w>>)
  BY <1>9, <1>11, <1>12, Zenon
<1> QED
  BY <1>5, <1>6, <1>13

\* The bytes of a command that sets a parameter.
LEMMA SetBytes ==
  ASSUME NEW h \in Half \X Half, NEW p, Sound(p), NEW v \in p.values
  PROVE  /\ SetCommand(h, p, v) =
              CommandEncode(h, p.target, p.level, METHOD_SET, <<OcaEncode(p.type, v)>>)
         /\ OcaEncode(p.type, v) \in Seq(Byte) /\ Len(OcaEncode(p.type, v)) < 100
         /\ IsCommand(SetCommand(h, p, v), h, Word(p.target), p.level, METHOD_SET, 1,
                      OcaEncode(p.type, v))
<1>1. p.target \in Full /\ p.level \in Half /\ Short(p.type, v)
  BY Zenon DEF Sound
<1>2. Fits(p.type, v) /\ Len(OcaEncode(p.type, v)) < 100
  BY <1>1 DEF Short
<1>3. PICK b \in Seq(Byte) : b = OcaEncode(p.type, v)
  BY <1>2, EncodedBytes
<1>4. FlattenSeq(<<b>>) = b /\ Len(<<b>>) = 1 /\ 1 \in Byte
  BY FlattenOne, SmallBytes
<1>5. PICK params : params = <<b>>
  OBVIOUS
<1>6. Len(params) \in Byte /\ Len(params) = 1 /\ b = FlattenSeq(params)
  BY <1>4, <1>5
<1>7. 17 + Len(b) \in Full
  <2>1. PICK l \in Nat : l = Len(b) /\ l < 100
    BY <1>2, <1>3, LenProperties
  <2>2. 17 + l \in Full
    BY <2>1, SMT DEF Full
  <2> QED
    BY <2>1, <2>2
<1>8. Word(p.target) \in Half \X Half /\ METHOD_SET \in Half
  <2>1. 2 \in Half
    BY SMT DEF Half
  <2> QED
    BY <1>1, <2>1, FullWord DEF METHOD_SET
<1>9. IsCommand(CommandEncode(h, p.target, p.level, METHOD_SET, params), h, Word(p.target), p.level,
                METHOD_SET, Len(params), b)
  BY <1>1, <1>6, <1>7, <1>8, CommandBytesAre, Zenon
<1>10. SetCommand(h, p, v) = CommandEncode(h, p.target, p.level, METHOD_SET, params)
  BY <1>3, <1>5, Zenon DEF SetCommand
<1> QED
  BY <1>2, <1>3, <1>5, <1>6, <1>9, <1>10, Zenon

\* The bytes of a command that asks for one.
LEMMA GetBytes ==
  ASSUME NEW h \in Half \X Half, NEW p, Sound(p)
  PROVE  IsCommand(GetCommand(h, p), h, Word(p.target), p.level, METHOD_GET, 0, <<>>)
<1>1. p.target \in Full /\ p.level \in Half
  BY Zenon DEF Sound
<1>2. PICK none : none = <<>>
  OBVIOUS
<1>3. none \in Seq(Byte) /\ none = FlattenSeq(none) /\ Len(none) = 0 /\ Len(none) \in Byte
  BY <1>2, FlattenNone, SmallBytes
<1>4. 17 + Len(none) \in Full
  <2>1. 17 + 0 \in Full
    BY SMT DEF Full
  <2> QED
    BY <1>3, <2>1, Zenon
<1>5. Word(p.target) \in Half \X Half /\ METHOD_GET \in Half
  <2>1. 1 \in Half
    BY SMT DEF Half
  <2> QED
    BY <1>1, <2>1, FullWord DEF METHOD_GET
<1>6. IsCommand(CommandEncode(h, p.target, p.level, METHOD_GET, none), h, Word(p.target), p.level,
                METHOD_GET, Len(none), none)
  BY <1>1, <1>3, <1>4, <1>5, CommandBytesAre, Zenon
<1>7. GetCommand(h, p) = CommandEncode(h, p.target, p.level, METHOD_GET, none)
  BY <1>2, Zenon DEF GetCommand
<1> QED
  BY <1>2, <1>3, <1>6, <1>7, Zenon

\* A message of one command holds it behind its envelope.
LEMMA OneCommand ==
  ASSUME NEW c \in Seq(Byte), NEW s, s = send_pdus(COMMAND, <<c>>)
  PROVE  s \in Seq(Byte) /\ Holds(s, 10, c)
<1>1. PICK pdus, n : pdus = <<c>> /\ n = 1
  OBVIOUS
<1>2. n \in Half /\ n = Len(pdus) /\ (n = 0 => pdus = <<>>) /\ (\A i \in 1..n : pdus[i] \in Seq(Byte))
        /\ 1 \in 1..n /\ pdus[1] = c
  <2>1. 1 \in Half
    BY SMT DEF Half
  <2> QED
    BY <1>1, <2>1
<1>3. COMMAND \in Byte
  BY SmallBytes DEF COMMAND
<1>4. s = send_pdus(COMMAND, pdus)
  BY <1>1
<1>5. PICK at : IsMessageOf(s, COMMAND, pdus, n, at)
  BY <1>2, <1>3, <1>4, MessageBytes
<1>6. at[1] = 10 /\ s \in Seq(Byte) /\ Holds(s, at[1], pdus[1])
  BY <1>2, <1>5, Zenon DEF IsMessageOf
<1> QED
  BY <1>2, <1>6, Zenon

\* What is set is decoded on the other side, and read back.
SetAndRead(h, p, v) ==
  /\ CommandDecode(send_pdus(COMMAND, <<SetCommand(h, p, v)>>), MessageSize, <<p.type>>)
       = <<[handle |-> h, target |-> Word(p.target), level |-> p.level,
            index |-> METHOD_SET, params |-> <<v>>]>>
  /\ \A range \in {<<>>, <<254, 1>>} :
       receive_matching_response(
         send_pdus(RESPONSE, <<Answer(h, p.type, v, range)>>), h, <<p.type>>) = Returns(v)

\* What is set is decoded on the other side, and read back.
LEMMA SetIsRead ==
  ASSUME NEW h \in Half \X Half, NEW p, Sound(p), NEW v \in p.values
  PROVE  SetAndRead(h, p, v)
<1>1. p.target \in Full /\ p.level \in Half /\ Short(p.type, v)
  BY Zenon DEF Sound
<1>2. PICK c : c = SetCommand(h, p, v)
  OBVIOUS
<1>3. /\ c = CommandEncode(h, p.target, p.level, METHOD_SET, <<OcaEncode(p.type, v)>>)
      /\ IsCommand(c, h, Word(p.target), p.level, METHOD_SET, 1, OcaEncode(p.type, v))
      /\ OcaEncode(p.type, v) \in Seq(Byte) /\ Len(OcaEncode(p.type, v)) < 100
  BY <1>2, SetBytes
<1>4. c \in Seq(Byte)
  BY <1>3, Zenon DEF IsCommand
<1>5. PICK s : s = send_pdus(COMMAND, <<c>>)
  OBVIOUS
<1>6. s \in Seq(Byte) /\ Holds(s, 10, c)
  BY <1>4, <1>5, OneCommand, Zenon
<1>7. 17 + Len(OcaEncode(p.type, v)) \in Full
  <2>1. PICK l \in Nat : l = Len(OcaEncode(p.type, v)) /\ l < 100
    BY <1>3, LenProperties
  <2>2. 17 + l \in Full
    BY <2>1, SMT DEF Full
  <2> QED
    BY <2>1, <2>2
<1>8. METHOD_SET \in Half
  BY SMT DEF Half, METHOD_SET
<1>9. Fits(p.type, v)
  BY <1>1 DEF Short
<1>10. Holds(s, 10, CommandEncode(h, p.target, p.level, METHOD_SET, <<OcaEncode(p.type, v)>>))
  BY <1>3, <1>6, Zenon
<1>11. CommandDecode(s, 10, <<p.type>>) = <<Command(h, Word(p.target), p.level, METHOD_SET, <<v>>)>>
  <2>1. PICK target, level, index, type, i :
          target = p.target /\ level = p.level /\ index = METHOD_SET /\ type = p.type /\ i = 10
    OBVIOUS
  <2>2. /\ target \in Full /\ level \in Half /\ index \in Half /\ Fits(type, v)
        /\ 17 + Len(OcaEncode(type, v)) \in Full
        /\ s \in Seq(Byte) /\ Holds(s, i, CommandEncode(h, target, level, index, <<OcaEncode(type, v)>>))
    BY <1>1, <1>6, <1>7, <1>8, <1>9, <1>10, <2>1
  <2>3. CommandDecode(s, i, <<type>>) = <<Command(h, Word(target), level, index, <<v>>)>>
    BY <2>2, CommandIsUnderstood
  <2> QED
    BY <2>1, <2>3
<1>12. PICK none, some : none = <<>> /\ some = <<254, 1>>
  OBVIOUS
<1>16. none \in Seq(Byte) /\ Len(none) < 90 /\ some \in Seq(Byte) /\ Len(some) < 90
  <2>1. 254 \in Byte /\ 1 \in Byte
    BY SMT DEF Byte
  <2>2. none \in Seq(Byte) /\ Len(none) < 90
    BY <1>12, EmptySeq
  <2>3. some \in Seq(Byte) /\ Len(some) < 90
    BY <1>12, <2>1, SMT
  <2> QED
    BY <2>2, <2>3
<1>13. ASSUME NEW range \in Seq(Byte), Len(range) < 90
       PROVE  receive_matching_response(
                send_pdus(RESPONSE, <<Answer(h, p.type, v, range)>>), h, <<p.type>>) = Returns(v)
  <2>1. PICK type : type = p.type
    OBVIOUS
  <2>2. Short(type, v)
    BY <1>1, <2>1
  <2>3. receive_matching_response(send_pdus(RESPONSE, <<Answer(h, type, v, range)>>), h, <<type>>)
          = Returns(v)
    BY <1>13, <2>2, OneIsRead
  <2> QED
    BY <2>1, <2>3
<1>14. \A range \in {<<>>, <<254, 1>>} :
         receive_matching_response(
           send_pdus(RESPONSE, <<Answer(h, p.type, v, range)>>), h, <<p.type>>) = Returns(v)
  <2>1. \A range \in {none, some} :
          receive_matching_response(
            send_pdus(RESPONSE, <<Answer(h, p.type, v, range)>>), h, <<p.type>>) = Returns(v)
    BY <1>13, <1>16, Zenon
  <2>2. {none, some} = {<<>>, <<254, 1>>}
    BY <1>12
  <2> QED
    BY <2>1, <2>2
<1>15. CommandDecode(send_pdus(COMMAND, <<SetCommand(h, p, v)>>), MessageSize, <<p.type>>)
         = <<[handle |-> h, target |-> Word(p.target), level |-> p.level,
              index |-> METHOD_SET, params |-> <<v>>]>>
  BY <1>2, <1>5, <1>11, Zenon DEF Command, MessageSize
<1> QED
  BY <1>14, <1>15, SMT DEF SetAndRead

\* What a setter accepts is put on the wire as one of the parameter's values,
\* and is what the getter makes of that value.
LEMMA ConvertedBack ==
  ASSUME NEW p, NEW x \in Accepted(p),
         p.target = TARGET_MUTE => p.values = {1, 5},
         p.target = TARGET_SLEEP => p.values = {0, 1}
  PROVE  ToWire(p, x) \in p.values /\ FromWire(p, ToWire(p, x)) = x
<1>1. TARGET_MUTE # TARGET_SLEEP
  BY SMT DEF TARGET_MUTE, TARGET_SLEEP
<1>2. CASE p.target = TARGET_MUTE
  <2>1. x = TRUE \/ x = FALSE
    BY <1>2, Zenon DEF Accepted
  <2>2. ToWire(p, x) = IF x THEN 5 ELSE 1
    BY <1>2, Zenon DEF ToWire
  <2>3. \A v : FromWire(p, v) = (v = 5)
    BY <1>2, Zenon DEF FromWire
  <2>4. 1 # 5 /\ 1 \in p.values /\ 5 \in p.values
    BY <1>2, SMT
  <2>5. CASE x = TRUE
    BY <2>2, <2>3, <2>4, <2>5, Zenon
  <2>6. CASE x = FALSE
    BY <2>2, <2>3, <2>4, <2>6, Zenon
  <2> QED
    BY <2>1, <2>5, <2>6
<1>3. CASE p.target = TARGET_SLEEP
  <2>1. x = TRUE \/ x = FALSE
    BY <1>3, Zenon DEF Accepted
  <2>2. ToWire(p, x) = IF x THEN 1 ELSE 0
    BY <1>1, <1>3, Zenon DEF ToWire
  <2>3. \A v : FromWire(p, v) = (v # 0)
    BY <1>1, <1>3, Zenon DEF FromWire
  <2>4. 1 # 0 /\ 0 \in p.values /\ 1 \in p.values
    BY <1>3, SMT
  <2>5. CASE x = TRUE
    BY <2>2, <2>3, <2>4, <2>5, Zenon
  <2>6. CASE x = FALSE
    BY <2>2, <2>3, <2>4, <2>6, Zenon
  <2> QED
    BY <2>1, <2>5, <2>6
<1>4. CASE p.target # TARGET_MUTE /\ p.target # TARGET_SLEEP
  <2>1. x \in p.values
    BY <1>4, Zenon DEF Accepted
  <2>2. ToWire(p, x) = x /\ FromWire(p, x) = x
    BY <1>4, Zenon DEF ToWire, FromWire
  <2> QED
    BY <2>1, <2>2
<1> QED
  BY <1>2, <1>3, <1>4

\* A getter gives back what the value of the message stands for.
LEMMA GetterConverts ==
  ASSUME NEW s, NEW h, NEW p, NEW v,
         receive_matching_response(s, h, <<p.type>>) = Returns(v)
  PROVE  Getter(s, h, p) = Returns(FromWire(p, v))
<1>1. Returns(v).kind = "return" /\ Returns(v).value = v
  BY SMT DEF Returns
<1> QED
  BY <1>1, Zenon DEF Getter

\* Only mute and sleep are converted, and these are their values.
LEMMA ConvertedParameters ==
  ASSUME NEW i \in DOMAIN Parameters
  PROVE  /\ Parameters[i].target = TARGET_MUTE => Parameters[i].values = {1, 5}
         /\ Parameters[i].target = TARGET_SLEEP => Parameters[i].values = {0, 1}
<1>1. i \in 1..9
  BY SMT DEF Parameters
<1>2. i = 1 => Parameters[i].values = {1, 5} /\ Parameters[i].target # TARGET_SLEEP
  BY SMT DEF Parameters, Parameter, TARGET_MUTE, TARGET_SLEEP
<1>3. i = 2 => Parameters[i].values = {0, 1} /\ Parameters[i].target # TARGET_MUTE
  BY SMT DEF Parameters, Parameter, TARGET_MUTE, TARGET_SLEEP
<1>4. i \in 3..9 => Parameters[i].target # TARGET_MUTE /\ Parameters[i].target # TARGET_SLEEP
  BY SMT DEF Parameters, Parameter, TARGET_MUTE, TARGET_SLEEP
<1>5. i = 1 \/ i = 2 \/ i \in 3..9
  BY <1>1, SMT
<1> QED
  BY <1>2, <1>3, <1>4, <1>5

\* What a setter was given comes back from the getter.
GivenComesBack(h, p, x) ==
  LET v == ToWire(p, x)
  IN /\ CommandDecode(send_pdus(COMMAND, <<Setter(h, p, x).value>>), MessageSize, <<p.type>>)
          = <<[handle |-> h, target |-> Word(p.target), level |-> p.level,
               index |-> METHOD_SET, params |-> <<v>>]>>
     /\ \A range \in {<<>>, <<254, 1>>} :
          Getter(send_pdus(RESPONSE, <<Answer(h, p.type, v, range)>>), h, p) = Returns(x)

\* SetThenRead holds: its handles and its parameters are instances of SetIsRead,
\* and the conversions undo each other.
LEMMA SetThenReadHolds == SetThenRead
<1>1. ASSUME NEW i \in DOMAIN Parameters, NEW h \in SomeHandles,
             NEW x \in Accepted(Parameters[i])
      PROVE  GivenComesBack(h, Parameters[i], x)
  <2>1. h \in Half \X Half
    BY HandlesAre, Zenon
  <2>2. PICK p : p = Parameters[i]
    OBVIOUS
  <2>3. Sound(p) /\ x \in Accepted(p)
    BY <2>2, ParametersFit, Zenon
  <2>4. PICK v : v = ToWire(p, x)
    OBVIOUS
  <2>5. v \in p.values /\ FromWire(p, v) = x
    BY <2>2, <2>3, <2>4, ConvertedBack, ConvertedParameters, Zenon
  <2>6. SetAndRead(h, p, v)
    BY <2>1, <2>3, <2>5, SetIsRead, Zenon
  <2>7. Setter(h, p, x).value = SetCommand(h, p, v)
    <3>1. Setter(h, p, x) = Returns(SetCommand(h, p, v))
      BY <2>3, <2>4, Zenon DEF Setter
    <3>2. \A c : Returns(c).value = c
      BY SMT DEF Returns
    <3> QED
      BY <3>1, <3>2, Zenon
  <2>8. ASSUME NEW range \in {<<>>, <<254, 1>>}
        PROVE  Getter(send_pdus(RESPONSE, <<Answer(h, p.type, v, range)>>), h, p) = Returns(x)
    <3>1. PICK s : s = send_pdus(RESPONSE, <<Answer(h, p.type, v, range)>>)
      OBVIOUS
    <3>2. receive_matching_response(s, h, <<p.type>>) = Returns(v)
      BY <2>6, <3>1, Zenon DEF SetAndRead
    <3>3. Getter(s, h, p) = Returns(FromWire(p, v))
      BY <3>2, GetterConverts
    <3> QED
      BY <2>5, <3>1, <3>3, Zenon
  <2>9. GivenComesBack(h, p, x)
    BY <2>4, <2>6, <2>7, <2>8, Zenon DEF SetAndRead, GivenComesBack
  <2> QED
    BY <2>2, <2>9
<1> QED
  BY <1>1, Zenon DEF SetThenRead, GivenComesBack

\* The lower half of a command's length, where it stands in a message, leads
\* from its first byte to the one behind its last.
LEMMA LengthLeads ==
  ASSUME NEW s, NEW at, NEW h, NEW target, NEW level, NEW index, NEW count, NEW body \in Seq(Byte),
         Len(body) < 100, NEW c, IsCommand(c, h, target, level, index, count, body), Holds(s, at, c)
  PROVE  at + At16(s, at + 3) = at + Len(c)
<1>1. PICK l \in Nat : l = Len(body) /\ l < 100
  BY LenProperties
<1>2. PICK a \in Nat : a = at
  BY DEF Holds
<1>3. Len(c) = 17 + l /\ At32(c, 1) = Word(17 + l)
  BY <1>1, Zenon DEF IsCommand
<1>4. At16(c, 3) = 17 + l
  <2>1. PICK n \in Nat : n = 17 + l /\ n < 65536
    BY <1>1, SMT
  <2>2. n % 65536 = n
    BY <2>1, SMT
  <2>3. 1 + 2 = 3
    OBVIOUS
  <2>4. At32(c, 1)[2] = At16(c, 1 + 2)
    BY DEF At32
  <2>5. Word(n)[2] = n % 65536
    BY DEF Word
  <2>6. At16(c, 3) = Word(17 + l)[2]
    BY <1>3, <2>3, <2>4, Zenon
  <2> QED
    BY <2>1, <2>2, <2>5, <2>6
<1>5. s[a + 3] = c[3] /\ s[a + 4] = c[4]
  <2>1. 3 \in 1..Len(c) /\ 4 \in 1..Len(c)
    BY <1>3
  <2> QED
    BY <1>2, <2>1, Zenon DEF Holds
<1>6. (a + 3) + 1 = a + 4 /\ 3 + 1 = 4
  OBVIOUS
<1>7. At16(s, a + 3) = At16(c, 3)
  BY <1>5, <1>6, Zenon DEF At16
<1> QED
  BY <1>2, <1>3, <1>4, <1>7, Zenon

\* The lengths of a message of two commands, one with a value and one without.
Agree(h, p, v, q) ==
  LET first == SetCommand(h, p, v)
      s == send_pdus(COMMAND, <<first, GetCommand(h, q)>>)
      After(at) == at + At16(s, at + 3)
  IN /\ MessageDecode(s)[1].size = Word(Len(s) - 1)
     /\ MessageDecode(s)[1].count = 2
     /\ After(After(MessageSize)) = Len(s)

\* The lengths of such a message lead from command to command and to its end.
LEMMA TwoAgree ==
  ASSUME NEW h \in Half \X Half, NEW p, Sound(p), NEW v \in p.values, NEW q, Sound(q)
  PROVE  Agree(h, p, v, q)
<1>1. PICK c, g, b : c = SetCommand(h, p, v) /\ g = GetCommand(h, q) /\ b = OcaEncode(p.type, v)
  OBVIOUS
<1>2. /\ b \in Seq(Byte) /\ Len(b) < 100
      /\ IsCommand(c, h, Word(p.target), p.level, METHOD_SET, 1, b)
  BY <1>1, SetBytes
<1>3. PICK none : none = <<>>
  OBVIOUS
<1>4. none \in Seq(Byte) /\ Len(none) = 0 /\ Len(none) < 100
  BY <1>3, EmptySeq
<1>5. IsCommand(g, h, Word(q.target), q.level, METHOD_GET, 0, none)
  BY <1>1, <1>3, GetBytes, Zenon
<1>6. c \in Seq(Byte) /\ Len(c) = 17 + Len(b) /\ g \in Seq(Byte) /\ Len(g) = 17 + 0
  BY <1>2, <1>4, <1>5, Zenon DEF IsCommand
<1>7. PICK k \in Nat : k = Len(c) /\ k < 200
  <2>1. PICK l \in Nat : l = Len(b) /\ l < 100
    BY <1>2, LenProperties
  <2> QED
    BY <1>6, <2>1
<1>8. PICK pdus, n : pdus = <<c, g>> /\ n = 2
  OBVIOUS
<1>9. /\ n \in Half /\ n = Len(pdus) /\ (n = 0 => pdus = <<>>)
      /\ (\A i \in 1..n : pdus[i] \in Seq(Byte))
      /\ 1 \in 1..n /\ 2 \in 1..n /\ pdus[1] = c /\ pdus[2] = g /\ n + 1 = 3
  <2>1. 2 \in Half
    BY SMT DEF Half
  <2> QED
    BY <1>6, <1>8, <2>1
<1>10. COMMAND \in Byte
  BY SmallBytes DEF COMMAND
<1>11. PICK s : s = send_pdus(COMMAND, pdus)
  OBVIOUS
<1>12. PICK at : IsMessageOf(s, COMMAND, pdus, n, at)
  BY <1>9, <1>10, <1>11, MessageBytes
<1>13. /\ s \in Seq(Byte) /\ Len(s) >= 10 /\ s[1] = 59 /\ At16(s, 9) = n
       /\ Word(Len(s) - 1) \in Half \X Half => At32(s, 4) = Word(Len(s) - 1)
       /\ at[1] = 10 /\ at[3] = Len(s)
       /\ Holds(s, at[1], c) /\ at[1 + 1] = at[1] + Len(c)
       /\ Holds(s, at[2], g) /\ at[2 + 1] = at[2] + Len(g)
  BY <1>9, <1>12, Zenon DEF IsMessageOf
<1>14. at[2] = 10 + k /\ Len(s) = (10 + k) + 17
  <2>1. 1 + 1 = 2 /\ 2 + 1 = 3 /\ 17 + 0 = 17
    OBVIOUS
  <2>2. at[2] = 10 + k
    BY <1>7, <1>13, <2>1
  <2> QED
    BY <1>6, <1>13, <2>1, <2>2
<1>15. 10 + At16(s, 10 + 3) = 10 + k
  <2>1. Holds(s, 10, c)
    BY <1>13
  <2>2. 10 + At16(s, 10 + 3) = 10 + Len(c)
    BY <1>2, <2>1, LengthLeads
  <2> QED
    BY <1>7, <2>2
<1>16. (10 + k) + At16(s, (10 + k) + 3) = Len(s)
  <2>1. PICK i : i = 10 + k
    OBVIOUS
  <2>2. Holds(s, i, g)
    BY <1>13, <1>14, <2>1
  <2>3. i + At16(s, i + 3) = i + Len(g)
    <3>1. PICK target, level, index, count : IsCommand(g, h, target, level, index, count, none)
      BY <1>5, Zenon
    <3>2. none \in Seq(Byte) /\ Len(none) < 100
      BY <1>4
    <3> QED
      BY <2>2, <3>1, <3>2, LengthLeads
  <2>4. i + At16(s, i + 3) = (10 + k) + 17
    BY <1>6, <2>1, <2>3
  <2> QED
    BY <1>14, <2>1, <2>4
<1>17. Word(Len(s) - 1) \in Half \X Half
  <2>1. PICK m : m = Len(s) - 1
    OBVIOUS
  <2>2. m \in Full
    BY <1>7, <1>14, <2>1, SMT DEF Full
  <2> QED
    BY <2>1, <2>2, FullWord
<1>18. At32(s, 4) = Word(Len(s) - 1)
  BY <1>13, <1>17
<1>19. MessageDecode(s) = <<[size |-> <<At16(s, 4), At16(s, 6)>>, type |-> s[8], count |-> At16(s, 9)]>>
  <2>1. Len(s) \in Nat
    BY <1>13, LenProperties
  <2> QED
    BY <1>13, <2>1, MessageIs
<1>20. At32(s, 4) = <<At16(s, 4), At16(s, 6)>>
  <2>1. 4 + 2 = 6
    OBVIOUS
  <2> QED
    BY <2>1, Zenon DEF At32
<1>21. MessageDecode(s)[1].size = Word(Len(s) - 1) /\ MessageDecode(s)[1].count = 2
  <2>1. MessageDecode(s)[1].size = <<At16(s, 4), At16(s, 6)>> /\ MessageDecode(s)[1].count = At16(s, 9)
    BY <1>19
  <2> QED
    BY <1>8, <1>13, <1>18, <1>20, <2>1, Zenon
<1>22. s = send_pdus(COMMAND, <<SetCommand(h, p, v), GetCommand(h, q)>>)
  BY <1>1, <1>8, <1>11
<1> QED
  BY <1>15, <1>16, <1>21, <1>22, Zenon DEF Agree, MessageSize

\* LengthsAgree holds: its instances are some of those of TwoAgree.
LEMMA LengthsAgreeHolds == LengthsAgree
<1>1. ASSUME NEW h \in SomeHandles, NEW i \in DOMAIN Parameters, NEW j \in DOMAIN Parameters,
             NEW v \in Parameters[i].values
      PROVE  Agree(h, Parameters[i], v, Parameters[j])
  <2>1. h \in Half \X Half
    BY HandlesAre, Zenon
  <2>2. PICK p, q : p = Parameters[i] /\ q = Parameters[j]
    OBVIOUS
  <2>3. Sound(p) /\ Sound(q) /\ v \in p.values
    BY <2>2, ParametersFit, Zenon
  <2>4. Agree(h, p, v, q)
    BY <2>1, <2>3, TwoAgree, Zenon
  <2> QED
    BY <2>2, <2>4
<1> QED
  BY <1>1, Zenon DEF LengthsAgree, Agree

\* Two answers in one message, with different handles.
BothFound(g, p, v, h, q, w) ==
  LET s == send_pdus(RESPONSE, <<Answer(g, p.type, v, <<3>>), Answer(h, q.type, w, <<>>)>>)
  IN /\ receive_response(s, <<p.type>>) = Returns(v)
     /\ receive_responses(s, <<<<p.type>>, <<q.type>>>>) = Returns(<<v, w>>)
     /\ receive_matching_response(s, g, <<p.type>>) = Returns(v)
     /\ receive_matching_response(s, h, <<q.type>>) = Returns(w)

\* Each of two answers in one message is found, and is read as its own value.
LEMMA BothAreFound ==
  ASSUME NEW g \in Half \X Half, NEW h \in Half \X Half, g # h,
         NEW p, Sound(p), NEW v \in p.values, NEW q, Sound(q), NEW w \in q.values
  PROVE  BothFound(g, p, v, h, q, w)
<1>1. PICK t, u : t = p.type /\ u = q.type
  OBVIOUS
<1>2. Short(t, v) /\ Short(u, w)
  BY <1>1, Zenon DEF Sound
<1>3. PICK three, none : three = <<3>> /\ none = <<>>
  OBVIOUS
<1>4. three \in Seq(Byte) /\ Len(three) < 90 /\ none \in Seq(Byte) /\ Len(none) < 90
  <2>1. 3 \in Byte
    BY SMT DEF Byte
  <2>2. three \in Seq(Byte) /\ Len(three) < 90
    BY <1>3, <2>1
  <2>3. none \in Seq(Byte) /\ Len(none) < 90
    BY <1>3, EmptySeq
  <2> QED
    BY <2>2, <2>3
<1>5. PICK r \in SentResponses : /\ r.handle = g /\ Encoded(r) = Answer(g, t, v, three) /\ Gives(r, t, v)
  BY <1>2, <1>4, AnswerIs, Zenon
<1>6. PICK x \in SentResponses : /\ x.handle = h /\ Encoded(x) = Answer(h, u, w, none) /\ Gives(x, u, w)
  BY <1>2, <1>4, AnswerIs, Zenon
<1>7. PICK s : s = send_pdus(RESPONSE, <<Encoded(r), Encoded(x)>>)
  OBVIOUS
<1>8. r.handle # x.handle
  BY <1>5, <1>6
<1>9. /\ s = AnswerTo(<<r, x>>)
      /\ \A types : /\ receive_matching_response(s, r.handle, types) = Taken(r, types)
                    /\ receive_matching_response(s, x.handle, types) = Taken(x, types)
  BY <1>7, <1>8, TwoAre
<1>10. receive_matching_response(s, g, <<t>>) = Returns(v)
  BY <1>5, <1>9, Zenon DEF Gives
<1>11. receive_matching_response(s, h, <<u>>) = Returns(w)
  BY <1>6, <1>9, Zenon DEF Gives
<1>12. receive_response(s, <<t>>) = Returns(v) /\ receive_responses(s, <<<<t>>, <<u>>>>) = Returns(<<v, w>>)
  <2>1. parse_params(r, <<t>>) = <<v>> /\ parse_params(x, <<u>>) = <<w>>
    BY <1>5, <1>6, Zenon DEF Gives
  <2> QED
    BY <1>9, <2>1, BothAreTaken
<1>13. s = send_pdus(RESPONSE, <<Answer(g, p.type, v, <<3>>), Answer(h, q.type, w, <<>>)>>)
  BY <1>1, <1>3, <1>5, <1>6, <1>7
<1> QED
  BY <1>1, <1>10, <1>11, <1>12, <1>13, Zenon DEF BothFound

\* EachHasItsOwn holds: its instances are some of those of BothAreFound.
LEMMA EachHasItsOwnHolds == EachHasItsOwn
<1>1. ASSUME NEW g \in SomeHandles, NEW h \in SomeHandles, g # h,
             NEW i \in DOMAIN Parameters, NEW j \in DOMAIN Parameters,
             NEW v \in Parameters[i].values, NEW w \in Parameters[j].values
      PROVE  BothFound(g, Parameters[i], v, h, Parameters[j], w)
  <2>1. g \in Half \X Half /\ h \in Half \X Half
    BY HandlesAre, Zenon
  <2>2. PICK p, q : p = Parameters[i] /\ q = Parameters[j]
    OBVIOUS
  <2>3. Sound(p) /\ Sound(q) /\ v \in p.values /\ w \in q.values
    BY <2>2, ParametersFit, Zenon
  <2>4. BothFound(g, p, v, h, q, w)
    BY <1>1, <2>1, <2>3, BothAreFound, Zenon
  <2> QED
    BY <2>2, <2>4
<1>2. ASSUME NEW g \in SomeHandles, NEW h \in SomeHandles, g # h,
             NEW i \in DOMAIN Parameters, NEW j \in DOMAIN Parameters
      PROVE  \A v \in Parameters[i].values, w \in Parameters[j].values :
               BothFound(g, Parameters[i], v, h, Parameters[j], w)
  BY <1>1, <1>2
<1>3. \A g, h \in SomeHandles, i, j \in DOMAIN Parameters :
        g # h => \A v \in Parameters[i].values, w \in Parameters[j].values :
                   BothFound(g, Parameters[i], v, h, Parameters[j], w)
  BY <1>2
<1> QED
  BY <1>3 DEF EachHasItsOwn, BothFound

\* Two answers in one message, cut anywhere.
CutIsSafe(g, p, v, h, q, w) ==
  LET whole == send_pdus(RESPONSE, <<Answer(g, p.type, v, <<>>), Answer(h, q.type, w, <<1, 2>>)>>)
  IN \A n \in 0..Len(whole) :
       receive_matching_response(SubSeq(whole, 1, n), h, <<q.type>>) \in {Skips, Raises, Returns(w)}

\* What is left of such a message is skipped, refused or read as the value it was sent with.
LEMMA TwoCut ==
  ASSUME NEW g \in Half \X Half, NEW h \in Half \X Half, g # h,
         NEW p, Sound(p), NEW v \in p.values, NEW q, Sound(q), NEW w \in q.values
  PROVE  CutIsSafe(g, p, v, h, q, w)
<1>1. PICK t, u : t = p.type /\ u = q.type
  OBVIOUS
<1>2. Short(t, v) /\ Short(u, w) /\ u \in OcaTypes
  BY <1>1, Zenon DEF Sound
<1>3. PICK some, none : some = <<1, 2>> /\ none = <<>>
  OBVIOUS
<1>4. some \in Seq(Byte) /\ Len(some) < 90 /\ none \in Seq(Byte) /\ Len(none) < 90
  <2>1. 1 \in Byte /\ 2 \in Byte
    BY SMT DEF Byte
  <2>2. some \in Seq(Byte) /\ Len(some) < 90
    BY <1>3, <2>1
  <2>3. none \in Seq(Byte) /\ Len(none) < 90
    BY <1>3, EmptySeq
  <2> QED
    BY <2>2, <2>3
<1>5. PICK r \in SentResponses : /\ r.handle = g /\ Encoded(r) = Answer(g, t, v, none) /\ Gives(r, t, v)
  BY <1>2, <1>4, AnswerIs, Zenon
<1>6. PICK x \in SentResponses : /\ x.handle = h /\ Encoded(x) = Answer(h, u, w, some) /\ Gives(x, u, w)
  BY <1>2, <1>4, AnswerIs, Zenon
<1>7. PICK s : s = send_pdus(RESPONSE, <<Encoded(r), Encoded(x)>>)
  OBVIOUS
<1>8. r.handle # x.handle
  BY <1>5, <1>6
<1>9. /\ <<r, x>> \in Seq(SentResponses) /\ Len(<<r, x>>) = 2 /\ s = AnswerTo(<<r, x>>)
      /\ receive_matching_response(s, x.handle, <<u>>) = Taken(x, <<u>>)
  BY <1>7, <1>8, TwoAre
<1>10. receive_matching_response(s, h, <<u>>) = Returns(w)
  BY <1>6, <1>9, Zenon DEF Gives
<1>11. s \in Seq(Byte)
  <2>1. PICK rs, n : rs = <<r, x>> /\ n = 2
    OBVIOUS
  <2>2. rs \in Seq(SentResponses) /\ n = Len(rs) /\ s = AnswerTo(rs)
    BY <1>9, <2>1
  <2>3. n \in Half
    BY <2>1, SMT DEF Half
  <2>4. IsMessage(s, n)
    BY <2>2, <2>3, ResponsesRead
  <2> QED
    BY <2>4, Zenon DEF IsMessage
<1>12. PICK types : types = <<u>>
  OBVIOUS
<1>13. types \in Seq(OcaTypes)
  BY <1>2, <1>12
<1>14. ASSUME NEW n \in 0..Len(s)
       PROVE  receive_matching_response(SubSeq(s, 1, n), h, <<u>>) \in {Skips, Raises, Returns(w)}
  <2>1. receive_matching_response(SubSeq(s, 1, n), h, types)
          \in {Skips, Raises, receive_matching_response(s, h, types)}
    BY <1>11, <1>13, CutIsNoLie, Zenon
  <2> QED
    BY <1>10, <1>12, <2>1, Zenon
<1>15. s = send_pdus(RESPONSE, <<Answer(g, p.type, v, <<>>), Answer(h, q.type, w, <<1, 2>>)>>)
  BY <1>1, <1>3, <1>5, <1>6, <1>7
<1> QED
  BY <1>1, <1>14, <1>15, Zenon DEF CutIsSafe

\* PrefixesAreSafe holds: its instances are some of those of TwoCut.
LEMMA PrefixesAreSafeHolds == PrefixesAreSafe
<1>1. ASSUME NEW g \in SomeHandles, NEW h \in SomeHandles, g # h,
             NEW i \in DOMAIN Parameters, NEW j \in DOMAIN Parameters
      PROVE  CutIsSafe(g, Parameters[i], CHOOSE x \in Parameters[i].values : TRUE,
                       h, Parameters[j], CHOOSE x \in Parameters[j].values : TRUE)
  <2>1. g \in Half \X Half /\ h \in Half \X Half
    BY HandlesAre, Zenon
  <2>2. PICK p, q : p = Parameters[i] /\ q = Parameters[j]
    OBVIOUS
  <2>3. Sound(p) /\ Sound(q)
    BY <2>2, ParametersFit, Zenon
  <2>4. p.values # {} /\ q.values # {}
    BY <2>3, Zenon DEF Sound
  <2>5. PICK v, w : v = (CHOOSE x \in p.values : TRUE) /\ w = (CHOOSE x \in q.values : TRUE)
    OBVIOUS
  <2>6. v \in p.values /\ w \in q.values
    BY <2>4, <2>5
  <2>7. CutIsSafe(g, p, v, h, q, w)
    BY <1>1, <2>1, <2>3, <2>6, TwoCut, Zenon
  <2> QED
    BY <2>2, <2>5, <2>7
<1> QED
  BY <1>1, ZenonT(60) DEF PrefixesAreSafe, CutIsSafe
=============================================================================
