------------------------- MODULE HeaderRewriteProofs -------------------------
(***************************************************************************)
(* For every set of well-formed messages: the scan of rewrite_header_field *)
(* keeps its place, and what comes out of the rewriting is a message in    *)
(* which nothing but the name has changed.                                 *)
(*                                                                         *)
(* The scan.  The code reads the first byte of a field's signature twice,  *)
(* the second time counted back from a position that has been aligned in   *)
(* between.  What it finds there is the type again or a byte of padding,   *)
(* which is no type and ends the scan; so a field that is skipped is       *)
(* skipped by the size of its own type.                                    *)
(*                                                                         *)
(* The layout.  The new bytes are the old ones in pieces, each copied to   *)
(* another place (Copied).  A field that is copied by a multiple of eight  *)
(* keeps its type, its padding and its length (FieldMoves), so the new     *)
(* message is formed field by field (RelaidFormed, BodyFormed).  What the  *)
(* code computes for the lengths and the padding puts the pieces there     *)
(* (TargetSpaced, Replaced), and the steps keep it so (Rewriting).         *)
(***************************************************************************)
EXTENDS HeaderRewriteProperties, SequenceTheorems, TLAPS

\* The types as numbers.
LEMMA Codes ==
  /\ Strings = {115, 111} /\ Words = {117, 105, 98, 104}
  /\ Halves = {110, 113} /\ Longs = {120, 116, 100}
  /\ Basic = {115, 111, 117, 105, 98, 104, 110, 113, 120, 116, 100, 103, 121}
  /\ Basic \cup Chars({"a", "v"}) = Basic \cup {97, 118}
  /\ Char.a = 97 /\ Char.v = 118 /\ Char.g = 103
<1>1. /\ Char.s = 115 /\ Char.o = 111 /\ Char.u = 117 /\ Char.i = 105
      /\ Char.b = 98 /\ Char.h = 104 /\ Char.n = 110 /\ Char.q = 113
      /\ Char.x = 120 /\ Char.t = 116 /\ Char.d = 100 /\ Char.g = 103
      /\ Char.y = 121 /\ Char.a = 97 /\ Char.v = 118
  BY DEF Char
<1>2. ASSUME NEW S PROVE Chars(S) = {Char[c] : c \in S}
  BY DEF Chars
<1> QED
  BY <1>1, <1>2 DEF Strings, Words, Halves, Longs, Basic

-----------------------------------------------------------------------------
(* Bytes and alignment.                                                      *)

LEMMA ByteType ==
  ASSUME NEW bytes \in Seq(0..255), NEW p \in Nat, p < Len(bytes)
  PROVE  At(bytes, p) \in 0..255
<1>1. p + 1 \in 1..Len(bytes)
  BY LenProperties
<1> QED
  BY <1>1, ElementOfSeq DEF At

LEMMA WordType ==
  ASSUME NEW bytes \in Seq(0..255), NEW p \in Nat, p + 4 <= Len(bytes),
         NEW endian
  PROVE  ReadU32(endian, bytes, p) \in Nat
<1> DEFINE a == At(bytes, p)
           b == At(bytes, p + 1)
           c == At(bytes, p + 2)
           d == At(bytes, p + 3)
<1>1. Len(bytes) \in Nat
  BY LenProperties
<1>2. /\ p \in Nat /\ p < Len(bytes) /\ p + 1 \in Nat /\ p + 1 < Len(bytes)
      /\ p + 2 \in Nat /\ p + 2 < Len(bytes)
      /\ p + 3 \in Nat /\ p + 3 < Len(bytes)
  BY <1>1
<1>3. a \in 0..255 /\ b \in 0..255 /\ c \in 0..255 /\ d \in 0..255
  BY <1>2, ByteType
<1>4. \/ ReadU32(endian, bytes, p) = a + 256 * (b + 256 * (c + 256 * d))
      \/ ReadU32(endian, bytes, p) = d + 256 * (c + 256 * (b + 256 * a))
  BY DEF ReadU32
<1> HIDE DEF a, b, c, d
<1>5. /\ a + 256 * (b + 256 * (c + 256 * d)) \in Nat
      /\ d + 256 * (c + 256 * (b + 256 * a)) \in Nat
  BY <1>3
<1> QED
  BY <1>4, <1>5

LEMMA Align ==
  ASSUME NEW x \in Nat
  PROVE  \E k \in Nat : AlignUp(x, 8) = 8 * k /\ x <= 8 * k
<1>1. (x + 8 - 1) \div 8 \in Nat
  OBVIOUS
<1>2. AlignUp(x, 8) = 8 * ((x + 8 - 1) \div 8)
  BY DEF AlignUp
<1>3. x <= 8 * ((x + 8 - 1) \div 8)
  OBVIOUS
<1> QED
  BY <1>1, <1>2, <1>3

\* The value of a field that begins at a multiple of eight.
LEMMA AlignValue ==
  ASSUME NEW k \in Nat
  PROVE  /\ AlignUp(8 * k + 4, 1) = 8 * k + 4
         /\ AlignUp(8 * k + 4, 2) = 8 * k + 4
         /\ AlignUp(8 * k + 4, 4) = 8 * k + 4
         /\ AlignUp(8 * k + 4, 8) = 8 * k + 8
         /\ AlignUp(8 * k + 5, 4) = 8 * k + 8
BY DEF AlignUp

-----------------------------------------------------------------------------
(* One turn of the loop.                                                     *)

\* The reading of the message as far as the scan has come.
Scanning ==
  /\ WellFormed(msg)
  /\ phase \in {"new", "scan"} => raw = msg.raw
  /\ phase = "scan" => pos \in Nat
  /\ ScanKeepsItsPlace

LEMMA HeaderLength ==
  ASSUME Scanning, raw = msg.raw
  PROVE  /\ raw \in Seq(0..255) /\ ArrayEnd \in Nat /\ ArrayEnd <= Len(raw)
         /\ ArrayEnd = EndOf(msg, Len(msg.at))
<1>1. raw \in Seq(0..255) /\ Len(raw) >= 16 /\ Len(raw) \in Nat
  BY DEF Scanning, WellFormed
<1>2. ReadU32(msg.endian, raw, 12) \in Nat
      /\ ReadU32(msg.endian, raw, 4) \in Nat
  BY <1>1, WordType
<1>3. ArrayEnd \in Nat /\ Padding(ArrayEnd) \in Nat
  BY <1>2 DEF ArrayEnd, FieldsEnd, Padding
<1>4. Len(raw) = ArrayEnd + Padding(ArrayEnd) + ReadU32(msg.endian, raw, 4)
  BY DEF Scanning, WellFormed, BodyStart, ArrayEnd
<1>5. ArrayEnd = EndOf(msg, Len(msg.at))
  BY DEF Scanning, WellFormed, ArrayEnd
<1> QED
  BY <1>1, <1>2, <1>3, <1>4, <1>5

\* The field the loop is at.
LEMMA FieldFound ==
  ASSUME Scanning, phase = "scan", AtField
  PROVE  \E i \in 1..Len(msg.at) :
           /\ pos = EndOf(msg, i - 1) /\ FieldPos = msg.at[i]
           /\ EndOf(msg, i) = FieldEnd(msg.endian, raw, FieldPos)
           /\ TypeAt(raw, FieldPos) \in Basic \cup Chars({"a", "v"})
           /\ TypeAt(raw, FieldPos) = Char.v =>
                /\ At(raw, ValueAt(raw, FieldPos)) = 1
                /\ At(raw, ValueAt(raw, FieldPos) + 1) \in Basic
           /\ SigLen(raw, FieldPos) =
                IF TypeAt(raw, FieldPos) = Char.a THEN 2 ELSE 1
           /\ \A q \in FieldPos + SigLen(raw, FieldPos) + 2
                         ..ValueAt(raw, FieldPos) - 1 : At(raw, q) = 0
<1>1. raw = msg.raw /\ pos \in Nat
  BY DEF Scanning
<1>2. PICK j \in 0..Len(msg.at) : pos = EndOf(msg, j)
  BY DEF Scanning, ScanKeepsItsPlace
<1>3. Len(msg.at) \in Nat
  BY DEF Scanning, WellFormed
<1>4. j # Len(msg.at)
  <2>1. ArrayEnd \in Nat /\ ArrayEnd = EndOf(msg, Len(msg.at))
    BY <1>1, HeaderLength
  <2> QED
    BY <1>2, <2>1 DEF AtField
<1>5. j + 1 \in 1..Len(msg.at) /\ (j + 1) - 1 = j /\ j + 1 # 0
  BY <1>3, <1>4
<1>6. FieldPos = msg.at[j + 1]
  BY <1>2, <1>5 DEF Scanning, WellFormed, FieldFormed, FieldPos
<1>7. EndOf(msg, j + 1) = FieldEnd(msg.endian, raw, FieldPos)
  BY <1>1, <1>5, <1>6 DEF EndOf
<1> QED
  BY <1>1, <1>2, <1>5, <1>6, <1>7 DEF Scanning, WellFormed, FieldFormed

\* The type that is read the second time is the first one, or no type, as it is
\* for arrays and for values aligned to eight bytes.
LEMMA SecondLook ==
  ASSUME Scanning, phase = "scan", AtField, CanSkip(SkipType, ValuePos)
  PROVE  /\ SkipType = TypeAt(raw, FieldPos)
         /\ ValuePos = ValueAt(raw, FieldPos) /\ ValuePos \in Nat
         /\ SkipType # Char.a /\ SkipType \notin Longs
<1> DEFINE type == TypeAt(raw, FieldPos)
<1>1. PICK i \in 1..Len(msg.at) :
        /\ type \in Basic \cup Chars({"a", "v"})
        /\ SigLen(raw, FieldPos) = IF type = Char.a THEN 2 ELSE 1
        /\ \A q \in FieldPos + SigLen(raw, FieldPos) + 2
                      ..ValueAt(raw, FieldPos) - 1 : At(raw, q) = 0
  BY FieldFound
<1>2. PICK k \in Nat : FieldPos = 8 * k
  BY Align DEF Scanning, FieldPos
<1>3. ScanSigLen = SigLen(raw, FieldPos) /\ ScanSigLen \in {1, 2}
  BY <1>1 DEF ScanSigLen, SigLen
<1>4. AfterSig = FieldPos + SigLen(raw, FieldPos) + 3
  BY <1>2, <1>3 DEF AfterSig
<1>5. SigByte(AfterSig) = type
  <2>1. AfterSig - ScanSigLen - 1 = FieldPos + 2
    BY <1>2, <1>3, <1>4
  <2> QED
    BY <1>3, <2>1 DEF SigByte, TypeAt
<1>6. ValuePos = ValueAt(raw, FieldPos)
  BY <1>4, <1>5 DEF ValuePos, ValueAt, ValueAlign, AlignOf
<1>7. ValuePos = AlignUp(AfterSig, AlignOf(type))
  BY <1>4, <1>6 DEF ValueAt
<1>8. SkipType = At(raw, ValuePos - ScanSigLen - 1)
  BY <1>3 DEF SkipType, SigByte
<1>9. SkipType # 0
  <2>1. 0 \notin Basic \cup Chars({"a", "v"})
    BY SMTT(30), Codes
  <2> QED
    BY <2>1 DEF CanSkip
<1>10. /\ ValuePos \in Nat /\ SkipType = type
       /\ type # Char.a /\ type \notin Longs
  <2>1. CASE type = Char.a
    <3>1. AlignOf(type) = 4 /\ ScanSigLen = 2 /\ AfterSig = 8 * k + 5
      BY SMTT(30), <1>1, <1>2, <1>3, <1>4, <2>1, Codes DEF AlignOf
    <3>2. ValuePos = 8 * k + 8
      BY <1>7, <3>1, AlignValue
    <3>3. SkipType = At(raw, 8 * k + 5)
      BY <1>8, <3>1, <3>2
    <3>4. 8 * k + 5 \in FieldPos + SigLen(raw, FieldPos) + 2
                          ..ValueAt(raw, FieldPos) - 1
      BY <1>2, <1>3, <1>6, <3>1, <3>2
    <3> QED
      BY <1>1, <1>9, <3>3, <3>4
  <2>2. CASE type \in Longs
    <3>1. AlignOf(type) = 8 /\ ScanSigLen = 1 /\ AfterSig = 8 * k + 4
      BY <1>1, <1>2, <1>3, <1>4, <2>2, Codes DEF AlignOf
    <3>2. ValuePos = 8 * k + 8
      BY <1>7, <3>1, AlignValue
    <3>3. SkipType = At(raw, 8 * k + 6)
      BY <1>8, <3>1, <3>2
    <3>4. 8 * k + 6 \in FieldPos + SigLen(raw, FieldPos) + 2
                          ..ValueAt(raw, FieldPos) - 1
      BY <1>2, <1>3, <1>6, <3>1, <3>2
    <3> QED
      BY <1>1, <1>9, <3>3, <3>4
  <2>3. CASE type # Char.a /\ type \notin Longs
    <3>1. AlignOf(type) \in {1, 2, 4} /\ ScanSigLen = 1 /\ AfterSig = 8 * k + 4
      BY <1>1, <1>2, <1>3, <1>4, <2>3, Codes DEF AlignOf
    <3>2. ValuePos = 8 * k + 4
      BY <1>7, <3>1, AlignValue
    <3>3. ValuePos - ScanSigLen - 1 = FieldPos + 2
      BY <1>2, <3>1, <3>2
    <3> QED
      BY <1>8, <2>3, <3>2, <3>3 DEF TypeAt
  <2> QED
    BY <2>1, <2>2, <2>3
<1> QED
  BY <1>6, <1>10

\* The size of a basic value is the one marshalling gives it.
LEMMA BasicSkipped ==
  ASSUME Scanning, raw = msg.raw, NEW p \in Nat,
         NEW type \in Basic, p + LengthSize(type) <= ArrayEnd
  PROVE  /\ p + BasicSize(type, p) = EndOfBasic(msg.endian, raw, type, p)
         /\ p + BasicSize(type, p) \in Nat
<1>1. raw \in Seq(0..255) /\ ArrayEnd \in Nat /\ ArrayEnd <= Len(raw)
  BY HeaderLength
<1>2. Len(raw) \in Nat
  BY <1>1, LenProperties
<1>3. CASE type \in Strings
  <2> DEFINE n == ReadU32(msg.endian, raw, p)
  <2>1. p + 4 <= Len(raw)
    BY <1>1, <1>2, <1>3 DEF LengthSize
  <2>2. n \in Nat
    BY <1>1, <2>1, WordType
  <2>3. /\ BasicSize(type, p) = 4 + n + 1
        /\ EndOfBasic(msg.endian, raw, type, p) = p + 4 + n + 1
    BY <1>3, <2>2, Codes DEF BasicSize, EndOfBasic
  <2> HIDE DEF n
  <2> QED
    BY <2>2, <2>3
<1>4. CASE type = Char.g
  <2> DEFINE n == At(raw, p)
  <2>1. type \notin Strings /\ type # Char.a
    BY <1>4, Codes
  <2>2. p < Len(raw)
    BY <1>1, <1>2, <1>4, <2>1 DEF LengthSize
  <2>3. n \in 0..255
    BY <1>1, <2>2, ByteType
  <2>4. /\ BasicSize(type, p) = 1 + n + 1
        /\ EndOfBasic(msg.endian, raw, type, p) = p + 1 + n + 1
    BY <1>4, <2>1, <2>3, Codes DEF BasicSize, EndOfBasic
  <2> HIDE DEF n
  <2> QED
    BY <2>3, <2>4
<1>5. CASE type \notin Strings /\ type # Char.g
  <2>1. /\ BasicSize(type, p) \in Nat
        /\ EndOfBasic(msg.endian, raw, type, p) = p + BasicSize(type, p)
    BY <1>5, Codes DEF BasicSize, EndOfBasic
  <2> QED
    BY <2>1
<1> QED
  BY <1>3, <1>4, <1>5

\* A field that is skipped is skipped to its end.
LEMMA Skipped ==
  ASSUME Scanning, phase = "scan", AtField, CanSkip(SkipType, ValuePos)
  PROVE  /\ EndOfSkipped(SkipType, ValuePos) \in Nat
         /\ EndOfSkipped(SkipType, ValuePos)
              = FieldEnd(msg.endian, raw, FieldPos)
<1> DEFINE type == TypeAt(raw, FieldPos)
           p == ValuePos
<1>1. SkipType = type /\ p = ValueAt(raw, FieldPos) /\ p \in Nat
  BY SecondLook
<1>2. raw = msg.raw
  BY DEF Scanning
<1>3. raw \in Seq(0..255) /\ ArrayEnd \in Nat /\ ArrayEnd <= Len(raw)
  BY <1>2, HeaderLength
<1>4. Len(raw) \in Nat
  BY <1>3, LenProperties
<1>5. type \in Basic \/ type = Char.a \/ type = Char.v
  BY <1>1, Codes DEF CanSkip
<1>6. p + LengthSize(type) <= ArrayEnd
  BY <1>1 DEF CanSkip
<1>7. CASE type \in Basic
  <2>1. type # Char.a /\ type # Char.v
    BY <1>7, Codes
  <2>2. EndOfSkipped(type, p) = p + BasicSize(type, p)
    BY <2>1 DEF EndOfSkipped
  <2>3. FieldEnd(msg.endian, raw, FieldPos) = EndOfBasic(msg.endian, raw, type, p)
    BY <1>1, <2>1 DEF FieldEnd
  <2>4. p \in Nat /\ type \in Basic /\ p + LengthSize(type) <= ArrayEnd
    BY <1>1, <1>6, <1>7
  <2> HIDE DEF type, p
  <2>5. /\ p + BasicSize(type, p) = EndOfBasic(msg.endian, raw, type, p)
        /\ p + BasicSize(type, p) \in Nat
    BY <1>2, <2>4, BasicSkipped
  <2>6. SkipType = type /\ ValuePos = p
    BY <1>1 DEF p
  <2> QED
    BY <2>2, <2>3, <2>5, <2>6
<1>8. CASE type = Char.a
  <2> DEFINE n == ReadU32(msg.endian, raw, p)
  <2>1. p + 4 <= Len(raw)
    BY <1>1, <1>3, <1>4, <1>6, <1>8 DEF LengthSize
  <2>2. n \in Nat
    BY <1>1, <1>3, <2>1, WordType
  <2>3. EndOfSkipped(type, p) = p + 4 + n
    BY <1>1, <1>8, <2>2, Codes DEF EndOfSkipped
  <2>4. FieldEnd(msg.endian, raw, FieldPos) = p + 4 + n
    BY <1>1, <1>8, <2>2, Codes DEF FieldEnd
  <2> HIDE DEF n
  <2> QED
    BY <1>1, <2>2, <2>3, <2>4
<1>9. CASE type = Char.v
  <2> DEFINE inner == At(raw, p + 1)
             q == InnerPos(p)
  <2>1. type # Char.a
    BY <1>9, Codes
  <2>2. At(raw, p) = 1 /\ inner \in Basic
    BY <1>1, <1>9, FieldFound
  <2>3. InnerType(p) = inner
    BY <2>2 DEF InnerType
  <2>4. p + 1 + At(raw, p) + 1 = p + 3
    BY <1>1, <2>2
  <2>5. q = AlignUp(p + 3, AlignOf(inner))
    BY <2>3, <2>4 DEF InnerPos, ValueAlign, AlignOf
  <2>6. q \in Nat
    <3>1. AlignOf(inner) \in {1, 2, 4, 8}
      BY DEF AlignOf
    <3>2. p + 3 \in Nat
      BY <1>1
    <3> QED
      BY <2>5, <3>1, <3>2 DEF AlignUp
  <2>7. q + LengthSize(inner) <= ArrayEnd
    BY <1>1, <1>9, <2>3 DEF CanSkip
  <2>8. EndOfSkipped(type, p) = q + BasicSize(inner, q)
    BY <1>9, <2>1, <2>3 DEF EndOfSkipped
  <2>9. FieldEnd(msg.endian, raw, FieldPos)
          = EndOfBasic(msg.endian, raw, inner, q)
    BY <1>1, <1>9, <2>1, <2>5 DEF FieldEnd, EndOfVariant
  <2> HIDE DEF inner, q, type, p
  <2>10. /\ q + BasicSize(inner, q) = EndOfBasic(msg.endian, raw, inner, q)
         /\ q + BasicSize(inner, q) \in Nat
    BY <1>2, <2>2, <2>6, <2>7, BasicSkipped
  <2>11. SkipType = type /\ ValuePos = p
    BY <1>1 DEF p
  <2> QED
    BY <2>8, <2>9, <2>10, <2>11
<1> QED
  BY <1>1, <1>5, <1>7, <1>8, <1>9

-----------------------------------------------------------------------------
(* Slices and concatenations, by position.                                   *)

Byte == 0..255

LEMMA SliceType ==
  ASSUME NEW s \in Seq(Byte), NEW a \in Nat, NEW b \in Nat,
         a <= b, b <= Len(s)
  PROVE  /\ Slice(s, a, b) \in Seq(Byte) /\ Len(Slice(s, a, b)) = b - a
         /\ \A p \in 0..b - a - 1 : At(Slice(s, a, b), p) = At(s, a + p)
<1>1. Len(s) \in Nat
  BY LenProperties
<1>2. \A i \in a + 1..b : s[i] \in Byte
  <2> SUFFICES ASSUME NEW i \in a + 1..b PROVE s[i] \in Byte
    OBVIOUS
  <2>1. i \in 1..Len(s)
    BY <1>1
  <2> QED BY <2>1, ElementOfSeq
<1>3. a + 1 \in Int /\ b \in Int
  OBVIOUS
<1>4. /\ Slice(s, a, b) \in Seq(Byte)
      /\ Len(Slice(s, a, b)) = IF a + 1 <= b THEN b - (a + 1) + 1 ELSE 0
      /\ \A i \in 1..b - (a + 1) + 1 : Slice(s, a, b)[i] = s[(a + 1) + i - 1]
  BY <1>2, <1>3, SubSeqProperties DEF Slice
<1>5. Len(Slice(s, a, b)) = b - a
  BY <1>4
<1>6. ASSUME NEW p \in 0..b - a - 1
      PROVE  At(Slice(s, a, b), p) = At(s, a + p)
  <2>1. p + 1 \in 1..b - (a + 1) + 1 /\ (a + 1) + (p + 1) - 1 = a + p + 1
    OBVIOUS
  <2> QED BY SMTT(30), <1>4, <2>1 DEF At
<1> QED BY <1>4, <1>5, <1>6

LEMMA JoinType ==
  ASSUME NEW s \in Seq(Byte), NEW t \in Seq(Byte)
  PROVE  /\ s \o t \in Seq(Byte) /\ Len(s \o t) = Len(s) + Len(t)
         /\ Len(s) \in Nat /\ Len(t) \in Nat
         /\ \A p \in 0..Len(s) - 1 : At(s \o t, p) = At(s, p)
         /\ \A p \in 0..Len(t) - 1 : At(s \o t, Len(s) + p) = At(t, p)
<1>1. Len(s) \in Nat /\ Len(t) \in Nat
  BY LenProperties
<1>2. /\ s \o t \in Seq(Byte) /\ Len(s \o t) = Len(s) + Len(t)
      /\ \A i \in 1..Len(s) + Len(t) :
           (s \o t)[i] = IF i <= Len(s) THEN s[i] ELSE t[i - Len(s)]
  BY ConcatProperties
<1>3. ASSUME NEW p \in 0..Len(s) - 1 PROVE At(s \o t, p) = At(s, p)
  <2>1. p + 1 \in 1..Len(s) + Len(t) /\ p + 1 <= Len(s)
    BY <1>1
  <2> QED BY <1>2, <2>1 DEF At
<1>4. ASSUME NEW p \in 0..Len(t) - 1 PROVE At(s \o t, Len(s) + p) = At(t, p)
  <2>1. /\ Len(s) + p + 1 \in 1..Len(s) + Len(t)
        /\ ~(Len(s) + p + 1 <= Len(s)) /\ Len(s) + p + 1 - Len(s) = p + 1
    BY <1>1
  <2> QED BY <1>2, <2>1 DEF At
<1> QED BY <1>1, <1>2, <1>3, <1>4

LEMMA SameBytes ==
  ASSUME NEW s \in Seq(Byte), NEW t \in Seq(Byte), Len(s) = Len(t),
         \A p \in 0..Len(s) - 1 : At(s, p) = At(t, p)
  PROVE  s = t
<1>1. Len(s) \in Nat
  BY LenProperties
<1>2. ASSUME NEW i \in 1..Len(s) PROVE s[i] = t[i]
  <2>1. i - 1 \in 0..Len(s) - 1 /\ (i - 1) + 1 = i
    BY <1>1
  <2> QED BY <2>1 DEF At
<1> QED BY <1>2, SeqEqual

LEMMA ZerosType ==
  ASSUME NEW n \in Nat
  PROVE  /\ Zeros(n) \in Seq(Byte) /\ Len(Zeros(n)) = n
         /\ \A p \in 0..n - 1 : At(Zeros(n), p) = 0
<1>1. Zeros(n) \in [1..n -> Byte]
  BY DEF Zeros, Byte
<1>2. Zeros(n) \in Seq(Byte)
  BY <1>1, SeqDef
<1>3. DOMAIN Zeros(n) = 1..Len(Zeros(n)) /\ Len(Zeros(n)) \in Nat
  BY <1>2, LenProperties
<1>4. DOMAIN Zeros(n) = 1..n
  BY DEF Zeros
<1>5. PICK l \in Nat : l = Len(Zeros(n)) /\ 1..l = 1..n
  BY <1>3, <1>4
<1>6. l = n
  BY <1>5
<1>7. ASSUME NEW p \in 0..n - 1 PROVE At(Zeros(n), p) = 0
  BY DEF At, Zeros
<1> QED BY <1>2, <1>5, <1>6, <1>7

-----------------------------------------------------------------------------
(* Words.                                                                    *)

Limit == 256 * 16777216

LEMMA Digit ==
  ASSUME NEW n \in Nat
  PROVE  /\ n \div 256 \in Nat /\ n % 256 \in Byte
         /\ (n % 256) + 256 * (n \div 256) = n
BY SMTT(60) DEF Byte

LEMMA Digits ==
  ASSUME NEW n \in Nat, n < Limit
  PROVE  /\ n % 256 \in Byte /\ (n \div 256) % 256 \in Byte
         /\ (n \div 65536) % 256 \in Byte /\ n \div 16777216 \in Byte
         /\ (n % 256) + 256 * (((n \div 256) % 256) + 256 *
              (((n \div 65536) % 256) + 256 * (n \div 16777216))) = n
<1>1. PICK a \in Nat, x \in Byte :
        a = n \div 256 /\ x = n % 256 /\ x + 256 * a = n
  BY SMTT(60), Digit
<1>2. PICK b \in Nat, y \in Byte :
        b = a \div 256 /\ y = a % 256 /\ y + 256 * b = a
  BY SMTT(60), Digit
<1>3. PICK c \in Nat, z \in Byte :
        c = b \div 256 /\ z = b % 256 /\ z + 256 * c = b
  BY SMTT(60), Digit
<1>4. n \div 65536 = (n \div 256) \div 256
  BY SMTT(60)
<1>5. n \div 16777216 = ((n \div 256) \div 256) \div 256
  BY SMTT(60)
<1>6. n \div 16777216 \in Byte
  BY SMTT(60) DEF Limit, Byte
<1>7. x + 256 * (y + 256 * (z + 256 * c)) = n
  BY SMTT(60), <1>1, <1>2, <1>3
<1> QED BY SMTT(60), <1>1, <1>2, <1>3, <1>4, <1>5, <1>6, <1>7

LEMMA WordBytes ==
  ASSUME NEW endian \in {"little", "big"}, NEW n \in Nat, n < Limit
  PROVE  /\ ToU32(endian, n) \in Seq(Byte) /\ Len(ToU32(endian, n)) = 4
         /\ ReadU32(endian, ToU32(endian, n), 0) = n
<1>1. PICK x \in Byte, y \in Byte, z \in Byte, w \in Byte :
        /\ x = n % 256 /\ y = (n \div 256) % 256 /\ z = (n \div 65536) % 256
        /\ w = n \div 16777216
        /\ x + 256 * (y + 256 * (z + 256 * w)) = n
  BY SMTT(60), Digits
<1>2. ToU32(endian, n) = IF endian = "little" THEN <<x, y, z, w>>
                                              ELSE Reverse(<<x, y, z, w>>)
  BY SMTT(60), <1>1 DEF ToU32
<1>3. Reverse(<<x, y, z, w>>) = <<w, z, y, x>>
  BY SMTT(60) DEF Reverse
<1>4. CASE endian = "little"
  <2>1. ToU32(endian, n) = <<x, y, z, w>>
    BY SMTT(60), <1>2, <1>4
  <2>2. ReadU32(endian, <<x, y, z, w>>, 0) = x + 256 * (y + 256 * (z + 256 * w))
    BY SMTT(60), <1>4 DEF ReadU32, At
  <2> QED BY SMTT(60), <1>1, <2>1, <2>2
<1>5. CASE endian = "big"
  <2>1. ToU32(endian, n) = <<w, z, y, x>>
    BY SMTT(60), <1>2, <1>3, <1>5
  <2>2. ReadU32(endian, <<w, z, y, x>>, 0) = x + 256 * (y + 256 * (z + 256 * w))
    BY SMTT(60), <1>5 DEF ReadU32, At
  <2> QED BY SMTT(60), <1>1, <2>1, <2>2
<1> QED BY SMTT(60), <1>4, <1>5

-----------------------------------------------------------------------------
(* Alignment.                                                                *)

LEMMA AlignShift ==
  ASSUME NEW x \in Nat, NEW c \in Int, x + 8 * c >= 0, NEW a \in {1, 2, 4, 8}
  PROVE  AlignUp(x + 8 * c, a) = AlignUp(x, a) + 8 * c
BY DEF AlignUp

LEMMA AlignType ==
  ASSUME NEW x \in Nat, NEW a \in {1, 2, 4, 8}
  PROVE  AlignUp(x, a) \in Nat /\ x <= AlignUp(x, a) /\ AlignUp(x, a) < x + a
BY DEF AlignUp

LEMMA PaddingAligns ==
  ASSUME NEW x \in Nat
  PROVE  Padding(x) \in 0..7 /\ x + Padding(x) = AlignUp(x, 8)
BY DEF AlignUp, Padding

LEMMA AlignOfType == ASSUME NEW type PROVE AlignOf(type) \in {1, 2, 4, 8}
BY DEF AlignOf

-----------------------------------------------------------------------------
(* Laying bytes out anew.                                                    *)

\* The bytes from a to b of old are in new, by d further on.
Copied(new, old, a, b, d) == \A q \in a..b - 1 : At(new, q + d) = At(old, q)

LEMMA CopiedFront ==
  ASSUME NEW s \in Seq(Byte), NEW t \in Seq(Byte), NEW old,
         NEW a \in Nat, NEW b \in Nat, NEW d \in Int,
         0 <= a + d, b + d <= Len(s), Copied(s, old, a, b, d)
  PROVE  Copied(s \o t, old, a, b, d)
<1>1. \A p \in 0..Len(s) - 1 : At(s \o t, p) = At(s, p)
  BY JoinType
<1>2. Len(s) \in Nat
  BY LenProperties
<1>3. ASSUME NEW q \in a..b - 1 PROVE At(s \o t, q + d) = At(old, q)
  <2>1. q + d \in 0..Len(s) - 1
    BY <1>2
  <2> QED BY <1>1, <2>1 DEF Copied
<1> QED BY <1>3 DEF Copied

LEMMA CopiedBack ==
  ASSUME NEW s \in Seq(Byte), NEW t \in Seq(Byte)
  PROVE  Copied(s \o t, t, 0, Len(t), Len(s))
<1>1. \A p \in 0..Len(t) - 1 : At(s \o t, Len(s) + p) = At(t, p)
  BY JoinType
<1>2. Len(t) \in Nat /\ Len(s) \in Nat
  BY LenProperties
<1>3. ASSUME NEW q \in 0..Len(t) - 1 PROVE At(s \o t, q + Len(s)) = At(t, q)
  <2>1. q + Len(s) = Len(s) + q
    BY <1>2
  <2> QED BY <1>1, <2>1
<1> QED BY <1>3 DEF Copied

LEMMA CopiedSlice ==
  ASSUME NEW old \in Seq(Byte), NEW a \in Nat, NEW b \in Nat,
         a <= b, b <= Len(old)
  PROVE  Copied(Slice(old, a, b), old, a, b, 0 - a)
<1>1. \A p \in 0..b - a - 1 : At(Slice(old, a, b), p) = At(old, a + p)
  BY SliceType
<1>2. ASSUME NEW q \in a..b - 1
      PROVE  At(Slice(old, a, b), q + (0 - a)) = At(old, q)
  <2>1. q - a \in 0..b - a - 1 /\ q + (0 - a) = q - a /\ a + (q - a) = q
    OBVIOUS
  <2>2. At(Slice(old, a, b), q - a) = At(old, a + (q - a))
    BY <1>1, <2>1
  <2> QED BY <2>1, <2>2
<1> QED BY <1>2 DEF Copied

\* A message in parts, with where each part is.
Assembled(new, a, b, c, d, z, f, y, g) ==
  LET ab    == Len(a) + Len(b)
      abc   == ab + Len(c)
      after == abc + Len(d) + Len(z)
      from  == after + Len(f) + Len(y)
  IN  /\ new \in Seq(Byte) /\ Len(new) = from + Len(g)
      /\ Copied(new, a, 0, Len(a), 0) /\ Copied(new, b, 0, Len(b), Len(a))
      /\ Copied(new, c, 0, Len(c), ab) /\ Copied(new, d, 0, Len(d), abc)
      /\ Copied(new, f, 0, Len(f), after)
      /\ Copied(new, g, 0, Len(g), from)

LEMMA Parts ==
  ASSUME NEW a \in Seq(Byte), NEW b \in Seq(Byte), NEW c \in Seq(Byte),
         NEW d \in Seq(Byte), NEW z \in Seq(Byte), NEW f \in Seq(Byte),
         NEW y \in Seq(Byte), NEW g \in Seq(Byte)
  PROVE  Assembled(a \o b \o c \o d \o z \o f \o y \o g,
                   a, b, c, d, z, f, y, g)
<1>0. PICK la \in Nat, lb \in Nat, lc \in Nat, ld \in Nat, lz \in Nat,
           lf \in Nat, ly \in Nat, lg \in Nat :
        /\ la = Len(a) /\ lb = Len(b) /\ lc = Len(c) /\ ld = Len(d)
        /\ lz = Len(z) /\ lf = Len(f) /\ ly = Len(y) /\ lg = Len(g)
  BY LenProperties
<1>1. Copied(a, a, 0, la, 0)
  BY DEF Copied
<1>2. PICK s1 \in Seq(Byte) :
        /\ s1 = a \o b /\ Len(s1) = la + lb
        /\ Copied(s1, a, 0, la, 0)
        /\ Copied(s1, b, 0, lb, la)
  <2>1. /\ a \o b \in Seq(Byte)
        /\ Len(a \o b) = Len(a) + Len(b)
        /\ Copied(a \o b, b, 0, Len(b), Len(a))
    BY JoinType, CopiedBack
  <2>2. Copied(a \o b, a, 0, la, 0)
    <3>1. 0 <= 0 + (0) /\ la + (0) <= Len(a) /\ 0 \in Int
      BY <1>0, <1>1
    <3> QED BY <1>1, <3>1, CopiedFront
  <2> QED BY <1>0, <1>1, <2>1, <2>2
<1>3. PICK s2 \in Seq(Byte) :
        /\ s2 = s1 \o c /\ Len(s2) = la + lb + lc
        /\ Copied(s2, a, 0, la, 0)
        /\ Copied(s2, b, 0, lb, la)
        /\ Copied(s2, c, 0, lc, la + lb)
  <2>1. /\ s1 \o c \in Seq(Byte)
        /\ Len(s1 \o c) = Len(s1) + Len(c)
        /\ Copied(s1 \o c, c, 0, Len(c), Len(s1))
    BY JoinType, CopiedBack
  <2>2. Copied(s1 \o c, a, 0, la, 0)
    <3>1. 0 <= 0 + (0) /\ la + (0) <= Len(s1) /\ 0 \in Int
      BY <1>0, <1>2
    <3> QED BY <1>2, <3>1, CopiedFront
  <2>3. Copied(s1 \o c, b, 0, lb, la)
    <3>1. 0 <= 0 + (la) /\ lb + (la) <= Len(s1) /\ la \in Int
      BY <1>0, <1>2
    <3> QED BY <1>2, <3>1, CopiedFront
  <2> QED BY <1>0, <1>2, <2>1, <2>2, <2>3
<1>4. PICK s3 \in Seq(Byte) :
        /\ s3 = s2 \o d /\ Len(s3) = la + lb + lc + ld
        /\ Copied(s3, a, 0, la, 0)
        /\ Copied(s3, b, 0, lb, la)
        /\ Copied(s3, c, 0, lc, la + lb)
        /\ Copied(s3, d, 0, ld, la + lb + lc)
  <2>1. /\ s2 \o d \in Seq(Byte)
        /\ Len(s2 \o d) = Len(s2) + Len(d)
        /\ Copied(s2 \o d, d, 0, Len(d), Len(s2))
    BY JoinType, CopiedBack
  <2>2. Copied(s2 \o d, a, 0, la, 0)
    <3>1. 0 <= 0 + (0) /\ la + (0) <= Len(s2) /\ 0 \in Int
      BY <1>0, <1>3
    <3> QED BY <1>3, <3>1, CopiedFront
  <2>3. Copied(s2 \o d, b, 0, lb, la)
    <3>1. 0 <= 0 + (la) /\ lb + (la) <= Len(s2) /\ la \in Int
      BY <1>0, <1>3
    <3> QED BY <1>3, <3>1, CopiedFront
  <2>4. Copied(s2 \o d, c, 0, lc, la + lb)
    <3>1. 0 <= 0 + (la + lb) /\ lc + (la + lb) <= Len(s2) /\ la + lb \in Int
      BY <1>0, <1>3
    <3> QED BY <1>3, <3>1, CopiedFront
  <2> QED BY <1>0, <1>3, <2>1, <2>2, <2>3, <2>4
<1>5. PICK s4 \in Seq(Byte) :
        /\ s4 = s3 \o z /\ Len(s4) = la + lb + lc + ld + lz
        /\ Copied(s4, a, 0, la, 0)
        /\ Copied(s4, b, 0, lb, la)
        /\ Copied(s4, c, 0, lc, la + lb)
        /\ Copied(s4, d, 0, ld, la + lb + lc)
  <2>1. /\ s3 \o z \in Seq(Byte)
        /\ Len(s3 \o z) = Len(s3) + Len(z)
        /\ Copied(s3 \o z, z, 0, Len(z), Len(s3))
    BY JoinType, CopiedBack
  <2>2. Copied(s3 \o z, a, 0, la, 0)
    <3>1. 0 <= 0 + (0) /\ la + (0) <= Len(s3) /\ 0 \in Int
      BY <1>0, <1>4
    <3> QED BY <1>4, <3>1, CopiedFront
  <2>3. Copied(s3 \o z, b, 0, lb, la)
    <3>1. 0 <= 0 + (la) /\ lb + (la) <= Len(s3) /\ la \in Int
      BY <1>0, <1>4
    <3> QED BY <1>4, <3>1, CopiedFront
  <2>4. Copied(s3 \o z, c, 0, lc, la + lb)
    <3>1. 0 <= 0 + (la + lb) /\ lc + (la + lb) <= Len(s3) /\ la + lb \in Int
      BY <1>0, <1>4
    <3> QED BY <1>4, <3>1, CopiedFront
  <2>5. Copied(s3 \o z, d, 0, ld, la + lb + lc)
    <3>1. 0 <= 0 + (la + lb + lc) /\ ld + (la + lb + lc) <= Len(s3)
          /\ la + lb + lc \in Int
      BY <1>0, <1>4
    <3> QED BY <1>4, <3>1, CopiedFront
  <2> QED BY <1>0, <1>4, <2>1, <2>2, <2>3, <2>4, <2>5
<1>6. PICK s5 \in Seq(Byte) :
        /\ s5 = s4 \o f /\ Len(s5) = la + lb + lc + ld + lz + lf
        /\ Copied(s5, a, 0, la, 0)
        /\ Copied(s5, b, 0, lb, la)
        /\ Copied(s5, c, 0, lc, la + lb)
        /\ Copied(s5, d, 0, ld, la + lb + lc)
        /\ Copied(s5, f, 0, lf, la + lb + lc + ld + lz)
  <2>1. /\ s4 \o f \in Seq(Byte)
        /\ Len(s4 \o f) = Len(s4) + Len(f)
        /\ Copied(s4 \o f, f, 0, Len(f), Len(s4))
    BY JoinType, CopiedBack
  <2>2. Copied(s4 \o f, a, 0, la, 0)
    <3>1. 0 <= 0 + (0) /\ la + (0) <= Len(s4) /\ 0 \in Int
      BY <1>0, <1>5
    <3> QED BY <1>5, <3>1, CopiedFront
  <2>3. Copied(s4 \o f, b, 0, lb, la)
    <3>1. 0 <= 0 + (la) /\ lb + (la) <= Len(s4) /\ la \in Int
      BY <1>0, <1>5
    <3> QED BY <1>5, <3>1, CopiedFront
  <2>4. Copied(s4 \o f, c, 0, lc, la + lb)
    <3>1. 0 <= 0 + (la + lb) /\ lc + (la + lb) <= Len(s4) /\ la + lb \in Int
      BY SMTT(30), <1>0, <1>5
    <3> QED BY <1>5, <3>1, CopiedFront
  <2>5. Copied(s4 \o f, d, 0, ld, la + lb + lc)
    <3>1. 0 <= 0 + (la + lb + lc) /\ ld + (la + lb + lc) <= Len(s4)
          /\ la + lb + lc \in Int
      BY SMTT(60), <1>0, <1>5
    <3> QED BY <1>5, <3>1, CopiedFront
  <2> QED BY <1>0, <1>5, <2>1, <2>2, <2>3, <2>4, <2>5
<1>7. PICK s6 \in Seq(Byte) :
        /\ s6 = s5 \o y /\ Len(s6) = la + lb + lc + ld + lz + lf + ly
        /\ Copied(s6, a, 0, la, 0)
        /\ Copied(s6, b, 0, lb, la)
        /\ Copied(s6, c, 0, lc, la + lb)
        /\ Copied(s6, d, 0, ld, la + lb + lc)
        /\ Copied(s6, f, 0, lf, la + lb + lc + ld + lz)
  <2>1. /\ s5 \o y \in Seq(Byte)
        /\ Len(s5 \o y) = Len(s5) + Len(y)
        /\ Copied(s5 \o y, y, 0, Len(y), Len(s5))
    BY JoinType, CopiedBack
  <2>2. Copied(s5 \o y, a, 0, la, 0)
    <3>1. 0 <= 0 + (0) /\ la + (0) <= Len(s5) /\ 0 \in Int
      BY <1>0, <1>6
    <3> QED BY <1>6, <3>1, CopiedFront
  <2>3. Copied(s5 \o y, b, 0, lb, la)
    <3>1. 0 <= 0 + (la) /\ lb + (la) <= Len(s5) /\ la \in Int
      BY <1>0, <1>6
    <3> QED BY <1>6, <3>1, CopiedFront
  <2>4. Copied(s5 \o y, c, 0, lc, la + lb)
    <3>1. 0 <= 0 + (la + lb) /\ lc + (la + lb) <= Len(s5) /\ la + lb \in Int
      BY SMTT(60), <1>0, <1>6
    <3> QED BY <1>6, <3>1, CopiedFront
  <2>5. Copied(s5 \o y, d, 0, ld, la + lb + lc)
    <3>1. 0 <= 0 + (la + lb + lc) /\ ld + (la + lb + lc) <= Len(s5)
          /\ la + lb + lc \in Int
      BY SMTT(60), <1>0, <1>6
    <3> QED BY <1>6, <3>1, CopiedFront
  <2>6. Copied(s5 \o y, f, 0, lf, la + lb + lc + ld + lz)
    <3>1. 0 <= 0 + (la + lb + lc + ld + lz)
          /\ lf + (la + lb + lc + ld + lz) <= Len(s5) /\ la + lb + lc + ld + lz \in Int
      BY <1>0, <1>6
    <3> QED BY <1>6, <3>1, CopiedFront
  <2> QED BY <1>0, <1>6, <2>1, <2>2, <2>3, <2>4, <2>5, <2>6
<1>8. PICK s7 \in Seq(Byte) :
        /\ s7 = s6 \o g /\ Len(s7) = la + lb + lc + ld + lz + lf + ly + lg
        /\ Copied(s7, a, 0, la, 0)
        /\ Copied(s7, b, 0, lb, la)
        /\ Copied(s7, c, 0, lc, la + lb)
        /\ Copied(s7, d, 0, ld, la + lb + lc)
        /\ Copied(s7, f, 0, lf, la + lb + lc + ld + lz)
        /\ Copied(s7, g, 0, lg, la + lb + lc + ld + lz + lf + ly)
  <2>1. /\ s6 \o g \in Seq(Byte)
        /\ Len(s6 \o g) = Len(s6) + Len(g)
        /\ Copied(s6 \o g, g, 0, Len(g), Len(s6))
    BY JoinType, CopiedBack
  <2>2. Copied(s6 \o g, a, 0, la, 0)
    <3>1. 0 <= 0 + (0) /\ la + (0) <= Len(s6) /\ 0 \in Int
      BY <1>0, <1>7
    <3> QED BY <1>7, <3>1, CopiedFront
  <2>3. Copied(s6 \o g, b, 0, lb, la)
    <3>1. 0 <= 0 + (la) /\ lb + (la) <= Len(s6) /\ la \in Int
      BY <1>0, <1>7
    <3> QED BY <1>7, <3>1, CopiedFront
  <2>4. Copied(s6 \o g, c, 0, lc, la + lb)
    <3>1. 0 <= 0 + (la + lb) /\ lc + (la + lb) <= Len(s6) /\ la + lb \in Int
      BY SMTT(60), <1>0, <1>7
    <3> QED BY <1>7, <3>1, CopiedFront
  <2>5. Copied(s6 \o g, d, 0, ld, la + lb + lc)
    <3>1. 0 <= 0 + (la + lb + lc) /\ ld + (la + lb + lc) <= Len(s6)
          /\ la + lb + lc \in Int
      BY SMTT(60), <1>0, <1>7
    <3> QED BY <1>7, <3>1, CopiedFront
  <2>6. Copied(s6 \o g, f, 0, lf, la + lb + lc + ld + lz)
    <3>1. 0 <= 0 + (la + lb + lc + ld + lz)
          /\ lf + (la + lb + lc + ld + lz) <= Len(s6) /\ la + lb + lc + ld + lz \in Int
      BY SMTT(60), <1>0, <1>7
    <3> QED BY <1>7, <3>1, CopiedFront
  <2> QED BY <1>0, <1>7, <2>1, <2>2, <2>3, <2>4, <2>5, <2>6
<1>9. Assembled(s7, a, b, c, d, z, f, y, g)
  BY <1>0, <1>8 DEF Assembled
<1> QED BY <1>2, <1>3, <1>4, <1>5, <1>6, <1>7, <1>8, <1>9

\* The message with the bytes from v on replaced by data: the rest of the
\* fields and the body follow at their new places.
Layout(old, word, v, data, gap, next, to, pad, body) ==
  Slice(old, 0, 12) \o word \o Slice(old, 16, v) \o data \o Zeros(gap)
    \o Slice(old, next, to) \o Zeros(pad) \o Slice(old, body, Len(old))
IsWord(word) == word \in Seq(Byte) /\ Len(word) = 4

\* Where the bytes of such a message come from.
LaidOut(new, old, word, v, data, gap, next, to, pad, body) ==
  LET after == v + Len(data) + gap
      from  == after + (to - next) + pad
  IN  /\ new \in Seq(Byte) /\ Len(new) = from + (Len(old) - body)
      /\ Copied(new, old, 0, 12, 0) /\ Copied(new, word, 0, 4, 12)
      /\ Copied(new, old, 16, v, 0) /\ Copied(new, data, 0, Len(data), v)
      /\ Copied(new, old, next, to, after - next)
      /\ Copied(new, old, body, Len(old), from - body)

\* A slice that is copied comes from where it was cut.
LEMMA SliceCopied ==
  ASSUME NEW old \in Seq(Byte), NEW new, NEW a \in Nat, NEW b \in Nat,
         NEW f \in Nat, a <= b, b <= Len(old),
         Copied(new, Slice(old, a, b), 0, b - a, f)
  PROVE  Copied(new, old, a, b, f - a)
<1>1. Copied(Slice(old, a, b), old, a, b, 0 - a)
  BY CopiedSlice
<1>2. ASSUME NEW q \in a..b - 1 PROVE At(new, q + (f - a)) = At(old, q)
  <2>1. q + (0 - a) \in 0..(b - a) - 1 /\ (q + (0 - a)) + f = q + (f - a)
    OBVIOUS
  <2>2. At(new, (q + (0 - a)) + f) = At(Slice(old, a, b), q + (0 - a))
    BY <2>1 DEF Copied
  <2>3. At(Slice(old, a, b), q + (0 - a)) = At(old, q)
    BY <1>1 DEF Copied
  <2> QED BY <2>1, <2>2, <2>3
<1> QED BY <1>2 DEF Copied

LEMMA LayoutParts ==
  ASSUME NEW old \in Seq(Byte), NEW word, IsWord(word), NEW data \in Seq(Byte),
         NEW v \in Nat, NEW gap \in Nat, NEW next \in Nat, NEW to \in Nat,
         NEW pad \in Nat, NEW body \in Nat,
         16 <= v, v <= Len(old), next <= to, to <= Len(old), body <= Len(old)
  PROVE  LaidOut(Layout(old, word, v, data, gap, next, to, pad, body),
                 old, word, v, data, gap, next, to, pad, body)
<1>1. PICK n \in Nat, l \in Nat : n = Len(old) /\ l = Len(data)
  BY LenProperties
<1>2. /\ 0 \in Nat /\ 12 \in Nat /\ 0 <= 12
      /\ 12 <= Len(old) /\ 16 <= Len(old) /\ n <= Len(old) /\ body <= n
  BY <1>1
<1>3. PICK a \in Seq(Byte) : a = Slice(old, 0, 12) /\ Len(a) = 12 - 0
  BY <1>2, SliceType
<1>4. PICK c \in Seq(Byte) : c = Slice(old, 16, v) /\ Len(c) = v - 16
  BY <1>2, SliceType
<1>5. PICK f \in Seq(Byte) : f = Slice(old, next, to) /\ Len(f) = to - next
  BY <1>2, SliceType
<1>6. PICK g \in Seq(Byte) : g = Slice(old, body, n) /\ Len(g) = n - body
  BY <1>2, SliceType
<1>7. PICK z \in Seq(Byte), y \in Seq(Byte) :
        z = Zeros(gap) /\ Len(z) = gap /\ y = Zeros(pad) /\ Len(y) = pad
  BY ZerosType
<1>8. PICK b \in Seq(Byte) : b = word /\ Len(b) = 4
  BY DEF IsWord
<1>9. PICK new : /\ new = a \o b \o c \o data \o z \o f \o y \o g
                 /\ Assembled(new, a, b, c, data, z, f, y, g)
  <2>1. Assembled(a \o b \o c \o data \o z \o f \o y \o g,
                  a, b, c, data, z, f, y, g)
    BY ZenonT(30), Parts
  <2> QED BY <2>1
<1>10. new = Layout(old, word, v, data, gap, next, to, pad, body)
  BY <1>1, <1>3, <1>4, <1>5, <1>6, <1>7, <1>8, <1>9 DEF Layout
<1>11. PICK after \in Nat, from \in Nat, m \in Nat, k \in Nat :
         /\ m = to - next /\ k = n - body
         /\ after = v + l + gap /\ from = after + m + pad
  BY <1>2
<1>12. /\ 12 + 4 = 16 /\ 16 + (v - 16) = v /\ v + l + gap = after
       /\ after + m + pad = from
  BY <1>11
<1>13. /\ new \in Seq(Byte) /\ Len(new) = from + k
       /\ Copied(new, a, 0, 12, 0) /\ Copied(new, b, 0, 4, 12)
       /\ Copied(new, c, 0, v - 16, 16) /\ Copied(new, data, 0, l, v)
       /\ Copied(new, f, 0, m, after) /\ Copied(new, g, 0, k, from)
  <2>1. /\ Len(a) = 12 /\ Len(b) = 4 /\ Len(c) = v - 16 /\ Len(data) = l
        /\ Len(z) = gap /\ Len(f) = m /\ Len(y) = pad /\ Len(g) = k
    BY <1>1, <1>3, <1>4, <1>5, <1>6, <1>7, <1>8, <1>11
  <2> QED BY <1>9, <1>12, <2>1 DEF Assembled
<1>14. Copied(new, old, 0, 12, 0)
  <2>1. 12 - 0 = 12 /\ 0 - 0 = 0 /\ 0 <= 12
    OBVIOUS
  <2>2. Copied(new, Slice(old, 0, 12), 0, 12 - 0, 0)
    BY <1>3, <1>13, <2>1
  <2>3. Copied(new, old, 0, 12, 0 - 0)
    BY <1>2, <2>1, <2>2, SliceCopied
  <2> QED BY <2>1, <2>3
<1>15. Copied(new, old, 16, v, 0)
  <2>1. 16 - 16 = 0
    OBVIOUS
  <2>2. Copied(new, Slice(old, 16, v), 0, v - 16, 16)
    BY <1>4, <1>13
  <2>3. Copied(new, old, 16, v, 16 - 16)
    BY <1>2, <2>2, SliceCopied
  <2> QED BY <2>1, <2>3
<1>16. Copied(new, old, next, to, after - next)
  <2>1. Copied(new, Slice(old, next, to), 0, to - next, after)
    BY <1>5, <1>11, <1>13
  <2> QED BY <2>1, SliceCopied
<1>17. Copied(new, old, body, n, from - body)
  <2>1. Copied(new, Slice(old, body, n), 0, n - body, from)
    BY <1>6, <1>11, <1>13
  <2> QED BY <1>2, <2>1, SliceCopied
<1>18. /\ v + Len(data) + gap = after /\ after + (to - next) + pad = from
       /\ Len(old) = n /\ Len(data) = l /\ n - body = k
  BY <1>1, <1>11
<1>19. LaidOut(new, old, word, v, data, gap, next, to, pad, body)
  BY <1>8, <1>13, <1>14, <1>15, <1>16, <1>17, <1>18 DEF LaidOut
<1> QED
  BY <1>10, <1>19

\* What is copied is the same slice.
MovedTo(new, old, a, b, c, e) ==
  /\ new \in Seq(Byte) /\ old \in Seq(Byte)
  /\ a \in Nat /\ b \in Nat /\ c \in Nat /\ e \in Nat
  /\ a <= b /\ b <= Len(old) /\ c <= e /\ e <= Len(new)
  /\ e - c = b - a /\ Copied(new, old, a, b, c - a)

LEMMA SliceMoves ==
  ASSUME NEW old, NEW new, NEW a, NEW b, NEW c, NEW e,
         MovedTo(new, old, a, b, c, e)
  PROVE  Slice(new, c, e) = Slice(old, a, b)
<1>1. /\ new \in Seq(Byte) /\ old \in Seq(Byte)
      /\ a \in Nat /\ b \in Nat /\ c \in Nat /\ e \in Nat
      /\ a <= b /\ b <= Len(old) /\ c <= e /\ e <= Len(new)
      /\ e - c = b - a /\ Copied(new, old, a, b, c - a)
  BY DEF MovedTo
<1>2. PICK s \in Seq(Byte) :
        /\ s = Slice(new, c, e) /\ Len(s) = e - c
        /\ \A p \in 0..e - c - 1 : At(s, p) = At(new, c + p)
  BY <1>1, SliceType
<1>3. PICK t \in Seq(Byte) :
        /\ t = Slice(old, a, b) /\ Len(t) = b - a
        /\ \A p \in 0..b - a - 1 : At(t, p) = At(old, a + p)
  BY <1>1, SliceType
<1>4. ASSUME NEW p \in 0..e - c - 1 PROVE At(s, p) = At(t, p)
  <2>1. p \in 0..b - a - 1 /\ a + p \in a..b - 1 /\ (a + p) + (c - a) = c + p
    BY <1>1
  <2>2. At(new, (a + p) + (c - a)) = At(old, a + p)
    BY <1>1, <2>1 DEF Copied
  <2> QED BY <1>2, <1>3, <2>1, <2>2
<1>5. s = t
  <2>1. Len(s) = Len(t) /\ \A p \in 0..Len(s) - 1 : At(s, p) = At(t, p)
    BY <1>1, <1>2, <1>3, <1>4
  <2> QED BY <2>1, SameBytes
<1> QED BY <1>2, <1>3, <1>5

-----------------------------------------------------------------------------
(* Fields.                                                                   *)

\* What makes the bytes at p the beginning of a field.
Marshalled(bytes, p) ==
  /\ TypeAt(bytes, p) \in Basic \cup Chars({"a", "v"})
  /\ TypeAt(bytes, p) = Char.v => /\ At(bytes, ValueAt(bytes, p)) = 1
                                  /\ At(bytes, ValueAt(bytes, p) + 1) \in Basic
  /\ SigLen(bytes, p) = IF TypeAt(bytes, p) = Char.a THEN 2 ELSE 1
  /\ \A q \in p + SigLen(bytes, p) + 2..ValueAt(bytes, p) - 1 : At(bytes, q) = 0

LEMMA ValueBounds ==
  ASSUME NEW bytes, NEW p \in Nat, Marshalled(bytes, p)
  PROVE  /\ SigLen(bytes, p) \in {1, 2}
         /\ ValueAt(bytes, p) \in Nat
         /\ p + SigLen(bytes, p) + 3 <= ValueAt(bytes, p)
<1>1. SigLen(bytes, p) \in {1, 2}
  BY DEF Marshalled
<1>2. AlignOf(TypeAt(bytes, p)) \in {1, 2, 4, 8}
  BY AlignOfType
<1>3. PICK x \in Nat : x = p + SigLen(bytes, p) + 3
  BY <1>1
<1>4. PICK a \in {1, 2, 4, 8} : a = AlignOf(TypeAt(bytes, p))
  BY <1>2
<1>5. AlignUp(x, a) \in Nat /\ x <= AlignUp(x, a)
  BY AlignType
<1> QED BY <1>1, <1>3, <1>4, <1>5 DEF ValueAt

LEMMA StringEnd ==
  ASSUME NEW endian, NEW bytes, NEW p, NEW type \in Strings
  PROVE  EndOfBasic(endian, bytes, type, p) = p + 4 + ReadU32(endian, bytes, p) + 1
<1>1. /\ type # Char.g /\ type \notin Words /\ type \notin Halves
      /\ type \notin Longs
  BY Codes
<1> QED BY <1>1, Zenon DEF EndOfBasic

LEMMA BasicBounds ==
  ASSUME NEW endian, NEW bytes \in Seq(Byte), NEW p \in Nat, NEW type \in Basic,
         p + LengthSize(type) <= Len(bytes)
  PROVE  /\ EndOfBasic(endian, bytes, type, p) \in Nat
         /\ p + LengthSize(type) <= EndOfBasic(endian, bytes, type, p)
<1>1. Len(bytes) \in Nat
  BY LenProperties
<1>2. CASE type \in Strings
  <2>1. LengthSize(type) = 4 /\ p + 4 <= Len(bytes)
    BY <1>2 DEF LengthSize
  <2>2. PICK n \in Nat : n = ReadU32(endian, bytes, p)
    BY <2>1, WordType DEF Byte
  <2>3. EndOfBasic(endian, bytes, type, p) = p + 4 + n + 1
    <3>1. EndOfBasic(endian, bytes, type, p)
            = p + 4 + ReadU32(endian, bytes, p) + 1
      BY <1>2, StringEnd
    <3> QED BY <2>2, <3>1
  <2> QED BY <2>1, <2>3
<1>3. CASE type = Char.g
  <2>1. type \notin Strings /\ type # Char.a
    BY <1>3, Codes
  <2>2. LengthSize(type) = 1 /\ p < Len(bytes)
    BY <1>1, <1>3, <2>1 DEF LengthSize
  <2>3. PICK n \in Nat : n = At(bytes, p)
    BY <2>2, ByteType DEF Byte
  <2>4. EndOfBasic(endian, bytes, type, p) = p + 1 + n + 1
    BY <1>3, <2>1, <2>3, Codes DEF EndOfBasic
  <2> QED BY <2>2, <2>4
<1>4. CASE type \notin Strings /\ type # Char.g
  <2>1. type # Char.a
    BY Codes
  <2>2. LengthSize(type) = 0
    BY <1>4, <2>1 DEF LengthSize
  <2>3. \E n \in {1, 2, 4, 8} : EndOfBasic(endian, bytes, type, p) = p + n
    BY <1>4 DEF EndOfBasic
  <2> QED BY <2>2, <2>3
<1> QED BY <1>2, <1>3, <1>4

SameWord(endian, new, old, p, d) ==
  ReadU32(endian, new, p + d) = ReadU32(endian, old, p)

LEMMA WordCopied ==
  ASSUME NEW endian, NEW new, NEW old, NEW p \in Nat, NEW d \in Int,
         Copied(new, old, p, p + 4, d)
  PROVE  SameWord(endian, new, old, p, d)
<1>1. /\ p \in p..(p + 4) - 1 /\ p + 1 \in p..(p + 4) - 1
      /\ p + 2 \in p..(p + 4) - 1 /\ p + 3 \in p..(p + 4) - 1
      /\ (p + 1) + d = (p + d) + 1 /\ (p + 2) + d = (p + d) + 2
      /\ (p + 3) + d = (p + d) + 3
  OBVIOUS
<1>2. /\ At(new, p + d) = At(old, p) /\ At(new, (p + d) + 1) = At(old, p + 1)
      /\ At(new, (p + d) + 2) = At(old, p + 2)
      /\ At(new, (p + d) + 3) = At(old, p + 3)
  BY <1>1 DEF Copied
<1> QED BY <1>2 DEF ReadU32, SameWord

EndMoves(endian, new, old, type, p, d) ==
  EndOfBasic(endian, new, type, p + d) = EndOfBasic(endian, old, type, p) + d

LEMMA BasicMoves ==
  ASSUME NEW endian, NEW old \in Seq(Byte), NEW new, NEW p \in Nat,
         NEW d \in Int, NEW type \in Basic, p + LengthSize(type) <= Len(old),
         Copied(new, old, p, p + LengthSize(type), d)
  PROVE  EndMoves(endian, new, old, type, p, d)
<1>1. Len(old) \in Nat
  BY LenProperties
<1>2. CASE type \in Strings
  <2>1. LengthSize(type) = 4 /\ p + 4 <= Len(old)
    BY <1>2 DEF LengthSize
  <2>2. PICK n \in Nat : n = ReadU32(endian, old, p)
    BY <2>1, WordType DEF Byte
  <2>5. ReadU32(endian, new, p + d) = ReadU32(endian, old, p)
    <3>1. SameWord(endian, new, old, p, d)
      BY <2>1, WordCopied
    <3> QED BY <3>1 DEF SameWord
  <2>6. /\ EndOfBasic(endian, old, type, p) = p + 4 + n + 1
        /\ EndOfBasic(endian, new, type, p + d) = (p + d) + 4 + n + 1
    <3>1. /\ EndOfBasic(endian, old, type, p)
               = p + 4 + ReadU32(endian, old, p) + 1
          /\ EndOfBasic(endian, new, type, p + d)
               = (p + d) + 4 + ReadU32(endian, new, p + d) + 1
      BY <1>2, StringEnd
    <3> QED BY <2>2, <2>5, <3>1
  <2> QED BY <2>6 DEF EndMoves
<1>3. CASE type = Char.g
  <2>1. type \notin Strings /\ type # Char.a
    BY <1>3, Codes
  <2>2. LengthSize(type) = 1 /\ p < Len(old)
    BY <1>1, <1>3, <2>1 DEF LengthSize
  <2>3. PICK n \in Nat : n = At(old, p)
    BY SMTT(30), <2>2, ByteType DEF Byte
  <2>4. At(new, p + d) = n
    <3>1. p \in p..(p + 1) - 1
      OBVIOUS
    <3> QED BY <2>2, <2>3, <3>1 DEF Copied
  <2>5. /\ EndOfBasic(endian, old, type, p) = p + 1 + n + 1
        /\ EndOfBasic(endian, new, type, p + d) = (p + d) + 1 + n + 1
    BY <1>3, <2>1, <2>3, <2>4, Codes DEF EndOfBasic
  <2> QED BY <2>5 DEF EndMoves
<1>4. CASE type \notin Strings /\ type # Char.g
  BY <1>4 DEF EndOfBasic, EndMoves
<1> QED BY <1>2, <1>3, <1>4

\* The reading of a field ends within the field.
LEMMA FieldBounds ==
  ASSUME NEW endian, NEW bytes \in Seq(Byte), NEW p \in Nat,
         Marshalled(bytes, p), LengthEnd(bytes, p) <= Len(bytes)
  PROVE  /\ LengthEnd(bytes, p) \in Nat /\ FieldEnd(endian, bytes, p) \in Nat
         /\ ValueAt(bytes, p) <= LengthEnd(bytes, p)
         /\ LengthEnd(bytes, p) <= FieldEnd(endian, bytes, p)
<1>1. PICK v \in Nat : v = ValueAt(bytes, p)
  BY ValueBounds
<1>2. PICK type : type = TypeAt(bytes, p)
  OBVIOUS
<1>3. type \in Basic \/ type = Char.a \/ type = Char.v
  BY <1>2, Codes DEF Marshalled
<1>4. CASE type \in Basic
  <2>1. type # Char.a /\ type # Char.v
    BY <1>4, Codes
  <2>2. LengthEnd(bytes, p) = v + LengthSize(type)
    BY <1>1, <1>2, <2>1 DEF LengthEnd
  <2>3. LengthSize(type) \in Nat
    BY DEF LengthSize
  <2>4. FieldEnd(endian, bytes, p) = EndOfBasic(endian, bytes, type, v)
    BY <1>1, <1>2, <2>1 DEF FieldEnd
  <2>5. v + LengthSize(type) <= Len(bytes)
    BY <2>2
  <2>6. /\ EndOfBasic(endian, bytes, type, v) \in Nat
        /\ v + LengthSize(type) <= EndOfBasic(endian, bytes, type, v)
    BY <1>4, <2>5, BasicBounds
  <2> QED BY <1>1, <2>2, <2>3, <2>4, <2>6
<1>5. CASE type = Char.a
  <2>1. type # Char.v
    BY <1>5, Codes
  <2>2. LengthEnd(bytes, p) = v + 4
    BY <1>1, <1>2, <1>5, <2>1 DEF LengthEnd, LengthSize
  <2>3. v + 4 <= Len(bytes)
    BY <2>2
  <2>4. PICK n \in Nat : n = ReadU32(endian, bytes, v)
    BY <2>3, WordType DEF Byte
  <2>5. FieldEnd(endian, bytes, p) = v + 4 + n
    BY <1>1, <1>2, <1>5, <2>4, Codes DEF FieldEnd
  <2> QED BY <1>1, <2>2, <2>4, <2>5
<1>6. CASE type = Char.v
  <2>1. type # Char.a
    BY <1>6, Codes
  <2>2. PICK inner \in Basic : inner = At(bytes, v + 1)
    BY <1>1, <1>2, <1>6 DEF Marshalled
  <2>3. PICK a \in {1, 2, 4, 8} : a = AlignOf(inner)
    BY AlignOfType
  <2>4. PICK x \in Nat : x = v + 3
    OBVIOUS
  <2>5. PICK w \in Nat : w = AlignUp(x, a) /\ x <= w
    BY AlignType
  <2>6. LengthEnd(bytes, p) = w + LengthSize(inner)
    BY <1>1, <1>2, <1>6, <2>2, <2>3, <2>4, <2>5 DEF LengthEnd
  <2>7. FieldEnd(endian, bytes, p) = EndOfBasic(endian, bytes, inner, w)
    BY <1>1, <1>2, <1>6, <2>1, <2>2, <2>3, <2>4, <2>5 DEF FieldEnd, EndOfVariant
  <2>8. w + LengthSize(inner) <= Len(bytes)
    BY <2>6
  <2>9. /\ EndOfBasic(endian, bytes, inner, w) \in Nat
        /\ w + LengthSize(inner) <= EndOfBasic(endian, bytes, inner, w)
    BY <2>8, BasicBounds
  <2>10. LengthSize(inner) \in Nat
    BY DEF LengthSize
  <2> QED BY SMTT(40), <1>1, <2>4, <2>5, <2>6, <2>7, <2>9, <2>10
<1> QED BY <1>3, <1>4, <1>5, <1>6

\* A place at a multiple of eight, or a distance of so much.
Aligned(x) == \E k \in Int : x = 8 * k

LEMMA AlignMoves ==
  ASSUME NEW x \in Nat, NEW d \in Int, Aligned(d), x + d \in Nat,
         NEW a \in {1, 2, 4, 8}
  PROVE  AlignUp(x + d, a) = AlignUp(x, a) + d
<1>1. PICK c \in Int : d = 8 * c
  BY DEF Aligned
<1>2. x + 8 * c >= 0
  BY <1>1
<1>3. AlignUp(x + 8 * c, a) = AlignUp(x, a) + 8 * c
  BY <1>2, AlignShift
<1> QED BY <1>1, <1>3

\* The field at p of old is in new, by d further on.
SameHead(new, old, p, d) ==
  /\ At(new, p + d) = At(old, p)
  /\ TypeAt(new, p + d) = TypeAt(old, p) /\ SigLen(new, p + d) = SigLen(old, p)
  /\ ValueAt(new, p + d) = ValueAt(old, p) + d
  /\ TypeAt(old, p) # Char.v => Marshalled(new, p + d)
SameField(endian, new, old, p, d) ==
  /\ SameHead(new, old, p, d) /\ Marshalled(new, p + d)
  /\ LengthEnd(new, p + d) = LengthEnd(old, p) + d
  /\ FieldEnd(endian, new, p + d) = FieldEnd(endian, old, p) + d

\* What comes before the value, moved by a multiple of eight.
LEMMA HeadMoves ==
  ASSUME NEW old, NEW new, NEW p \in Nat, NEW d \in Int, Aligned(d),
         p + d \in Nat, Marshalled(old, p),
         Copied(new, old, p, ValueAt(old, p), d)
  PROVE  SameHead(new, old, p, d)
<1>1. PICK v \in Nat, l \in {1, 2} :
        v = ValueAt(old, p) /\ l = SigLen(old, p) /\ p + l + 3 <= v
  BY ValueBounds
<1>2. /\ At(new, p + d) = At(old, p) /\ At(new, (p + d) + 1) = At(old, p + 1)
      /\ At(new, (p + d) + 2) = At(old, p + 2)
  <2>1. /\ p \in p..v - 1 /\ p + 1 \in p..v - 1 /\ p + 2 \in p..v - 1
        /\ (p + 1) + d = (p + d) + 1 /\ (p + 2) + d = (p + d) + 2
    BY <1>1
  <2> QED BY <1>1, <2>1 DEF Copied
<1>3. TypeAt(new, p + d) = TypeAt(old, p) /\ SigLen(new, p + d) = l
  BY <1>1, <1>2 DEF TypeAt, SigLen
<1>4. ValueAt(new, p + d) = v + d
  <2>1. PICK a \in {1, 2, 4, 8} : a = AlignOf(TypeAt(old, p))
    BY AlignOfType
  <2>2. PICK x \in Nat : x = p + l + 3 /\ x + d \in Nat /\ x + d = (p + d) + l + 3
    BY <1>1
  <2>3. AlignUp(x + d, a) = AlignUp(x, a) + d
    BY <2>2, AlignMoves
  <2> QED BY <1>1, <1>3, <2>1, <2>2, <2>3 DEF ValueAt
<1>5. ASSUME NEW q \in (p + d) + l + 2..(v + d) - 1 PROVE At(new, q) = 0
  <2>1. q - d \in p + l + 2..v - 1 /\ q - d \in p..v - 1 /\ (q - d) + d = q
    BY <1>1
  <2>2. At(old, q - d) = 0
    BY <1>1, <2>1 DEF Marshalled
  <2>3. At(new, (q - d) + d) = At(old, q - d)
    BY <1>1, <2>1 DEF Copied
  <2> QED BY <2>1, <2>2, <2>3
<1>6. TypeAt(old, p) # Char.v => Marshalled(new, p + d)
  BY <1>1, <1>3, <1>4, <1>5 DEF Marshalled
<1> QED BY <1>1, <1>2, <1>3, <1>4, <1>6 DEF SameHead

LEMMA FieldMoves ==
  ASSUME NEW endian, NEW old \in Seq(Byte), NEW new, NEW p \in Nat,
         NEW d \in Int, Aligned(d), p + d \in Nat, Marshalled(old, p),
         LengthEnd(old, p) <= Len(old),
         Copied(new, old, p, LengthEnd(old, p), d)
  PROVE  SameField(endian, new, old, p, d)
<1>1. PICK v \in Nat, e \in Nat :
        v = ValueAt(old, p) /\ e = LengthEnd(old, p) /\ p <= v /\ v <= e
  <2>1. ValueAt(old, p) \in Nat /\ p <= ValueAt(old, p)
    BY ValueBounds
  <2>2. LengthEnd(old, p) \in Nat /\ ValueAt(old, p) <= LengthEnd(old, p)
    BY FieldBounds
  <2> QED BY <2>1, <2>2
<1>2. ASSUME NEW a \in Nat, NEW b \in Nat, p <= a, b <= e
      PROVE  Copied(new, old, a, b, d)
  <2>1. a..b - 1 \subseteq p..e - 1
    BY <1>2
  <2> QED BY <1>1, <2>1 DEF Copied
<1>3. SameHead(new, old, p, d)
  <2>1. Copied(new, old, p, v, d)
    BY <1>1, <1>2
  <2> QED BY <1>1, <2>1, HeadMoves
<1>4. PICK type : type = TypeAt(old, p) /\ type = TypeAt(new, p + d)
                  /\ ValueAt(new, p + d) = v + d
  BY <1>1, <1>3 DEF SameHead
<1>5. type \in Basic \/ type = Char.a \/ type = Char.v
  BY SMTT(30), <1>4, Codes DEF Marshalled
<1>6. v + d \in Nat
  BY <1>1
<1>7. CASE type \in Basic
  <2>1. type # Char.a /\ type # Char.v
    BY <1>7, Codes
  <2>2. PICK s \in Nat : s = LengthSize(type) /\ v + s \in Nat
    BY DEF LengthSize
  <2>3. e = v + s /\ LengthEnd(new, p + d) = (v + d) + s
    BY <1>1, <1>4, <2>1, <2>2 DEF LengthEnd
  <2>4. /\ FieldEnd(endian, old, p) = EndOfBasic(endian, old, type, v)
        /\ FieldEnd(endian, new, p + d) = EndOfBasic(endian, new, type, v + d)
    BY <1>1, <1>4, <2>1 DEF FieldEnd
  <2>5. Copied(new, old, v, v + s, d) /\ v + s <= Len(old)
    BY SMTT(40), <1>1, <1>2, <2>2, <2>3
  <2>6. EndOfBasic(endian, new, type, v + d) = EndOfBasic(endian, old, type, v) + d
    <3>1. /\ Copied(new, old, v, v + LengthSize(type), d)
          /\ v + LengthSize(type) <= Len(old)
      BY <2>2, <2>5
    <3>2. v \in Nat /\ d \in Int /\ old \in Seq(Byte)
      OBVIOUS
    <3>3. EndMoves(endian, new, old, type, v, d)
      BY <1>7, <3>1, <3>2, BasicMoves
    <3> QED BY <3>3 DEF EndMoves
  <2>7. Marshalled(new, p + d)
    BY <1>3, <1>4, <2>1 DEF SameHead
  <2>8. LengthEnd(new, p + d) = LengthEnd(old, p) + d
    BY <1>1, <2>2, <2>3
  <2> QED BY <1>3, <2>4, <2>6, <2>7, <2>8 DEF SameField
<1>8. CASE type = Char.a
  <2>1. type # Char.v
    BY <1>8, Codes
  <2>2. e = v + 4 /\ LengthEnd(new, p + d) = (v + d) + 4
    BY <1>1, <1>4, <1>8, <2>1 DEF LengthEnd, LengthSize
  <2>3. v + 4 <= Len(old) /\ Copied(new, old, v, v + 4, d)
    BY <1>1, <1>2, <2>2
  <2>4. PICK n \in Nat : n = ReadU32(endian, old, v)
                         /\ n = ReadU32(endian, new, v + d)
    <3>1. ReadU32(endian, old, v) \in Nat
      BY <2>3, WordType DEF Byte
    <3>2. ReadU32(endian, new, v + d) = ReadU32(endian, old, v)
      <4>1. SameWord(endian, new, old, v, d)
        BY <2>3, WordCopied
      <4> QED BY <4>1 DEF SameWord
    <3> QED BY <3>1, <3>2
  <2>5. /\ FieldEnd(endian, old, p) = v + 4 + n
        /\ FieldEnd(endian, new, p + d) = (v + d) + 4 + n
    BY <1>1, <1>4, <1>8, <2>4, Codes DEF FieldEnd
  <2>6. Marshalled(new, p + d)
    BY <1>3, <1>4, <2>1 DEF SameHead
  <2>7. /\ LengthEnd(new, p + d) = LengthEnd(old, p) + d
        /\ FieldEnd(endian, new, p + d) = FieldEnd(endian, old, p) + d
    <3>1. (v + d) + 4 = (v + 4) + d /\ (v + d) + 4 + n = (v + 4 + n) + d
      OBVIOUS
    <3> QED BY <1>1, <2>2, <2>5, <3>1
  <2> QED BY <1>3, <2>6, <2>7 DEF SameField
<1>9. CASE type = Char.v
  <2>1. type # Char.a
    BY <1>9, Codes
  <2>2. PICK inner \in Basic : inner = At(old, v + 1) /\ At(old, v) = 1
    BY <1>1, <1>4, <1>9 DEF Marshalled
  <2>3. PICK a \in {1, 2, 4, 8} : a = AlignOf(inner)
    BY AlignOfType
  <2>4. PICK x \in Nat : x = v + 3 /\ x + d \in Nat /\ x + d = (v + d) + 3
    BY <1>6
  <2>5. PICK w \in Nat : w = AlignUp(x, a) /\ x <= w
    BY AlignType
  <2>6. AlignUp(x + d, a) = w + d
    BY <2>4, <2>5, AlignMoves
  <2>7. PICK s \in Nat : s = LengthSize(inner)
    BY DEF LengthSize
  <2>8. e = w + s
    BY <1>1, <1>4, <1>9, <2>2, <2>3, <2>4, <2>5, <2>7 DEF LengthEnd
  <2>16. v + 3 <= w /\ w + s = e /\ w + s \in Nat /\ v \in Nat /\ w \in Nat
    BY <2>4, <2>5, <2>7, <2>8
  <2>9. At(new, v + d) = 1 /\ At(new, (v + d) + 1) = inner
    <3>1. v \in p..e - 1 /\ v + 1 \in p..e - 1 /\ (v + 1) + d = (v + d) + 1
      BY SMTT(40), <1>1, <2>16
    <3> QED BY <1>1, <2>2, <3>1 DEF Copied
  <2>10. LengthEnd(new, p + d) = (w + d) + s
    BY <1>4, <1>9, <2>3, <2>4, <2>6, <2>7, <2>9 DEF LengthEnd
  <2>11. /\ FieldEnd(endian, old, p) = EndOfBasic(endian, old, inner, w)
         /\ FieldEnd(endian, new, p + d) = EndOfBasic(endian, new, inner, w + d)
    BY <1>1, <1>4, <1>9, <2>1, <2>2, <2>3, <2>4, <2>5, <2>6, <2>9
       DEF FieldEnd, EndOfVariant
  <2>12. w + s <= Len(old) /\ Copied(new, old, w, w + s, d)
    <3>1. p <= w /\ w + s <= e /\ w + s \in Nat /\ e <= Len(old)
      BY <1>1, <2>16
    <3> QED BY <1>2, <2>8, <3>1
  <2>13. EndOfBasic(endian, new, inner, w + d) = EndOfBasic(endian, old, inner, w) + d
    <3>1. /\ Copied(new, old, w, w + LengthSize(inner), d)
          /\ w + LengthSize(inner) <= Len(old)
      BY <2>7, <2>12
    <3>2. w \in Nat /\ d \in Int /\ old \in Seq(Byte) /\ inner \in Basic
      OBVIOUS
    <3>3. EndMoves(endian, new, old, inner, w, d)
      BY <3>1, <3>2, BasicMoves
    <3> QED BY <3>3 DEF EndMoves
  <2>14. LengthEnd(new, p + d) = LengthEnd(old, p) + d
    BY <1>1, <2>8, <2>10
  <2>15. Marshalled(new, p + d)
    <3>1. /\ TypeAt(new, p + d) = type /\ SigLen(new, p + d) = SigLen(old, p)
          /\ ValueAt(new, p + d) = v + d
      BY <1>3, <1>4 DEF SameHead
    <3>2. SigLen(old, p) = 1 /\ type \in Basic \cup Chars({"a", "v"})
      BY <1>4, <2>1 DEF Marshalled
    <3>3. ASSUME NEW q \in (p + d) + 1 + 2..(v + d) - 1 PROVE At(new, q) = 0
      <4>1. q - d \in p + 1 + 2..v - 1 /\ q - d \in p..e - 1 /\ (q - d) + d = q
        BY <1>1
      <4>2. At(old, q - d) = 0
        BY <1>1, <3>2, <4>1 DEF Marshalled
      <4>3. At(new, (q - d) + d) = At(old, q - d)
        BY <1>1, <4>1 DEF Copied
      <4> QED BY <4>1, <4>2, <4>3
    <3> QED BY <2>1, <2>2, <2>9, <3>1, <3>2, <3>3 DEF Marshalled
  <2> QED BY <1>3, <2>11, <2>13, <2>14, <2>15 DEF SameField
<1> QED BY <1>5, <1>7, <1>8, <1>9

-----------------------------------------------------------------------------
(* Messages.                                                                 *)

LEMMA Formed ==
  ASSUME NEW m, WellFormed(m)
  PROVE  /\ m.raw \in Seq(Byte) /\ m.endian \in {"little", "big"}
         /\ m.at \in Seq(Nat) /\ Len(m.at) \in Nat /\ Len(m.raw) \in Nat
         /\ 16 <= Len(m.raw)
         /\ ReadU32(m.endian, m.raw, 12) \in Nat
         /\ ReadU32(m.endian, m.raw, 4) \in Nat
         /\ FieldsEnd(m.endian, m.raw) = EndOf(m, Len(m.at))
         /\ FieldsEnd(m.endian, m.raw) \in Nat
         /\ BodyStart(m.endian, m.raw) = AlignUp(FieldsEnd(m.endian, m.raw), 8)
         /\ BodyStart(m.endian, m.raw) \in Nat
         /\ FieldsEnd(m.endian, m.raw) <= BodyStart(m.endian, m.raw)
         /\ BodyStart(m.endian, m.raw) <= Len(m.raw)
         /\ Len(m.raw) = BodyStart(m.endian, m.raw) + ReadU32(m.endian, m.raw, 4)
<1>1. /\ m.raw \in Seq(Byte) /\ m.endian \in {"little", "big"}
      /\ m.at \in Seq(Nat) /\ 16 <= Len(m.raw)
      /\ FieldsEnd(m.endian, m.raw) = EndOf(m, Len(m.at))
      /\ Len(m.raw) = BodyStart(m.endian, m.raw) + ReadU32(m.endian, m.raw, 4)
  BY DEF WellFormed, Byte
<1>2. Len(m.at) \in Nat /\ Len(m.raw) \in Nat
  BY <1>1, LenProperties
<1>3. PICK a \in Nat, b \in Nat :
        a = ReadU32(m.endian, m.raw, 12) /\ b = ReadU32(m.endian, m.raw, 4)
  <2>1. 12 + 4 <= Len(m.raw) /\ 4 + 4 <= Len(m.raw) /\ 12 \in Nat /\ 4 \in Nat
    BY <1>1, <1>2
  <2> QED BY <1>1, <2>1, WordType DEF Byte
<1>4. FieldsEnd(m.endian, m.raw) = 16 + a
  BY <1>3 DEF FieldsEnd
<1>5. PICK f \in Nat : f = FieldsEnd(m.endian, m.raw)
  BY <1>4
<1>6. PICK p \in 0..7 : p = Padding(f) /\ f + p = AlignUp(f, 8)
  BY PaddingAligns
<1>7. BodyStart(m.endian, m.raw) = f + p
  BY <1>5, <1>6 DEF BodyStart
<1>8. f + p \in Nat /\ f <= f + p /\ f + p <= f + p + b
  OBVIOUS
<1> QED BY <1>1, <1>2, <1>3, <1>5, <1>6, <1>7, <1>8

\* A field of a message, with what lies in it.
Inside(m, i) ==
  /\ m.at[i] \in Nat /\ Marshalled(m.raw, m.at[i])
  /\ EndOf(m, i) = FieldEnd(m.endian, m.raw, m.at[i])
  /\ ValueAt(m.raw, m.at[i]) \in Nat /\ LengthEnd(m.raw, m.at[i]) \in Nat
  /\ EndOf(m, i) \in Nat
  /\ m.at[i] + 4 <= ValueAt(m.raw, m.at[i])
  /\ ValueAt(m.raw, m.at[i]) <= LengthEnd(m.raw, m.at[i])
  /\ LengthEnd(m.raw, m.at[i]) <= EndOf(m, i)
  /\ LengthEnd(m.raw, m.at[i]) <= Len(m.raw)
  /\ EndOf(m, i) <= EndOf(m, Len(m.at))

LEMMA LengthInt ==
  ASSUME NEW bytes, NEW p \in Nat, Marshalled(bytes, p)
  PROVE  LengthEnd(bytes, p) \in Int
<1>1. PICK v \in Nat, t \in {TypeAt(bytes, p)} :
        v = ValueAt(bytes, p) /\ t = TypeAt(bytes, p)
  BY ValueBounds
<1>2. PICK a \in {1, 2, 4, 8} : a = AlignOf(At(bytes, v + 1))
  BY AlignOfType
<1>3. PICK x \in Nat : x = v + 3
  OBVIOUS
<1>4. PICK w \in Nat : w = AlignUp(x, a)
  BY AlignType
<1>5. PICK b \in Nat, c \in Nat :
        b = LengthSize(At(bytes, v + 1)) /\ c = LengthSize(t)
  BY DEF LengthSize
<1>6. LengthEnd(bytes, p) = w + b \/ LengthEnd(bytes, p) = v + c
  BY <1>1, <1>2, <1>3, <1>4, <1>5 DEF LengthEnd
<1> QED BY <1>6

LEMMA FieldInside ==
  ASSUME NEW m, WellFormed(m), NEW i \in 1..Len(m.at)
  PROVE  Inside(m, i)
<1>1. FieldFormed(m, i)
  BY DEF WellFormed
<1>2. /\ m.at[i] \in Nat /\ Marshalled(m.raw, m.at[i])
      /\ LengthEnd(m.raw, m.at[i]) <= EndOf(m, Len(m.at))
      /\ EndOf(m, i) <= EndOf(m, Len(m.at))
  <2>1. m.at[i] \in Nat
    BY Formed, ElementOfSeq
  <2> QED BY <1>1, <2>1 DEF FieldFormed, Marshalled
<1>3. EndOf(m, i) = FieldEnd(m.endian, m.raw, m.at[i])
  BY Formed DEF EndOf
<1>4. PICK p \in Nat, old \in Seq(Byte), l \in Nat, e \in Nat :
        /\ p = m.at[i] /\ old = m.raw /\ l = Len(old)
        /\ e = EndOf(m, Len(m.at)) /\ e <= l
  <2>1. /\ m.raw \in Seq(Byte) /\ Len(m.raw) \in Nat
        /\ EndOf(m, Len(m.at)) \in Nat /\ EndOf(m, Len(m.at)) <= Len(m.raw)
    BY Formed
  <2> QED BY <1>2, <2>1
<1>5. PICK v \in Nat, k \in {1, 2} :
        v = ValueAt(old, p) /\ k = SigLen(old, p) /\ p + k + 3 <= v
  BY <1>2, <1>4, ValueBounds
<1>6. LengthEnd(old, p) \in Int
  BY <1>2, <1>4, LengthInt
<1>7. LengthEnd(old, p) <= l
  BY <1>2, <1>4, <1>6
<1>8. /\ LengthEnd(old, p) \in Nat /\ FieldEnd(m.endian, old, p) \in Nat
      /\ ValueAt(old, p) <= LengthEnd(old, p)
      /\ LengthEnd(old, p) <= FieldEnd(m.endian, old, p)
  BY <1>2, <1>4, <1>7, FieldBounds
<1>9. p + 4 <= v
  BY <1>5
<1> QED BY <1>2, <1>3, <1>4, <1>5, <1>7, <1>8, <1>9 DEF Inside

\* The ends of the fields, one after the other.
LEMMA EndsInOrder ==
  ASSUME NEW m, WellFormed(m)
  PROVE  /\ \A i \in 0..Len(m.at) : EndOf(m, i) \in Nat /\ 16 <= EndOf(m, i)
         /\ \A i, j \in 0..Len(m.at) : i <= j => EndOf(m, i) <= EndOf(m, j)
         /\ \A i \in 1..Len(m.at) :
              /\ m.at[i] = AlignUp(EndOf(m, i - 1), 8)
              /\ Aligned(m.at[i]) /\ EndOf(m, i - 1) <= m.at[i]
<1>1. PICK n \in Nat : n = Len(m.at)
  BY Formed
<1>2. EndOf(m, 0) = 16
  BY DEF EndOf
<1>3. ASSUME NEW i \in 1..n
      PROVE  /\ m.at[i] = AlignUp(EndOf(m, i - 1), 8)
             /\ m.at[i] \in Nat /\ EndOf(m, i) \in Nat /\ m.at[i] <= EndOf(m, i)
  <2>1. Inside(m, i) /\ FieldFormed(m, i)
    BY <1>1, FieldInside DEF WellFormed
  <2> QED BY <2>1 DEF Inside, FieldFormed
<1>4. ASSUME NEW i \in 0..n PROVE EndOf(m, i) \in Nat
  <2>1. i = 0 \/ i \in 1..n
    OBVIOUS
  <2> QED BY <1>2, <1>3, <2>1
<1>5. ASSUME NEW i \in 1..n
      PROVE  Aligned(m.at[i]) /\ EndOf(m, i - 1) <= m.at[i]
  <2>1. i - 1 \in 0..n
    OBVIOUS
  <2>2. PICK e \in Nat : e = EndOf(m, i - 1)
    BY <1>4, <2>1
  <2>3. PICK k \in Nat : AlignUp(e, 8) = 8 * k /\ e <= 8 * k
    BY Align
  <2> QED BY <1>3, <2>2, <2>3 DEF Aligned
<1>6. ASSUME NEW i \in 1..n, NEW j \in 1..n, i < j
      PROVE  EndOf(m, i) < EndOf(m, j)
  BY <1>1, <1>6 DEF WellFormed
<1>7. ASSUME NEW i \in 0..n PROVE 16 <= EndOf(m, i)
  <2>1. CASE i = 0
    BY <1>2, <2>1
  <2>2. CASE i # 0
    <3>1. 1 \in 1..n /\ i \in 1..n /\ 1 - 1 = 0 /\ (i = 1 \/ 1 < i)
      BY <2>2
    <3>2. 16 <= m.at[1]
      BY <1>2, <1>5, <3>1
    <3>3. 16 <= EndOf(m, 1)
      BY <1>3, <3>1, <3>2
    <3> QED BY <1>3, <1>6, <3>1, <3>3
  <2> QED BY <2>1, <2>2
<1>8. ASSUME NEW i \in 0..n, NEW j \in 0..n, i <= j
      PROVE  EndOf(m, i) <= EndOf(m, j)
  <2>1. \/ i = j \/ i = 0 \/ (i \in 1..n /\ j \in 1..n /\ i < j)
    BY <1>8
  <2> QED BY <1>2, <1>4, <1>6, <1>7, <1>8, <2>1
<1> QED BY <1>1, <1>3, <1>4, <1>5, <1>7, <1>8

\* A field begins after the fields before it.
LEMMA FieldsInOrder ==
  ASSUME NEW m, WellFormed(m), NEW i \in 0..Len(m.at), NEW j \in 1..Len(m.at),
         i < j
  PROVE  EndOf(m, i) <= m.at[j] /\ AlignUp(EndOf(m, i), 8) <= m.at[j]
<1>1. Len(m.at) \in Nat
  BY Formed
<1>2. i + 1 \in 1..Len(m.at) /\ j - 1 \in 0..Len(m.at) /\ i <= j - 1
      /\ (i + 1) - 1 = i
  BY <1>1
<1>3. /\ EndOf(m, i) <= EndOf(m, j - 1) /\ EndOf(m, j - 1) <= m.at[j]
      /\ m.at[i + 1] = AlignUp(EndOf(m, i), 8)
      /\ EndOf(m, i) \in Nat /\ EndOf(m, j - 1) \in Nat
  BY <1>2, EndsInOrder
<1>4. m.at[j] \in Nat /\ m.at[i + 1] \in Nat
  BY <1>2, FieldInside DEF Inside
<1>5. m.at[i + 1] <= m.at[j]
  <2>1. CASE j = i + 1
    BY <1>4, <2>1
  <2>2. CASE j # i + 1
    <3>1. i + 1 \in 0..Len(m.at) /\ i + 1 <= j - 1
      BY <1>1, <1>2, <2>2
    <3>2. EndOf(m, i + 1) <= EndOf(m, j - 1) /\ EndOf(m, i + 1) \in Nat
      BY <1>2, <3>1, EndsInOrder
    <3>3. m.at[i + 1] <= EndOf(m, i + 1)
      <4>1. Inside(m, i + 1)
        BY <1>2, FieldInside
      <4> QED BY <4>1 DEF Inside
    <3> QED BY SMTT(30), <1>3, <1>4, <3>2, <3>3
  <2> QED BY <2>1, <2>2
<1> QED BY <1>3, <1>4, <1>5

-----------------------------------------------------------------------------
(* A message laid out anew around one field.                                 *)

\* Where the j-th field ends once the i-th one ends at x and those after it
\* have moved by s.
NewEnd(m, i, s, x, j) ==
  IF j < i THEN EndOf(m, j) ELSE IF j = i THEN x ELSE EndOf(m, j) + s

\* The i-th field keeps its place and has another string for its value.  With
\* i beyond the fields, none of them changes.
Restrung(m, w, i, s, x) ==
  LET v == ValueAt(m.raw, m.at[i])
  IN  /\ TypeAt(m.raw, m.at[i]) \in Strings
      /\ Copied(w.raw, m.raw, m.at[i], v, 0)
      /\ ReadU32(w.endian, w.raw, v) \in Nat
      /\ x = v + 4 + ReadU32(w.endian, w.raw, v) + 1
      /\ Aligned(s) /\ s = AlignUp(x, 8) - AlignUp(EndOf(m, i), 8)
Relaid(m, w, i, s, x) ==
  /\ w = [raw |-> w.raw, endian |-> m.endian, at |-> w.at]
  /\ w.raw \in Seq(Byte) /\ w.endian = m.endian /\ 16 <= Len(w.raw)
  /\ w.at = [j \in 1..Len(m.at) |-> IF j <= i THEN m.at[j] ELSE m.at[j] + s]
  /\ FieldsEnd(w.endian, w.raw) = NewEnd(m, i, s, x, Len(m.at))
  /\ Len(w.raw) = BodyStart(w.endian, w.raw) + ReadU32(w.endian, w.raw, 4)
  /\ i <= Len(m.at) => Restrung(m, w, i, s, x)
  /\ \A j \in 1..Len(m.at) :
       /\ j < i => Copied(w.raw, m.raw, m.at[j], EndOf(m, j), 0)
       /\ i < j => Copied(w.raw, m.raw, m.at[j], EndOf(m, j), s)

\* What becomes of a field.
NewField(m, w, j, e) ==
  /\ w.at[j] \in Nat /\ Marshalled(w.raw, w.at[j])
  /\ FieldEnd(w.endian, w.raw, w.at[j]) = e
  /\ e \in Nat /\ LengthEnd(w.raw, w.at[j]) <= e /\ w.at[j] < e
  /\ At(w.raw, w.at[j]) = At(m.raw, m.at[j])

LEMMA FieldKept ==
  ASSUME NEW m, WellFormed(m), NEW w, w.endian = m.endian,
         NEW j \in 1..Len(m.at), NEW d \in Int, Aligned(d), m.at[j] + d \in Nat,
         w.at[j] = m.at[j] + d,
         Copied(w.raw, m.raw, m.at[j], EndOf(m, j), d)
  PROVE  NewField(m, w, j, EndOf(m, j) + d)
<1>1. Inside(m, j)
  BY FieldInside
<1>2. PICK old \in Seq(Byte), p \in Nat, e \in Nat, l \in Nat :
        /\ old = m.raw /\ p = m.at[j] /\ e = EndOf(m, j)
        /\ l = LengthEnd(old, p) /\ l <= e /\ p < l /\ l <= Len(old)
        /\ Marshalled(old, p) /\ e = FieldEnd(m.endian, old, p)
  <2>1. m.raw \in Seq(Byte)
    BY Formed
  <2> QED BY SMTT(40), <1>1, <2>1 DEF Inside
<1>3. PICK new, endian : new = w.raw /\ endian = m.endian /\ endian = w.endian
  OBVIOUS
<1>4. Copied(new, old, p, l, d)
  <2>1. p..l - 1 \subseteq p..e - 1
    BY <1>2
  <2> QED BY <1>2, <1>3, <2>1 DEF Copied
<1>5. p + d \in Nat /\ w.at[j] = p + d
  BY <1>2
<1>6. SameField(endian, new, old, p, d)
  BY <1>2, <1>4, <1>5, FieldMoves
<1>7. /\ At(new, p + d) = At(old, p) /\ Marshalled(new, p + d)
      /\ LengthEnd(new, p + d) = l + d /\ FieldEnd(endian, new, p + d) = e + d
  BY <1>2, <1>3, <1>6 DEF SameField, SameHead
<1>8. e + d \in Nat /\ l + d <= e + d /\ p + d < e + d
  BY SMTT(60), <1>2, <1>5
<1> QED BY <1>2, <1>3, <1>5, <1>7, <1>8 DEF NewField

LEMMA FieldRestrung ==
  ASSUME NEW m, WellFormed(m), NEW w, w.endian = m.endian,
         NEW i \in 1..Len(m.at), w.at[i] = m.at[i], NEW s, NEW x,
         Restrung(m, w, i, s, x)
  PROVE  NewField(m, w, i, x) /\ EndOf(m, i) \in Nat /\ m.at[i] < x
<1>1. Inside(m, i)
  BY FieldInside
<1>2. PICK old \in Seq(Byte), p \in Nat, v \in Nat :
        /\ old = m.raw /\ p = m.at[i] /\ v = ValueAt(old, p)
        /\ p + 4 <= v /\ Marshalled(old, p)
  <2>1. m.raw \in Seq(Byte)
    BY Formed
  <2> QED BY <1>1, <2>1 DEF Inside
<1>3. PICK new, endian : new = w.raw /\ endian = m.endian /\ endian = w.endian
  OBVIOUS
<1>4. PICK r \in Nat, d \in Int :
        /\ r = ReadU32(endian, new, v) /\ x = v + 4 + r + 1
        /\ d = 0 /\ p + d = p /\ v + d = v /\ Copied(new, old, p, v, d)
        /\ TypeAt(old, p) \in Strings
  <2>1. /\ Copied(new, old, p, v, 0) /\ ReadU32(endian, new, v) \in Nat
        /\ x = v + 4 + ReadU32(endian, new, v) + 1
        /\ TypeAt(old, p) \in Strings
    BY <1>2, <1>3 DEF Restrung
  <2>2. PICK d \in Int : d = 0
    OBVIOUS
  <2>3. p + d = p /\ v + d = v
    BY <2>2
  <2> QED BY <2>1, <2>2, <2>3
<1>5. Aligned(d) /\ p + d \in Nat
  <2>1. d = 8 * 0
    BY <1>4
  <2> QED BY <1>4, <2>1 DEF Aligned
<1>6. SameHead(new, old, p, d)
  BY <1>2, <1>4, <1>5, HeadMoves
<1>7. PICK type \in Strings :
        /\ type = TypeAt(old, p) /\ type # Char.a /\ type # Char.v
  BY <1>4, Codes
<1>8. /\ At(new, p) = At(old, p) /\ TypeAt(new, p) = type
      /\ ValueAt(new, p) = v /\ Marshalled(new, p)
  BY <1>2, <1>4, <1>6, <1>7 DEF SameHead
<1>9. LengthEnd(new, p) = v + 4
  BY <1>7, <1>8 DEF LengthEnd, LengthSize
<1>10. FieldEnd(endian, new, p) = v + 4 + r + 1
  <2>1. FieldEnd(endian, new, p) = EndOfBasic(endian, new, type, v)
    BY <1>7, <1>8 DEF FieldEnd
  <2>2. EndOfBasic(endian, new, type, v) = v + 4 + ReadU32(endian, new, v) + 1
    BY StringEnd
  <2> QED BY <1>4, <2>1, <2>2
<1>11. x \in Nat /\ v + 4 <= x /\ p < x
  <2>1. PICK y \in Nat : y = v + 4 + r + 1
    OBVIOUS
  <2>2. v + 4 <= y /\ p < y
    BY SMTT(60), <1>2, <2>1
  <2> QED BY <1>4, <2>1, <2>2
<1>12. w.at[i] = p
  BY <1>2
<1>13. NewField(m, w, i, x)
  BY <1>2, <1>3, <1>4, <1>8, <1>9, <1>10, <1>11, <1>12 DEF NewField
<1> QED BY <1>1, <1>2, <1>11, <1>13 DEF Inside

LEMMA RelaidFields ==
  ASSUME NEW m, WellFormed(m), NEW w, NEW i \in Nat \ {0}, NEW s \in Int, NEW x,
         Relaid(m, w, i, s, x), NEW j \in 1..Len(m.at)
  PROVE  /\ NewField(m, w, j, NewEnd(m, i, s, x, j))
         /\ j <= i => w.at[j] = m.at[j]
         /\ i < j => w.at[j] = m.at[j] + s
<1>1. Len(m.at) \in Nat /\ w.endian = m.endian
  BY Formed DEF Relaid
<1>2. m.at[j] \in Nat /\ EndOf(m, j) \in Nat
  BY FieldInside DEF Inside
<1>3. CASE j < i
  <2>1. w.at[j] = m.at[j]
    BY <1>1, <1>3 DEF Relaid
  <2>2. PICK d \in Int : /\ d = 0 /\ Aligned(d) /\ m.at[j] + d = m.at[j]
                         /\ EndOf(m, j) + d = EndOf(m, j)
    <3>1. 0 = 8 * 0
      OBVIOUS
    <3> QED BY <1>2, <3>1 DEF Aligned
  <2>3. Copied(w.raw, m.raw, m.at[j], EndOf(m, j), d)
    BY <1>3, <2>2 DEF Relaid
  <2>4. Aligned(d) /\ m.at[j] + d \in Nat /\ w.at[j] = m.at[j] + d
    BY <1>2, <2>1, <2>2
  <2>5. NewField(m, w, j, EndOf(m, j) + d)
    BY <1>1, <2>3, <2>4, FieldKept
  <2> QED BY <1>3, <2>1, <2>2, <2>5 DEF NewEnd
<1>4. CASE j = i
  <2>1. w.at[j] = m.at[j]
    BY <1>1, <1>4 DEF Relaid
  <2>2. Restrung(m, w, j, s, x)
    BY <1>1, <1>4 DEF Relaid
  <2>3. NewField(m, w, j, x)
    BY <1>1, <2>1, <2>2, FieldRestrung
  <2> QED BY <1>4, <2>1, <2>3 DEF NewEnd
<1>5. CASE i < j
  <2>1. w.at[j] = m.at[j] + s
    BY <1>1, <1>5 DEF Relaid
  <2>2. i \in 1..Len(m.at) /\ i \in 0..Len(m.at)
    BY <1>1, <1>5
  <2>3. Restrung(m, w, i, s, x) /\ w.at[i] = m.at[i]
    BY <1>1, <2>2 DEF Relaid
  <2>4. PICK y \in Nat, b \in Nat : y = x /\ b = EndOf(m, i)
    BY <1>1, <2>2, <2>3, FieldRestrung DEF NewField
  <2>5. /\ Aligned(s) /\ s = AlignUp(y, 8) - AlignUp(b, 8)
        /\ AlignUp(y, 8) \in Nat /\ AlignUp(b, 8) \in Nat
    BY <2>3, <2>4, AlignType DEF Restrung
  <2>6. AlignUp(b, 8) <= m.at[j]
    BY <1>5, <2>2, <2>4, FieldsInOrder
  <2>7. m.at[j] + s \in Nat
    BY SMTT(60), <1>2, <2>5, <2>6
  <2>8. Copied(w.raw, m.raw, m.at[j], EndOf(m, j), s)
    BY <1>5 DEF Relaid
  <2>9. NewField(m, w, j, EndOf(m, j) + s)
    BY <1>1, <2>1, <2>5, <2>7, <2>8, FieldKept
  <2>10. ~(j < i) /\ j # i /\ ~(j <= i)
    BY <1>5
  <2> QED BY <1>5, <2>1, <2>9, <2>10 DEF NewEnd
<1> QED BY <1>1, <1>3, <1>4, <1>5

LEMMA FunctionLen ==
  ASSUME NEW n \in Nat, NEW S, NEW f \in [1..n -> S]
  PROVE  f \in Seq(S) /\ Len(f) = n
<1>1. f \in Seq(S)
  BY SeqDef
<1>2. PICK l \in Nat : l = Len(f) /\ DOMAIN f = 1..l
  BY <1>1, LenProperties
<1>3. 1..l = 1..n
  BY <1>2
<1>4. l = n
  BY <1>3
<1> QED BY <1>1, <1>2, <1>4

\* The new fields are one after the other.
LEMMA RelaidOrder ==
  ASSUME NEW m, WellFormed(m), NEW w, NEW i \in Nat \ {0}, NEW s \in Int, NEW x,
         Relaid(m, w, i, s, x), NEW a \in 1..Len(m.at), NEW b \in 1..Len(m.at),
         a < b
  PROVE  NewEnd(m, i, s, x, a) <= w.at[b]
<1>1. Len(m.at) \in Nat /\ w.endian = m.endian
  BY Formed DEF Relaid
<1>2. PICK pb \in Nat, ea \in Nat :
        pb = m.at[b] /\ ea = EndOf(m, a) /\ ea <= pb
  <2>1. Inside(m, a) /\ Inside(m, b) /\ a \in 0..Len(m.at)
    BY <1>1, FieldInside
  <2>2. EndOf(m, a) <= m.at[b]
    BY <2>1, FieldsInOrder
  <2> QED BY <2>1, <2>2 DEF Inside
<1>3. CASE b <= i
  <2>1. w.at[b] = pb
    BY <1>2, <1>3, RelaidFields
  <2>2. NewEnd(m, i, s, x, a) = ea
    BY <1>2, <1>3 DEF NewEnd
  <2> QED BY <1>2, <2>1, <2>2
<1>4. CASE i < b
  <2>1. w.at[b] = pb + s
    <3>1. w.at[b] = m.at[b] + s
      BY <1>1, <1>4 DEF Relaid
    <3> QED BY <1>2, <3>1
  <2>2. i \in 1..Len(m.at) /\ i \in 0..Len(m.at) /\ i <= Len(m.at)
    BY <1>1, <1>4
  <2>3. Restrung(m, w, i, s, x) /\ w.at[i] = m.at[i]
    BY <1>1, <2>2 DEF Relaid
  <2>4. PICK y \in Nat, e \in Nat, p \in Nat :
          y = x /\ e = EndOf(m, i) /\ p = m.at[i] /\ p < y
    <3>1. NewField(m, w, i, x) /\ EndOf(m, i) \in Nat /\ m.at[i] < x
      BY <1>1, <2>2, <2>3, FieldRestrung
    <3> QED BY <2>2, <3>1, FieldInside DEF NewField, Inside
  <2>5. PICK u \in Nat, z \in Nat :
          u = AlignUp(y, 8) /\ z = AlignUp(e, 8) /\ y <= u
    BY AlignType
  <2>6. s = u - z
    BY <2>3, <2>4, <2>5 DEF Restrung
  <2>7. z <= pb
    BY <1>2, <1>4, <2>2, <2>4, <2>5, FieldsInOrder
  <2>8. y <= pb + s
    BY <2>5, <2>6, <2>7
  <2>9. CASE a < i
    <3>1. NewEnd(m, i, s, x, a) = ea
      BY <1>2, <2>9 DEF NewEnd
    <3>2. ea <= p
      <4>1. a \in 0..Len(m.at)
        BY <1>1
      <4>2. EndOf(m, a) <= m.at[i]
        BY <2>2, <2>9, <4>1, FieldsInOrder
      <4> QED BY <1>2, <2>4, <4>2
    <3>3. ea <= pb + s
      BY <2>4, <2>8, <3>2
    <3> QED BY <2>1, <3>1, <3>3
  <2>10. CASE a = i
    <3>1. NewEnd(m, i, s, x, a) = y
      BY <2>4, <2>10 DEF NewEnd
    <3> QED BY <2>1, <2>8, <3>1
  <2>11. CASE i < a
    <3>1. ~(a < i) /\ a # i
      BY <2>11
    <3>2. NewEnd(m, i, s, x, a) = ea + s
      BY <1>2, <3>1 DEF NewEnd
    <3>3. ea + s <= pb + s
      BY <1>2
    <3> QED BY <2>1, <3>2, <3>3
  <2> QED BY <2>9, <2>10, <2>11
<1> QED BY <1>3, <1>4

\* Each is at the first multiple of eight after the one before it.
Placed(m, w, i, s, x, b) == w.at[b] = AlignUp(NewEnd(m, i, s, x, b - 1), 8)

LEMMA RelaidPlaces ==
  ASSUME NEW m, WellFormed(m), NEW w, NEW i \in Nat \ {0}, NEW s \in Int, NEW x,
         Relaid(m, w, i, s, x), NEW b \in 1..Len(m.at)
  PROVE  Placed(m, w, i, s, x, b)
<1>1. Len(m.at) \in Nat /\ w.endian = m.endian /\ b - 1 \in 0..Len(m.at)
  BY SMTT(60), Formed DEF Relaid
<1>2. PICK pb \in Nat, e \in Nat :
        pb = m.at[b] /\ e = EndOf(m, b - 1) /\ pb = AlignUp(e, 8)
  <2>1. Inside(m, b) /\ EndOf(m, b - 1) \in Nat
        /\ m.at[b] = AlignUp(EndOf(m, b - 1), 8)
    BY <1>1, FieldInside, EndsInOrder
  <2> QED BY <2>1 DEF Inside
<1>3. CASE b <= i
  <2>1. w.at[b] = pb
    BY <1>2, <1>3, RelaidFields
  <2>2. b - 1 < i
    BY <1>3
  <2>3. NewEnd(m, i, s, x, b - 1) = e
    BY <1>2, <2>2 DEF NewEnd
  <2> QED BY <1>2, <2>1, <2>3 DEF Placed
<1>4. CASE i < b
  <2>1. w.at[b] = pb + s
    <3>1. w.at[b] = m.at[b] + s
      BY <1>1, <1>4 DEF Relaid
    <3> QED BY <1>2, <3>1
  <2>2. i \in 1..Len(m.at) /\ i <= Len(m.at)
    BY <1>1, <1>4
  <2>3. Restrung(m, w, i, s, x) /\ w.at[i] = m.at[i]
    BY <1>1, <2>2 DEF Relaid
  <2>4. PICK y \in Nat : y = x
    BY <1>1, <2>2, <2>3, FieldRestrung DEF NewField
  <2>5. Aligned(s) /\ s = AlignUp(y, 8) - AlignUp(EndOf(m, i), 8)
    BY <2>3, <2>4 DEF Restrung
  <2>6. CASE i = b - 1
    <3>1. s = AlignUp(y, 8) - pb /\ AlignUp(y, 8) \in Nat
      BY <1>2, <2>5, <2>6, AlignType
    <3>2. NewEnd(m, i, s, x, b - 1) = y
      BY <2>4, <2>6 DEF NewEnd
    <3> QED BY <2>1, <3>1, <3>2 DEF Placed
  <2>7. CASE i # b - 1
    <3>1. b - 1 \in 1..Len(m.at) /\ i < b - 1 /\ ~(b - 1 < i) /\ b - 1 # i
      BY <1>1, <1>4, <2>2, <2>7
    <3>2. NewEnd(m, i, s, x, b - 1) = e + s
      BY <1>2, <3>1 DEF NewEnd
    <3>3. e + s \in Nat
      <4>1. NewField(m, w, b - 1, NewEnd(m, i, s, x, b - 1))
        BY <3>1, RelaidFields
      <4> QED BY <3>2, <4>1 DEF NewField
    <3>4. AlignUp(e + s, 8) = AlignUp(e, 8) + s
      BY <2>5, <3>3, AlignMoves
    <3> QED BY <1>2, <2>1, <3>2, <3>4 DEF Placed
  <2> QED BY <2>6, <2>7
<1> QED BY <1>3, <1>4 DEF Placed

LEMMA RelaidFormed ==
  ASSUME NEW m, WellFormed(m), NEW w, NEW i \in Nat \ {0}, NEW s \in Int, NEW x,
         Relaid(m, w, i, s, x)
  PROVE  /\ WellFormed(w) /\ Len(w.at) = Len(m.at)
         /\ \A j \in 1..Len(m.at) : EndOf(w, j) = NewEnd(m, i, s, x, j)
<1>1. PICK n \in Nat : n = Len(m.at)
  BY Formed
<1>2. ASSUME NEW j \in 1..n
      PROVE  NewField(m, w, j, NewEnd(m, i, s, x, j))
  BY <1>1, RelaidFields
<1>3. w.at \in Seq(Nat) /\ Len(w.at) = n
  <2>1. \A j \in 1..n : w.at[j] \in Nat
    BY <1>2 DEF NewField
  <2>2. PICK f : f = w.at
    OBVIOUS
  <2>3. f = [j \in 1..n |-> IF j <= i THEN m.at[j] ELSE m.at[j] + s]
    BY <1>1, <2>2 DEF Relaid
  <2>4. f = [j \in 1..n |-> f[j]]
    BY <2>3
  <2>5. f \in [1..n -> Nat]
    BY <2>1, <2>2, <2>4
  <2> QED BY <2>2, <2>5, FunctionLen
<1>4. ASSUME NEW j \in 0..n PROVE EndOf(w, j) = NewEnd(m, i, s, x, j)
  <2>1. CASE j = 0
    BY <2>1 DEF EndOf, NewEnd
  <2>2. CASE j # 0
    <3>1. j \in 1..n
      BY <2>2
    <3>2. EndOf(w, j) = FieldEnd(w.endian, w.raw, w.at[j])
      BY <2>2 DEF EndOf
    <3> QED BY <1>2, <3>1, <3>2 DEF NewField
  <2> QED BY <2>1, <2>2
<1>5. ASSUME NEW j \in 1..n
      PROVE  EndOf(w, j) \in Nat /\ w.at[j] \in Nat /\ w.at[j] < EndOf(w, j)
  <2>1. j \in 0..n
    OBVIOUS
  <2> QED BY <1>2, <1>4, <2>1 DEF NewField
<1>6. ASSUME NEW a \in 1..n, NEW b \in 1..n, a < b
      PROVE  EndOf(w, a) < EndOf(w, b)
  <2>1. a \in 0..n
    OBVIOUS
  <2>2. EndOf(w, a) <= w.at[b]
    BY <1>1, <1>4, <1>6, <2>1, RelaidOrder
  <2> QED BY <1>5, <2>2
<1>7. ASSUME NEW j \in 1..n PROVE EndOf(w, j) <= EndOf(w, n)
  <2>1. n \in 1..n /\ (j = n \/ j < n)
    BY <1>7
  <2> QED BY <1>5, <1>6, <2>1
<1>8. ASSUME NEW j \in 1..n PROVE FieldFormed(w, j)
  <2>1. /\ Marshalled(w.raw, w.at[j])
        /\ LengthEnd(w.raw, w.at[j]) <= EndOf(w, j)
    <3>1. j \in 0..n
      OBVIOUS
    <3> QED BY <1>2, <1>4, <3>1 DEF NewField
  <2>2. w.at[j] = AlignUp(EndOf(w, j - 1), 8)
    <3>1. j - 1 \in 0..n
      OBVIOUS
    <3>2. w.at[j] = AlignUp(NewEnd(m, i, s, x, j - 1), 8)
      <4>1. j \in 1..Len(m.at)
        BY <1>1
      <4>2. Placed(m, w, i, s, x, j)
        BY <4>1, RelaidPlaces
      <4> QED BY <4>2 DEF Placed
    <3> QED BY <1>4, <3>1, <3>2
  <2>3. LengthEnd(w.raw, w.at[j]) <= EndOf(w, n) /\ EndOf(w, j) <= EndOf(w, n)
    <3>1. LengthEnd(w.raw, w.at[j]) \in Int
      BY <2>1, LengthInt, <1>5
    <3>2. n \in 1..n
      OBVIOUS
    <3> QED BY <1>5, <1>7, <2>1, <3>1, <3>2
  <2> QED BY <1>3, <2>1, <2>2, <2>3 DEF FieldFormed, Marshalled
<1>9. ASSUME NEW a \in 1..n, NEW b \in 1..n, a < b
      PROVE  At(w.raw, w.at[a]) # At(w.raw, w.at[b])
  <2>1. At(m.raw, m.at[a]) # At(m.raw, m.at[b])
    BY <1>1, <1>9 DEF WellFormed
  <2> QED BY <1>2, <2>1 DEF NewField
<1>10. /\ w \in [raw : Seq(0..255), endian : {"little", "big"}, at : Seq(Nat)]
       /\ Len(w.raw) >= 16
  <2>1. /\ w = [raw |-> w.raw, endian |-> m.endian, at |-> w.at]
        /\ w.raw \in Seq(0..255) /\ 16 <= Len(w.raw)
    BY DEF Relaid, Byte
  <2>2. m.endian \in {"little", "big"}
    BY Formed
  <2>3. Len(w.raw) \in Nat
    BY <2>1, LenProperties
  <2> QED BY <1>3, <2>1, <2>2, <2>3
<1>11. /\ FieldsEnd(w.endian, w.raw) = EndOf(w, n)
       /\ Len(w.raw) = BodyStart(w.endian, w.raw) + ReadU32(w.endian, w.raw, 4)
  <2>1. n \in 0..n
    OBVIOUS
  <2> QED BY <1>1, <1>4, <2>1 DEF Relaid
<1>12. WellFormed(w)
  BY <1>3, <1>6, <1>8, <1>9, <1>10, <1>11 DEF WellFormed
<1>13. \A j \in 1..n : j \in 0..n
  OBVIOUS
<1> QED BY <1>1, <1>3, <1>4, <1>12, <1>13

-----------------------------------------------------------------------------
(* Another body.                                                             *)

\* Where the bytes of a message with another body come from.
BodyReplaced(endian, new, old, start, body) ==
  /\ new \in Seq(Byte) /\ Len(new) = start + Len(body)
  /\ Copied(new, old, 0, 4, 0) /\ Copied(new, old, 8, start, 0)
  /\ Copied(new, body, 0, Len(body), start)
  /\ ReadU32(endian, new, 4) = Len(body)

LEMMA BodyParts ==
  ASSUME NEW endian \in {"little", "big"}, NEW old \in Seq(Byte),
         NEW start \in Nat, 16 <= start, start <= Len(old),
         NEW body \in Seq(Byte), Len(body) < Limit
  PROVE  BodyReplaced(endian, Slice(old, 0, 4) \o ToU32(endian, Len(body))
                        \o Slice(old, 8, start) \o body, old, start, body)
<1>1. PICK n \in Nat, l \in Nat : n = Len(old) /\ l = Len(body) /\ l < Limit
  BY LenProperties
<1>2. /\ 0 \in Nat /\ 4 \in Nat /\ 8 \in Nat /\ 0 <= 4 /\ 4 <= Len(old)
      /\ 8 <= start
  BY <1>1
<1>3. PICK a \in Seq(Byte) : a = Slice(old, 0, 4) /\ Len(a) = 4
  <2>1. Slice(old, 0, 4) \in Seq(Byte) /\ Len(Slice(old, 0, 4)) = 4 - 0
    BY <1>2, SliceType
  <2> QED BY <2>1
<1>4. PICK b \in Seq(Byte) :
        b = ToU32(endian, l) /\ Len(b) = 4 /\ ReadU32(endian, b, 0) = l
  BY <1>1, WordBytes
<1>5. PICK c \in Seq(Byte) : c = Slice(old, 8, start) /\ Len(c) = start - 8
  BY ZenonT(60), <1>2, SliceType
<1>6. PICK ab \in Seq(Byte) :
        /\ ab = a \o b /\ Len(ab) = 8
        /\ Copied(ab, a, 0, 4, 0) /\ Copied(ab, b, 0, 4, 4)
  <2>1. /\ a \o b \in Seq(Byte) /\ Len(a \o b) = Len(a) + Len(b)
        /\ Copied(a \o b, b, 0, Len(b), Len(a))
    BY JoinType, CopiedBack
  <2>2. Copied(a, a, 0, 4, 0)
    BY DEF Copied
  <2>4. 0 <= 0 + 0 /\ 4 + 0 <= Len(a) /\ 0 \in Int
    <3>1. 0 <= 0 + 0 /\ 4 + 0 <= 4 /\ 0 \in Int
      OBVIOUS
    <3> QED BY <1>3, <3>1
  <2>3. Copied(a \o b, a, 0, 4, 0)
    BY <1>2, <2>2, <2>4, CopiedFront
  <2>5. Len(a \o b) = 8 /\ Copied(a \o b, b, 0, 4, 4)
    BY <1>3, <1>4, <2>1
  <2> QED BY <2>1, <2>3, <2>5
<1>7. PICK abc \in Seq(Byte) :
        /\ abc = ab \o c /\ Len(abc) = start
        /\ Copied(abc, a, 0, 4, 0) /\ Copied(abc, b, 0, 4, 4)
        /\ Copied(abc, c, 0, start - 8, 8)
  <2>1. /\ ab \o c \in Seq(Byte) /\ Len(ab \o c) = Len(ab) + Len(c)
        /\ Copied(ab \o c, c, 0, Len(c), Len(ab))
    BY JoinType, CopiedBack
  <2>2. /\ 0 <= 0 + 0 /\ 4 + 0 <= Len(ab) /\ 0 \in Int
        /\ 0 <= 0 + 4 /\ 4 + 4 <= Len(ab) /\ 4 \in Int
    BY <1>6
  <2>3. Copied(ab \o c, a, 0, 4, 0) /\ Copied(ab \o c, b, 0, 4, 4)
    BY <1>2, <1>6, <2>2, CopiedFront
  <2>4. 8 + (start - 8) = start
    OBVIOUS
  <2> QED BY <1>5, <1>6, <2>1, <2>3, <2>4
<1>8. PICK new \in Seq(Byte) :
        /\ new = abc \o body /\ Len(new) = start + l
        /\ Copied(new, a, 0, 4, 0) /\ Copied(new, b, 0, 4, 4)
        /\ Copied(new, c, 0, start - 8, 8) /\ Copied(new, body, 0, l, start)
  <2>1. /\ abc \o body \in Seq(Byte) /\ Len(abc \o body) = Len(abc) + Len(body)
        /\ Copied(abc \o body, body, 0, Len(body), Len(abc))
    BY JoinType, CopiedBack
  <2>2. /\ 0 <= 0 + 0 /\ 4 + 0 <= Len(abc) /\ 0 \in Int
        /\ 0 <= 0 + 4 /\ 4 + 4 <= Len(abc) /\ 4 \in Int
        /\ 0 <= 0 + 8 /\ (start - 8) + 8 <= Len(abc) /\ 8 \in Int
        /\ start - 8 \in Nat
    BY <1>2, <1>7
  <2>3. /\ Copied(abc \o body, a, 0, 4, 0) /\ Copied(abc \o body, b, 0, 4, 4)
        /\ Copied(abc \o body, c, 0, start - 8, 8)
    BY <1>2, <1>7, <2>2, CopiedFront
  <2> QED BY <1>1, <1>7, <2>1, <2>3
<1>9. Copied(new, old, 0, 4, 0)
  <2>1. 4 - 0 = 4 /\ 0 - 0 = 0
    OBVIOUS
  <2>2. Copied(new, Slice(old, 0, 4), 0, 4 - 0, 0)
    BY <1>3, <1>8, <2>1
  <2>3. Copied(new, old, 0, 4, 0 - 0)
    BY <1>2, <2>1, <2>2, SliceCopied
  <2> QED BY <2>1, <2>3
<1>10. Copied(new, old, 8, start, 0)
  <2>1. 8 - 8 = 0
    OBVIOUS
  <2>2. Copied(new, Slice(old, 8, start), 0, start - 8, 8)
    BY <1>5, <1>8
  <2>3. Copied(new, old, 8, start, 8 - 8)
    BY <1>2, <2>2, SliceCopied
  <2> QED BY <2>1, <2>3
<1>11. ReadU32(endian, new, 4) = l
  <2>1. PICK p \in Nat, d \in Int : p = 0 /\ d = 4 /\ p + d = 4 /\ p + 4 = 4
    OBVIOUS
  <2>2. Copied(new, b, p, p + 4, d)
    BY <1>8, <2>1
  <2>3. SameWord(endian, new, b, p, d)
    BY <2>2, WordCopied
  <2> QED BY <1>4, <2>1, <2>3 DEF SameWord
<1>12. BodyReplaced(endian, new, old, start, body)
  BY <1>1, <1>8, <1>9, <1>10, <1>11 DEF BodyReplaced
<1> QED BY <1>1, <1>3, <1>4, <1>5, <1>6, <1>7, <1>8, <1>12

\* The message with another body is a message, with the same fields.
LEMMA BodyFormed ==
  ASSUME NEW m, WellFormed(m), NEW new, NEW body \in Seq(Byte),
         BodyReplaced(m.endian, new, m.raw, BodyStart(m.endian, m.raw), body)
  PROVE  /\ WellFormed([m EXCEPT !.raw = new])
         /\ BodyStart(m.endian, new) = BodyStart(m.endian, m.raw)
         /\ Slice(new, BodyStart(m.endian, new), Len(new)) = body
         /\ \A j \in 1..Len(m.at) :
              EndOf([m EXCEPT !.raw = new], j) = EndOf(m, j)
<1>1. PICK w : w = [m EXCEPT !.raw = new]
  OBVIOUS
<1>2. /\ w.raw = new /\ w.endian = m.endian /\ w.at = m.at
      /\ w = [raw |-> w.raw, endian |-> m.endian, at |-> w.at]
  <2>1. m \in [raw : Seq(0..255), endian : {"little", "big"}, at : Seq(Nat)]
    BY DEF WellFormed
  <2> QED BY <1>1, <2>1
<1>3. PICK old \in Seq(Byte), endian \in {"little", "big"}, f \in Nat, b \in Nat,
           n \in Nat :
        /\ old = m.raw /\ endian = m.endian /\ n = Len(m.at)
        /\ f = FieldsEnd(endian, old) /\ b = BodyStart(endian, old)
        /\ f = EndOf(m, n) /\ f <= b /\ b <= Len(old) /\ 16 <= f
  <2>1. 16 <= FieldsEnd(m.endian, m.raw)
    BY Formed DEF FieldsEnd
  <2> QED BY <2>1, Formed
<1>4. PICK l \in Nat : l = Len(body)
  BY LenProperties
<1>5. /\ new \in Seq(Byte) /\ Len(new) = b + l /\ ReadU32(endian, new, 4) = l
      /\ Copied(new, old, 8, b, 0) /\ Copied(new, body, 0, l, b)
  BY <1>3, <1>4 DEF BodyReplaced
<1>6. ASSUME NEW x \in Nat, NEW y \in Nat, 8 <= x, y <= b
      PROVE  Copied(new, old, x, y, 0)
  <2>1. x..y - 1 \subseteq 8..b - 1
    BY <1>6
  <2> QED BY <1>5, <2>1 DEF Copied
<1>7. FieldsEnd(endian, new) = f
  <2>1. PICK p \in Nat, d \in Int : p = 12 /\ d = 0 /\ p + d = 12 /\ p + 4 <= b
    BY <1>3
  <2>2. p + 4 \in Nat /\ 8 <= p
    BY <2>1
  <2>3. Copied(new, old, p, p + 4, 0)
    BY <1>6, <2>1, <2>2
  <2>4. Copied(new, old, p, p + 4, d)
    BY <2>1, <2>3
  <2>5. SameWord(endian, new, old, p, d)
    BY <2>4, WordCopied
  <2> QED BY <1>3, <2>1, <2>5 DEF FieldsEnd, SameWord
<1>8. BodyStart(endian, new) = b
  BY <1>3, <1>7 DEF BodyStart
<1>9. ASSUME NEW j \in 1..n
      PROVE  Copied(new, old, m.at[j], EndOf(m, j), 0)
  <2>1. Inside(m, j) /\ 16 <= EndOf(m, j - 1) /\ EndOf(m, j - 1) \in Nat
        /\ EndOf(m, j - 1) <= m.at[j]
    <3>1. j \in 1..Len(m.at) /\ j - 1 \in 0..Len(m.at)
      BY <1>3
    <3> QED BY <3>1, FieldInside, EndsInOrder
  <2>2. /\ m.at[j] \in Nat /\ EndOf(m, j) \in Nat /\ EndOf(m, j) <= b
        /\ 8 <= m.at[j]
    <3>1. m.at[j] \in Nat /\ EndOf(m, j) \in Nat /\ EndOf(m, j) <= f
      BY <1>3, <2>1 DEF Inside
    <3>2. EndOf(m, j) <= b
      BY <1>3, <3>1
    <3>3. 8 <= m.at[j]
      BY <2>1, <3>1
    <3> QED BY <3>1, <3>2, <3>3
  <2> QED BY <1>6, <2>2
<1>10. PICK i \in Nat \ {0} : i = n + 1
  OBVIOUS
<1>11. Relaid(m, w, i, 0, 0)
  <2>1. w.at = [j \in 1..n |-> IF j <= i THEN m.at[j] ELSE m.at[j] + 0]
    <3>1. \A j \in 1..n : j <= i
      BY <1>10
    <3>2. m.at = [j \in 1..n |-> m.at[j]]
      <4>1. m.at \in Seq(Nat)
        BY Formed
      <4> QED BY <1>3, <4>1, LenProperties
    <3> QED BY <1>2, <3>1, <3>2
  <2>2. n < i /\ ~(i <= n) /\ \A j \in 1..n : ~(i < j)
    BY <1>10
  <2>3. NewEnd(m, i, 0, 0, n) = f
    BY <1>3, <2>2 DEF NewEnd
  <2>4. 16 <= Len(new)
    BY <1>3, <1>5
  <2> QED BY <1>2, <1>3, <1>5, <1>7, <1>8, <1>9, <2>1, <2>2, <2>3, <2>4 DEF Relaid
<1>12. /\ WellFormed(w)
       /\ \A j \in 1..n : EndOf(w, j) = NewEnd(m, i, 0, 0, j)
  BY <1>3, <1>11, RelaidFormed
<1>13. ASSUME NEW j \in 1..n PROVE EndOf(w, j) = EndOf(m, j)
  <2>1. j < i
    BY <1>10
  <2> QED BY <1>12, <2>1 DEF NewEnd
<1>14. Slice(new, b, Len(new)) = body
  <2>1. PICK e \in Nat : e = b + l /\ e = Len(new) /\ b <= e /\ e - b = l - 0
                         /\ b - 0 = b
    BY <1>5
  <2>2. Copied(new, body, 0, l, b - 0) /\ 0 \in Nat /\ 0 <= l /\ l <= Len(body)
    BY <1>4, <1>5, <2>1
  <2>3. Slice(new, b, e) = Slice(body, 0, l)
    <3>1. MovedTo(new, body, 0, l, b, e)
      BY <1>5, <2>1, <2>2 DEF MovedTo
    <3> QED BY <1>5, <2>2, <3>1, SliceMoves
  <2>4. Slice(body, 0, l) = body
    <3>1. SubSeq(body, 1, Len(body)) = body
      BY SubSeqFull
    <3>2. 0 + 1 = 1
      OBVIOUS
    <3> QED BY <1>4, <3>1, <3>2 DEF Slice
  <2> QED BY <2>1, <2>3, <2>4
<1> QED BY <1>1, <1>3, <1>8, <1>12, <1>13, <1>14

-----------------------------------------------------------------------------
(* Another name.                                                             *)

\* A string as it is marshalled.
Marshal(endian, name) == ToU32(endian, Len(name)) \o name \o <<0>>

IsString(endian, data, name) ==
  /\ data \in Seq(Byte) /\ Len(data) = Len(name) + 5
  /\ ReadU32(endian, data, 0) = Len(name)
  /\ Slice(data, 4, 4 + Len(name)) = name

LEMMA StringMarshalled ==
  ASSUME NEW endian \in {"little", "big"}, NEW name \in Seq(Byte),
         Len(name) < Limit
  PROVE  IsString(endian, Marshal(endian, name), name)
<1>1. PICK l \in Nat : l = Len(name) /\ l < Limit
  BY LenProperties
<1>2. PICK b \in Seq(Byte) :
        b = ToU32(endian, l) /\ Len(b) = 4 /\ ReadU32(endian, b, 0) = l
  BY <1>1, WordBytes
<1>3. PICK z \in Seq(Byte) : z = <<0>> /\ Len(z) = 1
  <2>1. PICK y \in Byte : y = 0
    BY DEF Byte
  <2>2. <<y>> \in Seq(Byte) /\ Len(<<y>>) = 1
    OBVIOUS
  <2> QED BY <2>1, <2>2
<1>4. PICK s \in Seq(Byte) :
        /\ s = b \o name /\ Len(s) = 4 + l
        /\ Copied(s, b, 0, 4, 0) /\ Copied(s, name, 0, l, 4)
  <2>1. /\ b \o name \in Seq(Byte) /\ Len(b \o name) = Len(b) + Len(name)
        /\ Copied(b \o name, name, 0, Len(name), Len(b))
    BY JoinType, CopiedBack
  <2>2. Copied(b, b, 0, 4, 0)
    BY DEF Copied
  <2>3. 0 <= 0 + 0 /\ 4 + 0 <= Len(b) /\ 0 \in Int /\ 0 \in Nat /\ 4 \in Nat
    BY <1>2
  <2>4. Copied(b \o name, b, 0, 4, 0)
    BY <2>2, <2>3, CopiedFront
  <2> QED BY <1>1, <1>2, <2>1, <2>4
<1>5. PICK data \in Seq(Byte) :
        /\ data = s \o z /\ Len(data) = l + 5
        /\ Copied(data, b, 0, 4, 0) /\ Copied(data, name, 0, l, 4)
  <2>1. s \o z \in Seq(Byte) /\ Len(s \o z) = Len(s) + Len(z)
    BY JoinType
  <2>2. /\ 0 <= 0 + 0 /\ 4 + 0 <= Len(s) /\ 0 \in Int /\ 0 \in Nat /\ 4 \in Nat
        /\ 0 <= 0 + 4 /\ l + 4 <= Len(s) /\ 4 \in Int
    BY <1>4
  <2>3. Copied(s \o z, b, 0, 4, 0) /\ Copied(s \o z, name, 0, l, 4)
    BY <1>4, <2>2, CopiedFront
  <2>4. Len(s \o z) = l + 5
    BY <1>3, <1>4, <2>1
  <2> QED BY <2>1, <2>3, <2>4
<1>6. ReadU32(endian, data, 0) = l
  <2>1. PICK p \in Nat, d \in Int : p = 0 /\ d = 0 /\ p + d = 0 /\ p + 4 = 4
    OBVIOUS
  <2>2. Copied(data, b, p, p + 4, d)
    BY <1>5, <2>1
  <2>3. SameWord(endian, data, b, p, d)
    BY <2>2, WordCopied
  <2> QED BY <1>2, <2>1, <2>3 DEF SameWord
<1>7. Slice(data, 4, 4 + l) = name
  <2>1. PICK c \in Nat, e \in Nat, a \in Nat :
          /\ c = 4 /\ e = 4 + l /\ a = 0 /\ c - a = 4 /\ a <= l
          /\ c <= e /\ e - c = l - a /\ e <= l + 5
    OBVIOUS
  <2>2. Copied(data, name, a, l, c - a)
    BY <1>5, <2>1
  <2>3. l <= Len(name) /\ e <= Len(data)
    BY <1>1, <1>5, <2>1
  <2>4. Slice(data, c, e) = Slice(name, a, l)
    <3>1. MovedTo(data, name, a, l, c, e)
      BY <2>1, <2>2, <2>3 DEF MovedTo
    <3> QED BY <3>1, SliceMoves
  <2>5. Slice(name, 0, l) = name
    <3>1. SubSeq(name, 1, Len(name)) = name
      BY SubSeqFull
    <3>2. 0 + 1 = 1
      OBVIOUS
    <3> QED BY <1>1, <3>1, <3>2 DEF Slice
  <2> QED BY <2>1, <2>4, <2>5
<1>8. IsString(endian, data, name)
  BY <1>1, <1>5, <1>6, <1>7 DEF IsString
<1>9. data = Marshal(endian, name)
  BY <1>1, <1>2, <1>3, <1>4, <1>5 DEF Marshal
<1> QED BY <1>8, <1>9

\* The numbers of the new layout: the value begins at v and ended at e, the
\* fields ended at f; the new value has d bytes.  The new fields end at g and
\* those after the value have moved by s.
Spaced(v, e, f, d, gap, next, to, g, s) ==
  /\ s = AlignUp(v + d, 8) - AlignUp(e, 8)
  /\ to = f
  /\ \/ /\ next = AlignUp(e, 8) /\ next < f
        /\ gap = Padding(v + d) /\ g = f + s
     \/ /\ next = f /\ e = f
        /\ gap = 0 /\ g = v + d

Spacing(v, f, d, gap, next, to, g, s) ==
  /\ gap \in Nat /\ next \in Nat /\ to \in Nat /\ s \in Int /\ g \in Nat
  /\ Aligned(s) /\ next <= to /\ to = f
  /\ v + d + gap + (to - next) = g
  /\ next # f => v + d + gap - next = s

LEMMA SpacedSums ==
  ASSUME NEW v \in Nat, NEW e \in Nat, NEW f \in Nat, NEW d \in Nat,
         NEW gap, NEW next, NEW to, NEW g, NEW s,
         Spaced(v, e, f, d, gap, next, to, g, s)
  PROVE  Spacing(v, f, d, gap, next, to, g, s)
<1>1. PICK x \in Nat : x = v + d
  OBVIOUS
<1>2. PICK ax \in Nat, ae \in Nat, k \in Nat, l \in Nat :
        /\ ax = AlignUp(x, 8) /\ ae = AlignUp(e, 8) /\ e <= ae /\ x <= ax
        /\ ax = 8 * k /\ ae = 8 * l
  <2>1. PICK k \in Nat : AlignUp(x, 8) = 8 * k /\ x <= 8 * k
    BY Align
  <2>2. PICK l \in Nat : AlignUp(e, 8) = 8 * l /\ e <= 8 * l
    BY Align
  <2>3. 8 * k \in Nat /\ 8 * l \in Nat
    OBVIOUS
  <2> QED BY <2>1, <2>2, <2>3
<1>3. PICK p \in Nat : p = Padding(x) /\ x + p = ax
  BY <1>2, PaddingAligns
<1>4. s = ax - ae /\ to = f
  BY <1>1, <1>2 DEF Spaced
<1>5. Aligned(s) /\ s \in Int
  <2>1. PICK c \in Int : c = k - l
    OBVIOUS
  <2>2. 8 * k - 8 * l = 8 * c /\ 8 * c \in Int
    BY <2>1
  <2> QED BY <1>2, <1>4, <2>1, <2>2 DEF Aligned
<1>6. CASE next = ae /\ next < f /\ gap = p /\ g = f + s
  <2>1. x + p + (f - ae) = f + (ax - ae) /\ x + p - ae = ax - ae
    <3>1. /\ x + p + (f - ae) = f + ((x + p) - ae)
          /\ x + p - ae = (x + p) - ae
      OBVIOUS
    <3> QED BY <1>3, <3>1
  <2>2. f + (ax - ae) \in Nat
    BY <1>6
  <2> QED BY <1>1, <1>4, <1>5, <1>6, <2>1, <2>2 DEF Spacing
<1>7. CASE next = f /\ gap = 0 /\ g = x
  <2>1. x + 0 + (f - f) = x
    OBVIOUS
  <2> QED BY <1>1, <1>4, <1>5, <1>7, <2>1 DEF Spacing
<1> QED BY <1>1, <1>2, <1>3, <1>6, <1>7 DEF Spaced

WordOf(endian, word, n) == IsWord(word) /\ ReadU32(endian, word, 0) = n

\* The message with these bytes, the fields after the i-th moved by s.
MovedMessage(m, new, i, s) ==
  [raw |-> new, endian |-> m.endian,
   at |-> [j \in 1..Len(m.at) |-> IF j <= i THEN m.at[j] ELSE m.at[j] + s]]
BodyIn(endian, bytes) == Slice(bytes, BodyStart(endian, bytes), Len(bytes))

\* The layout of a message around its i-th field, from where the value of it
\* begins.
NewLayout(m, i, new, word, data, gap, next, to, g) ==
  LaidOut(new, m.raw, word, ValueAt(m.raw, m.at[i]), data, gap, next, to,
          Padding(g), BodyStart(m.endian, m.raw))
NewSpaces(m, i, data, gap, next, to, g, s) ==
  Spaced(ValueAt(m.raw, m.at[i]), EndOf(m, i), FieldsEnd(m.endian, m.raw),
         Len(data), gap, next, to, g, s)

\* The name in a field.
NameIn(m, i) ==
  LET v == ValueAt(m.raw, m.at[i])
  IN  Slice(m.raw, v + 4, v + 4 + ReadU32(m.endian, m.raw, v))

\* What the fields of the new message hold.
NameOnly(m, w, i, name) ==
  /\ \A p \in (0..3) \cup (8..11) : At(w.raw, p) = At(m.raw, p)
  /\ TypeAt(w.raw, w.at[i]) \in Strings /\ NameIn(w, i) = name
  /\ \A j \in 1..Len(m.at) : j # i => FieldBytes(w, j) = FieldBytes(m, j)

\* The i-th field of the message has this name, marshalled as data, instead of
\* its own.
Renewed(m, i, name, data, s, new) ==
  /\ WellFormed(m) /\ i \in 1..Len(m.at) /\ TypeAt(m.raw, m.at[i]) \in Strings
  /\ name \in Seq(Byte) /\ IsString(m.endian, data, name)
  /\ new \in Seq(Byte)
  /\ \E gap \in Nat, next \in Nat, to \in Nat, g \in Nat, word \in Seq(Byte) :
       /\ NewSpaces(m, i, data, gap, next, to, g, s)
       /\ WordOf(m.endian, word, g - 16)
       /\ NewLayout(m, i, new, word, data, gap, next, to, g)

LEMMA HeaderRelaid ==
  ASSUME NEW m, NEW field, NEW name, NEW data, NEW shift, NEW bytes,
         Renewed(m, field, name, data, shift, bytes)
  PROVE  /\ WellFormed(MovedMessage(m, bytes, field, shift))
         /\ NameOnly(m, MovedMessage(m, bytes, field, shift), field, name)
         /\ BodyIn(m.endian, bytes) = BodyIn(m.endian, m.raw)
<1>1. WellFormed(m) /\ field \in 1..Len(m.at)
  BY DEF Renewed
<1>2. PICK n \in Nat, i \in Nat \ {0}, f \in Nat, b \in Nat, k \in Nat, z \in Nat :
        /\ n = Len(m.at) /\ i = field
        /\ f = FieldsEnd(m.endian, m.raw) /\ f = EndOf(m, n)
        /\ b = BodyStart(m.endian, m.raw) /\ b = AlignUp(f, 8)
        /\ k = ReadU32(m.endian, m.raw, 4) /\ z = Len(m.raw)
        /\ f <= b /\ b <= z /\ z = b + k
  <2>1. /\ Len(m.at) \in Nat /\ FieldsEnd(m.endian, m.raw) \in Nat
        /\ FieldsEnd(m.endian, m.raw) = EndOf(m, Len(m.at))
        /\ BodyStart(m.endian, m.raw) = AlignUp(FieldsEnd(m.endian, m.raw), 8)
        /\ BodyStart(m.endian, m.raw) \in Nat
        /\ ReadU32(m.endian, m.raw, 4) \in Nat /\ Len(m.raw) \in Nat
        /\ FieldsEnd(m.endian, m.raw) <= BodyStart(m.endian, m.raw)
        /\ BodyStart(m.endian, m.raw) <= Len(m.raw)
        /\ Len(m.raw) = BodyStart(m.endian, m.raw) + ReadU32(m.endian, m.raw, 4)
    BY <1>1, Formed
  <2>2. field \in Nat \ {0}
    BY <1>1, <2>1
  <2> QED BY ZenonT(30), <2>1, <2>2
<1>3. PICK old \in Seq(Byte), endian \in {m.endian} : old = m.raw /\ endian = m.endian
  BY <1>1, Formed
<1>4. f <= b /\ b <= z /\ z = b + k /\ 1 <= i /\ i <= n
  BY <1>1, <1>2
<1>5. ASSUME NEW j \in 1..n
      PROVE  \E a \in Nat, y \in Nat :
               /\ a = m.at[j] /\ y = EndOf(m, j)
               /\ 16 <= a /\ a + 4 <= y /\ y <= f /\ Inside(m, j)
  <2>1. j \in 1..Len(m.at) /\ j - 1 \in 0..Len(m.at)
    BY SMTT(40), <1>2
  <2>2. /\ EndOf(m, j - 1) \in Nat /\ 16 <= EndOf(m, j - 1)
        /\ EndOf(m, j - 1) <= m.at[j]
    BY <1>1, <2>1, EndsInOrder
  <2>3. Inside(m, j)
    BY <1>1, <2>1, FieldInside
  <2>4. PICK a \in Nat, y \in Nat, u \in Nat, t \in Nat :
          /\ a = m.at[j] /\ y = EndOf(m, j)
          /\ a + 4 <= u /\ u <= t /\ t <= y /\ y <= f
    BY <1>2, <2>3 DEF Inside
  <2>5. 16 <= a
    BY SMTT(40), <2>2, <2>4
  <2>6. a + 4 <= y
    BY SMTT(40), <2>4
  <2> QED BY <2>3, <2>4, <2>5, <2>6
<1>6. i \in 1..n
  BY <1>4
<1>7. PICK p \in Nat, v \in Nat, e \in Nat :
        /\ p = m.at[i] /\ v = ValueAt(old, p) /\ e = EndOf(m, i)
        /\ 16 <= p /\ p + 4 <= v /\ v <= e /\ e <= f /\ Marshalled(old, p)
  <2>1. PICK a \in Nat, y \in Nat :
          /\ a = m.at[i] /\ y = EndOf(m, i) /\ 16 <= a /\ y <= f /\ Inside(m, i)
    BY <1>5, <1>6
  <2>2. PICK u \in Nat, t \in Nat :
          /\ u = ValueAt(old, a) /\ a + 4 <= u /\ u <= t /\ t <= y
          /\ Marshalled(old, a)
    BY <1>3, <2>1 DEF Inside
  <2>3. u <= y
    BY <2>2
  <2> QED BY <2>1, <2>2, <2>3
<1>8. 16 <= p /\ p + 4 <= v /\ v <= e /\ e <= f
  BY <1>7
<1>9. PICK new \in Seq(Byte), gap \in Nat, next \in Nat, to \in Nat, g \in Nat,
           word \in Seq(Byte) :
        /\ new = bytes
        /\ NewSpaces(m, i, data, gap, next, to, g, shift)
        /\ WordOf(m.endian, word, g - 16)
        /\ NewLayout(m, i, new, word, data, gap, next, to, g)
  BY <1>2 DEF Renewed
<1>10. PICK l \in Nat, d \in Nat :
        /\ l = Len(name) /\ d = Len(data) /\ d = l + 5
        /\ ReadU32(endian, data, 0) = l /\ Slice(data, 4, 4 + l) = name
        /\ data \in Seq(Byte)
  <2>1. PICK l \in Nat : l = Len(name)
    BY LenProperties DEF Renewed
  <2>2. /\ data \in Seq(Byte) /\ Len(data) = l + 5
        /\ ReadU32(endian, data, 0) = l /\ Slice(data, 4, 4 + l) = name
    BY <1>3, <2>1 DEF Renewed, IsString
  <2>3. l + 5 \in Nat
    OBVIOUS
  <2> QED BY <2>1, <2>2, <2>3
<1>11. d = l + 5
  BY <1>10
<1>12. Spaced(v, e, f, d, gap, next, to, g, shift)
  BY <1>2, <1>3, <1>7, <1>9, <1>10 DEF NewSpaces
<1>13. PICK s \in Int :
        /\ s = shift /\ Aligned(s) /\ next <= to /\ to = f
        /\ v + d + gap + (to - next) = g
        /\ next # f => v + d + gap - next = s
  <2>1. Spacing(v, f, d, gap, next, to, g, shift)
    BY <1>12, SpacedSums
  <2> QED BY <2>1 DEF Spacing
<1>14. next <= to /\ to = f /\ v + d + gap + (to - next) = g
  BY <1>13
<1>15. v + d <= g
  BY <1>14
<1>16. Spaced(v, e, f, d, gap, next, to, g, s)
  BY <1>12, <1>13
<1>17. PICK pad \in Nat : pad = Padding(g) /\ g + pad = AlignUp(g, 8)
  <2>1. Padding(g) \in 0..7 /\ g + Padding(g) = AlignUp(g, 8)
    BY PaddingAligns
  <2>2. Padding(g) \in Nat
    BY <2>1
  <2> QED BY <2>1, <2>2
<1>18. PICK x \in Nat : x = v + d /\ s = AlignUp(x, 8) - AlignUp(e, 8)
  BY <1>16 DEF Spaced
<1>19. PICK ae \in Nat : ae = AlignUp(e, 8) /\ e <= ae
  BY AlignType
<1>20. e < f => next = ae /\ next < f /\ g = f + s
  BY <1>16, <1>19 DEF Spaced
<1>21. e = f => g = v + d
  BY <1>16, <1>19 DEF Spaced
<1>22. PICK after \in Nat, from \in Nat :
        after = v + d + gap /\ from = after + (to - next) + pad
             /\ from = g + pad
  BY <1>14
<1>23. /\ Len(new) = from + (z - b)
       /\ Copied(new, old, 0, 12, 0) /\ Copied(new, word, 0, 4, 12)
       /\ Copied(new, old, 16, v, 0) /\ Copied(new, data, 0, d, v)
       /\ Copied(new, old, next, to, after - next)
       /\ Copied(new, old, b, z, from - b)
  <2>1. LaidOut(new, old, word, v, data, gap, next, to, pad, b)
    BY <1>2, <1>3, <1>7, <1>9, <1>17 DEF NewLayout
  <2>2. Len(data) = d /\ Len(old) = z
    BY <1>2, <1>3, <1>10
  <2> QED BY <1>22, <2>1, <2>2 DEF LaidOut
<1>24. PICK y \in Nat : y = from + k /\ y = Len(new)
  BY <1>4, <1>23
<1>25. y = from + k /\ from = g + pad /\ g <= y
  BY <1>22, <1>24
<1>26. next # f => after - next = s
  BY <1>13, <1>22
<1>27. FieldsEnd(endian, new) = g
  <2>1. PICK q \in Nat, c \in Int : q = 0 /\ c = 12 /\ q + c = 12 /\ q + 4 = 4
    OBVIOUS
  <2>2. Copied(new, word, q, q + 4, c)
    BY <1>23, <2>1
  <2>3. SameWord(endian, new, word, q, c)
    BY <2>2, WordCopied
  <2>4. ReadU32(endian, new, 12) = g - 16
    BY <1>3, <1>9, <2>1, <2>3 DEF SameWord, WordOf
  <2>5. 16 + (g - 16) = g
    BY <1>15
  <2> QED BY <2>4, <2>5 DEF FieldsEnd
<1>28. ReadU32(endian, new, 4) = k
  <2>1. PICK q \in Nat, c \in Int : q = 4 /\ c = 0 /\ q + c = 4 /\ q + 4 = 8
    OBVIOUS
  <2>2. Copied(new, old, q, q + 4, c)
    <3>1. q..(q + 4) - 1 \subseteq 0..12 - 1
      BY <2>1
    <3>2. Copied(new, old, 0, 12, c)
      BY <1>23, <2>1
    <3> QED BY <3>1, <3>2 DEF Copied
  <2>3. SameWord(endian, new, old, q, c)
    BY <2>2, WordCopied
  <2> QED BY <1>2, <1>3, <2>1, <2>3 DEF SameWord
<1>29. BodyStart(endian, new) = from
  BY <1>17, <1>22, <1>27 DEF BodyStart
<1>30. ReadU32(endian, new, v) = l
  <2>1. PICK q \in Nat : q = 0 /\ q + v = v /\ q + 4 <= d
    BY <1>11
  <2>2. Copied(new, data, q, q + 4, v) /\ v \in Int
    <3>1. q..(q + 4) - 1 \subseteq 0..d - 1
      BY <2>1
    <3>2. Copied(new, data, 0, d, v)
      BY <1>23
    <3> QED BY SMTT(60), <3>1, <3>2 DEF Copied
  <2>3. SameWord(endian, new, data, q, v)
    BY <2>2, WordCopied
  <2> QED BY <1>10, <2>1, <2>3 DEF SameWord
<1>31. Slice(new, v + 4, v + 4 + l) = name
  <2>1. PICK a \in Nat, c \in Nat, h \in Nat, u \in Nat :
          /\ a = 4 /\ c = 4 + l /\ h = v + 4 /\ u = v + 4 + l /\ h - a = v
          /\ u - h = c - a /\ a <= c /\ c <= d /\ h <= u
    BY <1>11
  <2>2. Copied(new, data, a, c, h - a)
    <3>1. a..c - 1 \subseteq 0..d - 1
      BY <2>1
    <3>2. Copied(new, data, 0, d, v)
      BY <1>23
    <3>3. Copied(new, data, a, c, v)
      BY <3>1, <3>2 DEF Copied
    <3> QED BY <2>1, <3>3
  <2>3. u <= y
    BY <1>11, <1>15, <1>25, <2>1
  <2>4. c <= Len(data) /\ u <= Len(new) /\ data \in Seq(Byte)
    BY <1>10, <1>24, <2>1, <2>3
  <2>6. a <= c /\ h <= u /\ u - h = c - a
    BY <2>1
  <2>5. Slice(new, h, u) = Slice(data, a, c)
    <3>1. MovedTo(new, data, a, c, h, u)
      BY <2>2, <2>4, <2>6 DEF MovedTo
    <3> QED BY <2>4, <3>1, SliceMoves
  <2> QED BY <1>10, <2>1, <2>5
<1>32. PICK w \in {MovedMessage(m, new, i, s)} : TRUE
  OBVIOUS
<1>33. /\ w.raw = new /\ w.endian = endian
       /\ w = [raw |-> w.raw, endian |-> m.endian, at |-> w.at]
       /\ w.at = [j \in 1..n |-> IF j <= i THEN m.at[j] ELSE m.at[j] + s]
  <2>1. w = [raw |-> new, endian |-> m.endian,
             at |-> [j \in 1..n |-> IF j <= i THEN m.at[j] ELSE m.at[j] + s]]
    BY <1>2, <1>32 DEF MovedMessage
  <2> QED BY <1>3, <2>1
<1>34. ASSUME NEW j \in 1..n, j < i
       PROVE  Copied(new, old, m.at[j], EndOf(m, j), 0)
  <2>1. PICK a \in Nat, u \in Nat :
          a = m.at[j] /\ u = EndOf(m, j) /\ 16 <= a /\ u <= p
    <3>1. j \in 0..Len(m.at) /\ i \in 1..Len(m.at)
      <4>1. j \in 0..n /\ n = Len(m.at)
        BY <1>2
      <4> QED BY <1>1, <1>2, <4>1
    <3>2. EndOf(m, j) <= m.at[i]
      BY <1>1, <1>34, <3>1, FieldsInOrder
    <3> QED BY <1>5, <1>7, <3>2
  <2>4. 16 <= a /\ u <= p
    BY <2>1
  <2>2. a..u - 1 \subseteq 16..v - 1
    BY <1>8, <2>4
  <2>3. Copied(new, old, a, u, 0)
    BY <1>23, <2>2 DEF Copied
  <2> QED BY <2>1, <2>3
<1>35. ASSUME NEW j \in 1..n, i < j
       PROVE  Copied(new, old, m.at[j], EndOf(m, j), s) /\ e < f
  <2>1. PICK a \in Nat, u \in Nat :
          a = m.at[j] /\ u = EndOf(m, j) /\ ae <= a /\ a < u /\ u <= f
    <3>1. i \in 0..Len(m.at) /\ j \in 1..Len(m.at)
      BY SMTT(60), <1>1, <1>2
    <3>2. AlignUp(EndOf(m, i), 8) <= m.at[j]
      BY <1>1, <1>35, <3>1, FieldsInOrder
    <3>3. PICK a \in Nat, u \in Nat :
            a = m.at[j] /\ u = EndOf(m, j) /\ a + 4 <= u /\ u <= f
      BY <1>5
    <3>4. ae <= a
      BY <1>7, <1>19, <3>2, <3>3
    <3>5. a < u
      BY SMTT(40), <3>3
    <3> QED BY <3>3, <3>4, <3>5
  <2>2. e < f
    BY SMTT(30), <1>19, <2>1
  <2>3. next = ae /\ next # f
    BY <1>20, <2>2
  <2>7. ae <= a /\ u <= f /\ next = ae
    BY <2>1, <2>3
  <2>4. a..u - 1 \subseteq next..to - 1
    BY <1>14, <2>7
  <2>5. Copied(new, old, next, to, s)
    BY <1>23, <1>26, <2>3
  <2>6. Copied(new, old, a, u, s)
    BY <2>4, <2>5 DEF Copied
  <2> QED BY <2>1, <2>2, <2>6
<1>36. NewEnd(m, i, s, x, n) = g
  <2>1. CASE i = n
    <3>1. e = f
      BY <1>2, <1>7, <2>1
    <3>2. g = v + d
      BY <1>21, <3>1
    <3> QED BY <1>18, <2>1, <3>2 DEF NewEnd
  <2>2. CASE i # n
    <3>1. n \in 1..n /\ i < n /\ ~(n < i) /\ n # i
      BY <1>4, <2>2
    <3>2. e < f
      BY <1>35, <3>1
    <3>3. g = f + s
      BY <1>20, <3>2
    <3> QED BY <1>2, <3>1, <3>3 DEF NewEnd
  <2> QED BY <2>1, <2>2
<1>37. Restrung(m, w, i, s, x)
  <2>1. Copied(new, old, p, v, 0)
    <3>1. p..v - 1 \subseteq 16..v - 1
      BY <1>8
    <3> QED BY <1>23, <3>1 DEF Copied
  <2>2. x = v + 4 + l + 1
    BY <1>11, <1>18
  <2>3. TypeAt(old, p) \in Strings
    BY <1>2, <1>3, <1>7 DEF Renewed
  <2>4. Aligned(s) /\ s = AlignUp(x, 8) - AlignUp(EndOf(m, i), 8)
    BY <1>7, <1>13, <1>18
  <2>5. v = ValueAt(m.raw, m.at[i]) /\ p = m.at[i] /\ old = m.raw
    BY <1>3, <1>7
  <2>6. w.raw = new /\ ReadU32(w.endian, new, v) = l
    BY <1>30, <1>33
  <2> QED BY <2>1, <2>2, <2>3, <2>4, <2>5, <2>6 DEF Restrung
<1>38. Relaid(m, w, i, s, x)
  <2>1. 16 <= Len(w.raw)
    <3>1. 16 <= y
      BY <1>8, <1>15, <1>25
    <3> QED BY <1>24, <1>33, <3>1
  <2>2. FieldsEnd(w.endian, w.raw) = NewEnd(m, i, s, x, Len(m.at))
    BY <1>2, <1>27, <1>33, <1>36
  <2>3. Len(w.raw) = BodyStart(w.endian, w.raw) + ReadU32(w.endian, w.raw, 4)
    BY <1>24, <1>28, <1>29, <1>33
  <2>4. ASSUME NEW j \in 1..Len(m.at)
        PROVE  /\ j < i => Copied(w.raw, m.raw, m.at[j], EndOf(m, j), 0)
               /\ i < j => Copied(w.raw, m.raw, m.at[j], EndOf(m, j), s)
    BY <1>2, <1>3, <1>33, <1>34, <1>35
  <2>5. w.raw \in Seq(Byte) /\ w.endian = m.endian
    BY <1>3, <1>33
  <2>6. w.at = [j \in 1..Len(m.at) |-> IF j <= i THEN m.at[j] ELSE m.at[j] + s]
    BY <1>2, <1>33
  <2> QED BY <1>33, <1>37, <2>1, <2>2, <2>3, <2>4, <2>5, <2>6 DEF Relaid
<1>39. /\ WellFormed(w) /\ Len(w.at) = Len(m.at)
       /\ \A j \in 1..Len(m.at) : EndOf(w, j) = NewEnd(m, i, s, x, j)
  BY <1>1, <1>38, RelaidFormed
<1>40. ASSUME NEW j \in 1..n, j # i PROVE FieldBytes(w, j) = FieldBytes(m, j)
  <2>1. PICK a \in Nat, c \in Nat :
          a = m.at[j] /\ c = EndOf(m, j) /\ a + 4 <= c /\ c <= f
    BY <1>5
  <2>2. a <= c /\ c <= z
    BY SMTT(30), <1>4, <2>1
  <2>3. PICK t \in Int :
          /\ Copied(new, old, a, c, t)
          /\ w.at[j] = a + t /\ EndOf(w, j) = c + t
    <3>1. w.at[j] = IF j <= i THEN a ELSE a + s
      BY <1>33, <2>1
    <3>2. EndOf(w, j) = IF j < i THEN c ELSE c + s
      BY <1>2, <1>39, <1>40, <2>1 DEF NewEnd
    <3>3. CASE j < i
      <4>1. j <= i /\ a + 0 = a /\ c + 0 = c /\ 0 \in Int
        BY <3>3
      <4>2. Copied(new, old, a, c, 0)
        BY <1>34, <2>1, <3>3
      <4> QED BY <3>1, <3>2, <3>3, <4>1, <4>2
    <3>4. CASE i < j
      <4>1. ~(j <= i) /\ ~(j < i)
        BY <3>4
      <4>2. Copied(new, old, a, c, s)
        BY <1>35, <2>1, <3>4
      <4> QED BY <3>1, <3>2, <4>1, <4>2
    <3>5. j < i \/ i < j
      BY <1>40
    <3> QED BY <3>3, <3>4, <3>5
  <2>4. PICK h \in Nat, u \in Nat : h = w.at[j] /\ u = EndOf(w, j) /\ u <= g
    <3>1. Inside(w, j)
      BY <1>2, <1>39, FieldInside
    <3>2. w.at[j] \in Nat /\ EndOf(w, j) \in Nat
          /\ EndOf(w, j) <= EndOf(w, Len(w.at))
      BY <3>1 DEF Inside
    <3>3. n \in 1..n
      BY <1>4
    <3>4. EndOf(w, Len(w.at)) = g
      BY <1>2, <1>36, <1>39, <3>3
    <3> QED BY <3>2, <3>4
  <2>5. h = a + t /\ u = c + t
    BY <2>3, <2>4
  <2>6. h <= u /\ u - h = c - a /\ h - a = t
    BY <2>2, <2>5
  <2>7. Copied(new, old, a, c, h - a)
    BY <2>3, <2>6
  <2>8. u <= y
    BY <1>25, <2>4
  <2>9. u <= Len(new) /\ c <= Len(old)
    BY <1>2, <1>3, <1>24, <2>2, <2>8
  <2>10. Slice(new, h, u) = Slice(old, a, c)
    <3>1. MovedTo(new, old, a, c, h, u)
      BY <2>2, <2>6, <2>7, <2>9 DEF MovedTo
    <3> QED BY <3>1, SliceMoves
  <2> QED BY <1>3, <1>33, <2>1, <2>4, <2>10 DEF FieldBytes
<1>41. ASSUME NEW q \in (0..3) \cup (8..11) PROVE At(new, q) = At(old, q)
  <2>1. q \in 0..12 - 1 /\ q + 0 = q
    OBVIOUS
  <2>2. Copied(new, old, 0, 12, 0)
    BY <1>23
  <2> QED BY <2>1, <2>2 DEF Copied
<1>42. w.at[i] = p
  <2>1. i <= i /\ i \in 1..n
    BY <1>4
  <2> QED BY <1>7, <1>33, <2>1
<1>43. ValueAt(new, p) = v /\ TypeAt(new, p) \in Strings
  <2>1. PICK c \in Int : c = 0
    OBVIOUS
  <2>2. p + c = p /\ v + c = v /\ c = 8 * 0
    BY <2>1
  <2>3. Copied(new, old, p, v, c)
    <3>1. p..v - 1 \subseteq 16..v - 1
      BY <1>8
    <3>2. Copied(new, old, 16, v, c)
      BY <1>23, <2>1
    <3> QED BY <3>1, <3>2 DEF Copied
  <2>4. Aligned(c) /\ p + c \in Nat /\ Marshalled(old, p)
    BY <1>7, <2>2 DEF Aligned
  <2>5. SameHead(new, old, p, c)
    BY <1>7, <2>3, <2>4, HeadMoves
  <2>6. TypeAt(old, p) \in Strings
    BY <1>2, <1>3, <1>7 DEF Renewed
  <2> QED BY <1>7, <2>2, <2>5, <2>6 DEF SameHead
<1>44. NameOnly(m, w, i, name)
  <2>1. ASSUME NEW j \in 1..Len(m.at), j # i
        PROVE  FieldBytes(w, j) = FieldBytes(m, j)
    BY <1>2, <1>40, <2>1
  <2>2. ASSUME NEW q \in (0..3) \cup (8..11) PROVE At(w.raw, q) = At(m.raw, q)
    BY <1>3, <1>33, <1>41
  <2>3. TypeAt(w.raw, w.at[i]) \in Strings /\ NameIn(w, i) = name
    BY <1>30, <1>31, <1>33, <1>42, <1>43 DEF NameIn
  <2> QED BY <2>1, <2>2, <2>3 DEF NameOnly
<1>45. BodyIn(endian, new) = BodyIn(endian, old)
  <2>1. from <= y /\ y - from = z - b
    BY <1>4, <1>25
  <2>2. y <= Len(new) /\ z <= Len(old) /\ b <= z
    <3>1. y = Len(new) /\ z = Len(old)
      BY <1>2, <1>3, <1>24
    <3>2. y <= y /\ z <= z /\ b <= z
      BY <1>4
    <3> QED BY <3>1, <3>2
  <2>3. Copied(new, old, b, z, from - b)
    BY <1>23
  <2>4. Slice(new, from, y) = Slice(old, b, z)
    <3>1. MovedTo(new, old, b, z, from, y)
      BY <2>1, <2>2, <2>3 DEF MovedTo
    <3> QED BY <3>1, SliceMoves
  <2>5. y = Len(new) /\ z = Len(old) /\ b = BodyStart(endian, old)
    BY <1>2, <1>3, <1>24
  <2> QED BY <1>29, <2>4, <2>5 DEF BodyIn
<1> QED BY <1>2, <1>3, <1>9, <1>13, <1>32, <1>39, <1>44, <1>45
-----------------------------------------------------------------------------
(* A string in another place.                                                *)

SameText(endian, new, old, p, d) ==
  /\ ReadU32(endian, new, p + d) = ReadU32(endian, old, p)
  /\ Slice(new, (p + d) + 4, (p + d) + 4 + ReadU32(endian, new, p + d))
       = Slice(old, p + 4, p + 4 + ReadU32(endian, old, p))

TextCopied(endian, new, old, p, d) ==
  /\ new \in Seq(Byte) /\ old \in Seq(Byte) /\ p \in Nat /\ d \in Int
  /\ p + d \in Nat /\ ReadU32(endian, old, p) \in Nat
  /\ p + 4 + ReadU32(endian, old, p) <= Len(old)
  /\ p + d + 4 + ReadU32(endian, old, p) <= Len(new)
  /\ Copied(new, old, p, p + 4 + ReadU32(endian, old, p), d)

LEMMA TextMoves ==
  ASSUME NEW endian, NEW new, NEW old, NEW place, NEW shift,
         TextCopied(endian, new, old, place, shift)
  PROVE  SameText(endian, new, old, place, shift)
<1>1. PICK p \in Nat, d \in Int, n \in Nat, h \in Nat :
        /\ p = place /\ d = shift /\ n = ReadU32(endian, old, p) /\ h = p + d
        /\ new \in Seq(Byte) /\ old \in Seq(Byte)
        /\ p + 4 + n <= Len(old) /\ h + 4 + n <= Len(new)
        /\ Copied(new, old, p, p + 4 + n, d)
  BY DEF TextCopied
<1>2. h = p + d
  BY <1>1
<1>3. ReadU32(endian, new, h) = n
  <2>1. p..(p + 4) - 1 \subseteq p..(p + 4 + n) - 1
    OBVIOUS
  <2>2. Copied(new, old, p, p + 4, d)
    BY <1>1, <2>1 DEF Copied
  <2>3. SameWord(endian, new, old, p, d)
    BY <2>2, WordCopied
  <2> QED BY <1>1, <2>3 DEF SameWord
<1>4. PICK a \in Nat, b \in Nat, c \in Nat, e \in Nat :
        /\ a = p + 4 /\ b = p + 4 + n /\ c = h + 4 /\ e = h + 4 + n
        /\ c - a = d /\ e - c = b - a /\ a <= b /\ c <= e
        /\ a..b - 1 \subseteq p..(p + 4 + n) - 1
  BY <1>2
<1>5. Copied(new, old, a, b, c - a)
  BY <1>1, <1>4 DEF Copied
<1>6. MovedTo(new, old, a, b, c, e)
  BY <1>1, <1>4, <1>5 DEF MovedTo
<1>7. Slice(new, c, e) = Slice(old, a, b)
  BY <1>6, SliceMoves
<1>8. /\ Slice(new, h + 4, h + 4 + n) = Slice(old, p + 4, p + 4 + n)
      /\ h = place + shift /\ p = place
  BY <1>1, <1>4, <1>7
<1> QED BY <1>1, <1>3, <1>8 DEF SameText

\* Equal bodies, byte by byte.
LEMMA SameBody ==
  ASSUME NEW new \in Seq(Byte), NEW old \in Seq(Byte), NEW c \in Nat,
         NEW a \in Nat, c <= Len(new), a <= Len(old),
         Slice(new, c, Len(new)) = Slice(old, a, Len(old))
  PROVE  Len(new) - c = Len(old) - a /\ Copied(new, old, a, Len(old), c - a)
<1>1. PICK e \in Nat, b \in Nat : e = Len(new) /\ b = Len(old)
  BY LenProperties
<1>2. PICK s \in Seq(Byte) :
        /\ s = Slice(new, c, e) /\ Len(s) = e - c
        /\ \A p \in 0..e - c - 1 : At(s, p) = At(new, c + p)
  <2>1. c <= e /\ e <= Len(new)
    BY <1>1
  <2> QED BY <2>1, SliceType
<1>3. PICK t \in Seq(Byte) :
        /\ t = Slice(old, a, b) /\ Len(t) = b - a
        /\ \A p \in 0..b - a - 1 : At(t, p) = At(old, a + p)
  <2>1. a <= b /\ b <= Len(old)
    BY <1>1
  <2> QED BY <2>1, SliceType
<1>4. s = t
  BY <1>1, <1>2, <1>3
<1>5. e - c = b - a
  BY <1>2, <1>3, <1>4
<1>6. ASSUME NEW q \in a..b - 1 PROVE At(new, q + (c - a)) = At(old, q)
  <2>1. PICK p \in Nat : /\ p = q - a /\ p \in 0..b - a - 1 /\ p \in 0..e - c - 1
                         /\ q + (c - a) = c + p /\ q = a + p
    BY <1>5
  <2>2. At(s, p) = At(new, c + p) /\ At(t, p) = At(old, a + p)
    BY <1>2, <1>3, <2>1
  <2> QED BY <1>4, <2>1, <2>2
<1>7. Copied(new, old, a, b, c - a)
  BY <1>6 DEF Copied
<1> QED BY <1>1, <1>5, <1>7

-----------------------------------------------------------------------------
(* The fields of a message with another body.                                *)

NewBody(m, new, body) ==
  /\ WellFormed(m) /\ body \in Seq(Byte)
  /\ BodyReplaced(m.endian, new, m.raw, BodyStart(m.endian, m.raw), body)

SameFieldIn(m, w, j) ==
  /\ FieldBytes(w, j) = FieldBytes(m, j)
  /\ TypeAt(m.raw, m.at[j]) \in Strings =>
       TypeAt(w.raw, w.at[j]) \in Strings /\ NameIn(w, j) = NameIn(m, j)
SameFields(m, w) ==
  /\ \A p \in (0..3) \cup (8..11) : At(w.raw, p) = At(m.raw, p)
  /\ \A j \in 1..Len(m.at) : SameFieldIn(m, w, j)

LEMMA BodyKeeps ==
  ASSUME NEW m, NEW bytes, NEW body, NewBody(m, bytes, body)
  PROVE  /\ WellFormed([m EXCEPT !.raw = bytes])
         /\ SameFields(m, [m EXCEPT !.raw = bytes])
         /\ BodyIn(m.endian, bytes) = body
<1>1. WellFormed(m) /\ body \in Seq(Byte)
      /\ BodyReplaced(m.endian, bytes, m.raw, BodyStart(m.endian, m.raw), body)
  BY DEF NewBody
<1>2. PICK w : w = [m EXCEPT !.raw = bytes]
  OBVIOUS
<1>3. /\ WellFormed(w) /\ BodyStart(m.endian, bytes) = BodyStart(m.endian, m.raw)
      /\ Slice(bytes, BodyStart(m.endian, bytes), Len(bytes)) = body
      /\ \A j \in 1..Len(m.at) : EndOf(w, j) = EndOf(m, j)
  BY <1>1, <1>2, BodyFormed
<1>4. w.raw = bytes /\ w.endian = m.endian /\ w.at = m.at
  BY <1>1, <1>2 DEF WellFormed
<1>5. PICK old \in Seq(Byte), endian \in {m.endian}, b \in Nat, f \in Nat, z \in Nat :
        /\ old = m.raw /\ b = BodyStart(endian, old) /\ z = Len(old)
        /\ f = EndOf(m, Len(m.at)) /\ f <= b /\ b <= z
  <2>1. /\ m.raw \in Seq(Byte) /\ BodyStart(m.endian, m.raw) \in Nat
        /\ Len(m.raw) \in Nat /\ FieldsEnd(m.endian, m.raw) \in Nat
        /\ FieldsEnd(m.endian, m.raw) = EndOf(m, Len(m.at))
        /\ FieldsEnd(m.endian, m.raw) <= BodyStart(m.endian, m.raw)
        /\ BodyStart(m.endian, m.raw) <= Len(m.raw)
    BY <1>1, Formed
  <2> QED BY ZenonT(30), <2>1
<1>6. f <= b /\ b <= z
  BY <1>5
<1>7. PICK new \in Seq(Byte) :
        new = bytes /\ Copied(new, old, 0, 4, 0) /\ Copied(new, old, 8, b, 0)
  BY <1>1, <1>5 DEF BodyReplaced
<1>8. PICK l \in Nat : l = Len(new) /\ b <= l
  <2>1. PICK k \in Nat, l \in Nat : k = Len(body) /\ l = Len(new)
    BY <1>1, LenProperties
  <2>2. l = b + k
    BY <1>1, <1>5, <1>7, <2>1 DEF BodyReplaced
  <2>3. b <= l
    BY <2>2
  <2> QED BY <2>1, <2>3
<1>9. 16 <= b
  <2>1. 0 \in 0..Len(m.at) /\ Len(m.at) \in 0..Len(m.at)
    BY <1>1, Formed
  <2>2. 16 <= EndOf(m, Len(m.at))
    BY <1>1, <2>1, EndsInOrder
  <2>3. 16 <= f
    BY <1>5, <2>2
  <2> QED BY <1>6, <2>3
<1>10. ASSUME NEW q \in (0..3) \cup (8..11) PROVE At(w.raw, q) = At(m.raw, q)
  <2>1. q + 0 = q /\ (q \in 0..4 - 1 \/ q \in 8..b - 1)
    BY <1>9
  <2>2. At(new, q + 0) = At(old, q)
    BY <1>7, <2>1 DEF Copied
  <2> QED BY <1>4, <1>5, <1>7, <2>1, <2>2
<1>11. ASSUME NEW j \in 1..Len(m.at) PROVE SameFieldIn(m, w, j)
  <2>1. PICK p \in Nat, v \in Nat, e \in Nat, t \in Nat :
          /\ p = m.at[j] /\ v = ValueAt(old, p) /\ e = EndOf(m, j)
          /\ t = LengthEnd(old, p)
          /\ p + 4 <= v /\ v <= t /\ t <= e /\ e <= f
          /\ Marshalled(old, p) /\ e = FieldEnd(endian, old, p)
    <3>1. Inside(m, j)
      BY <1>1, FieldInside
    <3> QED BY <1>5, <3>1 DEF Inside
  <2>2. p + 4 <= v /\ v <= t /\ t <= e /\ e <= f
    BY <2>1
  <2>3. 8 <= p
    <3>1. j \in 1..Len(m.at) /\ j - 1 \in 0..Len(m.at)
      <4>1. Len(m.at) \in Nat
        BY <1>1, Formed
      <4> QED BY <4>1
    <3>2. PICK x \in Nat : x = EndOf(m, j - 1) /\ 16 <= x /\ x <= m.at[j]
      BY <1>1, <3>1, EndsInOrder
    <3>3. 16 <= x /\ x <= p
      BY <2>1, <3>2
    <3> QED BY <3>3
  <2>4. Copied(new, old, p, e, 0)
    <3>1. p..e - 1 \subseteq 8..b - 1
      BY <1>6, <2>2, <2>3
    <3>2. Copied(new, old, 8, b, 0)
      BY <1>7
    <3> QED BY <3>1, <3>2 DEF Copied
  <2>5. FieldBytes(w, j) = FieldBytes(m, j)
    <3>1. p <= e /\ e <= z /\ e <= l /\ p - p = 0
      BY <1>6, <1>8, <2>2
    <3>2. MovedTo(new, old, p, e, p, e)
      <4>1. e - p = e - p /\ Copied(new, old, p, e, p - p)
        BY <2>4, <3>1
      <4>2. e <= Len(new) /\ e <= Len(old)
        BY <1>5, <1>8, <3>1
      <4> QED BY <3>1, <4>1, <4>2 DEF MovedTo
    <3>3. Slice(new, p, e) = Slice(old, p, e)
      BY <3>2, SliceMoves
    <3>4. /\ w.at[j] = p /\ EndOf(w, j) = e /\ w.raw = new
          /\ m.at[j] = p /\ EndOf(m, j) = e /\ m.raw = old
      BY <1>3, <1>4, <1>5, <1>7, <2>1
    <3> QED BY <3>3, <3>4 DEF FieldBytes
  <2>6. ASSUME TypeAt(m.raw, m.at[j]) \in Strings
        PROVE  TypeAt(w.raw, w.at[j]) \in Strings /\ NameIn(w, j) = NameIn(m, j)
    <3>1. PICK c \in Int : c = 0
      OBVIOUS
    <3>2. p + c = p /\ v + c = v /\ c = 8 * 0
      BY <3>1
    <3>3. Copied(new, old, p, e, c)
      BY <2>4, <3>1
    <3>4. SameHead(new, old, p, c)
      <4>1. p..v - 1 \subseteq p..e - 1
        BY <2>2
      <4>2. Copied(new, old, p, v, c)
        BY <3>3, <4>1 DEF Copied
      <4>3. Aligned(c) /\ p + c \in Nat
        <5>1. c = 8 * 0 /\ 0 \in Int /\ p + c = p
          BY <3>2
        <5> QED BY <5>1 DEF Aligned
      <4>4. Marshalled(old, p) /\ Copied(new, old, p, ValueAt(old, p), c)
        BY <2>1, <4>2
      <4> QED BY <4>3, <4>4, HeadMoves
    <3>5. TypeAt(new, p) = TypeAt(old, p) /\ ValueAt(new, p) = v
      BY <2>1, <3>2, <3>4 DEF SameHead
    <3>6. PICK type \in Strings :
            type = TypeAt(old, p) /\ type # Char.a /\ type # Char.v
      BY <1>5, <2>1, <2>6, Codes
    <3>7. e = v + 4 + ReadU32(endian, old, v) + 1
      <4>1. e = EndOfBasic(endian, old, type, v)
        BY <2>1, <3>6 DEF FieldEnd
      <4> QED BY <4>1, StringEnd
    <3>8. PICK n \in Nat : n = ReadU32(endian, old, v) /\ e = v + 4 + n + 1
      <4>1. v + 4 <= Len(old)
        <5>1. LengthEnd(old, p) = v + 4
          BY <2>1, <3>6 DEF LengthEnd, LengthSize
        <5>2. t = v + 4
          BY <2>1, <5>1
        <5>3. v + 4 <= z
          BY <1>6, <2>2, <5>2
        <5> QED BY <1>5, <5>3
      <4>2. ReadU32(endian, old, v) \in Nat
        BY <4>1, WordType DEF Byte
      <4> QED BY <3>7, <4>2
    <3>9. TextCopied(endian, new, old, v, c)
      <4>1. /\ v + 4 + n <= z /\ v + c + 4 + n <= l /\ v + c \in Nat
            /\ v..(v + 4 + n) - 1 \subseteq p..e - 1
        <5>1. e = v + 4 + n + 1
          BY <3>8
        <5>2. e <= z /\ e <= l /\ p <= v
          BY <1>6, <1>8, <2>2
        <5>3. v + 4 + n <= z /\ v + 4 + n <= l
          BY <5>1, <5>2
        <5>4. v..(v + 4 + n) - 1 \subseteq p..e - 1
          <6>1. PICK h \in Nat : h = v + 4 + n /\ h <= e
            BY <5>1
          <6>2. h <= e /\ p <= v
            BY <5>2, <6>1
          <6>3. ASSUME NEW q \in v..h - 1 PROVE q \in p..e - 1
            BY <6>2
          <6> QED BY <6>1, <6>3
        <5> QED BY <3>2, <5>3, <5>4
      <4>2. Copied(new, old, v, v + 4 + n, c)
        BY <3>3, <4>1 DEF Copied
      <4>3. z = Len(old) /\ l = Len(new) /\ n = ReadU32(endian, old, v)
        BY <1>5, <1>8, <3>8
      <4> QED BY <4>1, <4>2, <4>3 DEF TextCopied
    <3>10. Slice(new, v + 4, v + 4 + ReadU32(endian, new, v))
             = Slice(old, v + 4, v + 4 + ReadU32(endian, old, v))
      <4>1. SameText(endian, new, old, v, c)
        BY <3>9, TextMoves
      <4> QED BY <3>2, <4>1 DEF SameText
    <3>11. /\ w.at[j] = p /\ w.raw = new /\ w.endian = endian
           /\ m.at[j] = p /\ m.raw = old /\ m.endian = endian
           /\ ValueAt(new, p) = v /\ ValueAt(old, p) = v
      BY <1>4, <1>5, <1>7, <2>1, <3>5
    <3>12. TypeAt(w.raw, w.at[j]) \in Strings
      BY <3>5, <3>6, <3>11
    <3>13. NameIn(w, j) = NameIn(m, j)
      BY <3>10, <3>11 DEF NameIn
    <3> QED BY <3>12, <3>13
  <2> QED BY <2>5, <2>6 DEF SameFieldIn
<1>12. SameFields(m, w)
  BY <1>10, <1>11 DEF SameFields
<1> QED BY <1>2, <1>3, <1>12 DEF BodyIn

-----------------------------------------------------------------------------
(* What the scan skips, and what it finds.                                   *)

\* A value that is neither an array nor aligned to eight bytes is looked at
\* as marshalling puts it.
LEMMA FirstLook ==
  ASSUME Scanning, phase = "scan", AtField,
         TypeAt(raw, FieldPos) \notin Longs, SigLen(raw, FieldPos) <= 1
  PROVE  /\ SkipType = TypeAt(raw, FieldPos)
         /\ ValuePos = ValueAt(raw, FieldPos)
<1> DEFINE type == TypeAt(raw, FieldPos)
<1>1. /\ type \in Basic \cup Chars({"a", "v"})
      /\ SigLen(raw, FieldPos) = IF type = Char.a THEN 2 ELSE 1
  BY FieldFound
<1>2. PICK k \in Nat : FieldPos = 8 * k
  BY Align DEF Scanning, FieldPos
<1>3. SigLen(raw, FieldPos) = 1 /\ ScanSigLen = 1 /\ type # Char.a
  BY <1>1 DEF ScanSigLen, SigLen
<1>4. AfterSig = 8 * k + 4 /\ AfterSig = FieldPos + SigLen(raw, FieldPos) + 3
  BY <1>2, <1>3 DEF AfterSig
<1>5. SigByte(AfterSig) = type
  <2>1. AfterSig - ScanSigLen - 1 = FieldPos + 2
    BY <1>2, <1>3, <1>4
  <2> QED BY <1>3, <2>1 DEF SigByte, TypeAt
<1>6. ValuePos = ValueAt(raw, FieldPos)
  BY <1>4, <1>5 DEF ValuePos, ValueAt, ValueAlign, AlignOf
<1>7. AlignOf(type) \in {1, 2, 4}
  BY <1>1, <1>3, Codes DEF AlignOf
<1>8. ValuePos = 8 * k + 4
  <2>1. ValuePos = AlignUp(8 * k + 4, AlignOf(type))
    BY <1>4, <1>6 DEF ValueAt
  <2> QED BY <1>7, <2>1, AlignValue
<1>9. SkipType = At(raw, FieldPos + 2)
  <2>1. ValuePos - ScanSigLen - 1 = FieldPos + 2
    BY <1>2, <1>3, <1>8
  <2> QED BY <1>3, <2>1 DEF SkipType, SigByte
<1> QED BY <1>6, <1>9 DEF TypeAt

\* Where the message is that the loop is at.
LEMMA FieldSeen ==
  ASSUME Scanning, phase = "scan", NEW i \in 0..Len(msg.at), pos = EndOf(msg, i)
  PROVE  /\ AtField <=> i < Len(msg.at)
         /\ AtField => /\ i + 1 \in 1..Len(msg.at) /\ FieldPos = msg.at[i + 1]
                       /\ Inside(msg, i + 1) /\ FieldFormed(msg, i + 1)
<1>1. WellFormed(msg) /\ raw = msg.raw
  BY DEF Scanning
<1>2. PICK n \in Nat, f \in Nat :
        n = Len(msg.at) /\ f = ArrayEnd /\ f = EndOf(msg, n)
  BY <1>1, Formed DEF ArrayEnd
<1>3. CASE i < n
  <2>1. i + 1 \in 1..n /\ (i + 1) - 1 = i
    BY <1>3, <1>2
  <2>2. Inside(msg, i + 1) /\ FieldFormed(msg, i + 1)
    BY <1>1, <1>2, <2>1, FieldInside DEF WellFormed
  <2>3. FieldPos = msg.at[i + 1]
    BY <2>1, <2>2 DEF FieldFormed, FieldPos
  <2>4. PICK p \in Nat, v \in Nat, l \in Nat, e \in Nat :
          /\ p = msg.at[i + 1] /\ p + 4 <= v /\ v <= l /\ l <= e /\ e <= f
    BY <1>2, <2>2 DEF Inside
  <2>5. p + 4 <= f
    BY <2>4
  <2>6. PICK x \in Nat : x = pos /\ x <= p
    <3>1. i + 1 \in 1..Len(msg.at) /\ i \in 0..Len(msg.at)
      BY <1>2, <2>1
    <3>2. EndOf(msg, (i + 1) - 1) <= msg.at[i + 1] /\ EndOf(msg, i) \in Nat
      BY <1>1, <3>1, EndsInOrder
    <3> QED BY <2>1, <2>4, <3>2
  <2>7. x < f /\ p < f /\ p + 1 < f
    BY <2>5, <2>6
  <2>8. AtField
    BY <1>2, <2>3, <2>4, <2>6, <2>7 DEF AtField
  <2> QED BY <1>2, <1>3, <2>1, <2>2, <2>3, <2>8
<1>4. CASE i = n
  <2>1. pos = f /\ ~(f < f)
    BY <1>2, <1>4
  <2>2. ~AtField
    BY <1>2, <2>1 DEF AtField
  <2> QED BY <1>2, <1>4, <2>2
<1>5. i < n \/ i = n
  BY <1>2
<1> QED BY <1>3, <1>4, <1>5

\* Without an obstacle the value can be skipped.
LEMMA SkipPossible ==
  ASSUME Scanning, phase = "scan", AtField,
         NEW i \in 1..Len(msg.at), FieldPos = msg.at[i],
         Inside(msg, i), FieldFormed(msg, i), ~Obstacle(i)
  PROVE  CanSkip(SkipType, ValuePos)
<1>1. WellFormed(msg) /\ raw = msg.raw
  BY DEF Scanning
<1>2. PICK type : type = TypeAt(raw, FieldPos) /\ type \notin Longs
  BY <1>1 DEF Obstacle
<1>3. /\ SigLen(raw, FieldPos) = 1 /\ type # Char.a
      /\ type \in Basic \cup Chars({"a", "v"})
      /\ type = Char.v => /\ At(raw, ValueAt(raw, FieldPos)) = 1
                         /\ At(raw, ValueAt(raw, FieldPos) + 1) \in Basic
  BY <1>1, <1>2 DEF Obstacle, FieldFormed
<1>4. SkipType = type /\ ValuePos = ValueAt(raw, FieldPos)
  <2>1. SigLen(raw, FieldPos) <= 1
    <3>1. SigLen(raw, FieldPos) = 1
      BY <1>3
    <3> QED BY <3>1
  <2> QED BY <1>2, <2>1, FirstLook
<1>5. PICK v \in Nat, l \in Nat, f \in Nat :
        /\ v = ValuePos /\ l = LengthEnd(raw, FieldPos) /\ f = ArrayEnd
        /\ v <= l /\ l <= f
  <2>1. PICK f \in Nat : f = ArrayEnd /\ f = EndOf(msg, Len(msg.at))
    BY <1>1, Formed DEF ArrayEnd
  <2>2. PICK v \in Nat, l \in Nat, e \in Nat :
          /\ v = ValueAt(raw, FieldPos) /\ l = LengthEnd(raw, FieldPos)
          /\ v <= l /\ l <= e /\ e <= f
    BY <1>1, <2>1 DEF Inside
  <2>3. l <= f
    BY <2>2
  <2> QED BY <1>4, <2>1, <2>2, <2>3
<1>6. v <= l /\ l <= f
  BY <1>5
<1>7. CASE type # Char.v
  <2>1. PICK s \in Nat : s = LengthSize(type)
    BY DEF LengthSize
  <2>2. l = v + s
    BY <1>2, <1>4, <1>5, <1>7, <2>1 DEF LengthEnd
  <2>3. v + s <= f
    BY <1>6, <2>2
  <2>4. /\ SkipType = type /\ ValuePos = v /\ ArrayEnd = f
        /\ type \in Basic \cup Chars({"a", "v"}) /\ LengthSize(type) = s
    BY <1>3, <1>4, <1>5, <2>1
  <2> QED BY <1>7, <2>3, <2>4 DEF CanSkip
<1>8. CASE type = Char.v
  <2>1. LengthSize(type) = 0 /\ v + 0 <= f
    BY <1>6, <1>8, Codes DEF LengthSize
  <2>2. PICK inner \in Basic : inner = At(raw, v + 1) /\ At(raw, v) = 1
    <3>1. v = ValueAt(raw, FieldPos)
      BY <1>4, <1>5
    <3>2. At(raw, v) = 1 /\ At(raw, v + 1) \in Basic
      BY <1>3, <1>8, <3>1
    <3> QED BY <3>2
  <2>3. PICK a \in {1, 2, 4, 8}, s \in Nat :
          a = AlignOf(inner) /\ s = LengthSize(inner)
    BY AlignOfType DEF LengthSize
  <2>10. PICK x \in Nat : x = v + 3
    OBVIOUS
  <2>11. PICK w \in Nat : w = AlignUp(x, a) /\ x <= w
    BY AlignType
  <2>4. x = v + 3 /\ w = AlignUp(x, a) /\ x <= w
    BY <2>10, <2>11
  <2>5. l = w + s
    BY <1>2, <1>4, <1>5, <1>8, <2>2, <2>3, <2>4 DEF LengthEnd
  <2>6. InnerType(v) = inner
    BY <2>2 DEF InnerType
  <2>7. InnerPos(v) = w
    <3>1. v + 1 + At(raw, v) + 1 = x
      BY <2>2, <2>4
    <3>2. ValueAlign(inner) = a
      BY <2>3 DEF ValueAlign, AlignOf
    <3> QED BY <2>4, <2>6, <3>1, <3>2 DEF InnerPos
  <2>8. x <= w /\ x = v + 3
    BY <2>4
  <2>9. v < f /\ v + 1 + 1 + 1 <= f /\ w + s <= f
    BY <1>6, <2>5, <2>8
  <2>12. /\ SkipType = type /\ ValuePos = v /\ ArrayEnd = f
         /\ type \in Basic \cup Chars({"a", "v"})
    BY <1>3, <1>4, <1>5
  <2>13. v + LengthSize(type) <= f
    BY <2>1
  <2>14. v < f /\ v + 1 + At(raw, v) + 1 <= f
    BY <2>2, <2>9
  <2>15. InnerType(v) \in Basic /\ InnerPos(v) + LengthSize(InnerType(v)) <= f
    BY <2>3, <2>6, <2>7, <2>9
  <2> QED BY <2>12, <2>13, <2>14, <2>15 DEF CanSkip
<1> QED BY <1>7, <1>8

-----------------------------------------------------------------------------
(* Names, and the field whose name is rewritten.                             *)

LEMMA RenamedLonger ==
  ASSUME NEW name \in Seq(Byte), IsRenamed(name),
         direction \in {"ToClient", "ToUpstream"}
  PROVE  /\ Renamed(name) \in Seq(Byte)
         /\ Len(Renamed(name)) \in Nat /\ Len(Renamed(name)) <= Len(name) + 2
<1>1. PICK n \in Nat : n = Len(name) /\ 1 <= n
  <2>1. Len(name) \in Nat /\ Len(name) > 0
    BY LenProperties DEF IsRenamed
  <2> QED BY <2>1
<1>2. PICK a \in Seq(Byte) : a = SubSeq(name, 1, 1) /\ Len(a) = 1
  <2>1. PICK x \in Nat, y \in Nat : x = 0 /\ y = 1 /\ x <= y /\ y <= n /\ x + 1 = 1
    BY <1>1
  <2>2. y <= Len(name) /\ x <= y
    BY <1>1, <2>1
  <2>3. Slice(name, x, y) \in Seq(Byte) /\ Len(Slice(name, x, y)) = y - x
    BY <2>2, SliceType
  <2>4. Slice(name, x, y) = SubSeq(name, 1, 1) /\ y - x = 1
    BY <2>1 DEF Slice
  <2> QED BY <2>3, <2>4
<1>3. CASE direction = "ToClient"
  <2>1. PICK h \in Seq(Byte) : h = <<Char.h, Char.dot>> /\ Len(h) = 2
    <3>1. PICK x \in Byte, y \in Byte : x = Char.h /\ y = Char.dot
      <4>1. Char.h = 104 /\ Char.dot = 46
        BY DEF Char
      <4>2. 104 \in Byte /\ 46 \in Byte
        BY DEF Byte
      <4> QED BY SMTT(20), <4>1, <4>2
    <3>2. <<x, y>> \in Seq(Byte) /\ Len(<<x, y>>) = 2
      OBVIOUS
    <3> QED BY <3>1, <3>2
  <2>2. PICK b \in Seq(Byte) : b = SubSeq(name, 2, Len(name)) /\ Len(b) = n - 1
    <3>1. PICK x \in Nat : x = 1 /\ x <= n /\ x + 1 = 2
      BY <1>1
    <3>2. Slice(name, x, n) \in Seq(Byte) /\ Len(Slice(name, x, n)) = n - x
      <4>1. x <= n /\ n <= Len(name)
        BY <1>1, <3>1
      <4> QED BY <4>1, SliceType
    <3>3. Slice(name, x, n) = SubSeq(name, 2, Len(name)) /\ n - x = n - 1
      BY <1>1, <3>1 DEF Slice
    <3> QED BY <3>2, <3>3
  <2>3. PICK c \in Seq(Byte) : c = a \o h /\ Len(c) = 3
    <3>1. a \o h \in Seq(Byte) /\ Len(a \o h) = Len(a) + Len(h)
      BY JoinType
    <3>2. Len(a) = 1 /\ Len(h) = 2
      BY <1>2, <2>1
    <3>3. Len(a \o h) = 3
      BY <3>1, <3>2
    <3> QED BY <3>1, <3>3
  <2>4. PICK r \in Seq(Byte) : r = c \o b /\ Len(r) = n + 2
    <3>1. c \o b \in Seq(Byte) /\ Len(c \o b) = Len(c) + Len(b)
      BY JoinType
    <3>2. 3 + (n - 1) = n + 2
      OBVIOUS
    <3> QED BY <2>2, <2>3, <3>1, <3>2
  <2>5. Renamed(name) = r
    BY <1>2, <1>3, <2>1, <2>2, <2>3, <2>4 DEF Renamed
  <2>6. n + 2 \in Nat /\ n + 2 <= n + 2
    OBVIOUS
  <2> QED BY <1>1, <2>4, <2>5, <2>6
<1>4. CASE direction = "ToUpstream"
  <2>1. 3 <= n
    <3>1. Len(name) > 2
      BY <1>4 DEF IsRenamed
    <3> QED BY <1>1, <3>1
  <2>2. PICK b \in Seq(Byte) : b = SubSeq(name, 4, Len(name)) /\ Len(b) = n - 3
    <3>1. PICK x \in Nat : x = 3 /\ x <= n /\ x + 1 = 4
      BY <2>1
    <3>2. Slice(name, x, n) \in Seq(Byte) /\ Len(Slice(name, x, n)) = n - x
      <4>1. x <= n /\ n <= Len(name)
        BY <1>1, <3>1
      <4> QED BY <4>1, SliceType
    <3>3. Slice(name, x, n) = SubSeq(name, 4, Len(name)) /\ n - x = n - 3
      BY <1>1, <3>1 DEF Slice
    <3> QED BY <3>2, <3>3
  <2>3. PICK r \in Seq(Byte) : r = a \o b /\ Len(r) = n - 2
    <3>1. a \o b \in Seq(Byte) /\ Len(a \o b) = Len(a) + Len(b)
      BY JoinType
    <3>2. 1 + (n - 3) = n - 2
      OBVIOUS
    <3> QED BY <1>2, <2>2, <3>1, <3>2
  <2>4. Renamed(name) = r
    BY <1>2, <1>4, <2>2, <2>3 DEF Renamed
  <2>5. n - 2 \in Nat /\ n - 2 <= n + 2
    BY <2>1
  <2> QED BY <1>1, <2>3, <2>4, <2>5
<1> QED BY <1>3, <1>4

\* The scan has passed i fields, none of them an obstacle or the one it is
\* looking for.
Passed(i) ==
  /\ pos = EndOf(msg, i)
  /\ \A j \in 1..i : ~Obstacle(j) /\ At(msg.raw, msg.at[j]) # FieldCode
Looking ==
  /\ \E i \in Targets : IsRenamed(Name(i))
  /\ \E i \in 0..Len(msg.at) : Passed(i)

\* A message has one field of a code.
LEMMA OneTarget ==
  ASSUME WellFormed(msg), NEW i \in 1..Len(msg.at),
         At(msg.raw, msg.at[i]) = FieldCode, NEW j \in Targets
  PROVE  j = i
<1>1. PICK n \in Nat : n = Len(msg.at)
  BY Formed
<1>2. j \in 1..n /\ At(msg.raw, msg.at[j]) = FieldCode
  BY <1>1 DEF Targets, Fields
<1>3. ~(i < j) /\ ~(j < i)
  BY <1>1, <1>2 DEF WellFormed
<1> QED BY <1>1, <1>2, <1>3

LEMMA FoundTarget ==
  ASSUME Scanning, phase = "scan", Looking, AtField, IsTarget
  PROVE  \E i \in 1..Len(msg.at) :
           /\ Found = {i} /\ i \in Targets /\ IsRenamed(Name(i))
           /\ FieldPos = msg.at[i] /\ ValuePos = ValueAt(raw, FieldPos)
<1>1. WellFormed(msg) /\ raw = msg.raw
  BY DEF Scanning
<1>2. PICK j \in 0..Len(msg.at) : Passed(j)
  BY DEF Looking
<1>3. PICK n \in Nat : n = Len(msg.at)
  BY <1>1, Formed
<1>4. PICK i \in 1..Len(msg.at) :
        i = j + 1 /\ FieldPos = msg.at[i] /\ FieldFormed(msg, i)
  BY <1>2, FieldSeen DEF Passed
<1>5. At(msg.raw, msg.at[i]) = FieldCode
  BY <1>1, <1>4 DEF IsTarget
<1>6. PICK t \in Targets : IsRenamed(Name(t))
  BY DEF Looking
<1>7. i \in Targets /\ IsRenamed(Name(i))
  BY <1>1, <1>5, <1>6, OneTarget
<1>8. TypeAt(raw, FieldPos) = Char.s
  BY <1>1, <1>4, <1>7 DEF Targets
<1>9. TypeAt(raw, FieldPos) \notin Longs /\ TypeAt(raw, FieldPos) # Char.a
  <2>1. Char.s = 115
    BY DEF Char
  <2> QED BY <1>8, <2>1, Codes
<1>10. ValuePos = ValueAt(raw, FieldPos)
  <2>1. SigLen(raw, FieldPos) = 1
    BY <1>1, <1>4, <1>9 DEF FieldFormed
  <2>2. SigLen(raw, FieldPos) <= 1
    BY <2>1
  <2> QED BY <1>9, <2>2, FirstLook
<1>11. i \in Found
  <2>1. ASSUME NEW k \in 1..i - 1 PROVE ~Obstacle(k)
    <3>1. k \in 1..j
      BY <1>3, <1>4
    <3> QED BY <1>2, <3>1 DEF Passed
  <2> QED BY <1>7, <2>1 DEF Found
<1>12. ASSUME NEW k \in Found PROVE k = i
  <2>1. k \in Targets
    BY DEF Found
  <2> QED BY <1>1, <1>5, <2>1, OneTarget
<1>13. Found = {i}
  BY <1>11, <1>12
<1> QED BY <1>4, <1>7, <1>10, <1>13

\* When the scan gives up, the field is out of its reach or there is none.
LEMMA NoneFound ==
  ASSUME Scanning, phase = "scan", Looking,
         AtField => ~IsTarget /\ ~CanSkip(SkipType, ValuePos)
  PROVE  Found = {}
<1>1. WellFormed(msg) /\ raw = msg.raw
  BY DEF Scanning
<1>2. PICK j \in 0..Len(msg.at) : Passed(j)
  BY DEF Looking
<1>3. PICK n \in Nat : n = Len(msg.at)
  BY <1>1, Formed
<1>4. SUFFICES ASSUME NEW k \in Found PROVE FALSE
  OBVIOUS
<1>5. /\ k \in 1..n /\ At(msg.raw, msg.at[k]) = FieldCode
      /\ \A i \in 1..k - 1 : ~Obstacle(i)
  BY <1>3 DEF Found, Targets, Fields
<1>6. j < k
  <2>1. k \notin 1..j
    BY <1>2, <1>5 DEF Passed
  <2> QED BY <1>3, <1>5, <2>1
<1>7. /\ AtField /\ j + 1 \in 1..Len(msg.at) /\ FieldPos = msg.at[j + 1]
      /\ Inside(msg, j + 1) /\ FieldFormed(msg, j + 1)
  <2>1. j < Len(msg.at)
    BY <1>3, <1>5, <1>6
  <2> QED BY <1>2, <2>1, FieldSeen DEF Passed
<1>8. k # j + 1
  BY <1>1, <1>5, <1>7 DEF IsTarget
<1>9. ~Obstacle(j + 1)
  <2>1. j + 1 \in 1..k - 1
    BY <1>3, <1>5, <1>6, <1>8
  <2> QED BY <1>5, <2>1
<1>10. CanSkip(SkipType, ValuePos)
  BY <1>7, <1>9, SkipPossible
<1> QED BY <1>7, <1>10

-----------------------------------------------------------------------------
(* The header laid out anew.                                                 *)

ReplacedBytes ==
  Slice(raw, 0, 12) \o ToU32(msg.endian, NewArrayLen(NewData))
    \o Slice(raw, 16, ValuePos) \o NewData
    \o Zeros(PaddingIfMore(ValuePos + Len(NewData)))
    \o (IF MoreFields THEN Slice(raw, OldNext, ArrayEnd) ELSE <<>>)
    \o Zeros(Padding(16 + NewArrayLen(NewData)))
    \o Slice(raw, BodyStart(msg.endian, raw), Len(raw))

\* The field the scan has found, and its value.
AtTarget(i) ==
  /\ Scanning /\ raw = msg.raw /\ Fits(msg)
  /\ direction \in {"ToClient", "ToUpstream"}
  /\ i \in Targets /\ IsRenamed(Name(i))
  /\ FieldPos = msg.at[i] /\ ValuePos = ValueAt(raw, FieldPos)

\* The numbers of the old field and the new name.
LEMMA TargetNumbers ==
  ASSUME NEW i, AtTarget(i)
  PROVE  \E v \in Nat, e \in Nat, f \in Nat, d \in Nat :
           /\ v = ValuePos /\ e = OldEnd /\ f = ArrayEnd /\ d = Len(NewData)
           /\ e = EndOf(msg, i) /\ 16 <= v /\ v <= e /\ e <= f
           /\ v + d <= e + 2 /\ f <= 16 + MAX_MESSAGE_SIZE
           /\ IsString(msg.endian, NewData, Renamed(Name(i)))
           /\ Renamed(Name(i)) \in Seq(Byte)
           /\ d = Len(Renamed(Name(i))) + 5
<1>1. /\ WellFormed(msg) /\ raw = msg.raw /\ i \in 1..Len(msg.at)
      /\ TypeAt(raw, FieldPos) = Char.s
  BY DEF AtTarget, Scanning, Targets, Fields
<1>2. PICK bytes \in Seq(Byte), endian \in {"little", "big"}, f \in Nat, z \in Nat :
        /\ bytes = raw /\ endian = msg.endian /\ f = ArrayEnd /\ z = Len(bytes)
        /\ f <= z /\ f = EndOf(msg, Len(msg.at))
  <2>1. PICK f \in Nat, b \in Nat, z \in Nat :
          /\ f = ArrayEnd /\ b = BodyStart(msg.endian, raw) /\ z = Len(raw)
          /\ f <= b /\ b <= z /\ f = EndOf(msg, Len(msg.at))
    BY <1>1, Formed DEF ArrayEnd
  <2>2. f <= z
    BY <2>1
  <2>3. raw \in Seq(Byte) /\ msg.endian \in {"little", "big"}
    BY <1>1, Formed
  <2> QED BY <2>1, <2>2, <2>3
<1>3. PICK p \in Nat, v \in Nat, l \in Nat, e \in Nat :
        /\ p = FieldPos /\ v = ValuePos /\ l = LengthEnd(bytes, p)
        /\ e = EndOf(msg, i) /\ e = FieldEnd(endian, bytes, p)
        /\ p + 4 <= v /\ v <= l /\ l <= e /\ e <= f
        /\ v = ValueAt(bytes, p) /\ TypeAt(bytes, p) = Char.s
  <2>1. Inside(msg, i) /\ FieldPos = msg.at[i]
        /\ ValuePos = ValueAt(raw, FieldPos)
    BY <1>1, FieldInside DEF AtTarget
  <2> QED BY <1>1, <1>2, <2>1 DEF Inside
<1>4. p + 4 <= v /\ v <= l /\ l <= e /\ e <= f /\ f <= z
  BY <1>2, <1>3
<1>5. 16 <= p
  <2>1. i - 1 \in 0..Len(msg.at)
    BY <1>1, Formed
  <2>2. PICK x \in Nat : x = EndOf(msg, i - 1) /\ 16 <= x /\ x <= msg.at[i]
    BY <1>1, <2>1, EndsInOrder
  <2>3. 16 <= x /\ x <= p
    BY <1>3, <2>2 DEF AtTarget
  <2> QED BY <2>3
<1>6. PICK type \in Strings : type = TypeAt(bytes, p) /\ type # Char.a /\ type # Char.v
  <2>1. Char.s = 115
    BY DEF Char
  <2> QED BY <1>3, <2>1, Codes
<1>7. l = v + 4
  BY <1>3, <1>6 DEF LengthEnd, LengthSize
<1>8. PICK n \in Nat : n = ReadU32(endian, bytes, v) /\ n = OldLen
  <2>1. v + 4 <= z
    BY <1>4, <1>7
  <2>2. v + 4 <= Len(bytes)
    BY <1>2, <2>1
  <2>3. ReadU32(endian, bytes, v) \in Nat
    BY <2>2, WordType DEF Byte
  <2> QED BY <1>2, <1>3, <2>3 DEF OldLen
<1>9. e = v + 4 + n + 1 /\ e = OldEnd
  <2>1. e = EndOfBasic(endian, bytes, type, v)
    BY <1>3, <1>6 DEF FieldEnd
  <2>2. e = v + 4 + ReadU32(endian, bytes, v) + 1
    BY <2>1, StringEnd
  <2> QED BY <1>3, <1>8, <2>2 DEF OldEnd
<1>10. e = v + 4 + n + 1
  BY <1>9
<1>11. PICK name \in Seq(Byte) : name = Name(i) /\ Len(name) = n
                                 /\ name = StringAt(raw, ValuePos)
  <2>1. PICK a \in Nat, b \in Nat : a = v + 4 /\ b = v + 4 + n /\ b - a = n
    OBVIOUS
  <2>2. a <= b /\ b <= z
    BY <1>4, <1>10, <2>1
  <2>3. b <= Len(bytes)
    BY <1>2, <2>2
  <2>4. Slice(bytes, a, b) \in Seq(Byte) /\ Len(Slice(bytes, a, b)) = b - a
    BY <2>2, <2>3, SliceType
  <2>5. Slice(bytes, a, b) = StringAt(raw, ValuePos)
    BY <1>2, <1>3, <1>8, <2>1 DEF StringAt
  <2>6. Name(i) = StringAt(raw, ValuePos)
    BY <1>1 DEF AtTarget, Name
  <2> QED BY <2>1, <2>4, <2>5, <2>6
<1>12. PICK new \in Seq(Byte), k \in Nat :
         new = Renamed(name) /\ k = Len(new) /\ k <= n + 2
  <2>1. IsRenamed(name) /\ direction \in {"ToClient", "ToUpstream"}
    BY <1>11 DEF AtTarget
  <2>2. /\ Renamed(name) \in Seq(Byte) /\ Len(Renamed(name)) \in Nat
        /\ Len(Renamed(name)) <= Len(name) + 2
    BY <2>1, RenamedLonger
  <2> QED BY <1>11, <2>2
<1>13. f <= 16 + MAX_MESSAGE_SIZE
  <2>1. PICK a \in Nat : a = ReadU32(msg.endian, msg.raw, 12) /\ a <= MAX_MESSAGE_SIZE
    BY <1>1, Formed DEF AtTarget, Fits
  <2>2. f = 16 + a
    BY <1>1, <1>2, <2>1 DEF ArrayEnd, FieldsEnd
  <2>3. MAX_MESSAGE_SIZE \in Nat
    BY DEF MAX_MESSAGE_SIZE
  <2> QED BY <2>1, <2>2, <2>3
<1>14. NewData = Marshal(endian, new)
  BY <1>2, <1>11, <1>12 DEF NewData, StringData, Marshal
<1>15. k < Limit
  <2>1. PICK x \in Nat : x = MAX_MESSAGE_SIZE /\ x + 100 < Limit
    BY SMTT(60) DEF MAX_MESSAGE_SIZE, Limit
  <2>2. f <= 16 + x
    BY <1>13, <2>1
  <2>3. k <= x + 18
    BY <1>4, <1>10, <1>12, <2>2
  <2>4. Limit \in Nat
    BY SMTT(60) DEF Limit
  <2> QED BY <2>1, <2>3, <2>4
<1>16. IsString(endian, NewData, new)
  BY <1>12, <1>14, <1>15, StringMarshalled
<1>17. PICK d \in Nat : d = Len(NewData) /\ d = k + 5
  <2>1. Len(NewData) = k + 5
    BY <1>12, <1>16 DEF IsString
  <2> QED BY <2>1
<1>18. 16 <= v /\ v <= e /\ v + d <= e + 2
  <2>1. d = k + 5 /\ k <= n + 2
    BY <1>12, <1>17
  <2> QED BY <1>4, <1>5, <1>10, <2>1
<1> QED BY <1>2, <1>3, <1>9, <1>11, <1>12, <1>13, <1>16, <1>17, <1>18

\* The lengths and the padding the code computes are those of a message laid
\* out anew.
NewGap == PaddingIfMore(ValuePos + Len(NewData))
NewNext == IF MoreFields THEN OldNext ELSE ArrayEnd
NewFieldsEnd == 16 + NewArrayLen(NewData)

LEMMA LastField ==
  ASSUME WellFormed(msg), raw = msg.raw, NEW i \in 1..Len(msg.at)
  PROVE  AlignUp(EndOf(msg, i), 8) < ArrayEnd \/ EndOf(msg, i) = ArrayEnd
<1>1. PICK n \in Nat, f \in Nat : n = Len(msg.at) /\ f = ArrayEnd /\ f = EndOf(msg, n)
  BY Formed DEF ArrayEnd
<1>2. CASE i = n
  BY <1>1, <1>2
<1>3. CASE i < n
  <2>1. i + 1 \in 1..Len(msg.at) /\ i < i + 1 /\ i \in 0..Len(msg.at)
    BY <1>1, <1>3
  <2>2. AlignUp(EndOf(msg, i), 8) <= msg.at[i + 1]
    BY <2>1, FieldsInOrder
  <2>3. PICK p \in Nat, v \in Nat, l \in Nat, e \in Nat :
          /\ p = msg.at[i + 1] /\ p + 4 <= v /\ v <= l /\ l <= e /\ e <= f
    <3>1. Inside(msg, i + 1)
      BY <2>1, FieldInside
    <3> QED BY <1>1, <3>1 DEF Inside
  <2>4. PICK x \in Nat : x = AlignUp(EndOf(msg, i), 8)
    <3>1. EndOf(msg, i) \in Nat
      BY FieldInside DEF Inside
    <3> QED BY <3>1, AlignType
  <2>5. p + 4 <= f
    BY <2>3
  <2>6. x <= p
    BY <2>2, <2>3, <2>4
  <2>7. x < f
    BY <2>5, <2>6
  <2> QED BY <1>1, <2>4, <2>7
<1>4. i = n \/ i < n
  BY <1>1
<1> QED BY <1>2, <1>3, <1>4

LEMMA TargetSpaced ==
  ASSUME NEW i, AtTarget(i)
  PROVE  /\ NewGap \in Nat /\ NewNext \in Nat /\ NewFieldsEnd \in Nat
         /\ 16 <= NewFieldsEnd /\ NewArrayLen(NewData) \in Nat
         /\ NewArrayLen(NewData) < Limit
         /\ NewSpaces(msg, i, NewData, NewGap, NewNext, ArrayEnd, NewFieldsEnd,
                      Shift(i))
<1>1. WellFormed(msg) /\ raw = msg.raw /\ i \in 1..Len(msg.at)
  BY DEF AtTarget, Scanning, Targets, Fields
<1>2. PICK v \in Nat, e \in Nat, f \in Nat, d \in Nat :
        /\ v = ValuePos /\ e = OldEnd /\ f = ArrayEnd /\ d = Len(NewData)
        /\ e = EndOf(msg, i) /\ 16 <= v /\ v <= e /\ e <= f
        /\ v + d <= e + 2 /\ f <= 16 + MAX_MESSAGE_SIZE
        /\ Renamed(Name(i)) \in Seq(Byte)
        /\ d = Len(Renamed(Name(i))) + 5
  BY TargetNumbers
<1>3. 16 <= v /\ v <= e /\ e <= f /\ v + d <= e + 2
  BY <1>2
<1>4. PICK x \in Nat : x = v + d
  OBVIOUS
<1>5. PICK px \in Nat, pe \in Nat, ax \in Nat, ae \in Nat :
        /\ px = Padding(x) /\ pe = Padding(e)
        /\ ax = AlignUp(x, 8) /\ ae = AlignUp(e, 8)
        /\ x + px = ax /\ e + pe = ae /\ ax < x + 8
  <2>1. /\ Padding(x) \in 0..7 /\ x + Padding(x) = AlignUp(x, 8)
        /\ Padding(e) \in 0..7 /\ e + Padding(e) = AlignUp(e, 8)
    BY PaddingAligns
  <2>2. AlignUp(x, 8) \in Nat /\ AlignUp(e, 8) \in Nat /\ AlignUp(x, 8) < x + 8
    BY AlignType
  <2>3. Padding(x) \in Nat /\ Padding(e) \in Nat
    BY <2>1
  <2> QED BY ZenonT(30), <2>1, <2>2, <2>3
<1>6. x + px = ax /\ e + pe = ae /\ ax < x + 8
  BY <1>5
<1>7. Shift(i) = ax - ae
  <2>1. PICK k \in Nat : k = Len(Renamed(Name(i))) /\ d = k + 5
    BY <1>2, LenProperties
  <2>2. v + 4 + k + 1 = x
    BY <1>4, <2>1
  <2>3. ValueAt(msg.raw, msg.at[i]) = v
    BY <1>1, <1>2 DEF AtTarget
  <2> QED BY <1>2, <1>5, <2>1, <2>2, <2>3 DEF Shift
<1>8. MoreFields <=> ae < f
  BY <1>2, <1>5 DEF MoreFields, OldNext
<1>9. ~MoreFields => e = f
  BY <1>1, <1>2, <1>5, <1>8, LastField
<1>10. PaddingIfMore(ValuePos + Len(NewData)) = IF MoreFields THEN px ELSE 0
  BY <1>2, <1>4, <1>5 DEF PaddingIfMore
<1>11. PaddingIfMore(OldEnd) = IF MoreFields THEN pe ELSE 0
  BY <1>2, <1>5 DEF PaddingIfMore
<1>12. PICK g \in Nat :
         /\ g = NewFieldsEnd /\ 16 <= g /\ g <= f + 9 /\ g - 16 = NewArrayLen(NewData)
         /\ g = IF MoreFields THEN f + (ax - ae) ELSE v + d
  <2>1. CASE MoreFields
    <3>1. NewArrayLen(NewData) = f - 16 + (d + px) - ((e - v) + pe)
      BY <1>2, <1>10, <1>11, <2>1 DEF NewArrayLen
    <3>2. f - 16 + (d + px) - ((e - v) + pe) = f + (ax - ae) - 16
      BY <1>4, <1>6
    <3>3. ae < f
      BY <1>8, <2>1
    <3>4. PICK g \in Nat : g = f + (ax - ae) /\ 16 <= g /\ g <= f + 9
      BY <1>3, <1>4, <1>6, <3>3
    <3>5. 16 + (g - 16) = g
      OBVIOUS
    <3> QED BY <2>1, <3>1, <3>2, <3>4, <3>5 DEF NewFieldsEnd
  <2>2. CASE ~MoreFields
    <3>1. NewArrayLen(NewData) = f - 16 + (d + 0) - ((e - v) + 0)
      BY <1>2, <1>10, <1>11, <2>2 DEF NewArrayLen
    <3>2. e = f
      BY <1>9, <2>2
    <3>3. PICK g \in Nat : g = v + d /\ 16 <= g /\ g <= f + 9
      BY <1>3, <1>4
    <3>4. f - 16 + (d + 0) - ((e - v) + 0) = g - 16 /\ 16 + (g - 16) = g
      BY <3>2, <3>3
    <3> QED BY <2>2, <3>1, <3>3, <3>4 DEF NewFieldsEnd
  <2> QED BY <2>1, <2>2
<1>13. PICK next \in Nat, gap \in Nat :
         /\ next = NewNext /\ gap = NewGap
         /\ next = IF MoreFields THEN ae ELSE f
         /\ gap = IF MoreFields THEN px ELSE 0
  <2>1. OldNext = ae
    BY <1>2, <1>5 DEF OldNext
  <2> QED BY <1>2, <1>10, <2>1 DEF NewNext, NewGap
<1>14. Spaced(v, e, f, d, gap, next, f, g, Shift(i))
  <2>1. Shift(i) = AlignUp(v + d, 8) - AlignUp(e, 8)
    BY <1>4, <1>5, <1>7
  <2>2. CASE MoreFields
    <3>1. /\ next = AlignUp(e, 8) /\ next < f
          /\ gap = Padding(v + d) /\ g = f + Shift(i)
      BY <1>4, <1>5, <1>7, <1>8, <1>12, <1>13, <2>2
    <3> QED BY <2>1, <3>1 DEF Spaced
  <2>3. CASE ~MoreFields
    <3>1. next = f /\ e = f /\ gap = 0 /\ g = v + d
      BY <1>9, <1>12, <1>13, <2>3
    <3> QED BY <2>1, <3>1 DEF Spaced
  <2> QED BY <2>2, <2>3
<1>15. NewSpaces(msg, i, NewData, NewGap, NewNext, ArrayEnd, NewFieldsEnd, Shift(i))
  <2>1. /\ ValueAt(msg.raw, msg.at[i]) = v /\ EndOf(msg, i) = e
        /\ FieldsEnd(msg.endian, msg.raw) = f /\ ArrayEnd = f
        /\ Len(NewData) = d /\ NewGap = gap /\ NewNext = next /\ NewFieldsEnd = g
    BY <1>1, <1>2, <1>12, <1>13 DEF AtTarget, ArrayEnd
  <2> QED BY <1>14, <2>1 DEF NewSpaces
<1>16. g - 16 \in Nat /\ g - 16 < Limit
  <2>1. PICK y \in Nat : y = MAX_MESSAGE_SIZE /\ y + 100 < Limit
    BY SMTT(60) DEF MAX_MESSAGE_SIZE, Limit
  <2>2. f <= 16 + y /\ g <= f + 9 /\ 16 <= g
    BY <1>2, <1>12, <2>1
  <2>3. g - 16 \in Nat /\ g - 16 <= y + 100
    BY <2>2
  <2>4. Limit \in Nat
    BY SMTT(60) DEF Limit
  <2> QED BY <2>1, <2>3, <2>4
<1> QED BY <1>12, <1>13, <1>15, <1>16

-----------------------------------------------------------------------------
(* The header as it comes out.                                               *)

\* The message with these bytes, its fields at their places in them.
ResultOf(bytes) ==
  [msg EXCEPT !.raw = bytes,
     !.at = IF Found = {} THEN @ ELSE Moved(CHOOSE i \in Found : TRUE)]

\* They are a message, and nothing but the name in its header is another.
HeaderKept(bytes) ==
  /\ WellFormed(ResultOf(bytes))
  /\ \A p \in (0..3) \cup (8..11) : At(bytes, p) = At(msg.raw, p)
  /\ \A i \in Fields :
       IF i \in Found
       THEN /\ TypeAt(bytes, ResultOf(bytes).at[i]) \in Strings
            /\ NameIn(ResultOf(bytes), i) = Renamed(Name(i))
       ELSE FieldBytes(ResultOf(bytes), i) = FieldBytes(msg, i)

\* A message whose header stays as it is.
LEMMA KeptAsIs ==
  ASSUME WellFormed(msg), Found = {}
  PROVE  HeaderKept(msg.raw)
<1>1. ResultOf(msg.raw) = msg
  BY DEF ResultOf, WellFormed
<1> QED BY <1>1 DEF HeaderKept

\* The code lays out what the field found is to become.
LEMMA Replaced ==
  ASSUME NEW i, AtTarget(i)
  PROVE  Renewed(msg, i, Renamed(Name(i)), NewData, Shift(i), ReplacedBytes)
<1>1. /\ WellFormed(msg) /\ raw = msg.raw /\ i \in 1..Len(msg.at)
      /\ TypeAt(msg.raw, msg.at[i]) = Char.s
  BY DEF AtTarget, Scanning, Targets, Fields
<1>2. PICK v \in Nat, e \in Nat, f \in Nat :
        /\ v = ValuePos /\ e = OldEnd /\ f = ArrayEnd
        /\ 16 <= v /\ v <= e /\ e <= f
        /\ IsString(msg.endian, NewData, Renamed(Name(i)))
        /\ Renamed(Name(i)) \in Seq(Byte)
  BY TargetNumbers
<1>3. PICK data \in Seq(Byte) : data = NewData
  BY <1>2 DEF IsString
<1>4. PICK gap \in Nat, next \in Nat, g \in Nat, a \in Nat :
        /\ gap = NewGap /\ next = NewNext /\ g = NewFieldsEnd
        /\ a = NewArrayLen(NewData) /\ a < Limit /\ g - 16 = a
        /\ NewSpaces(msg, i, data, gap, next, f, g, Shift(i))
  <2>1. /\ NewGap \in Nat /\ NewNext \in Nat /\ NewFieldsEnd \in Nat
        /\ NewArrayLen(NewData) \in Nat /\ NewArrayLen(NewData) < Limit
        /\ NewSpaces(msg, i, NewData, NewGap, NewNext, ArrayEnd, NewFieldsEnd,
                     Shift(i))
    BY TargetSpaced
  <2>2. PICK a \in Nat : a = NewArrayLen(NewData) /\ (16 + a) - 16 = a
    BY <2>1
  <2>3. NewFieldsEnd - 16 = a
    BY <2>2 DEF NewFieldsEnd
  <2> QED BY <1>2, <1>3, <2>1, <2>2, <2>3
<1>5. PICK old \in Seq(Byte), endian \in {"little", "big"}, b \in Nat, z \in Nat :
        /\ old = raw /\ endian = msg.endian /\ b = BodyStart(endian, old)
        /\ z = Len(old) /\ f <= b /\ b <= z
  <2>1. /\ raw \in Seq(Byte) /\ msg.endian \in {"little", "big"}
        /\ BodyStart(msg.endian, raw) \in Nat /\ Len(raw) \in Nat
        /\ FieldsEnd(msg.endian, raw) <= BodyStart(msg.endian, raw)
        /\ BodyStart(msg.endian, raw) <= Len(raw)
    BY <1>1, Formed
  <2> QED BY <1>2, <2>1 DEF ArrayEnd
<1>6. PICK word \in Seq(Byte) :
        /\ word = ToU32(endian, a) /\ IsWord(word) /\ ReadU32(endian, word, 0) = a
  <2>1. /\ ToU32(endian, a) \in Seq(Byte) /\ Len(ToU32(endian, a)) = 4
        /\ ReadU32(endian, ToU32(endian, a), 0) = a
    BY <1>4, WordBytes
  <2> QED BY <2>1 DEF IsWord
<1>7. next <= f
  <2>1. Spaced(ValueAt(msg.raw, msg.at[i]), EndOf(msg, i),
               FieldsEnd(msg.endian, msg.raw), Len(data), gap, next, f, g,
               Shift(i))
    BY <1>4 DEF NewSpaces
  <2>2. next < FieldsEnd(msg.endian, msg.raw) \/ next = FieldsEnd(msg.endian, msg.raw)
    BY <2>1 DEF Spaced
  <2>3. FieldsEnd(msg.endian, msg.raw) = f
    BY <1>1, <1>2 DEF ArrayEnd
  <2>4. next < f \/ next = f
    BY <2>2, <2>3
  <2> QED BY <2>4
<1>8. PICK pad \in Nat : pad = Padding(g)
  <2>1. Padding(g) \in 0..7
    BY PaddingAligns
  <2> QED BY <2>1
<1>9. ReplacedBytes = Layout(old, word, v, data, gap, next, f, pad, b)
  <2>1. (IF MoreFields THEN Slice(raw, OldNext, ArrayEnd) ELSE <<>>)
          = Slice(old, next, f)
    <3>1. CASE MoreFields
      BY <1>2, <1>4, <1>5, <3>1 DEF NewNext
    <3>2. CASE ~MoreFields
      <4>1. next = f
        BY <1>2, <1>4, <3>2 DEF NewNext
      <4>2. f <= Len(old) /\ f <= f
        BY <1>5
      <4>3. Slice(old, f, f) \in Seq(Byte) /\ Len(Slice(old, f, f)) = f - f
        BY <4>2, SliceType
      <4>4. Len(Slice(old, f, f)) = 0
        BY <4>3
      <4>5. Slice(old, f, f) = <<>>
        BY <4>3, <4>4, EmptySeq
      <4> QED BY <3>2, <4>1, <4>5
    <3> QED BY <3>1, <3>2
  <2>2. /\ ToU32(msg.endian, NewArrayLen(NewData)) = word
        /\ Slice(raw, 16, ValuePos) = Slice(old, 16, v)
        /\ Slice(raw, 0, 12) = Slice(old, 0, 12)
        /\ Zeros(PaddingIfMore(ValuePos + Len(NewData))) = Zeros(gap)
        /\ Zeros(Padding(16 + NewArrayLen(NewData))) = Zeros(pad)
        /\ Slice(raw, BodyStart(msg.endian, raw), Len(raw)) = Slice(old, b, Len(old))
    BY <1>2, <1>4, <1>5, <1>6, <1>8 DEF NewGap, NewFieldsEnd
  <2> QED BY ZenonT(30), <1>3, <2>1, <2>2 DEF ReplacedBytes, Layout
<1>10. LaidOut(ReplacedBytes, old, word, v, data, gap, next, f, pad, b)
  <2>1. v <= f /\ f <= z
    BY <1>2, <1>5
  <2>2. 16 <= v /\ v <= Len(old) /\ next <= f /\ f <= Len(old) /\ b <= Len(old)
    BY <1>2, <1>5, <1>7, <2>1
  <2>3. LaidOut(Layout(old, word, v, data, gap, next, f, pad, b),
                old, word, v, data, gap, next, f, pad, b)
    BY <1>6, <2>2, LayoutParts
  <2> QED BY <1>9, <2>3
<1>11. ReplacedBytes \in Seq(Byte)
  BY <1>10 DEF LaidOut
<1>12. NewLayout(msg, i, ReplacedBytes, word, data, gap, next, f, g)
  <2>1. /\ old = msg.raw /\ v = ValueAt(msg.raw, msg.at[i]) /\ pad = Padding(g)
        /\ b = BodyStart(msg.endian, msg.raw)
    BY <1>1, <1>2, <1>5, <1>8 DEF AtTarget
  <2> QED BY <1>10, <2>1 DEF NewLayout
<1>13. WordOf(msg.endian, word, g - 16)
  BY <1>4, <1>5, <1>6 DEF WordOf
<1>14. TypeAt(msg.raw, msg.at[i]) \in Strings
  BY <1>1 DEF Strings, Chars
<1>15. \E x \in Nat, y \in Nat, to \in Nat, h \in Nat, c \in Seq(Byte) :
         /\ NewSpaces(msg, i, NewData, x, y, to, h, Shift(i))
         /\ WordOf(msg.endian, c, h - 16)
         /\ NewLayout(msg, i, ReplacedBytes, c, NewData, x, y, to, h)
  BY <1>3, <1>4, <1>12, <1>13
<1> QED BY <1>1, <1>2, <1>11, <1>14, <1>15 DEF Renewed

\* With the name replaced the header is as it should be, and the body the same.
LEMMA ReplaceKeeps ==
  ASSUME Scanning, Looking, Fits(msg), direction \in {"ToClient", "ToUpstream"},
         AtField, IsTarget
  PROVE  HeaderKept(ReplacedBytes) /\ BodyOf(ReplacedBytes) = BodyOf(msg.raw)
<1>1. phase = "scan" /\ raw = msg.raw /\ WellFormed(msg)
  BY DEF AtField, Scanning
<1>2. PICK i \in 1..Len(msg.at) :
        /\ Found = {i} /\ i \in Targets /\ IsRenamed(Name(i))
        /\ FieldPos = msg.at[i] /\ ValuePos = ValueAt(raw, FieldPos)
  BY <1>1, FoundTarget
<1>3. AtTarget(i)
  BY <1>1, <1>2 DEF AtTarget
<1>4. PICK bytes, w : bytes = ReplacedBytes
                       /\ w = MovedMessage(msg, bytes, i, Shift(i))
  OBVIOUS
<1>5. /\ WellFormed(w) /\ NameOnly(msg, w, i, Renamed(Name(i)))
      /\ BodyIn(msg.endian, bytes) = BodyIn(msg.endian, msg.raw)
  BY <1>3, <1>4, Replaced, HeaderRelaid
<1>6. ResultOf(bytes) = w
  <2>1. (CHOOSE j \in Found : TRUE) = i /\ Found # {}
    BY <1>2
  <2>2. msg = [raw |-> msg.raw, endian |-> msg.endian, at |-> msg.at]
    BY <1>1 DEF WellFormed
  <2>3. ResultOf(bytes) = [msg EXCEPT !.raw = bytes, !.at = Moved(i)]
    BY <2>1 DEF ResultOf
  <2> QED BY <1>4, <2>2, <2>3 DEF MovedMessage, Moved, Fields
<1>7. w.raw = bytes
  BY <1>4 DEF MovedMessage
<1>8. \A p \in (0..3) \cup (8..11) : At(bytes, p) = At(msg.raw, p)
  BY <1>5, <1>7 DEF NameOnly
<1>9. ASSUME NEW j \in Fields
      PROVE  IF j \in Found
             THEN /\ TypeAt(bytes, ResultOf(bytes).at[j]) \in Strings
                  /\ NameIn(ResultOf(bytes), j) = Renamed(Name(j))
             ELSE FieldBytes(ResultOf(bytes), j) = FieldBytes(msg, j)
  <2>1. CASE j = i
    BY <1>2, <1>5, <1>6, <1>7, <2>1 DEF NameOnly
  <2>2. CASE j # i
    BY <1>2, <1>5, <1>6, <2>2 DEF NameOnly, Fields
  <2> QED BY <2>1, <2>2
<1>10. HeaderKept(bytes)
  BY <1>5, <1>6, <1>8, <1>9 DEF HeaderKept
<1>11. BodyOf(bytes) = BodyOf(msg.raw)
  BY <1>5 DEF BodyIn, BodyOf
<1> QED BY <1>4, <1>10, <1>11

-----------------------------------------------------------------------------
(* The name in the body.                                                     *)

\* A message whose header is as it should be, and whose body is the old one.
BodyAsSent ==
  /\ WellFormed(msg) /\ Fits(msg) /\ direction \in {"ToClient", "ToUpstream"}
  /\ HeaderKept(raw) /\ BodyOf(raw) = BodyOf(msg.raw)

\* The message that comes out, as a record of its own.
LEMMA ResultParts ==
  ASSUME WellFormed(msg), NEW bytes
  PROVE  /\ ResultOf(bytes).raw = bytes /\ ResultOf(bytes).endian = msg.endian
         /\ Fields \subseteq 1..Len(ResultOf(bytes).at)
         /\ \A new : [ResultOf(bytes) EXCEPT !.raw = new] = ResultOf(new)
<1>1. PICK at : at = IF Found = {} THEN msg.at
                     ELSE Moved(CHOOSE i \in Found : TRUE)
  OBVIOUS
<1>2. PICK r, e : msg = [raw |-> r, endian |-> e, at |-> msg.at]
                  /\ e = msg.endian
  BY DEF WellFormed
<1>3. ASSUME NEW new PROVE ResultOf(new) = [raw |-> new, endian |-> e, at |-> at]
  <2>1. ResultOf(new) = [msg EXCEPT !.raw = new, !.at = at]
    BY <1>1 DEF ResultOf
  <2> QED BY <1>2, <2>1
<1>4. Fields \subseteq 1..Len(at)
  <2>1. CASE Found = {}
    BY <1>1, <2>1 DEF Fields
  <2>2. CASE Found # {}
    <3>1. at = Moved(CHOOSE i \in Found : TRUE)
      BY <1>1, <2>2
    <3>2. PICK n \in Nat : n = Len(msg.at)
      BY Formed
    <3>3. PICK i : at = [j \in 1..n |-> IF j <= i THEN msg.at[j]
                                                  ELSE msg.at[j] + Shift(i)]
      BY <3>1, <3>2 DEF Moved, Fields
    <3>4. Len(at) = n
      <4>1. PICK g : g = [j \in 1..n |-> IF j <= i THEN msg.at[j]
                                                   ELSE msg.at[j] + Shift(i)]
        OBVIOUS
      <4>2. DOMAIN g = 1..n
        BY <4>1
      <4> QED BY <3>3, <4>1, <4>2
    <3> QED BY <3>2, <3>4 DEF Fields
  <2> QED BY <2>1, <2>2
<1> QED BY <1>2, <1>3, <1>4

\* The numbers of the message and of the name in its body.
LEMMA BodyNumbers ==
  ASSUME BodyAsSent, BodyStart(msg.endian, raw) + 4 <= Len(raw), BodyNameFits
  PROVE  \E b \in Nat, c \in Nat, n \in Nat, z \in Nat, y \in Nat :
           /\ b = BodyStart(msg.endian, raw) /\ z = Len(raw) /\ 16 <= b
           /\ c = BodyStart(msg.endian, msg.raw) /\ y = Len(msg.raw)
           /\ n = ReadU32(msg.endian, raw, b)
           /\ raw \in Seq(Byte) /\ msg.raw \in Seq(Byte)
           /\ msg.endian \in {"little", "big"}
           /\ b + 4 + n <= z /\ z - b = y - c /\ y - c <= MAX_MESSAGE_SIZE
           /\ Copied(msg.raw, raw, b, z, c - b)
<1>1. WellFormed(msg) /\ Fits(msg) /\ HeaderKept(raw)
      /\ BodyOf(raw) = BodyOf(msg.raw)
  BY DEF BodyAsSent
<1>2. PICK m : m = ResultOf(raw) /\ WellFormed(m) /\ m.raw = raw
               /\ m.endian = msg.endian
  BY <1>1, ResultParts DEF HeaderKept
<1>3. PICK new \in Seq(Byte), endian \in {"little", "big"}, b \in Nat, z \in Nat,
           f \in Nat :
        /\ new = raw /\ endian = msg.endian /\ b = BodyStart(endian, new)
        /\ z = Len(new) /\ b <= z /\ f <= b /\ 16 <= f
  <2>1. /\ m.raw \in Seq(Byte) /\ m.endian \in {"little", "big"}
        /\ BodyStart(m.endian, m.raw) \in Nat /\ Len(m.raw) \in Nat
        /\ FieldsEnd(m.endian, m.raw) \in Nat
        /\ FieldsEnd(m.endian, m.raw) <= BodyStart(m.endian, m.raw)
        /\ BodyStart(m.endian, m.raw) <= Len(m.raw)
        /\ ReadU32(m.endian, m.raw, 12) \in Nat
    BY <1>2, Formed
  <2>2. 16 <= FieldsEnd(m.endian, m.raw)
    BY <2>1 DEF FieldsEnd
  <2> QED BY <1>2, <2>1, <2>2
<1>4. PICK old \in Seq(Byte), c \in Nat, y \in Nat, k \in Nat :
        /\ old = msg.raw /\ c = BodyStart(endian, old) /\ y = Len(old)
        /\ c <= y /\ y = c + k /\ k <= MAX_MESSAGE_SIZE
  <2>1. /\ msg.raw \in Seq(Byte) /\ BodyStart(msg.endian, msg.raw) \in Nat
        /\ Len(msg.raw) \in Nat /\ ReadU32(msg.endian, msg.raw, 4) \in Nat
        /\ BodyStart(msg.endian, msg.raw) <= Len(msg.raw)
        /\ Len(msg.raw) = BodyStart(msg.endian, msg.raw)
                            + ReadU32(msg.endian, msg.raw, 4)
    BY <1>1, Formed
  <2>2. ReadU32(msg.endian, msg.raw, 4) <= MAX_MESSAGE_SIZE
    BY <1>1 DEF Fits
  <2> QED BY <1>3, <2>1, <2>2
<1>5. PICK n \in Nat : n = ReadU32(endian, new, b) /\ b + 4 + n <= z
  <2>1. b + 4 <= Len(new)
    BY <1>3
  <2>2. ReadU32(endian, new, b) \in Nat
    BY <2>1, WordType DEF Byte
  <2>3. b + 4 + ReadU32(endian, new, b) <= z
    BY <1>3 DEF BodyNameFits
  <2> QED BY <2>2, <2>3
<1>6. Len(old) - c = Len(new) - b /\ Copied(old, new, b, Len(new), c - b)
  <2>1. Slice(old, c, Len(old)) = Slice(new, b, Len(new))
    BY <1>1, <1>3, <1>4 DEF BodyOf
  <2>2. b <= Len(new) /\ c <= Len(old)
    BY <1>3, <1>4
  <2> QED BY <2>1, <2>2, SameBody
<1>7. z - b = y - c /\ Copied(old, new, b, z, c - b)
  BY <1>3, <1>4, <1>6
<1>8. y - c <= MAX_MESSAGE_SIZE
  <2>1. y - c = k
    BY <1>4
  <2> QED BY <1>4, <2>1
<1>9. 16 <= b
  BY <1>3
<1> QED BY <1>3, <1>4, <1>5, <1>7, <1>8, <1>9

\* The name in the body is the one in the body of the message as it came.
LEMMA SameBodyName ==
  ASSUME BodyAsSent, BodyStart(msg.endian, raw) + 4 <= Len(raw), BodyNameFits
  PROVE  StringAt(msg.raw, BodyStart(msg.endian, msg.raw)) = BodyName
<1>1. PICK b \in Nat, c \in Nat, n \in Nat, z \in Nat, y \in Nat :
        /\ b = BodyStart(msg.endian, raw) /\ z = Len(raw) /\ 16 <= b
        /\ c = BodyStart(msg.endian, msg.raw) /\ y = Len(msg.raw)
        /\ n = ReadU32(msg.endian, raw, b)
        /\ raw \in Seq(Byte) /\ msg.raw \in Seq(Byte)
        /\ b + 4 + n <= z /\ z - b = y - c
        /\ Copied(msg.raw, raw, b, z, c - b)
  BY BodyNumbers
<1>2. PICK d \in Int : d = c - b /\ b + d = c
  OBVIOUS
<1>3. c + 4 + n <= y /\ b + 4 + n <= z
  <2>1. b + 4 + n <= z /\ z - b = y - c
    BY <1>1
  <2> QED BY <2>1
<1>4. Copied(msg.raw, raw, b, b + 4 + n, d)
  <2>1. b..(b + 4 + n) - 1 \subseteq b..z - 1
    BY <1>3
  <2> QED BY <1>1, <1>2, <2>1 DEF Copied
<1>5. TextCopied(msg.endian, msg.raw, raw, b, d)
  <2>1. b + d + 4 + n <= y
    BY <1>2, <1>3
  <2> QED BY <1>1, <1>2, <1>3, <1>4, <2>1 DEF TextCopied
<1>6. SameText(msg.endian, msg.raw, raw, b, d)
  BY <1>5, TextMoves
<1> QED BY <1>1, <1>2, <1>6 DEF SameText, StringAt, BodyName

\* The new body is marshalled as it should be.
LEMMA NewBodyData ==
  ASSUME BodyAsSent, BodyStart(msg.endian, raw) + 4 <= Len(raw), BodyNameFits,
         IsRenamed(BodyName)
  PROVE  /\ StringData(Renamed(BodyName)) \in Seq(Byte)
         /\ Len(StringData(Renamed(BodyName))) < Limit
<1>1. PICK bytes \in Seq(Byte), endian \in {"little", "big"}, b \in Nat, n \in Nat,
           z \in Nat, t \in Nat :
        /\ bytes = raw /\ endian = msg.endian
        /\ b = BodyStart(endian, bytes) /\ z = Len(bytes)
        /\ n = ReadU32(endian, bytes, b)
        /\ b + 4 + n <= z /\ t = z - b /\ t <= MAX_MESSAGE_SIZE
  <2>1. PICK b \in Nat, c \in Nat, n \in Nat, z \in Nat, y \in Nat :
          /\ b = BodyStart(msg.endian, raw) /\ z = Len(raw) /\ 16 <= b
          /\ n = ReadU32(msg.endian, raw, b)
          /\ raw \in Seq(Byte) /\ msg.endian \in {"little", "big"}
          /\ b + 4 + n <= z /\ z - b = y - c /\ y - c <= MAX_MESSAGE_SIZE
    BY SMTT(30), BodyNumbers
  <2>2. PICK t \in Nat : t = z - b /\ t = y - c
    BY <2>1
  <2> QED BY <2>1, <2>2
<1>2. PICK name \in Seq(Byte) : name = BodyName /\ Len(name) = n
  <2>1. PICK x \in Nat, w \in Nat : x = b + 4 /\ w = b + 4 + n /\ w - x = n /\ x <= w
    OBVIOUS
  <2>2. x <= w /\ w <= Len(bytes)
    BY <1>1, <2>1
  <2>3. Slice(bytes, x, w) \in Seq(Byte) /\ Len(Slice(bytes, x, w)) = w - x
    BY <2>2, SliceType
  <2>4. Slice(bytes, x, w) = BodyName
    BY <1>1, <2>1 DEF BodyName, StringAt
  <2> QED BY <2>1, <2>3, <2>4
<1>3. PICK new \in Seq(Byte), k \in Nat :
        new = Renamed(name) /\ k = Len(new) /\ k <= n + 2
  <2>1. IsRenamed(name) /\ direction \in {"ToClient", "ToUpstream"}
    BY <1>2 DEF BodyAsSent
  <2>2. /\ Renamed(name) \in Seq(Byte) /\ Len(Renamed(name)) \in Nat
        /\ Len(Renamed(name)) <= Len(name) + 2
    BY <2>1, RenamedLonger
  <2> QED BY <1>2, <2>2
<1>4. k < Limit /\ k + 5 < Limit
  <2>1. PICK x \in Nat : x = MAX_MESSAGE_SIZE /\ x + 100 < Limit
    BY SMTT(60) DEF MAX_MESSAGE_SIZE, Limit
  <2>2. b + 4 + n <= z /\ t = z - b /\ t <= x /\ k <= n + 2
    BY <1>1, <1>3, <2>1
  <2>3. k + 5 <= x + 100
    BY <2>2
  <2>4. Limit \in Nat
    BY SMTT(60) DEF Limit
  <2> QED BY <2>1, <2>3, <2>4
<1>5. StringData(Renamed(BodyName)) = Marshal(endian, new)
  BY <1>1, <1>2, <1>3 DEF StringData, Marshal
<1>6. IsString(endian, Marshal(endian, new), new)
  BY <1>3, <1>4, StringMarshalled
<1>7. Marshal(endian, new) \in Seq(Byte) /\ Len(Marshal(endian, new)) = k + 5
  BY <1>3, <1>6 DEF IsString
<1> QED BY <1>4, <1>5, <1>7

\* With the name in the body renamed, the header is still as it should be.
LEMMA BodyRenamed ==
  ASSUME BodyAsSent, BodyStart(msg.endian, raw) + 4 <= Len(raw), BodyNameFits,
         IsRenamed(BodyName)
  PROVE  /\ HeaderKept(WithBody(StringData(Renamed(BodyName))))
         /\ BodyOf(WithBody(StringData(Renamed(BodyName))))
              = StringData(Renamed(BodyName))
<1>1. WellFormed(msg) /\ HeaderKept(raw)
  BY DEF BodyAsSent
<1>2. PICK m : m = ResultOf(raw) /\ WellFormed(m) /\ m.raw = raw
               /\ m.endian = msg.endian
  BY <1>1, ResultParts DEF HeaderKept
<1>3. PICK data \in Seq(Byte) :
        data = StringData(Renamed(BodyName)) /\ Len(data) < Limit
  BY NewBodyData
<1>11. PICK new : new = WithBody(data)
  OBVIOUS
<1>4. BodyReplaced(m.endian, new, m.raw, BodyStart(m.endian, m.raw), data)
  <2>1. PICK bytes \in Seq(Byte), endian \in {"little", "big"}, b \in Nat, z \in Nat :
          /\ bytes = raw /\ endian = msg.endian
          /\ b = BodyStart(endian, bytes) /\ z = Len(bytes) /\ 16 <= b /\ b <= z
    <3>1. PICK b \in Nat, n \in Nat, z \in Nat :
            /\ b = BodyStart(msg.endian, raw) /\ z = Len(raw) /\ 16 <= b
            /\ raw \in Seq(Byte) /\ msg.endian \in {"little", "big"}
            /\ b + 4 + n <= z
      BY ZenonT(30), BodyNumbers
    <3>2. b <= z
      BY <3>1
    <3> QED BY <3>1, <3>2
  <2>2. b <= Len(bytes)
    BY <2>1
  <2>3. BodyReplaced(endian, Slice(bytes, 0, 4) \o ToU32(endian, Len(data))
                       \o Slice(bytes, 8, b) \o data, bytes, b, data)
    BY <1>3, <2>1, <2>2, BodyParts
  <2>4. new = Slice(bytes, 0, 4) \o ToU32(endian, Len(data))
                \o Slice(bytes, 8, b) \o data
    BY <1>11, <2>1 DEF WithBody
  <2> QED BY <1>2, <2>1, <2>3, <2>4
<1>5. PICK w : w = [m EXCEPT !.raw = new] /\ w = ResultOf(new) /\ w.raw = new
  BY <1>1, <1>2, ResultParts
<1>6. WellFormed(w) /\ SameFields(m, w) /\ BodyIn(msg.endian, new) = data
  <2>1. NewBody(m, new, data)
    BY <1>2, <1>3, <1>4 DEF NewBody
  <2>2. /\ WellFormed([m EXCEPT !.raw = new])
        /\ SameFields(m, [m EXCEPT !.raw = new])
        /\ BodyIn(m.endian, new) = data
    BY <2>1, BodyKeeps
  <2> QED BY <1>2, <1>5, <2>2
<1>7. \A p \in (0..3) \cup (8..11) : At(new, p) = At(msg.raw, p)
  BY <1>1, <1>2, <1>5, <1>6 DEF SameFields, HeaderKept
<1>8. ASSUME NEW i \in Fields
      PROVE  IF i \in Found
             THEN /\ TypeAt(new, w.at[i]) \in Strings
                  /\ NameIn(w, i) = Renamed(Name(i))
             ELSE FieldBytes(w, i) = FieldBytes(msg, i)
  <2>1. i \in 1..Len(m.at)
    BY <1>1, <1>2, ResultParts
  <2>2. /\ FieldBytes(w, i) = FieldBytes(m, i)
        /\ TypeAt(raw, m.at[i]) \in Strings =>
             TypeAt(new, w.at[i]) \in Strings /\ NameIn(w, i) = NameIn(m, i)
    BY <1>2, <1>5, <1>6, <2>1 DEF SameFields, SameFieldIn
  <2>3. IF i \in Found
        THEN TypeAt(raw, m.at[i]) \in Strings /\ NameIn(m, i) = Renamed(Name(i))
        ELSE FieldBytes(m, i) = FieldBytes(msg, i)
    BY <1>1, <1>2 DEF HeaderKept
  <2> QED BY <2>2, <2>3
<1>9. HeaderKept(new)
  BY <1>5, <1>6, <1>7, <1>8 DEF HeaderKept
<1>10. BodyOf(new) = data
  BY <1>6 DEF BodyIn, BodyOf
<1> QED BY <1>3, <1>9, <1>10, <1>11

-----------------------------------------------------------------------------
(* The scan.                                                                 *)

LEMMA ScanningInit == Init => Scanning
BY HeaderRewriteAssumption DEF Init, Scanning, ScanKeepsItsPlace

LEMMA ScanningStep == Scanning /\ [Next]_vars => Scanning'
<1> SUFFICES ASSUME Scanning, [Next]_vars PROVE Scanning'
  OBVIOUS
<1>1. WellFormed(msg)' /\ msg' = msg
  BY DEF Scanning, Next, vars, Start, SkipField, LeaveLoop, ReplaceField,
         RewriteBody, LeaveBody
<1>2. CASE Start
  <2>1. Len(msg.at) \in Nat
    BY DEF Scanning, WellFormed
  <2>2. 0 \in 0..Len(msg.at) /\ EndOf(msg, 0) = 16
    BY <2>1 DEF EndOf
  <2> QED
    BY <1>1, <1>2, <2>2 DEF Start, Scanning, ScanKeepsItsPlace
<1>3. CASE SkipField
  <2>1. PICK i \in 1..Len(msg.at) :
          EndOf(msg, i) = FieldEnd(msg.endian, raw, FieldPos)
    BY <1>3, FieldFound DEF SkipField, AtField
  <2>2. pos' \in Nat /\ pos' = EndOf(msg, i)
    BY <1>3, <2>1, Skipped DEF SkipField, AtField
  <2>3. i \in 0..Len(msg.at)
    BY <2>1
  <2>4. raw' = raw /\ phase' = phase
    BY <1>3 DEF SkipField
  <2> QED
    BY <1>1, <2>2, <2>3, <2>4 DEF Scanning, ScanKeepsItsPlace
<1>4. CASE LeaveLoop \/ ReplaceField \/ RewriteBody \/ LeaveBody
  <2>1. phase' \in {"header", "sent"}
    BY <1>4 DEF LeaveLoop, ReplaceField, RewriteBody, LeaveBody
  <2> QED
    BY <1>1, <2>1 DEF Scanning, ScanKeepsItsPlace
<1>5. CASE UNCHANGED vars
  BY <1>5 DEF vars, Scanning, ScanKeepsItsPlace
<1> QED
  BY <1>2, <1>3, <1>4, <1>5 DEF Next

\* For every set of well-formed messages, the scan of the header fields is
\* always at the end of a field, whatever the types of the fields before
\* (rewrite.rs:108-380).
THEOREM ScanPlace == Spec => []ScanKeepsItsPlace
<1>1. Scanning => ScanKeepsItsPlace
  BY DEF Scanning
<1> QED
  BY <1>1, ScanningInit, ScanningStep, PTL DEF Spec

-----------------------------------------------------------------------------
(* What is true of the message at every stage.                               *)

Rewriting ==
  /\ Scanning /\ Fits(msg) /\ direction \in {"ToClient", "ToUpstream"}
  /\ pos \in Nat /\ phase \in {"new", "scan", "header", "sent"}
  /\ phase = "scan" => Looking
  /\ Rewritten => HeaderKept(raw)
  /\ phase = "header" => BodyOf(raw) = BodyOf(msg.raw)
  /\ BodyFollowsHeader

\* The names and the field to rewrite are those of the message as it came.
LEMMA NamesStay ==
  ASSUME msg' = msg, direction' = direction
  PROVE  /\ (\E i \in Targets : IsRenamed(Name(i)))
              => (\E i \in Targets : IsRenamed(Name(i)))'
         /\ Found' = Found /\ Fields' = Fields
BY DEF Found, Targets, Fields, IsRenamed, Name, StringAt, FieldCode, Obstacle

LEMMA ResultStays ==
  ASSUME msg' = msg, direction' = direction
  PROVE  ResultOf(raw)' = ResultOf(raw')
<1>1. Found' = Found
  BY NamesStay
<1>2. ASSUME NEW i PROVE Moved(i)' = Moved(i)
  BY DEF Moved, Fields, Shift, Renamed, Name, StringAt
<1> QED BY <1>1, <1>2 DEF ResultOf

LEMMA HeaderStays ==
  ASSUME msg' = msg, direction' = direction, HeaderKept(raw')
  PROVE  HeaderKept(raw)'
<1>1. Found' = Found /\ Fields' = Fields /\ ResultOf(raw)' = ResultOf(raw')
  BY NamesStay, ResultStays
<1>2. ASSUME NEW i PROVE Renamed(Name(i))' = Renamed(Name(i))
  BY DEF Renamed, Name, StringAt
<1> QED BY <1>1, <1>2 DEF HeaderKept

\* A step of the loop passes a field that is no obstacle.
LEMMA PassesOne ==
  ASSUME Scanning, Looking, SkipField
  PROVE  \E i \in 0..Len(msg.at) :
           /\ pos' = EndOf(msg, i)
           /\ \A j \in 1..i :
                ~Obstacle(j) /\ At(msg.raw, msg.at[j]) # FieldCode
<1>1. /\ phase = "scan" /\ raw = msg.raw /\ WellFormed(msg) /\ AtField /\ ~IsTarget
      /\ CanSkip(SkipType, ValuePos) /\ pos' = EndOfSkipped(SkipType, ValuePos)
  BY DEF SkipField, AtField, Scanning
<1>2. PICK j \in 0..Len(msg.at) : Passed(j)
  BY DEF Looking
<1>3. PICK n \in Nat : n = Len(msg.at)
  BY <1>1, Formed
<1>4. PICK i \in 1..n :
        /\ i = j + 1 /\ FieldPos = msg.at[i] /\ FieldFormed(msg, i)
        /\ EndOf(msg, i) = FieldEnd(msg.endian, msg.raw, msg.at[i])
  <2>1. pos = EndOf(msg, j)
    BY <1>2 DEF Passed
  <2>2. /\ j + 1 \in 1..Len(msg.at) /\ FieldPos = msg.at[j + 1]
        /\ Inside(msg, j + 1) /\ FieldFormed(msg, j + 1)
    BY <1>1, <2>1, FieldSeen
  <2> QED BY <1>3, <2>2 DEF Inside
<1>5. pos' = EndOf(msg, i)
  BY <1>1, <1>4, Skipped
<1>6. ~Obstacle(i)
  <2>1. /\ TypeAt(msg.raw, msg.at[i]) # Char.a
        /\ TypeAt(msg.raw, msg.at[i]) \notin Longs
    BY <1>1, <1>4, SecondLook
  <2>2. SigLen(msg.raw, msg.at[i]) = 1
    BY <1>4, <2>1 DEF FieldFormed
  <2> QED BY <2>1, <2>2 DEF Obstacle
<1>7. At(msg.raw, msg.at[i]) # FieldCode
  BY <1>1, <1>4 DEF IsTarget
<1>8. ASSUME NEW k \in 1..i
      PROVE  ~Obstacle(k) /\ At(msg.raw, msg.at[k]) # FieldCode
  <2>1. k = i \/ k \in 1..j
    BY <1>3, <1>4
  <2> QED BY <1>2, <1>6, <1>7, <2>1 DEF Passed
<1>9. i \in 0..Len(msg.at)
  BY <1>3
<1> QED BY <1>5, <1>8, <1>9

\* Once the header is done.
LEMMA HeaderDone ==
  ASSUME Rewriting, Scanning', msg' = msg, direction' = direction, pos' \in Nat,
         phase' \in {"header", "sent"}, HeaderKept(raw'),
         \/ BodyOf(raw') = BodyOf(msg.raw)
         \/ /\ phase' = "sent"
            /\ IsRenamed(StringAt(msg.raw, BodyStart(msg.endian, msg.raw)))
            /\ BodyOf(raw') = StringData(Renamed(
                 StringAt(msg.raw, BodyStart(msg.endian, msg.raw))))
  PROVE  Rewriting'
<1>1. HeaderKept(raw)'
  BY HeaderStays
<1>2. Fits(msg)' /\ (direction \in {"ToClient", "ToUpstream"})'
  BY DEF Rewriting
<1>3. BodyFollowsHeader'
  BY DEF BodyFollowsHeader, BodyOf, IsRenamed, StringAt, StringData, Renamed
<1>4. (phase = "header" => BodyOf(raw) = BodyOf(msg.raw))'
  BY DEF BodyOf
<1>5. phase' # "scan" /\ phase' \in {"new", "scan", "header", "sent"}
  OBVIOUS
<1> QED BY <1>1, <1>2, <1>3, <1>4, <1>5 DEF Rewriting

LEMMA RewritingInit == Init => Rewriting
<1> SUFFICES ASSUME Init PROVE Rewriting
  OBVIOUS
<1>1. WellFormed(msg) /\ Fits(msg)
  BY HeaderRewriteAssumption DEF Init
<1>2. Scanning
  BY ScanningInit
<1>3. pos \in Nat /\ phase = "new" /\ direction \in {"ToClient", "ToUpstream"}
  BY DEF Init
<1> QED BY <1>1, <1>2, <1>3 DEF Rewriting, Rewritten, BodyFollowsHeader

LEMMA RewritingStep == Rewriting /\ [Next]_vars => Rewriting'
<1> SUFFICES ASSUME Rewriting, [Next]_vars PROVE Rewriting'
  OBVIOUS
<1>1. Scanning /\ Scanning' /\ WellFormed(msg)
  BY ScanningStep DEF Rewriting, Scanning
<1>2. msg' = msg /\ direction' = direction
  BY DEF Next, vars, Start, SkipField, LeaveLoop, ReplaceField, RewriteBody,
         LeaveBody
<1>3. /\ Fits(msg) /\ direction \in {"ToClient", "ToUpstream"}
      /\ pos \in Nat /\ phase \in {"new", "scan", "header", "sent"}
      /\ phase = "scan" => Looking
      /\ phase \in {"new", "scan"} => raw = msg.raw
      /\ Fits(msg)' /\ (direction \in {"ToClient", "ToUpstream"})'
  BY <1>2 DEF Rewriting, Scanning
<1>4. CASE Start
  <2>1. raw' = raw /\ raw = msg.raw
    BY <1>3, <1>4 DEF Start
  <2>2. CASE \E i \in Targets : IsRenamed(Name(i))
    <3>1. phase' = "scan" /\ pos' = 16
      BY <1>4, <2>2 DEF Start
    <3>2. (\E i \in Targets : IsRenamed(Name(i)))'
      BY <1>2, <2>2, NamesStay
    <3>3. 0 \in 0..Len(msg.at) /\ EndOf(msg, 0) = 16 /\ 1..0 = {}
      <4>1. PICK n \in Nat : n = Len(msg.at)
        BY <1>1, Formed
      <4> QED BY <4>1 DEF EndOf
    <3>4. (\E i \in 0..Len(msg.at) : Passed(i))'
      <4>1. Passed(0)'
        BY <1>2, <3>1, <3>3 DEF Passed
      <4> QED BY <1>2, <3>3, <4>1
    <3>5. Looking'
      BY <3>2, <3>4 DEF Looking
    <3>6. (~Rewritten /\ BodyFollowsHeader)'
      BY <3>1 DEF Rewritten, BodyFollowsHeader
    <3> QED BY <1>1, <1>3, <3>1, <3>5, <3>6 DEF Rewriting
  <2>3. CASE ~\E i \in Targets : IsRenamed(Name(i))
    <3>1. phase' = "header" /\ pos' = pos
      BY <1>4, <2>3 DEF Start
    <3>2. Found = {}
      BY <2>3 DEF Found
    <3>3. HeaderKept(raw')
      BY <1>1, <2>1, <3>2, KeptAsIs
    <3>4. BodyOf(raw') = BodyOf(msg.raw)
      BY <2>1
    <3> QED BY <1>1, <1>2, <1>3, <3>1, <3>3, <3>4, HeaderDone
  <2> QED BY <2>2, <2>3
<1>5. CASE SkipField
  <2>1. /\ phase = "scan" /\ phase' = "scan" /\ raw' = raw /\ Looking
        /\ AtField /\ CanSkip(SkipType, ValuePos)
        /\ pos' = EndOfSkipped(SkipType, ValuePos)
    BY <1>3, <1>5 DEF SkipField, AtField
  <2>2. pos' \in Nat
    BY <1>1, <2>1, Skipped
  <2>3. (\E i \in Targets : IsRenamed(Name(i)))'
    BY <1>2, <2>1, NamesStay DEF Looking
  <2>4. (\E i \in 0..Len(msg.at) : Passed(i))'
    <3>1. PICK i \in 0..Len(msg.at) :
            /\ pos' = EndOf(msg, i)
            /\ \A j \in 1..i :
                 ~Obstacle(j) /\ At(msg.raw, msg.at[j]) # FieldCode
      BY <1>1, <1>5, <2>1, PassesOne
    <3>2. Passed(i)'
      BY <1>2, <3>1 DEF Passed, Obstacle, FieldCode
    <3> QED BY <1>2, <3>1, <3>2
  <2>5. Looking'
    BY <2>3, <2>4 DEF Looking
  <2>6. (~Rewritten /\ BodyFollowsHeader)'
    BY <2>1 DEF Rewritten, BodyFollowsHeader
  <2> QED BY <1>1, <1>3, <2>1, <2>2, <2>5, <2>6 DEF Rewriting
<1>6. CASE LeaveLoop
  <2>1. AtField => ~IsTarget /\ ~CanSkip(SkipType, ValuePos)
    BY <1>6 DEF LeaveLoop
  <2>2. phase = "scan" /\ phase' = "header" /\ raw' = msg.raw /\ pos' = pos
        /\ Looking
    BY <1>3, <1>6 DEF LeaveLoop
  <2>3. Found = {}
    BY <1>1, <2>1, <2>2, NoneFound
  <2>4. HeaderKept(raw')
    BY <1>1, <2>2, <2>3, KeptAsIs
  <2>5. BodyOf(raw') = BodyOf(msg.raw)
    BY <2>2
  <2> QED BY <1>1, <1>2, <1>3, <2>2, <2>4, <2>5, HeaderDone
<1>7. CASE ReplaceField
  <2>1. phase = "scan" /\ AtField /\ IsTarget /\ phase' = "header" /\ pos' = pos
    BY <1>7 DEF ReplaceField, AtField
  <2>2. raw' = ReplacedBytes
    BY <1>7 DEF ReplaceField, ReplacedBytes
  <2>3. HeaderKept(ReplacedBytes) /\ BodyOf(ReplacedBytes) = BodyOf(msg.raw)
    BY <1>1, <1>3, <2>1, ReplaceKeeps
  <2>4. HeaderKept(raw') /\ BodyOf(raw') = BodyOf(msg.raw)
    BY <2>2, <2>3
  <2> QED BY <1>1, <1>2, <1>3, <2>1, <2>4, HeaderDone
<1>8. CASE RewriteBody
  <2>1. /\ phase = "header" /\ phase' = "sent" /\ pos' = pos
        /\ BodyStart(msg.endian, raw) + 4 <= Len(raw)
        /\ raw' = IF BodyNameFits /\ IsRenamed(BodyName)
                  THEN WithBody(StringData(Renamed(BodyName)))
                  ELSE raw
    BY <1>8 DEF RewriteBody
  <2>2. HeaderKept(raw) /\ BodyOf(raw) = BodyOf(msg.raw)
    BY <2>1 DEF Rewriting, Rewritten
  <2>3. CASE BodyNameFits /\ IsRenamed(BodyName)
    <3>1. BodyAsSent
      BY <1>1, <1>3, <2>2 DEF BodyAsSent
    <3>2. StringAt(msg.raw, BodyStart(msg.endian, msg.raw)) = BodyName
      BY <2>1, <2>3, <3>1, SameBodyName
    <3>3. /\ HeaderKept(WithBody(StringData(Renamed(BodyName))))
          /\ BodyOf(WithBody(StringData(Renamed(BodyName))))
               = StringData(Renamed(BodyName))
      BY <2>1, <2>3, <3>1, BodyRenamed
    <3>4. raw' = WithBody(StringData(Renamed(BodyName)))
      BY <2>1, <2>3
    <3>5. HeaderKept(raw') /\ BodyOf(raw') = StringData(Renamed(BodyName))
      BY <3>3, <3>4
    <3>6. /\ IsRenamed(StringAt(msg.raw, BodyStart(msg.endian, msg.raw)))
          /\ BodyOf(raw') = StringData(Renamed(
               StringAt(msg.raw, BodyStart(msg.endian, msg.raw))))
      BY <2>3, <3>2, <3>5
    <3> QED BY <1>1, <1>2, <1>3, <2>1, <3>5, <3>6, HeaderDone
  <2>4. CASE ~(BodyNameFits /\ IsRenamed(BodyName))
    <3>1. raw' = raw
      BY <2>1, <2>4
    <3>2. HeaderKept(raw') /\ BodyOf(raw') = BodyOf(msg.raw)
      BY <2>2, <3>1
    <3> QED BY <1>1, <1>2, <1>3, <2>1, <3>2, HeaderDone
  <2> QED BY <2>3, <2>4
<1>9. CASE LeaveBody
  <2>1. phase = "header" /\ phase' = "sent" /\ pos' = pos /\ raw' = raw
    BY <1>9 DEF LeaveBody
  <2>2. HeaderKept(raw) /\ BodyOf(raw) = BodyOf(msg.raw)
    BY <2>1 DEF Rewriting, Rewritten
  <2>3. HeaderKept(raw') /\ BodyOf(raw') = BodyOf(msg.raw)
    BY <2>1, <2>2
  <2> QED BY <1>1, <1>2, <1>3, <2>1, <2>3, HeaderDone
<1>10. CASE UNCHANGED vars
  <2>1. raw' = raw /\ pos' = pos /\ phase' = phase
    BY <1>10 DEF vars
  <2>2. CASE Rewritten
    <3>1. phase' \in {"header", "sent"} /\ HeaderKept(raw')
      BY <2>1, <2>2 DEF Rewriting, Rewritten
    <3>2. \/ BodyOf(raw') = BodyOf(msg.raw)
          \/ /\ phase' = "sent"
             /\ IsRenamed(StringAt(msg.raw, BodyStart(msg.endian, msg.raw)))
             /\ BodyOf(raw') = StringData(Renamed(
                  StringAt(msg.raw, BodyStart(msg.endian, msg.raw))))
      BY <2>1, <2>2 DEF Rewriting, BodyFollowsHeader
    <3> QED BY <1>1, <1>2, <1>3, <2>1, <3>1, <3>2, HeaderDone
  <2>3. CASE ~Rewritten
    <3>1. (~Rewritten /\ BodyFollowsHeader)'
      BY <2>1, <2>3 DEF Rewritten, BodyFollowsHeader
    <3>2. (phase = "scan" => Looking)'
      BY <1>2, <1>3, <2>1 DEF Looking, Passed, Targets, Fields, IsRenamed, Name,
                             StringAt, FieldCode, Obstacle
    <3>3. phase' # "header"
      BY <3>1 DEF Rewritten
    <3> QED BY <1>1, <1>3, <2>1, <3>1, <3>2, <3>3 DEF Rewriting
  <2> QED BY <2>2, <2>3
<1> QED
  BY <1>4, <1>5, <1>6, <1>7, <1>8, <1>9, <1>10 DEF Next

\* For every set of well-formed messages of a size the code accepts, the
\* rewriting keeps the types of its state: the bytes stay bytes, and the
\* header within the message, through every change of lengths and padding
\* (rewrite.rs:163-259, daemon.rs:488-537).
THEOREM TypeCorrect == Spec => []TypeOK
<1>1. Rewriting => TypeOK
  <2> SUFFICES ASSUME Rewriting PROVE TypeOK
    OBVIOUS
  <2>1. WellFormed(msg)
    BY DEF Rewriting, Scanning
  <2>2. PICK m : m.raw = raw /\ m.endian = msg.endian /\ WellFormed(m)
    <3>1. CASE Rewritten
      <4>1. WellFormed(ResultOf(raw))
        BY <3>1 DEF Rewriting, HeaderKept
      <4> QED BY <2>1, <4>1, ResultParts
    <3>2. CASE ~Rewritten
      <4>1. raw = msg.raw
        BY <3>2 DEF Rewriting, Rewritten, Scanning
      <4> QED BY <2>1, <4>1
    <3> QED BY <3>1, <3>2
  <2>3. /\ raw \in Seq(Byte) /\ 16 <= Len(raw)
        /\ BodyStart(msg.endian, raw) <= Len(raw)
    BY <2>2, Formed
  <2> QED BY <2>1, <2>3 DEF Rewriting, TypeOK, Byte
<1> QED
  BY <1>1, RewritingInit, RewritingStep, PTL DEF Spec

\* Whatever name is replaced by one of another length, in whatever field and
\* with whatever fields around it, what comes out is a message again: every
\* field is where the padding and the lengths before it say, and the lengths in
\* the header are those of the array and the body (rewrite.rs:163-259,
\* daemon.rs:488-537).
THEOREM WellFormedness == Spec => []ResultIsWellFormed
<1>1. Rewriting => ResultIsWellFormed
  BY DEF Rewriting, HeaderKept, ResultOf, ResultIsWellFormed, Result
<1> QED
  BY <1>1, RewritingInit, RewritingStep, PTL DEF Spec

\* In what comes out, the field that was to be rewritten holds the new name, and
\* every other field, the type, the flags, the version and the serial are byte
\* for byte as they came (rewrite.rs:163-259).
THEOREM NameOnlyChanges == Spec => []OnlyTheNameChanges
<1>1. Rewriting => OnlyTheNameChanges
  <2> SUFFICES ASSUME Rewriting, Rewritten PROVE OnlyTheNameChanges
    BY DEF OnlyTheNameChanges
  <2>1. HeaderKept(raw) /\ Result = ResultOf(raw)
    BY DEF Rewriting, ResultOf, Result
  <2>2. Result.raw = raw /\ Result.endian = msg.endian
    BY <2>1, ResultParts DEF Rewriting, Scanning
  <2>3. ASSUME NEW i \in Fields
        PROVE  IF i \in Found
               THEN StringAt(raw, ValueAt(raw, Result.at[i])) = Renamed(Name(i))
               ELSE FieldBytes(Result, i) = FieldBytes(msg, i)
    <3>1. NameIn(Result, i) = StringAt(raw, ValueAt(raw, Result.at[i]))
      BY <2>2 DEF NameIn, StringAt
    <3> QED BY <2>1, <3>1 DEF HeaderKept
  <2> QED BY <2>1, <2>3 DEF HeaderKept, OnlyTheNameChanges
<1> QED
  BY <1>1, RewritingInit, RewritingStep, PTL DEF Spec

\* The body is at its new place behind a header of another length, with the
\* bytes it had; when it is a name of bus daemon traffic, that name is replaced
\* and nothing else (rewrite.rs:247-259, daemon.rs:488-537).
THEOREM BodyStays == Spec => []BodyFollowsHeader
<1>1. Rewriting => BodyFollowsHeader
  BY DEF Rewriting
<1> QED
  BY <1>1, RewritingInit, RewritingStep, PTL DEF Spec
=============================================================================
