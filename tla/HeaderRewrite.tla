---------------------------- MODULE HeaderRewrite ----------------------------
(***************************************************************************)
(* The bytes of a message whose names are rewritten.  First                *)
(* rewrite_message_header (dbus/rewrite.rs) scans the header fields for    *)
(* SENDER or DESTINATION and lays the message out anew around the changed  *)
(* name; then, for traffic of the bus daemon, the body, a name as well, is *)
(* replaced (rebuild_message_with_string, dbus/daemon.rs).                 *)
(*                                                                         *)
(* Bytes are numbers, and positions count from 0 as in the code.  A        *)
(* message comes with the places where its fields begin; only the          *)
(* assumption, which says what the sender of a message promises, and the   *)
(* properties use them.                                                    *)
(***************************************************************************)
EXTENDS Integers, Sequences, SequencesExt

CONSTANT Messages       \* set of [raw, endian, at]

Char == [s |-> 115, o |-> 111, u |-> 117, i |-> 105, b |-> 98, h |-> 104,
         n |-> 110, q |-> 113, x |-> 120, t |-> 116, d |-> 100, g |-> 103,
         y |-> 121, a |-> 97, v |-> 118, colon |-> 58, dot |-> 46]
Chars(names) == {Char[c] : c \in names}
Strings == Chars({"s", "o"})
Words   == Chars({"u", "i", "b", "h"})
Halves  == Chars({"n", "q"})
Longs   == Chars({"x", "t", "d"})
Basic   == Strings \cup Words \cup Halves \cup Longs \cup Chars({"g", "y"})

At(raw, p) == raw[p + 1]
Slice(raw, from, to) == SubSeq(raw, from + 1, to)
Zeros(n) == [i \in 1..n |-> 0]
Padding(p) == (8 - (p % 8)) % 8
AlignUp(p, n) == ((p + n - 1) \div n) * n

ReadU32(endian, raw, p) ==
  IF endian = "little"
  THEN At(raw, p) + 256 * (At(raw, p + 1) + 256 * (At(raw, p + 2) +
         256 * At(raw, p + 3)))
  ELSE At(raw, p + 3) + 256 * (At(raw, p + 2) + 256 * (At(raw, p + 1) +
         256 * At(raw, p)))
ToU32(endian, n) ==
  LET bytes == <<n % 256, (n \div 256) % 256, (n \div 65536) % 256,
                 n \div 16777216>>
  IN  IF endian = "little" THEN bytes ELSE Reverse(bytes)

\* array_len, fields_end and body_start.
FieldsEnd(endian, raw) == 16 + ReadU32(endian, raw, 12)
BodyStart(endian, raw) ==
  FieldsEnd(endian, raw) + Padding(FieldsEnd(endian, raw))

-----------------------------------------------------------------------------
(* What a sender promises: the D-Bus marshalling of an array of fields, each *)
(* a code, a signature and a value.                                          *)

AlignOf(type) ==
  CASE type \in Strings \cup Words \cup {Char.a} -> 4
    [] type \in Halves -> 2
    [] type \in Longs  -> 8
    [] OTHER -> 1

SigLen(raw, p) == At(raw, p + 1)
TypeAt(raw, p) == At(raw, p + 2)
ValueAt(raw, p) == AlignUp(p + SigLen(raw, p) + 3, AlignOf(TypeAt(raw, p)))

EndOfBasic(endian, raw, type, p) ==
  CASE type \in Strings -> p + 4 + ReadU32(endian, raw, p) + 1
    [] type = Char.g    -> p + 1 + At(raw, p) + 1
    [] type \in Words   -> p + 4
    [] type \in Halves  -> p + 2
    [] type \in Longs   -> p + 8
    [] OTHER            -> p + 1
EndOfVariant(endian, raw, p) ==
  LET type == At(raw, p + 1)
  IN  EndOfBasic(endian, raw, type, AlignUp(p + 3, AlignOf(type)))
FieldEnd(endian, raw, p) ==
  LET type == TypeAt(raw, p)
      value == ValueAt(raw, p)
  IN  CASE type = Char.a -> value + 4 + ReadU32(endian, raw, value)
        [] type = Char.v -> EndOfVariant(endian, raw, value)
        [] OTHER -> EndOfBasic(endian, raw, type, value)

\* How much of a value has to be there before its length is read, and where
\* that is in a field.
LengthSize(type) ==
  IF type \in Strings \cup {Char.a} THEN 4 ELSE IF type = Char.g THEN 1 ELSE 0
LengthEnd(raw, p) ==
  LET type  == TypeAt(raw, p)
      value == ValueAt(raw, p)
      inner == At(raw, value + 1)
  IN  IF type = Char.v
      THEN AlignUp(value + 3, AlignOf(inner)) + LengthSize(inner)
      ELSE value + LengthSize(type)

\* Where the i-th field ends, and for i = 0 where the first one begins.
EndOf(m, i) == IF i = 0 THEN 16 ELSE FieldEnd(m.endian, m.raw, m.at[i])

\* Arrays are of elements that need no padding of their own, variants are of
\* basic types.
FieldFormed(m, i) ==
  LET raw == m.raw
      p   == m.at[i]
  IN  /\ p = AlignUp(EndOf(m, i - 1), 8)
      /\ TypeAt(raw, p) \in Basic \cup Chars({"a", "v"})
      /\ TypeAt(raw, p) = Char.v => /\ At(raw, ValueAt(raw, p)) = 1
                                   /\ At(raw, ValueAt(raw, p) + 1) \in Basic
      /\ SigLen(raw, p) = IF TypeAt(raw, p) = Char.a THEN 2 ELSE 1
      /\ \A q \in p + SigLen(raw, p) + 2..ValueAt(raw, p) - 1 : At(raw, q) = 0
      /\ LengthEnd(raw, p) <= EndOf(m, Len(m.at))
      /\ EndOf(m, i) <= EndOf(m, Len(m.at))
WellFormed(m) ==
  LET raw == m.raw
      n   == Len(m.at)
  IN  /\ m \in [raw : Seq(0..255), endian : {"little", "big"}, at : Seq(Nat)]
      /\ Len(raw) >= 16
      /\ FieldsEnd(m.endian, raw) = EndOf(m, n)
      /\ Len(raw) = BodyStart(m.endian, raw) + ReadU32(m.endian, raw, 4)
      /\ \A i \in 1..n : FieldFormed(m, i)
      /\ \A i, j \in 1..n :
           i < j => EndOf(m, i) < EndOf(m, j)
                    /\ At(raw, m.at[i]) # At(raw, m.at[j])

\* Prologue::parse refuses longer arrays and bodies.
MAX_MESSAGE_SIZE == 64 * 1024 * 1024
Fits(m) == /\ ReadU32(m.endian, m.raw, 12) <= MAX_MESSAGE_SIZE
           /\ ReadU32(m.endian, m.raw, 4) <= MAX_MESSAGE_SIZE

ASSUME HeaderRewriteAssumption == \A m \in Messages : WellFormed(m) /\ Fits(m)

-----------------------------------------------------------------------------
VARIABLES
  msg,            \* the message as it came
  direction,      \* "ToClient" or "ToUpstream"
  raw,            \* its bytes, as far as they are rewritten
  pos,            \* where the scan has come to
  phase           \* "new", "scan", "header" (done), "sent"

vars == <<msg, direction, raw, pos, phase>>

Init ==
  /\ msg \in Messages
  /\ direction \in {"ToClient", "ToUpstream"}
  /\ raw = msg.raw
  /\ pos = 0
  /\ phase = "new"

\* SENDER or DESTINATION.
FieldCode == IF direction = "ToClient" THEN 7 ELSE 6

\* to_fake_name changes unique names, from_fake_name knows fake ones; only
\* the host's prefix, since all prefixes have the same length.
Renamed(name) ==
  IF direction = "ToClient" THEN SubSeq(name, 1, 1) \o <<Char.h, Char.dot>>
                                   \o SubSeq(name, 2, Len(name))
                            ELSE SubSeq(name, 1, 1)
                                   \o SubSeq(name, 4, Len(name))
IsRenamed(name) ==
  /\ Len(name) > 0 /\ name[1] = Char.colon
  /\ direction = "ToUpstream" =>
       Len(name) > 2 /\ name[2] = Char.h /\ name[3] = Char.dot

\* header.sender or header.destination, read by zvariant.
Fields == 1..Len(msg.at)
StringAt(bytes, p) ==
  Slice(bytes, p + 4, p + 4 + ReadU32(msg.endian, bytes, p))
Targets ==
  {i \in Fields : /\ At(msg.raw, msg.at[i]) = FieldCode
                  /\ TypeAt(msg.raw, msg.at[i]) = Char.s}
Name(i) == StringAt(msg.raw, ValueAt(msg.raw, msg.at[i]))

Start ==
  /\ phase = "new"
  /\ IF \E i \in Targets : IsRenamed(Name(i))
     THEN phase' = "scan" /\ pos' = 16
     ELSE phase' = "header" /\ UNCHANGED pos
  /\ UNCHANGED <<msg, direction, raw>>

-----------------------------------------------------------------------------
(* One turn of the loop in rewrite_header_field.                             *)

ArrayEnd == FieldsEnd(msg.endian, raw)
FieldPos == AlignUp(pos, 8)
ScanSigLen == At(raw, FieldPos + 1)
AfterSig == FieldPos + 1 + 1 + ScanSigLen + 1

\* The first byte of the signature, counted back from the position, which
\* the second time has been aligned.
SigByte(p) == IF ScanSigLen > 0 THEN At(raw, p - ScanSigLen - 1) ELSE 0

ValueAlign(type) ==
  CASE type \in Strings \cup Words \cup {Char.a} -> 4
    [] type \in Halves -> 2
    [] type \in Longs  -> 8
    [] OTHER -> 1

ValuePos == AlignUp(AfterSig, ValueAlign(SigByte(AfterSig)))
SkipType == SigByte(ValuePos)

AtField == /\ phase = "scan"
           /\ pos < ArrayEnd /\ FieldPos < ArrayEnd /\ FieldPos + 1 < ArrayEnd
IsTarget == At(raw, FieldPos) = FieldCode

\* Mutant: the terminating nul is forgotten.
BasicSizeWithoutNul(type, p) ==
  CASE type \in Strings -> 4 + ReadU32(msg.endian, raw, p)
    [] type = Char.g    -> 1 + At(raw, p)
    [] type \in Words   -> 4
    [] type \in Halves  -> 2
    [] type \in Longs   -> 8
    [] OTHER            -> 1

BasicSize(type, p) ==
  CASE type \in Strings -> 4 + ReadU32(msg.endian, raw, p) + 1
    [] type = Char.g    -> 1 + At(raw, p) + 1
    [] type \in Words   -> 4
    [] type \in Halves  -> 2
    [] type \in Longs   -> 8
    [] OTHER            -> 1

\* A variant: its signature, and a value of a basic type.
InnerType(p) == IF At(raw, p) > 0 THEN At(raw, p + 1) ELSE 0
InnerPos(p) == AlignUp(p + 1 + At(raw, p) + 1, ValueAlign(InnerType(p)))

CanSkip(type, p) ==
  /\ type \in Basic \cup Chars({"a", "v"})
  /\ p + LengthSize(type) <= ArrayEnd
  /\ type = Char.v =>
       /\ p < ArrayEnd /\ p + 1 + At(raw, p) + 1 <= ArrayEnd
       /\ InnerType(p) \in Basic
       /\ InnerPos(p) + LengthSize(InnerType(p)) <= ArrayEnd

EndOfSkipped(type, p) ==
  CASE type = Char.a -> p + 4 + ReadU32(msg.endian, raw, p)
    [] type = Char.v -> InnerPos(p) + BasicSize(InnerType(p), InnerPos(p))
    [] OTHER         -> p + BasicSize(type, p)

SkipField ==
  /\ AtField /\ ~IsTarget
  /\ CanSkip(SkipType, ValuePos)
  /\ pos' = EndOfSkipped(SkipType, ValuePos)
  /\ UNCHANGED <<msg, direction, raw, phase>>

\* The end of the fields, or "Unknown header field type, cannot parse": both
\* are OK, and the message stays as it is.
LeaveLoop ==
  /\ phase = "scan"
  /\ AtField => ~IsTarget /\ ~CanSkip(SkipType, ValuePos)
  /\ phase' = "header"
  /\ UNCHANGED <<msg, direction, raw, pos>>

\* The new layout.  The padding after the name belongs to the array only if
\* there are more fields.
OldLen == ReadU32(msg.endian, raw, ValuePos)
OldEnd == ValuePos + 4 + OldLen + 1

\* Mutant: the padding after the old name is copied.
OldNextUnpadded == OldEnd

OldNext == OldEnd + Padding(OldEnd)

MoreFields == OldNext < ArrayEnd
StringData(name) == ToU32(msg.endian, Len(name)) \o name \o <<0>>
NewData == StringData(Renamed(StringAt(raw, ValuePos)))

\* Mutant: the last field is padded as the others are.
PaddingIfMoreAlways(p) == Padding(p)

PaddingIfMore(p) == IF MoreFields THEN Padding(p) ELSE 0

\* Mutant: the old name is still counted.
NewArrayLenBoth(data) ==
  ArrayEnd - 16 + Len(data) + PaddingIfMore(ValuePos + Len(data))

NewArrayLen(data) ==
  ArrayEnd - 16
    + (Len(data) + PaddingIfMore(ValuePos + Len(data)))
    - ((OldEnd - ValuePos) + PaddingIfMore(OldEnd))

ReplaceField ==
  /\ AtField /\ IsTarget
  /\ raw' = Slice(raw, 0, 12) \o ToU32(msg.endian, NewArrayLen(NewData))
              \o Slice(raw, 16, ValuePos) \o NewData
              \o Zeros(PaddingIfMore(ValuePos + Len(NewData)))
              \o (IF MoreFields THEN Slice(raw, OldNext, ArrayEnd) ELSE <<>>)
              \o Zeros(Padding(16 + NewArrayLen(NewData)))
              \o Slice(raw, BodyStart(msg.endian, raw), Len(raw))
  /\ phase' = "header"
  /\ UNCHANGED <<msg, direction, pos>>

-----------------------------------------------------------------------------
(* The body.                                                                 *)

\* Mutant: the old body is kept before the new one.
WithBodyAppended(body) ==
  Slice(raw, 0, 4) \o ToU32(msg.endian, Len(body))
    \o Slice(raw, 8, Len(raw)) \o body

\* rebuild_message_with_body
WithBody(body) ==
  Slice(raw, 0, 4) \o ToU32(msg.endian, Len(body))
    \o Slice(raw, 8, BodyStart(msg.endian, raw)) \o body

\* A message whose body is a name, as rewrite_single_name_response and
\* rewrite_unique_name_request find it; only requests to the bus daemon itself
\* have theirs rewritten, so not after a change of DESTINATION.
BodyName == StringAt(raw, BodyStart(msg.endian, raw))
BodyNameFits ==
  LET start == BodyStart(msg.endian, raw)
  IN  start + 4 + ReadU32(msg.endian, raw, start) <= Len(raw)
RewriteBody ==
  /\ phase = "header"
  /\ direction = "ToUpstream" => ~\E i \in Targets : IsRenamed(Name(i))
  /\ BodyStart(msg.endian, raw) + 4 <= Len(raw)
  /\ raw' = IF BodyNameFits /\ IsRenamed(BodyName)
            THEN WithBody(StringData(Renamed(BodyName)))
            ELSE raw
  /\ phase' = "sent"
  /\ UNCHANGED <<msg, direction, pos>>

\* The body is empty or not of bus-daemon traffic.
LeaveBody ==
  /\ phase = "header"
  /\ phase' = "sent"
  /\ UNCHANGED <<msg, direction, raw, pos>>

Next ==
  \/ Start
  \/ SkipField \/ LeaveLoop \/ ReplaceField
  \/ RewriteBody \/ LeaveBody

Spec == Init /\ [][Next]_vars
=============================================================================
