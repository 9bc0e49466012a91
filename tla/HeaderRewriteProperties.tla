----------------------- MODULE HeaderRewriteProperties -----------------------
(* What is checked of HeaderRewrite.                                         *)
EXTENDS HeaderRewrite

\* Every variable has its type; the bytes are bytes, and the header is within
\* the message.
TypeOK ==
  /\ WellFormed(msg)
  /\ direction \in {"ToClient", "ToUpstream"}
  /\ raw \in Seq(0..255)
  /\ 16 <= Len(raw) /\ BodyStart(msg.endian, raw) <= Len(raw)
  /\ pos \in Nat
  /\ phase \in {"new", "scan", "header", "sent"}

\* The scan never loses its place: each turn of the loop starts where a field
\* of the message ends, whatever the types of the fields before
\* (rewrite.rs:108-380).
ScanKeepsItsPlace ==
  phase = "scan" => \E i \in 0..Len(msg.at) : pos = EndOf(msg, i)

\* Values at which the scan gives up: those aligned to eight bytes and those
\* with a longer signature, whose second look for the type goes wrong
\* (rewrite.rs:263).
Obstacle(i) == \/ TypeAt(msg.raw, msg.at[i]) \in Longs
               \/ SigLen(msg.raw, msg.at[i]) > 1

\* The field that has to be rewritten, if there is one and no obstacle.
Found == {i \in Targets : /\ IsRenamed(Name(i))
                          /\ \A j \in 1..i - 1 : ~Obstacle(j)}

\* Where the fields begin in the new layout.
Shift(i) ==
  AlignUp(ValueAt(msg.raw, msg.at[i]) + 4 + Len(Renamed(Name(i))) + 1, 8)
    - AlignUp(EndOf(msg, i), 8)
Moved(i) == [j \in Fields |-> IF j <= i THEN msg.at[j] ELSE msg.at[j] + Shift(i)]
Result == [msg EXCEPT !.raw = raw,
             !.at = IF Found = {} THEN @ ELSE Moved(CHOOSE i \in Found : TRUE)]
FieldBytes(m, i) == Slice(m.raw, m.at[i], EndOf(m, i))

Rewritten == phase \in {"header", "sent"}

\* What comes out is a message again, at any stage: every field is where the
\* lengths and the alignment of what comes before it say, the array and the
\* body have the lengths in the header.
ResultIsWellFormed == Rewritten => WellFormed(Result)

\* The name, and nothing but the name, has changed in the fields; type,
\* flags, version and serial are the same (rewrite.rs:163-259).
OnlyTheNameChanges ==
  Rewritten =>
    /\ \A p \in (0..3) \cup (8..11) : At(raw, p) = At(msg.raw, p)
    /\ \A i \in Fields :
         IF i \in Found
         THEN StringAt(raw, ValueAt(raw, Result.at[i])) = Renamed(Name(i))
         ELSE FieldBytes(Result, i) = FieldBytes(msg, i)

BodyOf(bytes) == Slice(bytes, BodyStart(msg.endian, bytes), Len(bytes))

\* The body follows the header in its new place, the same as before until it
\* is rewritten itself, and then with the name renamed (daemon.rs:488-537).
BodyFollowsHeader ==
  Rewritten =>
    \/ BodyOf(raw) = BodyOf(msg.raw)
    \/ /\ phase = "sent"
       /\ LET name == StringAt(msg.raw, BodyStart(msg.endian, msg.raw))
          IN  IsRenamed(name) /\ BodyOf(raw) = StringData(Renamed(name))
=============================================================================
