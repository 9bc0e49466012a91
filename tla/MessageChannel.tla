--------------------------- MODULE MessageChannel ---------------------------
(* What a connection between two D-Bus peers promises: whole messages, each  *)
(* with the descriptors it was sent with, in the order they were sent.       *)
EXTENDS Naturals, Sequences

CONSTANT Message

VARIABLES put, delivered

Init == put = <<>> /\ delivered = <<>>

Put ==
  /\ \E m \in Message : put' = Append(put, m)
  /\ UNCHANGED delivered

\* Any number of messages may come out at once.
Deliver ==
  /\ \E n \in Len(delivered) + 1..Len(put) : delivered' = SubSeq(put, 1, n)
  /\ UNCHANGED put

Spec == Init /\ [][Put \/ Deliver]_<<put, delivered>>
=============================================================================
