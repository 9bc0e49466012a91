----------------------------- MODULE MCFdStream -----------------------------
(* Small traffic for TLC: messages of a header and up to two more bytes.     *)
EXTENDS FdStreamProperties

Ends(last, lastFd) == [last |-> last, lastFd |-> lastFd]
Both(up, down) == [d \in Dir |-> IF d = "up" THEN up ELSE down]

\* A long message with a descriptor, one without, two with one again.
Mixed == <<Ends(4, 1), Ends(6, 1), Ends(9, 2), Ends(11, 3)>>
\* As many descriptors as a message may have, then none.
Full == <<Ends(3, 2), Ends(6, 2)>>
\* Within the limit one by one.
TwoFull == <<Ends(4, 2), Ends(6, 4)>>
TooFull == <<Ends(2, 3)>>
\* More than a socket holds.
Long == <<Ends(4, 1)>>
Short == <<Ends(2, 1), Ends(4, 2)>>

MCTraffics ==
  {Both(t, <<>>) : t \in {Mixed, Full, TwoFull, TooFull}} \cup
  {Both(Long, Short), Both(<<>>, Mixed)}
LegalTraffics == {Both(TwoFull, <<>>)}
=============================================================================
