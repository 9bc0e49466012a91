-------------------------- MODULE FdStreamProperties -------------------------
(* What is checked of FdStream.                                              *)
EXTENDS FdStream

Cell == [byte : Nat, fds : Seq(Nat), last : BOOLEAN]
Reader == [buf : Seq(Nat), start : Nat, fdq : Seq(Nat)]

\* Every variable has its type, no socket holds more than it takes, and what
\* is consumed of a buffer is within it.
TypeOK ==
  /\ traffic \in Traffics
  /\ written \in [Dir -> Nat]
  /\ received \in [Dir -> [bytes : Seq(Nat), fds : Seq(Nat)]]
  /\ open \in SUBSET Peer
  /\ inq \in [Dir -> Seq(Cell)] /\ outq \in [Dir -> Seq(Cell)]
  /\ reader \in [Dir -> Reader]
  /\ sending \in Dir
  /\ chunk \in Seq(Nat) /\ fds \in Seq(Nat) /\ fds_pending \in BOOLEAN
  /\ running \in BOOLEAN
  /\ \A d \in Dir : /\ reader[d].start <= Len(reader[d].buf)
                     /\ Len(inq[d]) <= Room /\ Len(outq[d]) <= Room

\* What has come through and what is on its way, from the receiver back to
\* the sender.
Chunk(d) == IF sending = d THEN chunk ELSE <<>>
Stream(d) ==
  received[d].bytes \o BytesOf(outq[d]) \o Chunk(d)
    \o Unread(reader[d]) \o BytesOf(inq[d])

\* Wherever a write or a read is cut, and whichever branch of select! comes
\* between, no byte is lost, repeated or reordered on the way: what the
\* receiver has, then the socket to it, the rest of the message being sent,
\* the buffer and the socket to the router are the bytes written so far, in
\* order (socket.rs:71-100, 182-216).
BytesInOrder == \A d \in Dir : Stream(d) = Interval(0, written[d])

\* How many descriptors go out with the first n bytes: those of every message
\* that has begun.
FdsBy(t, n) ==
  IF n = 0 THEN 0
  ELSE FdEndOf(t, CHOOSE m \in 1..Len(t) :
                    EndOf(t, m - 1) < n /\ n <= EndOf(t, m))
FdsBetween(t, a, b) == Interval(FdsBy(t, a), FdsBy(t, b))

\* How far the bytes have come: received, sent on, taken from the buffer, read.
Come(d) == Len(received[d].bytes)
SentOn(d) == Come(d) + Len(outq[d])
Taken(d) == SentOn(d) + Len(Chunk(d))
ReadIn(d) == Taken(d) + Avail(reader[d])

CarryTheirFds(t, data, from) ==
  \A i \in 1..Len(data) :
    data[i].fds = FdsBetween(t, from + i - 1, from + i)
FdsInHand(d) == IF Chunk(d) = <<>> THEN <<>> ELSE FdsToSend

\* Each descriptor is in one place, the one where the first byte of its message
\* is, so that it arrives with that byte: in a socket with the byte itself, in
\* the reader's queue while the message is in the buffer, and in the writer's
\* hand until the first of several pieces of the message has gone out
\* (socket.rs:104-131, 182-216).
FdsInOrder ==
  \A d \in Dir :
    LET t == traffic[d]
    IN  /\ received[d].fds = FdsBetween(t, 0, Come(d))
        /\ CarryTheirFds(t, outq[d], Come(d))
        /\ FdsInHand(d) = FdsBetween(t, SentOn(d), Taken(d))
        /\ reader[d].fdq = FdsBetween(t, Taken(d), ReadIn(d))
        /\ CarryTheirFds(t, inq[d], ReadIn(d))

\* Two messages that carry descriptors, with none between them that does.
FdCount(t, m) == FdEndOf(t, m) - FdEndOf(t, m - 1)
Neighbours(t, m, n) ==
  /\ m < n
  /\ FdCount(t, m) > 0 /\ FdCount(t, n) > 0
  /\ FdEndOf(t, m) = FdEndOf(t, n - 1)
TooMany(t) == \E m \in 1..Len(t) : FdCount(t, m) > MaxFds
Crowded(t) ==
  \/ TooMany(t)
  \/ \E m, n \in 1..Len(t) : /\ Neighbours(t, m, n)
                             /\ FdCount(t, m) + FdCount(t, n) > MaxFds

\* Reads that join the end of one message and the beginning of another do not
\* make the router refuse traffic in which a message and the next one with
\* descriptors carry no more than the limit together, and no message finds
\* its descriptors missing (socket.rs:104-131, 274-283).
AcceptsTraffic == ~running => open # Peer \/ \E d \in Dir : Crowded(traffic[d])

\* The comment at socket.rs:23 has the limit on a single message.
LegalTrafficIsForwarded ==
  ~running => open # Peer \/ \E d \in Dir : TooMany(traffic[d])

-----------------------------------------------------------------------------
(* The messages the two peers see.                                           *)

Clip(s, a, b) == SubSeq(s, a + 1, Min({b, Len(s)}))
MessagesIn(t, bytes, with, n) ==
  [m \in 1..n |-> [bytes |-> Clip(bytes, EndOf(t, m - 1), EndOf(t, m)),
                   fds   |-> Clip(with, FdEndOf(t, m - 1), FdEndOf(t, m))]]
MessagesOf(t) == MessagesIn(t, Interval(0, EndOf(t, Len(t))),
                            Interval(0, FdEndOf(t, Len(t))), Len(t))
Ended(t, n) == Cardinality({m \in 1..Len(t) : EndOf(t, m) <= n})

Put(d) == SubSeq(MessagesOf(traffic[d]), 1, Ended(traffic[d], written[d]))
Delivered(d) == MessagesIn(traffic[d], received[d].bytes, received[d].fds,
                           Ended(traffic[d], Len(received[d].bytes)))
AnyMessage == UNION {ToSet(MessagesOf(t[d])) : t \in Traffics, d \in Dir}

Up == INSTANCE MessageChannel WITH
  Message <- AnyMessage, put <- Put("up"), delivered <- Delivered("up")
Down == INSTANCE MessageChannel WITH
  Message <- AnyMessage, put <- Put("down"), delivered <- Delivered("down")

\* The bytes and descriptors the receiver has, cut into messages, are a prefix
\* of what was sent: when a message is complete, so are its descriptors.
DeliversMessages == Up!Spec /\ Down!Spec

\* Unless a peer hangs up or the traffic is too crowded, all of it arrives,
\* however small the sockets are: as long as the peers read, the router's
\* waiting for room in one direction while it does not read the other is no
\* circle (session.rs:859-918).
TrafficArrives ==
  <>(\/ \A d \in Dir : Len(received[d].bytes) =
                        EndOf(traffic[d], Len(traffic[d]))
     \/ open # Peer \/ \E d \in Dir : Crowded(traffic[d]))
=============================================================================
