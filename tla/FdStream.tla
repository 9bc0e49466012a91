------------------------------ MODULE FdStream ------------------------------
(***************************************************************************)
(* The forwarding loop at the level of bytes and descriptors: the client   *)
(* and a bus write messages to their sockets, DbusReader and               *)
(* read_message_from (dbus/socket.rs, dbus/message.rs) put them together,  *)
(* one after the other as select! in forward_loop (session.rs) finds them, *)
(* and DbusWriter sends each on to the other side, whose socket may be     *)
(* full.  Routing and rewriting are left out, and so is the second bus.    *)
(*                                                                         *)
(* A direction is "up", from the client to the bus, or "down".  Bytes are  *)
(* numbered in the order in which they are written in one direction, and   *)
(* so are descriptors; a byte stands for a run of bytes that no call       *)
(* separates.  The traffic says where each message ends in both.           *)
(*                                                                         *)
(* A Unix socket is modelled from the kernel: one sendmsg that is          *)
(* accepted, in part or as a whole, makes one buffer, and its descriptors  *)
(* go with the first byte.  recvmsg returns bytes of several buffers, but  *)
(* none beyond the first buffer that came with descriptors.                *)
(***************************************************************************)
EXTENDS Naturals, Sequences, SequencesExt

CONSTANTS
  Traffics,       \* set of [Dir -> Traffic]: what may be sent
  HeaderSize,     \* MIN_HEADER_SIZE: these bytes tell the size of a message
  MaxFds,         \* MAX_FDS_PER_MESSAGE, also the size of the cmsg buffer
  RecvSize,       \* size of the recvmsg buffer rbuf
  CompactAt,      \* consume drops the consumed part of buf beyond this
  Room            \* how many bytes a socket takes before it blocks

Dir == {"up", "down"}
Peer == {"client", "bus"}
Sender(d)   == IF d = "up" THEN "client" ELSE "bus"
Receiver(d) == IF d = "up" THEN "bus" ELSE "client"

\* For each message the number of its last byte and of its last descriptor.
Traffic == Seq([last : Nat, lastFd : Nat])
EndOf(t, m)   == IF m = 0 THEN 0 ELSE t[m].last
FdEndOf(t, m) == IF m = 0 THEN 0 ELSE t[m].lastFd

ASSUME FdStreamAssumption ==
  /\ {HeaderSize, MaxFds, RecvSize, Room} \subseteq Nat \ {0}
  /\ CompactAt \in Nat
  /\ Traffics \subseteq [Dir -> Traffic]
  /\ \A traffic \in Traffics, d \in Dir : \A m \in 1..Len(traffic[d]) :
       /\ EndOf(traffic[d], m) >= EndOf(traffic[d], m - 1) + HeaderSize
       /\ FdEndOf(traffic[d], m) >= FdEndOf(traffic[d], m - 1)

VARIABLES
  traffic,        \* what is sent in this behaviour
  \* the peers
  written,        \* direction -> bytes written
  received,       \* direction -> [bytes, fds] read
  open,           \* peers that have not closed their socket
  \* the sockets: direction -> sequence of [byte, fds, last]; inq towards the
  \* router, outq away from it
  inq, outq,
  \* the router
  reader,         \* direction -> DbusReader: [buf, start, fdq]
  sending,        \* the direction of the message being sent on
  chunk,          \* DbusWriter::send: what is left of its bytes,
  fds,            \* its descriptors,
  fds_pending,    \* and whether they have yet to go
  running         \* FALSE once the forwarding loop has returned

peers   == <<traffic, written, received, open>>
writer  == <<sending, chunk, fds, fds_pending>>
vars == <<peers, inq, outq, reader, writer, running>>

Interval(a, b) == [i \in 1..(b - a) |-> a + i]     \* a + 1, ..., b
Rest(s, n) == SubSeq(s, n + 1, Len(s))

Init ==
  /\ traffic \in Traffics
  /\ written = [d \in Dir |-> 0]
  /\ received = [d \in Dir |-> [bytes |-> <<>>, fds |-> <<>>]]
  /\ open = Peer
  /\ inq = [d \in Dir |-> <<>>]
  /\ outq = [d \in Dir |-> <<>>]
  /\ reader = [d \in Dir |-> [buf |-> <<>>, start |-> 0, fdq |-> <<>>]]
  /\ sending = "up" /\ chunk = <<>> /\ fds = <<>> /\ fds_pending = FALSE
  /\ running = TRUE

-----------------------------------------------------------------------------
(* The kernel.                                                               *)

\* The socket after a sendmsg of which all bytes were accepted.
Sent(data, bytes, with) ==
  data \o [i \in 1..Len(bytes) |->
             [byte |-> bytes[i],
              fds  |-> IF i = 1 THEN with ELSE <<>>,
              last |-> i = Len(bytes)]]

\* A recvmsg goes on to the next buffer unless this one had descriptors.  It
\* returns n bytes, and the descriptors that come with them.
Carriers(data, n) == {i \in 1..n : data[i].fds # <<>>}
StopsAfter(data, n) == data[n].last /\ Carriers(data, n) # {}
Returns(data, n) ==
  /\ n <= RecvSize
  /\ \A i \in 1..n - 1 : ~StopsAfter(data, i)
  /\ n = RecvSize \/ n = Len(data) \/ StopsAfter(data, n)
BytesOf(data) == [i \in 1..Len(data) |-> data[i].byte]
FdsOf(data, n) ==
  IF Carriers(data, n) = {} THEN <<>>
  ELSE data[CHOOSE i \in Carriers(data, n) : TRUE].fds

-----------------------------------------------------------------------------
(* Reading.                                                                  *)

\* DbusReader::avail and head.
Avail(r) == Len(r.buf) - r.start
Unread(r) == Rest(r.buf, r.start)

\* Mutant: the buffer is taken to hold one message.
ConsumeAll(r, n) == [r EXCEPT !.buf = <<>>, !.start = 0]

\* Mutant: compaction forgets that the start has moved.
ConsumeKeepsStart(r, n) ==
  IF r.start + n = Len(r.buf) THEN [r EXCEPT !.buf = <<>>, !.start = 0]
  ELSE IF r.start + n > CompactAt
       THEN [r EXCEPT !.buf = Rest(@, r.start + n), !.start = @ + n]
       ELSE [r EXCEPT !.start = @ + n]

\* DbusReader::consume
Consume(r, n) ==
  IF r.start + n = Len(r.buf) THEN [r EXCEPT !.buf = <<>>, !.start = 0]
  ELSE IF r.start + n > CompactAt
       THEN [r EXCEPT !.buf = Rest(@, r.start + n), !.start = 0]
       ELSE [r EXCEPT !.start = @ + n]

\* The message whose first byte is the next unread one: Prologue::parse, which
\* refuses anything that is not a header, total_len, and the UNIX_FDS field.
Starts(d, m) == EndOf(traffic[d], m - 1) + 1 = reader[d].buf[reader[d].start + 1]
HeaderOk(d) == \E m \in 1..Len(traffic[d]) : Starts(d, m)
Current(d) == CHOOSE m \in 1..Len(traffic[d]) : Starts(d, m)
TotalLen(d) == EndOf(traffic[d], Current(d)) - EndOf(traffic[d], Current(d) - 1)
DeclaredFds(d) ==
  FdEndOf(traffic[d], Current(d)) - FdEndOf(traffic[d], Current(d) - 1)

\* Mutant: the padding is counted twice.
NeededPadded(d) ==
  IF Avail(reader[d]) < HeaderSize \/ ~HeaderOk(d) THEN HeaderSize
  ELSE TotalLen(d) + 1

\* The argument of the fill that is being awaited in read_message_from: first
\* the header, then all.
Needed(d) ==
  IF Avail(reader[d]) < HeaderSize \/ ~HeaderOk(d) THEN HeaderSize
  ELSE TotalLen(d)

AtEof(d) == inq[d] = <<>> /\ Sender(d) \notin open
Ready(d) == \/ Avail(reader[d]) >= Needed(d)
            \/ inq[d] # <<>>
            \/ AtEof(d)

\* The loop selects while no message is being sent on; biased: the client's
\* reader is polled first, the other one if that has nothing to do.
Polled(d) == running /\ chunk = <<>> /\ (d = "down" => ~Ready("up"))

\* forward_loop returns, on an error of any kind as well as on EOF.
Stop == running' = FALSE /\ UNCHANGED <<peers, inq, outq, reader, writer>>

\* fill, recv_some, recvmsg_once: descriptors beyond the limit, those of
\* earlier messages that are still queued included, are an error.  When the
\* other branch of select! wins, this future is dropped between two of these
\* steps, and the next one goes on with the same DbusReader.
Receive(d) ==
  /\ Polled(d)
  /\ Avail(reader[d]) < Needed(d)
  /\ \E n \in 1..Len(inq[d]) :
       /\ Returns(inq[d], n)
       /\ LET got == FdsOf(inq[d], n)
          IN  IF Len(reader[d].fdq) + Len(got) > MaxFds THEN Stop ELSE
                /\ reader' = [reader EXCEPT ![d] =
                     [buf   |-> @.buf \o BytesOf(SubSeq(inq[d], 1, n)),
                      start |-> @.start,
                      fdq   |-> @.fdq \o got]]
                /\ inq' = [inq EXCEPT ![d] = Rest(@, n)]
                /\ UNCHANGED <<peers, outq, writer, running>>

\* The end of the stream: Ok(None) within a header, an error within the rest
\* of a message.
ReceiveEof(d) ==
  /\ Polled(d)
  /\ Avail(reader[d]) < Needed(d)
  /\ AtEof(d)
  /\ Stop

\* Mutants: the queue is emptied into the message; pop_back.
TakeFdsAll(fdq, n) == [taken |-> fdq, left |-> <<>>]
TakeFdsBack(fdq, n) == [taken |-> Rest(fdq, Len(fdq) - n),
                        left  |-> SubSeq(fdq, 1, Len(fdq) - n)]

\* take_declared_fds, take_fds
TakeFds(fdq, n) == [taken |-> SubSeq(fdq, 1, n), left |-> Rest(fdq, n)]

\* A message is complete: it is taken from the buffer with the descriptors it
\* declares, and its handler calls DbusWriter::send.
TakeMessage(d) ==
  /\ Polled(d)
  /\ Avail(reader[d]) >= Needed(d)
  /\ IF \/ ~HeaderOk(d)
        \/ DeclaredFds(d) > MaxFds
        \/ DeclaredFds(d) > Len(reader[d].fdq)
     THEN Stop
     ELSE LET take == TakeFds(reader[d].fdq, DeclaredFds(d))
          IN  /\ reader' = [reader EXCEPT
                   ![d] = [Consume(@, TotalLen(d)) EXCEPT !.fdq = take.left]]
              /\ sending' = d
              /\ chunk' = SubSeq(Unread(reader[d]), 1, TotalLen(d))
              /\ fds' = take.taken
              /\ fds_pending' = (take.taken # <<>>)
              /\ UNCHANGED <<peers, inq, outq, running>>

-----------------------------------------------------------------------------
(* Writing.                                                                  *)

\* Mutant: every sendmsg of a message carries its descriptors.
FdsToSendAlways == fds

FdsToSend == IF fds_pending THEN fds ELSE <<>>

\* One sendmsg of the loop in send; the kernel accepts some of the bytes.
\* With a full socket the task waits here and reads nothing.
SendSome ==
  /\ running /\ chunk # <<>>
  /\ IF Receiver(sending) \notin open THEN Stop ELSE
       \E n \in 1..Len(chunk) :
         /\ Len(outq[sending]) + n <= Room
         /\ outq' = [outq EXCEPT
                       ![sending] = Sent(@, SubSeq(chunk, 1, n), FdsToSend)]
         /\ chunk' = Rest(chunk, n)
         /\ fds_pending' = FALSE
         /\ UNCHANGED <<peers, inq, reader, sending, fds, running>>

Router == (\E d \in Dir : Receive(d) \/ ReceiveEof(d) \/ TakeMessage(d))
          \/ SendSome

-----------------------------------------------------------------------------
(* The peers.                                                                *)

\* A peer writes as DbusWriter does, one message after the other.
Writes(d) ==
  /\ running /\ Sender(d) \in open
  /\ \E m \in 1..Len(traffic[d]) :
       LET from == EndOf(traffic[d], m - 1)
           to   == EndOf(traffic[d], m)
       IN  /\ from <= written[d] /\ written[d] < to
           /\ \E n \in 1..(to - written[d]) :
                /\ Len(inq[d]) + n <= Room
                /\ written' = [written EXCEPT ![d] = @ + n]
                /\ inq' = [inq EXCEPT ![d] =
                     Sent(@, Interval(written[d], written[d] + n),
                          IF written[d] # from THEN <<>>
                          ELSE Interval(FdEndOf(traffic[d], m - 1),
                                        FdEndOf(traffic[d], m)))]
  /\ UNCHANGED <<traffic, received, open, outq, reader, writer, running>>

Reads(d) ==
  /\ Receiver(d) \in open
  /\ \E n \in 1..Len(outq[d]) :
       /\ Returns(outq[d], n)
       /\ received' = [received EXCEPT ![d] =
            [bytes |-> @.bytes \o BytesOf(SubSeq(outq[d], 1, n)),
             fds   |-> @.fds \o FdsOf(outq[d], n)]]
       /\ outq' = [outq EXCEPT ![d] = Rest(@, n)]
  /\ UNCHANGED <<traffic, written, open, inq, reader, writer, running>>

Closes(peer) ==
  /\ peer \in open
  /\ open' = open \ {peer}
  /\ UNCHANGED <<traffic, written, received, inq, outq, reader, writer,
                 running>>

Next ==
  \/ Router
  \/ \E d \in Dir : Writes(d) \/ Reads(d)
  \/ \E peer \in Peer : Closes(peer)

Spec == Init /\ [][Next]_vars

\* The task is polled while a socket it waits for is ready; the peers write on
\* while there is room, and read whatever they are writing.
FairSpec ==
  /\ Spec
  /\ WF_vars(Router)
  /\ \A d \in Dir : WF_vars(Writes(d)) /\ WF_vars(Reads(d))
=============================================================================
