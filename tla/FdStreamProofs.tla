---------------------------- MODULE FdStreamProofs ---------------------------
(***************************************************************************)
(* For every traffic, buffer size and socket size: the state keeps its     *)
(* type, no byte is lost, repeated or reordered on the way through the     *)
(* router, every descriptor is where the first byte of its message is, the *)
(* router refuses crowded traffic only, and what the receiver has is a     *)
(* prefix of the messages that were sent, each with its descriptors.       *)
(***************************************************************************)
EXTENDS FdStreamProperties, Induction, SequenceTheorems, FiniteSetTheorems,
        TLAPS

-----------------------------------------------------------------------------
(* Sequences.                                                                *)

LEMMA RestType ==
  ASSUME NEW S, NEW s \in Seq(S), NEW n \in 0..Len(s)
  PROVE  /\ Rest(s, n) \in Seq(S) /\ Len(Rest(s, n)) = Len(s) - n
         /\ \A i \in 1..Len(s) - n : Rest(s, n)[i] = s[n + i]
         /\ SubSeq(s, 1, n) \in Seq(S) /\ Len(SubSeq(s, 1, n)) = n
         /\ \A i \in 1..n : SubSeq(s, 1, n)[i] = s[i]
<1>1. \A i \in 1..Len(s) : s[i] \in S
  BY ElementOfSeq
<1>2. Len(s) \in Nat
  BY LenProperties
<1>3. /\ Rest(s, n) \in Seq(S)
      /\ Len(Rest(s, n)) = IF n + 1 <= Len(s) THEN Len(s) - (n + 1) + 1 ELSE 0
      /\ \A i \in 1..Len(s) - (n + 1) + 1 : Rest(s, n)[i] = s[(n + 1) + i - 1]
  <2>1. \A i \in n + 1..Len(s) : s[i] \in S
    BY <1>1, <1>2
  <2>2. n + 1 \in Int /\ Len(s) \in Int
    BY <1>2
  <2> QED
    BY <2>1, <2>2, SubSeqProperties DEF Rest
<1>4. /\ SubSeq(s, 1, n) \in Seq(S)
      /\ Len(SubSeq(s, 1, n)) = IF 1 <= n THEN n - 1 + 1 ELSE 0
      /\ \A i \in 1..n - 1 + 1 : SubSeq(s, 1, n)[i] = s[1 + i - 1]
  <2>1. \A i \in 1..n : s[i] \in S
    BY <1>1, <1>2
  <2>2. 1 \in Int /\ n \in Int
    BY <1>2
  <2> QED
    BY <2>1, <2>2, SubSeqProperties
<1> QED
  BY <1>2, <1>3, <1>4

LEMMA Split ==
  ASSUME NEW S, NEW s \in Seq(S), NEW n \in 0..Len(s)
  PROVE  SubSeq(s, 1, n) \o Rest(s, n) = s
<1>1. Len(s) \in Nat
  BY LenProperties
<1>2. SubSeq(s, 1, n) \o SubSeq(s, n + 1, Len(s)) = SubSeq(s, 1, Len(s))
  <2>1. 1 \in 1..Len(s) + 1 /\ n \in 1 - 1..Len(s) /\ Len(s) \in n..Len(s)
    BY <1>1
  <2> QED
    BY <2>1, ConcatAdjacentSubSeq
<1> QED
  BY <1>2, SubSeqFull DEF Rest

LEMMA RestOfConcat ==
  ASSUME NEW S, NEW s \in Seq(S), NEW t \in Seq(S), NEW n \in 0..Len(s)
  PROVE  Rest(s \o t, n) = Rest(s, n) \o t
<1>1. Len(s) \in Nat /\ Len(t) \in Nat
  BY LenProperties
<1>2. /\ s \o t \in Seq(S) /\ Len(s \o t) = Len(s) + Len(t)
      /\ \A i \in 1..Len(s) + Len(t) :
           (s \o t)[i] = IF i <= Len(s) THEN s[i] ELSE t[i - Len(s)]
  BY ConcatProperties
<1>3. n \in 0..Len(s \o t)
  BY <1>1, <1>2
<1>4. /\ Rest(s \o t, n) \in Seq(S) /\ Len(Rest(s \o t, n)) = Len(s \o t) - n
      /\ \A i \in 1..Len(s \o t) - n : Rest(s \o t, n)[i] = (s \o t)[n + i]
  BY <1>2, <1>3, RestType
<1>5. /\ Rest(s, n) \in Seq(S) /\ Len(Rest(s, n)) = Len(s) - n
      /\ \A i \in 1..Len(s) - n : Rest(s, n)[i] = s[n + i]
  BY RestType
<1>6. /\ Rest(s, n) \o t \in Seq(S)
      /\ Len(Rest(s, n) \o t) = Len(Rest(s, n)) + Len(t)
      /\ \A i \in 1..Len(Rest(s, n)) + Len(t) :
           (Rest(s, n) \o t)[i] = IF i <= Len(Rest(s, n)) THEN Rest(s, n)[i]
                                  ELSE t[i - Len(Rest(s, n))]
  BY <1>5, ConcatProperties
<1>7. ASSUME NEW i \in 1..Len(Rest(s \o t, n))
      PROVE  Rest(s \o t, n)[i] = (Rest(s, n) \o t)[i]
  <2>1. Rest(s \o t, n)[i] = (s \o t)[n + i] /\ n + i \in 1..Len(s) + Len(t)
    BY <1>1, <1>2, <1>4, <1>7
  <2>2. CASE n + i <= Len(s)
    BY <1>1, <1>2, <1>4, <1>5, <1>6, <1>7, <2>1, <2>2
  <2>3. CASE ~(n + i <= Len(s))
    <3>1. Rest(s \o t, n)[i] = t[n + i - Len(s)]
      BY SMTT(60), <1>1, <1>2, <2>1, <2>3
    <3>2. /\ i \in 1..Len(Rest(s, n)) + Len(t) /\ ~(i <= Len(Rest(s, n)))
          /\ i - Len(Rest(s, n)) = n + i - Len(s)
      BY <1>1, <1>2, <1>4, <1>5, <1>7, <2>3
    <3>3. (Rest(s, n) \o t)[i] = t[i - Len(Rest(s, n))]
      BY <3>2, <1>6
    <3> QED
      BY <3>1, <3>2, <3>3
  <2> QED
    BY <2>2, <2>3
<1>8. Len(Rest(s \o t, n)) = Len(Rest(s, n) \o t)
  BY <1>1, <1>2, <1>4, <1>5, <1>6
<1> QED
  BY <1>4, <1>6, <1>7, <1>8, SeqEqual

LEMMA RestOfRest ==
  ASSUME NEW S, NEW s \in Seq(S), NEW m \in 0..Len(s), NEW n \in 0..Len(s) - m
  PROVE  Rest(Rest(s, m), n) = Rest(s, m + n)
<1>1. Len(s) \in Nat
  BY LenProperties
<1>2. /\ Rest(s, m) \in Seq(S) /\ Len(Rest(s, m)) = Len(s) - m
      /\ \A i \in 1..Len(s) - m : Rest(s, m)[i] = s[m + i]
  BY RestType
<1>3. n \in 0..Len(Rest(s, m)) /\ m + n \in 0..Len(s)
  BY <1>1, <1>2
<1>4. /\ Rest(Rest(s, m), n) \in Seq(S)
      /\ Len(Rest(Rest(s, m), n)) = Len(Rest(s, m)) - n
      /\ \A i \in 1..Len(Rest(s, m)) - n :
           Rest(Rest(s, m), n)[i] = Rest(s, m)[n + i]
  BY <1>2, <1>3, RestType
<1>5. /\ Rest(s, m + n) \in Seq(S) /\ Len(Rest(s, m + n)) = Len(s) - (m + n)
      /\ \A i \in 1..Len(s) - (m + n) : Rest(s, m + n)[i] = s[m + n + i]
  BY <1>3, RestType
<1>6. Len(Rest(Rest(s, m), n)) = Len(Rest(s, m + n))
  BY <1>1, <1>2, <1>4, <1>5
<1>7. ASSUME NEW i \in 1..Len(Rest(Rest(s, m), n))
      PROVE  Rest(Rest(s, m), n)[i] = Rest(s, m + n)[i]
  <2>1. n + i \in 1..Len(s) - m /\ i \in 1..Len(Rest(s, m)) - n
        /\ i \in 1..Len(s) - (m + n) /\ m + (n + i) = m + n + i
    BY <1>1, <1>2, <1>4, <1>5, <1>7
  <2>2. Rest(Rest(s, m), n)[i] = s[m + (n + i)]
    BY <2>1, <1>2, <1>4
  <2> QED
    BY <2>1, <2>2, <1>5
<1> QED
  BY <1>4, <1>5, <1>6, <1>7, SeqEqual

LEMMA RestZero ==
  ASSUME NEW S, NEW s \in Seq(S)
  PROVE  Rest(s, 0) = s
  BY SubSeqFull DEF Rest

LEMMA Assoc ==
  ASSUME NEW a \in Seq(Nat), NEW b \in Seq(Nat), NEW c \in Seq(Nat)
  PROVE  a \o b \in Seq(Nat) /\ (a \o b) \o c = a \o (b \o c)
  BY SMTT(30), ConcatProperties, ConcatAssociative

LEMMA FunctionType ==
  ASSUME NEW S, NEW n \in Nat, NEW f \in [1..n -> S]
  PROVE  f \in Seq(S) /\ Len(f) = n
<1>1. f \in Seq(S)
  BY SeqDef
<1>2. DOMAIN f = 1..Len(f) /\ Len(f) \in Nat /\ DOMAIN f = 1..n
  BY <1>1, LenProperties
<1>3. PICK l \in Nat : l = Len(f) /\ 1..l = 1..n
  BY <1>2
<1>4. l = n
  BY <1>3
<1> QED BY <1>1, <1>3, <1>4

LEMMA IntervalType ==
  ASSUME NEW a \in Nat, NEW b \in Nat, a <= b
  PROVE  /\ Interval(a, b) \in Seq(Nat) /\ Len(Interval(a, b)) = b - a
         /\ \A i \in 1..b - a : Interval(a, b)[i] = a + i
<1>1. b - a \in Nat
  OBVIOUS
<1>2. Interval(a, b) \in [1..(b - a) -> Nat]
  BY DEF Interval
<1>3. \A i \in 1..b - a : Interval(a, b)[i] = a + i
  BY DEF Interval
<1> QED
  BY <1>1, <1>2, <1>3, FunctionType

LEMMA IntervalConcat ==
  ASSUME NEW a \in Nat, NEW b \in Nat, NEW c \in Nat, a <= b, b <= c
  PROVE  Interval(a, b) \o Interval(b, c) = Interval(a, c)
<1> DEFINE s == Interval(a, b)
           t == Interval(b, c)
           u == Interval(a, c)
<1>s. s \in Seq(Nat) /\ Len(s) = b - a /\ \A i \in 1..b - a : s[i] = a + i
  BY IntervalType
<1>t. t \in Seq(Nat) /\ Len(t) = c - b /\ \A i \in 1..c - b : t[i] = b + i
  BY IntervalType
<1>u. u \in Seq(Nat) /\ Len(u) = c - a /\ \A i \in 1..c - a : u[i] = a + i
  <2>1. a <= c
    OBVIOUS
  <2> QED
    BY <2>1, IntervalType
<1> HIDE DEF s, t, u
<1>3. /\ s \o t \in Seq(Nat) /\ Len(s \o t) = Len(s) + Len(t)
      /\ \A i \in 1..Len(s) + Len(t) :
           (s \o t)[i] = IF i <= Len(s) THEN s[i] ELSE t[i - Len(s)]
  BY <1>s, <1>t, ConcatProperties
<1>4. \A i \in 1..Len(s \o t) : (s \o t)[i] = u[i]
  <2> SUFFICES ASSUME NEW i \in 1..c - a
               PROVE  (s \o t)[i] = u[i]
    BY <1>3, <1>s, <1>t
  <2>1. CASE i <= b - a
    BY <2>1, <1>s, <1>t, <1>u, <1>3
  <2>2. CASE ~(i <= b - a)
    <3>1. i - (b - a) \in 1..c - b /\ i \in 1..(b - a) + (c - b)
      BY <2>2
    <3>2. (s \o t)[i] = t[i - (b - a)]
      BY <2>2, <3>1, <1>s, <1>t, <1>3
    <3>3. t[i - (b - a)] = b + (i - (b - a)) /\ u[i] = a + i
      BY <3>1, <1>t, <1>u
    <3> QED
      BY <3>2, <3>3
  <2> QED
    BY <2>1, <2>2
<1>5. Len(s \o t) = Len(u)
  BY <1>3, <1>s, <1>t, <1>u
<1>6. s \o t = u
  BY <1>u, <1>3, <1>4, <1>5, SeqEqual
<1> QED
  BY <1>6 DEF s, t, u

LEMMA BytesOfType ==
  ASSUME NEW data \in Seq(Cell)
  PROVE  /\ BytesOf(data) \in Seq(Nat) /\ Len(BytesOf(data)) = Len(data)
         /\ \A i \in 1..Len(data) : BytesOf(data)[i] = data[i].byte
<1>1. Len(data) \in Nat /\ \A i \in 1..Len(data) : data[i] \in Cell
  BY LenProperties, ElementOfSeq
<1>2. BytesOf(data) \in [1..Len(data) -> Nat]
  BY <1>1 DEF BytesOf, Cell
<1> QED
  BY <1>1, <1>2, FunctionType DEF BytesOf

LEMMA BytesOfConcat ==
  ASSUME NEW x \in Seq(Cell), NEW y \in Seq(Cell)
  PROVE  BytesOf(x \o y) = BytesOf(x) \o BytesOf(y)
<1>1. /\ x \o y \in Seq(Cell) /\ Len(x \o y) = Len(x) + Len(y)
      /\ \A i \in 1..Len(x) + Len(y) :
           (x \o y)[i] = IF i <= Len(x) THEN x[i] ELSE y[i - Len(x)]
  BY ConcatProperties
<1>2. /\ BytesOf(x) \in Seq(Nat) /\ Len(BytesOf(x)) = Len(x)
      /\ \A i \in 1..Len(x) : BytesOf(x)[i] = x[i].byte
      /\ BytesOf(y) \in Seq(Nat) /\ Len(BytesOf(y)) = Len(y)
      /\ \A i \in 1..Len(y) : BytesOf(y)[i] = y[i].byte
  BY BytesOfType
<1>3. /\ BytesOf(x \o y) \in Seq(Nat) /\ Len(BytesOf(x \o y)) = Len(x) + Len(y)
      /\ \A i \in 1..Len(x) + Len(y) : BytesOf(x \o y)[i] = (x \o y)[i].byte
  BY <1>1, BytesOfType
<1>4. /\ BytesOf(x) \o BytesOf(y) \in Seq(Nat)
      /\ Len(BytesOf(x) \o BytesOf(y)) = Len(x) + Len(y)
      /\ \A i \in 1..Len(x) + Len(y) :
           (BytesOf(x) \o BytesOf(y))[i] =
             IF i <= Len(x) THEN BytesOf(x)[i] ELSE BytesOf(y)[i - Len(x)]
  BY <1>2, ConcatProperties
<1>5. Len(x) \in Nat /\ Len(y) \in Nat
  BY LenProperties
<1>6. \A i \in 1..Len(x) + Len(y) :
        BytesOf(x \o y)[i] = (BytesOf(x) \o BytesOf(y))[i]
  <2> SUFFICES ASSUME NEW i \in 1..Len(x) + Len(y)
               PROVE  BytesOf(x \o y)[i] = (BytesOf(x) \o BytesOf(y))[i]
    OBVIOUS
  <2>1. CASE i <= Len(x)
    <3>1. i \in 1..Len(x)
      BY <1>5, <2>1
    <3> QED
      BY <3>1, <2>1, <1>1, <1>2, <1>3, <1>4
  <2>2. CASE ~(i <= Len(x))
    <3>1. i - Len(x) \in 1..Len(y)
      BY <1>5, <2>2
    <3> QED
      BY <3>1, <2>2, <1>1, <1>2, <1>3, <1>4
  <2> QED
    BY <2>1, <2>2
<1> QED
  BY <1>3, <1>4, <1>6, SeqEqual

LEMMA BytesOfSplit ==
  ASSUME NEW data \in Seq(Cell), NEW n \in 0..Len(data)
  PROVE  BytesOf(SubSeq(data, 1, n)) \o BytesOf(Rest(data, n)) = BytesOf(data)
<1>1. SubSeq(data, 1, n) \in Seq(Cell) /\ Rest(data, n) \in Seq(Cell)
  BY RestType
<1>2. SubSeq(data, 1, n) \o Rest(data, n) = data
  BY Split
<1> QED
  BY <1>1, <1>2, BytesOfConcat

\* The bytes of a sendmsg are at the end of the socket.
LEMMA SentBytes ==
  ASSUME NEW data \in Seq(Cell), NEW bytes \in Seq(Nat), NEW with \in Seq(Nat)
  PROVE  /\ Sent(data, bytes, with) \in Seq(Cell)
         /\ Len(Sent(data, bytes, with)) = Len(data) + Len(bytes)
         /\ BytesOf(Sent(data, bytes, with)) = BytesOf(data) \o bytes
<1> DEFINE new == [i \in 1..Len(bytes) |->
                     [byte |-> bytes[i],
                      fds  |-> IF i = 1 THEN with ELSE <<>>,
                      last |-> i = Len(bytes)]]
<1>1. Len(bytes) \in Nat /\ \A i \in 1..Len(bytes) : bytes[i] \in Nat
  BY LenProperties, ElementOfSeq
<1>2. \A i \in 1..Len(bytes) : (IF i = 1 THEN with ELSE <<>>) \in Seq(Nat)
  BY EmptySeq
<1>3. new \in [1..Len(bytes) -> Cell]
  BY <1>1, <1>2 DEF Cell
<1>4. new \in Seq(Cell)
  BY <1>1, <1>3, SeqDef
<1>5. Len(new) = Len(bytes)
  <2>1. DOMAIN new = 1..Len(new) /\ Len(new) \in Nat
    BY <1>4, LenProperties
  <2> QED
    BY <2>1, <1>1
<1>6. BytesOf(new) = bytes
  <2>1. /\ BytesOf(new) \in Seq(Nat) /\ Len(BytesOf(new)) = Len(new)
        /\ \A i \in 1..Len(new) : BytesOf(new)[i] = new[i].byte
    BY <1>4, BytesOfType
  <2>2. \A i \in 1..Len(bytes) : new[i].byte = bytes[i]
    OBVIOUS
  <2>3. \A i \in 1..Len(BytesOf(new)) : BytesOf(new)[i] = bytes[i]
    BY <2>1, <2>2, <1>5
  <2> QED
    BY <2>1, <2>3, <1>5, SeqEqual
<1>7. Sent(data, bytes, with) = data \o new
  BY DEF Sent
<1> HIDE DEF new
<1>8. data \o new \in Seq(Cell) /\ Len(data \o new) = Len(data) + Len(new)
  BY <1>4, ConcatProperties
<1>9. BytesOf(data \o new) = BytesOf(data) \o bytes
  BY <1>4, <1>6, BytesOfConcat
<1> QED
  BY <1>5, <1>7, <1>8, <1>9

\* recvmsg takes bytes from the front.
LEMMA ReceivedBytes ==
  ASSUME NEW data \in Seq(Cell), NEW n \in 1..Len(data)
  PROVE  /\ Rest(data, n) \in Seq(Cell) /\ Len(Rest(data, n)) <= Len(data)
         /\ BytesOf(SubSeq(data, 1, n)) \in Seq(Nat)
         /\ BytesOf(Rest(data, n)) \in Seq(Nat)
         /\ BytesOf(SubSeq(data, 1, n)) \o BytesOf(Rest(data, n)) = BytesOf(data)
         /\ FdsOf(data, n) \in Seq(Nat)
<1>1. Len(data) \in Nat
  BY LenProperties
<1>2. n \in 0..Len(data)
  BY <1>1
<1>3. /\ SubSeq(data, 1, n) \in Seq(Cell) /\ Rest(data, n) \in Seq(Cell)
      /\ Len(Rest(data, n)) = Len(data) - n
  BY <1>2, RestType
<1>4. FdsOf(data, n) \in Seq(Nat)
  <2>1. CASE Carriers(data, n) = {}
    BY <2>1, EmptySeq DEF FdsOf
  <2>2. CASE Carriers(data, n) # {}
    <3>1. PICK i \in Carriers(data, n) : FdsOf(data, n) = data[i].fds
      BY <2>2 DEF FdsOf
    <3>2. i \in 1..Len(data)
      BY <1>1, <3>1 DEF Carriers
    <3>3. data[i] \in Cell
      BY <3>2, ElementOfSeq
    <3> QED
      BY <3>1, <3>3 DEF Cell
  <2> QED
    BY <2>1, <2>2
<1>5. /\ BytesOf(SubSeq(data, 1, n)) \in Seq(Nat)
      /\ BytesOf(Rest(data, n)) \in Seq(Nat)
  BY <1>3, BytesOfType
<1>6. BytesOf(SubSeq(data, 1, n)) \o BytesOf(Rest(data, n)) = BytesOf(data)
  BY <1>2, BytesOfSplit
<1> QED
  BY <1>1, <1>3, <1>4, <1>5, <1>6

\* However much of the buffer is consumed, and whether it is compacted or
\* not, what is left unread is the rest of what was unread.
LEMMA ConsumeUnread ==
  ASSUME NEW r \in Reader, r.start <= Len(r.buf), NEW n \in 0..Avail(r)
  PROVE  /\ Consume(r, n) \in Reader
         /\ Consume(r, n).start <= Len(Consume(r, n).buf)
         /\ Unread(Consume(r, n)) = Rest(Unread(r), n)
<1>1. r.buf \in Seq(Nat) /\ r.start \in Nat /\ r.fdq \in Seq(Nat)
  BY DEF Reader
<1>2. Len(r.buf) \in Nat
  BY <1>1, LenProperties
<1>3. r.start \in 0..Len(r.buf) /\ n \in 0..Len(r.buf) - r.start
  BY <1>1, <1>2 DEF Avail
<1>4. Rest(Unread(r), n) = Rest(r.buf, r.start + n)
  BY <1>1, <1>3, RestOfRest DEF Unread
<1>5. r.start + n \in 0..Len(r.buf)
  BY <1>2, <1>3
<1>6. /\ Rest(r.buf, r.start + n) \in Seq(Nat)
      /\ Len(Rest(r.buf, r.start + n)) = Len(r.buf) - (r.start + n)
  BY <1>1, <1>5, RestType
<1>7. CASE r.start + n = Len(r.buf)
  <2>1. Consume(r, n) = [buf |-> <<>>, start |-> 0, fdq |-> r.fdq]
    BY <1>7 DEF Consume, Reader
  <2>2. <<>> \in Seq(Nat) /\ Len(<<>>) = 0
    BY EmptySeq
  <2>3. Rest(<<>>, 0) = <<>> /\ Rest(r.buf, Len(r.buf)) = <<>>
    BY <1>2, <2>2, SubSeqEmpty DEF Rest
  <2> QED
    BY <1>1, <1>4, <1>7, <2>1, <2>2, <2>3 DEF Unread, Reader
<1>8. CASE r.start + n # Len(r.buf) /\ r.start + n > CompactAt
  <2>1. Consume(r, n)
          = [buf |-> Rest(r.buf, r.start + n), start |-> 0, fdq |-> r.fdq]
    BY <1>8 DEF Consume, Reader
  <2>2. Rest(Rest(r.buf, r.start + n), 0) = Rest(r.buf, r.start + n)
    BY <1>6, RestZero
  <2> QED
    BY <1>1, <1>2, <1>4, <1>5, <1>6, <2>1, <2>2 DEF Unread, Reader
<1>9. CASE r.start + n # Len(r.buf) /\ ~(r.start + n > CompactAt)
  <2>1. Consume(r, n)
          = [buf |-> r.buf, start |-> r.start + n, fdq |-> r.fdq]
    BY <1>9 DEF Consume, Reader
  <2> QED
    BY <1>1, <1>2, <1>4, <1>5, <2>1 DEF Unread, Reader
<1> QED
  BY <1>7, <1>8, <1>9

-----------------------------------------------------------------------------
(* The traffic.                                                              *)

LEMMA Ends ==
  ASSUME TypeOK, NEW d \in Dir
  PROVE  /\ Len(traffic[d]) \in Nat
         /\ \A m \in 0..Len(traffic[d]) :
              EndOf(traffic[d], m) \in Nat /\ FdEndOf(traffic[d], m) \in Nat
         /\ \A m \in 1..Len(traffic[d]) :
              /\ EndOf(traffic[d], m) >= EndOf(traffic[d], m - 1) + HeaderSize
              /\ FdEndOf(traffic[d], m) >= FdEndOf(traffic[d], m - 1)
<1>1. traffic[d] \in Traffic /\ traffic \in Traffics
  BY FdStreamAssumption DEF TypeOK
<1>2. Len(traffic[d]) \in Nat
  BY <1>1, LenProperties DEF Traffic
<1>3. ASSUME NEW m \in 0..Len(traffic[d])
      PROVE  EndOf(traffic[d], m) \in Nat /\ FdEndOf(traffic[d], m) \in Nat
  <2>1. CASE m = 0
    BY <2>1 DEF EndOf, FdEndOf
  <2>2. CASE m # 0
    <3>1. m \in 1..Len(traffic[d])
      BY <1>2, <2>2
    <3>2. traffic[d][m] \in [last : Nat, lastFd : Nat]
      BY <1>1, <3>1, ElementOfSeq DEF Traffic
    <3> QED
      BY <2>2, <3>2 DEF EndOf, FdEndOf
  <2> QED
    BY <2>1, <2>2
<1> QED
  BY <1>1, <1>2, <1>3, FdStreamAssumption

\* A message that has a header has a length, and declares descriptors.
LEMMA MessageLength ==
  ASSUME TypeOK, NEW d \in Dir, HeaderOk(d)
  PROVE  TotalLen(d) \in Nat \ {0} /\ DeclaredFds(d) \in Nat
<1>1. Current(d) \in 1..Len(traffic[d])
  BY DEF HeaderOk, Current
<1>2. HeaderSize \in Nat \ {0}
  BY FdStreamAssumption
<1>3. Len(traffic[d]) \in Nat
  BY Ends
<1>4. /\ Current(d) \in 0..Len(traffic[d])
      /\ Current(d) - 1 \in 0..Len(traffic[d])
  BY <1>1, <1>3
<1>5. /\ EndOf(traffic[d], Current(d)) \in Nat
      /\ FdEndOf(traffic[d], Current(d)) \in Nat
      /\ EndOf(traffic[d], Current(d) - 1) \in Nat
      /\ FdEndOf(traffic[d], Current(d) - 1) \in Nat
  BY <1>4, Ends
<1>6. /\ EndOf(traffic[d], Current(d))
           >= EndOf(traffic[d], Current(d) - 1) + HeaderSize
      /\ FdEndOf(traffic[d], Current(d)) >= FdEndOf(traffic[d], Current(d) - 1)
  BY <1>1, Ends
<1> QED
  BY <1>2, <1>5, <1>6 DEF TotalLen, DeclaredFds

\* The descriptors a peer writes with a message.
LEMMA FdRange ==
  ASSUME TypeOK, NEW d \in Dir, NEW m \in 1..Len(traffic[d])
  PROVE  Interval(FdEndOf(traffic[d], m - 1), FdEndOf(traffic[d], m)) \in Seq(Nat)
<1>1. Len(traffic[d]) \in Nat
  BY Ends
<1>2. m \in 0..Len(traffic[d]) /\ m - 1 \in 0..Len(traffic[d])
  BY <1>1
<1>3. /\ FdEndOf(traffic[d], m) \in Nat /\ FdEndOf(traffic[d], m - 1) \in Nat
      /\ FdEndOf(traffic[d], m) >= FdEndOf(traffic[d], m - 1)
  BY <1>2, Ends
<1>4. FdEndOf(traffic[d], m - 1) <= FdEndOf(traffic[d], m)
  BY <1>3
<1> QED
  BY <1>3, <1>4, IntervalType

-----------------------------------------------------------------------------
(* Every step keeps the types, and what it moves keeps its place.            *)

LEMMA PartsType ==
  ASSUME TypeOK, NEW d \in Dir
  PROVE  /\ received[d].bytes \in Seq(Nat) /\ received[d].fds \in Seq(Nat)
         /\ outq[d] \in Seq(Cell) /\ inq[d] \in Seq(Cell)
         /\ BytesOf(outq[d]) \in Seq(Nat) /\ BytesOf(inq[d]) \in Seq(Nat)
         /\ Chunk(d) \in Seq(Nat)
         /\ reader[d] \in Reader /\ reader[d].start <= Len(reader[d].buf)
         /\ reader[d].fdq \in Seq(Nat)
         /\ Unread(reader[d]) \in Seq(Nat)
         /\ Len(Unread(reader[d])) = Avail(reader[d])
         /\ Avail(reader[d]) \in Nat
<1>1. /\ received[d] \in [bytes : Seq(Nat), fds : Seq(Nat)]
      /\ outq[d] \in Seq(Cell) /\ inq[d] \in Seq(Cell)
      /\ reader[d] \in Reader /\ reader[d].start <= Len(reader[d].buf)
      /\ chunk \in Seq(Nat)
  BY DEF TypeOK
<1>2. Chunk(d) \in Seq(Nat)
  BY <1>1, EmptySeq DEF Chunk
<1>3. /\ reader[d].buf \in Seq(Nat) /\ reader[d].start \in Nat
      /\ reader[d].fdq \in Seq(Nat)
  BY <1>1 DEF Reader
<1>4. Len(reader[d].buf) \in Nat
  BY <1>3, LenProperties
<1>5. reader[d].start \in 0..Len(reader[d].buf)
  BY <1>1, <1>3, <1>4
<1>6. /\ Unread(reader[d]) \in Seq(Nat)
      /\ Len(Unread(reader[d])) = Len(reader[d].buf) - reader[d].start
  BY ZenonT(40), <1>3, <1>5, RestType DEF Unread
<1> QED
  BY <1>1, <1>2, <1>3, <1>4, <1>5, <1>6, BytesOfType DEF Avail

LEMMA StopStep ==
  ASSUME TypeOK, BytesInOrder, Stop
  PROVE  TypeOK' /\ BytesInOrder'
BY DEF TypeOK, BytesInOrder, Stop, peers, writer, Stream, Chunk

LEMMA ReceiveStep ==
  ASSUME TypeOK, BytesInOrder, NEW d \in Dir, Receive(d)
  PROVE  TypeOK' /\ BytesInOrder'
<1>1. CASE Stop
  BY <1>1, StopStep
<1>2. CASE ~Stop
  <2>1. PICK n \in 1..Len(inq[d]) :
          /\ reader' = [reader EXCEPT ![d] =
               [buf   |-> @.buf \o BytesOf(SubSeq(inq[d], 1, n)),
                start |-> @.start,
                fdq   |-> @.fdq \o FdsOf(inq[d], n)]]
          /\ inq' = [inq EXCEPT ![d] = Rest(@, n)]
          /\ UNCHANGED <<peers, outq, writer, running>>
    BY <1>2 DEF Receive
  <2> DEFINE r == reader[d]
             x == BytesOf(SubSeq(inq[d], 1, n))
             r2 == [buf |-> r.buf \o x, start |-> r.start,
                    fdq |-> r.fdq \o FdsOf(inq[d], n)]
  <2>2. /\ r \in Reader /\ r.start <= Len(r.buf) /\ inq[d] \in Seq(Cell)
        /\ Unread(r) \in Seq(Nat) /\ BytesOf(outq[d]) \in Seq(Nat)
        /\ received[d].bytes \in Seq(Nat) /\ Chunk(d) \in Seq(Nat)
    BY PartsType
  <2>3. /\ r.buf \in Seq(Nat) /\ r.start \in Nat /\ r.fdq \in Seq(Nat)
    BY <2>2 DEF Reader
  <2>4. /\ Rest(inq[d], n) \in Seq(Cell) /\ Len(Rest(inq[d], n)) <= Len(inq[d])
        /\ x \in Seq(Nat) /\ BytesOf(Rest(inq[d], n)) \in Seq(Nat)
        /\ x \o BytesOf(Rest(inq[d], n)) = BytesOf(inq[d])
        /\ FdsOf(inq[d], n) \in Seq(Nat)
    BY <2>2, ReceivedBytes
  <2>6. /\ r.buf \o x \in Seq(Nat) /\ Len(r.buf \o x) = Len(r.buf) + Len(x)
        /\ Len(r.buf) \in Nat /\ Len(x) \in Nat
    BY <2>3, <2>4, ConcatProperties, LenProperties
  <2>7. r.fdq \o FdsOf(inq[d], n) \in Seq(Nat)
    BY <2>3, <2>4, ConcatProperties
  <2>5. reader' = [reader EXCEPT ![d] = r2]
    BY <2>1
  <2> HIDE DEF x
  <2>8. r2 \in Reader /\ r2.start <= Len(r2.buf)
    BY <2>2, <2>3, <2>6, <2>7 DEF Reader
  <2>9. Unread(r2) = Unread(r) \o x
    <3>1. r.start \in 0..Len(r.buf)
      BY <2>2, <2>3, <2>6
    <3> QED
      BY <2>3, <2>4, <3>1, RestOfConcat DEF Unread
  <2> HIDE DEF r2
  <2>10. TypeOK'
    <3>1. \A e \in Dir : Len(inq'[e]) <= Room
      <4> SUFFICES ASSUME NEW e \in Dir PROVE Len(inq'[e]) <= Room
        OBVIOUS
      <4>1. CASE e = d
        <5>1. inq'[e] = Rest(inq[d], n) /\ Len(inq[d]) <= Room
          BY <2>1, <4>1 DEF TypeOK
        <5>2. Len(inq[d]) \in Nat /\ Len(Rest(inq[d], n)) \in Nat /\ Room \in Nat
          BY <2>2, <2>4, LenProperties, FdStreamAssumption
        <5> QED
          BY <5>1, <5>2, <2>4
      <4>2. CASE e # d
        BY <2>1, <4>2 DEF TypeOK
      <4> QED
        BY <4>1, <4>2
    <3>2. inq' \in [Dir -> Seq(Cell)]
      BY <2>1, <2>4 DEF TypeOK
    <3>3. reader' \in [Dir -> Reader]
      BY <2>5, <2>8 DEF TypeOK
    <3>4. \A e \in Dir : reader'[e].start <= Len(reader'[e].buf)
      BY <2>5, <2>8 DEF TypeOK
    <3> QED
      BY <2>1, <3>1, <3>2, <3>3, <3>4 DEF TypeOK, peers, writer
  <2>11. ASSUME NEW e \in Dir PROVE Stream(e)' = Interval(0, written'[e])
    <3>1. CASE e # d
      BY <2>1, <2>5, <3>1 DEF TypeOK, BytesInOrder, Stream, Chunk, peers, writer
    <3>2. CASE e = d
      <4> DEFINE p == received[d].bytes \o BytesOf(outq[d]) \o Chunk(d)
                 u == Unread(r)
                 y == BytesOf(Rest(inq[d], n))
      <4>1. /\ p \in Seq(Nat) /\ u \in Seq(Nat) /\ y \in Seq(Nat)
            /\ x \in Seq(Nat)
        BY <2>2, <2>4, ConcatProperties
      <4>5. Stream(d)' = (p \o (u \o x)) \o y
        BY <2>1, <2>5, <2>9 DEF TypeOK, Stream, Chunk, peers, writer
      <4>6. Stream(d) = (p \o u) \o (x \o y)
        BY <2>4 DEF Stream
      <4> HIDE DEF p, u, y
      <4>2. p \o u \in Seq(Nat) /\ (p \o u) \o x = p \o (u \o x)
        <5>1. p \in Seq(Nat) /\ u \in Seq(Nat) /\ x \in Seq(Nat)
          BY <4>1
        <5> QED
          BY ZenonT(40), <5>1, Assoc
      <4>4. ((p \o u) \o x) \o y = (p \o u) \o (x \o y)
        <5>1. p \o u \in Seq(Nat) /\ x \in Seq(Nat) /\ y \in Seq(Nat)
          BY <4>1, <4>2
        <5> QED
          BY ZenonT(40), <5>1, Assoc
      <4>7. Stream(d)' = Stream(d) /\ written' = written
        BY <2>1, <4>2, <4>4, <4>5, <4>6 DEF peers
      <4> QED
        BY <3>2, <4>7 DEF BytesInOrder
    <3> QED
      BY <3>1, <3>2
  <2> QED
    BY <2>10, <2>11 DEF BytesInOrder
<1> QED
  BY <1>1, <1>2

LEMMA TakeMessageStep ==
  ASSUME TypeOK, BytesInOrder, NEW d \in Dir, TakeMessage(d)
  PROVE  TypeOK' /\ BytesInOrder'
<1>1. CASE Stop
  BY <1>1, StopStep
<1>2. CASE ~Stop
  <2> DEFINE r == reader[d]
             k == TotalLen(d)
             take == TakeFds(r.fdq, DeclaredFds(d))
             r2 == [Consume(r, k) EXCEPT !.fdq = take.left]
             x == SubSeq(Unread(r), 1, k)
  <2>1. /\ HeaderOk(d)
        /\ ~(DeclaredFds(d) > Len(r.fdq))
        /\ reader' = [reader EXCEPT ![d] = r2]
        /\ sending' = d
        /\ chunk' = x
        /\ fds' = take.taken
        /\ fds_pending' = (take.taken # <<>>)
        /\ UNCHANGED <<peers, inq, outq, running>>
        /\ chunk = <<>>
        /\ Avail(r) >= Needed(d)
    BY <1>2 DEF TakeMessage, Polled
  <2>2. /\ r \in Reader /\ r.start <= Len(r.buf) /\ inq[d] \in Seq(Cell)
        /\ Unread(r) \in Seq(Nat) /\ BytesOf(outq[d]) \in Seq(Nat)
        /\ received[d].bytes \in Seq(Nat) /\ Chunk(d) \in Seq(Nat)
        /\ Len(Unread(r)) = Avail(r) /\ Avail(r) \in Nat
        /\ r.fdq \in Seq(Nat) /\ BytesOf(inq[d]) \in Seq(Nat)
    BY PartsType
  <2>3. k \in Nat \ {0} /\ DeclaredFds(d) \in Nat
    BY <2>1, MessageLength
  <2>4. k \in 0..Avail(r)
    <3>1. HeaderSize \in Nat
      BY FdStreamAssumption
    <3>2. CASE Avail(r) < HeaderSize
      <4>1. Needed(d) = HeaderSize
        BY <3>2 DEF Needed
      <4> QED
        BY <4>1, <3>1, <3>2, <2>1, <2>2
    <3>3. CASE ~(Avail(r) < HeaderSize)
      <4>1. Needed(d) = k
        BY <3>3, <2>1 DEF Needed
      <4> QED
        BY <4>1, <2>1, <2>2, <2>3
    <3> QED
      BY <3>2, <3>3
  <2>5. DeclaredFds(d) \in 0..Len(r.fdq) /\ Len(r.fdq) \in Nat
    BY <2>1, <2>2, <2>3, LenProperties
  <2>6. take.taken \in Seq(Nat) /\ take.left \in Seq(Nat)
    BY <2>2, <2>5, RestType DEF TakeFds
  <2>7. /\ Consume(r, k) \in Reader
        /\ Consume(r, k).start <= Len(Consume(r, k).buf)
        /\ Unread(Consume(r, k)) = Rest(Unread(r), k)
    BY <2>2, <2>4, ConsumeUnread
  <2>8. /\ x \in Seq(Nat) /\ Rest(Unread(r), k) \in Seq(Nat)
        /\ x \o Rest(Unread(r), k) = Unread(r)
    BY <2>2, <2>4, RestType, Split
  <2> HIDE DEF take
  <2>9. r2 \in Reader /\ r2.start <= Len(r2.buf) /\ Unread(r2) = Rest(Unread(r), k)
    <3>1. PICK a \in Seq(Nat), j \in Nat, g \in Seq(Nat) :
            Consume(r, k) = [buf |-> a, start |-> j, fdq |-> g]
      BY <2>7 DEF Reader
    <3>2. r2 = [buf |-> a, start |-> j, fdq |-> take.left]
      BY <3>1
    <3>3. Unread(r2) = Unread(Consume(r, k))
      BY <3>1, <3>2 DEF Unread
    <3> QED
      BY <2>6, <2>7, <3>1, <3>2, <3>3 DEF Reader
  <2> HIDE DEF r2, x, k
  <2>10. TypeOK'
    BY <2>1, <2>6, <2>8, <2>9 DEF TypeOK, peers
  <2>11. ASSUME NEW e \in Dir PROVE Stream(e)' = Interval(0, written'[e])
    <3>1. CASE e # d
      <4>1. Chunk(e) = <<>> /\ Chunk(e)' = <<>>
        BY <2>1, <3>1 DEF Chunk
      <4> QED
        BY <2>1, <3>1, <4>1 DEF TypeOK, BytesInOrder, Stream, peers
    <3>2. CASE e = d
      <4> DEFINE p == received[d].bytes \o BytesOf(outq[d])
                 u == Unread(r)
                 v == Rest(Unread(r), k)
                 y == BytesOf(inq[d])
      <4>1. /\ p \in Seq(Nat) /\ u \in Seq(Nat) /\ v \in Seq(Nat)
            /\ y \in Seq(Nat) /\ x \in Seq(Nat)
        BY <2>2, <2>8, ConcatProperties
      <4>2. Chunk(d) = <<>> /\ Chunk(d)' = x
        BY <2>1 DEF Chunk
      <4>3. Stream(d)' = ((p \o x) \o v) \o y
        BY <2>1, <2>9, <4>2 DEF TypeOK, Stream, peers
      <4>4. Stream(d) = ((p \o <<>>) \o (x \o v)) \o y
        BY <2>8, <4>2 DEF Stream
      <4> HIDE DEF p, u, v, y
      <4>5. p \o <<>> = p
        BY <4>1, ConcatEmptySeq
      <4>6. (p \o x) \o v = p \o (x \o v)
        <5>1. p \in Seq(Nat) /\ x \in Seq(Nat) /\ v \in Seq(Nat)
          BY <4>1
        <5> QED
          BY ZenonT(40), <5>1, Assoc
      <4>7. Stream(d)' = Stream(d) /\ written' = written
        BY <2>1, <4>3, <4>4, <4>5, <4>6 DEF peers
      <4> QED
        BY <3>2, <4>7 DEF BytesInOrder
    <3> QED
      BY <3>1, <3>2
  <2> QED
    BY <2>10, <2>11 DEF BytesInOrder
<1> QED
  BY <1>1, <1>2

LEMMA SendSomeStep ==
  ASSUME TypeOK, BytesInOrder, SendSome
  PROVE  TypeOK' /\ BytesInOrder'
<1>1. CASE Stop
  BY <1>1, StopStep
<1>2. CASE ~Stop
  <2> DEFINE d == sending
  <2>1. PICK n \in 1..Len(chunk) :
          /\ Len(outq[d]) + n <= Room
          /\ outq' = [outq EXCEPT
                        ![d] = Sent(@, SubSeq(chunk, 1, n), FdsToSend)]
          /\ chunk' = Rest(chunk, n)
          /\ fds_pending' = FALSE
          /\ UNCHANGED <<peers, inq, reader, sending, fds, running>>
    BY <1>2 DEF SendSome
  <2>2. d \in Dir /\ chunk \in Seq(Nat) /\ fds \in Seq(Nat)
    BY DEF TypeOK
  <2>3. Len(chunk) \in Nat /\ n \in 0..Len(chunk)
    BY <2>2, LenProperties
  <2> DEFINE x == SubSeq(chunk, 1, n)
             c == Rest(chunk, n)
             q == Sent(outq[d], x, FdsToSend)
  <2>4. /\ x \in Seq(Nat) /\ c \in Seq(Nat) /\ Len(x) = n /\ x \o c = chunk
    BY ZenonT(40), <2>2, <2>3, RestType, Split
  <2>5. /\ Unread(reader[d]) \in Seq(Nat) /\ BytesOf(outq[d]) \in Seq(Nat)
        /\ received[d].bytes \in Seq(Nat) /\ outq[d] \in Seq(Cell)
        /\ BytesOf(inq[d]) \in Seq(Nat)
    BY <2>2, PartsType
  <2>6. FdsToSend \in Seq(Nat)
    BY <2>2, EmptySeq DEF FdsToSend
  <2> HIDE DEF x, c
  <2>7. /\ q \in Seq(Cell) /\ Len(q) = Len(outq[d]) + n
        /\ BytesOf(q) = BytesOf(outq[d]) \o x
    BY <2>4, <2>5, <2>6, SentBytes
  <2>8. outq' = [outq EXCEPT ![d] = q] /\ chunk' = c /\ sending' = sending
    BY <2>1 DEF x, c
  <2> HIDE DEF q
  <2>9. TypeOK'
    BY <2>1, <2>2, <2>4, <2>7, <2>8 DEF TypeOK, peers
  <2>10. ASSUME NEW e \in Dir PROVE Stream(e)' = Interval(0, written'[e])
    <3>1. CASE e # d
      BY <2>1, <2>8, <3>1 DEF TypeOK, BytesInOrder, Stream, Chunk, peers
    <3>2. CASE e = d
      <4> DEFINE a == received[d].bytes
                 b == BytesOf(outq[d])
                 u == Unread(reader[d])
                 y == BytesOf(inq[d])
      <4>1. /\ a \in Seq(Nat) /\ b \in Seq(Nat) /\ u \in Seq(Nat)
            /\ y \in Seq(Nat) /\ x \in Seq(Nat) /\ c \in Seq(Nat)
        BY <2>4, <2>5
      <4>2. Stream(d)' = (((a \o (b \o x)) \o c) \o u) \o y
        BY <2>1, <2>2, <2>7, <2>8 DEF TypeOK, Stream, Chunk, peers
      <4>3. Stream(d) = (((a \o b) \o (x \o c)) \o u) \o y
        BY <2>4 DEF Stream, Chunk
      <4> HIDE DEF a, b, u, y
      <4>4. a \o b \in Seq(Nat) /\ (a \o b) \o x = a \o (b \o x)
        <5>1. a \in Seq(Nat) /\ b \in Seq(Nat) /\ x \in Seq(Nat)
          BY <4>1
        <5> QED
          BY ZenonT(40), <5>1, Assoc
      <4>5. ((a \o b) \o x) \o c = (a \o b) \o (x \o c)
        <5>1. a \o b \in Seq(Nat) /\ x \in Seq(Nat) /\ c \in Seq(Nat)
          BY <4>1, <4>4
        <5> QED
          BY ZenonT(40), <5>1, Assoc
      <4>6. Stream(d)' = Stream(d) /\ written' = written
        BY <2>1, <4>2, <4>3, <4>4, <4>5 DEF peers
      <4>7. Stream(d)' = Interval(0, written'[d])
        BY <2>2, <4>6 DEF BytesInOrder
      <4>8. Stream(e)' = Stream(d)'
        BY <2>1, <3>2 DEF Stream, Chunk
      <4> QED
        BY <3>2, <4>7, <4>8
    <3> QED
      BY <3>1, <3>2
  <2> QED
    BY <2>9, <2>10 DEF BytesInOrder
<1> QED
  BY <1>1, <1>2

LEMMA WritesStep ==
  ASSUME TypeOK, BytesInOrder, NEW d \in Dir, Writes(d)
  PROVE  TypeOK' /\ BytesInOrder'
<1>1. PICK m \in 1..Len(traffic[d]) :
        /\ EndOf(traffic[d], m - 1) <= written[d]
        /\ written[d] < EndOf(traffic[d], m)
        /\ \E n \in 1..(EndOf(traffic[d], m) - written[d]) :
             /\ Len(inq[d]) + n <= Room
             /\ written' = [written EXCEPT ![d] = @ + n]
             /\ inq' = [inq EXCEPT ![d] =
                  Sent(@, Interval(written[d], written[d] + n),
                       IF written[d] # EndOf(traffic[d], m - 1) THEN <<>>
                       ELSE Interval(FdEndOf(traffic[d], m - 1),
                                     FdEndOf(traffic[d], m)))]
  BY DEF Writes
<1> DEFINE with == IF written[d] # EndOf(traffic[d], m - 1) THEN <<>>
                   ELSE Interval(FdEndOf(traffic[d], m - 1),
                                 FdEndOf(traffic[d], m))
<1>2. with \in Seq(Nat)
  BY EmptySeq, FdRange
<1> HIDE DEF with
<1>3. EndOf(traffic[d], m) \in Nat
  <2>1. m \in 0..Len(traffic[d])
    BY Ends
  <2> QED
    BY <2>1, Ends
<1>4. PICK n \in 1..(EndOf(traffic[d], m) - written[d]) :
        /\ Len(inq[d]) + n <= Room
        /\ written' = [written EXCEPT ![d] = @ + n]
        /\ inq' = [inq EXCEPT ![d] =
             Sent(@, Interval(written[d], written[d] + n), with)]
  BY <1>1 DEF with
<1>5. UNCHANGED <<traffic, received, open, outq, reader, writer, running>>
  BY DEF Writes
<1> DEFINE w == written[d]
           x == Interval(w, w + n)
           q == Sent(inq[d], x, with)
<1>6. w \in Nat /\ n \in Nat
  BY <1>3 DEF TypeOK
<1>7. x \in Seq(Nat) /\ Len(x) = n /\ Interval(0, w) \o x = Interval(0, w + n)
  <2>1. w + n \in Nat /\ w <= w + n /\ 0 \in Nat /\ 0 <= w /\ (w + n) - w = n
    BY <1>6
  <2>2. x \in Seq(Nat) /\ Len(x) = (w + n) - w
    BY <1>6, <2>1, IntervalType
  <2>3. Interval(0, w) \o x = Interval(0, w + n)
    BY <1>6, <2>1, IntervalConcat
  <2> QED
    BY <2>1, <2>2, <2>3
<1>8. inq[d] \in Seq(Cell) /\ BytesOf(inq[d]) \in Seq(Nat)
      /\ received[d].bytes \in Seq(Nat) /\ BytesOf(outq[d]) \in Seq(Nat)
      /\ Chunk(d) \in Seq(Nat) /\ Unread(reader[d]) \in Seq(Nat)
  BY PartsType
<1> HIDE DEF x
<1>9. /\ q \in Seq(Cell) /\ Len(q) = Len(inq[d]) + n
      /\ BytesOf(q) = BytesOf(inq[d]) \o x
  BY <1>2, <1>7, <1>8, SentBytes
<1>10. inq' = [inq EXCEPT ![d] = q] /\ written' = [written EXCEPT ![d] = w + n]
  BY <1>4 DEF x
<1> HIDE DEF q
<1>11. TypeOK'
  <2>1. ASSUME NEW e \in Dir PROVE Len(inq'[e]) <= Room
    <3>1. CASE e = d
      <4>1. inq'[e] = q
        BY <1>10, <3>1 DEF TypeOK
      <4> QED
        BY <4>1, <1>4, <1>9
    <3>2. CASE e # d
      BY <1>10, <3>2 DEF TypeOK
    <3> QED
      BY <3>1, <3>2
  <2>2. inq' \in [Dir -> Seq(Cell)]
    BY <1>9, <1>10 DEF TypeOK
  <2>3. written' \in [Dir -> Nat]
    <3>1. w + n \in Nat
      BY <1>6
    <3> QED
      BY <1>10, <3>1 DEF TypeOK
  <2> QED
    BY <1>5, <2>1, <2>2, <2>3 DEF TypeOK, writer
<1>12. ASSUME NEW e \in Dir PROVE Stream(e)' = Interval(0, written'[e])
  <2>1. CASE e # d
    BY <1>5, <1>10, <2>1 DEF TypeOK, BytesInOrder, Stream, Chunk, writer
  <2>2. CASE e = d
    <3> DEFINE p == received[d].bytes \o BytesOf(outq[d]) \o Chunk(d)
                      \o Unread(reader[d])
               y == BytesOf(inq[d])
    <3>1. p \in Seq(Nat)
      BY <1>8, ConcatProperties
    <3>2. Stream(d)' = p \o (y \o x)
      BY <1>5, <1>9, <1>10 DEF TypeOK, Stream, Chunk, writer
    <3>3. p \o y = Interval(0, w)
      BY DEF BytesInOrder, Stream
    <3>4. y \in Seq(Nat) /\ x \in Seq(Nat)
      BY <1>7, <1>8
    <3> HIDE DEF p, y
    <3>5. (p \o y) \o x = p \o (y \o x)
      BY <3>1, <3>4, Assoc
    <3>6. written'[d] = w + n
      BY <1>10 DEF TypeOK
    <3>7. Stream(d)' = Interval(0, written'[d])
      BY <3>2, <3>3, <3>5, <3>6, <1>7
    <3>8. Stream(e)' = Stream(d)'
      BY <2>2 DEF Stream, Chunk
    <3> QED
      BY <2>2, <3>7, <3>8
  <2> QED
    BY <2>1, <2>2
<1> QED
  BY <1>11, <1>12 DEF BytesInOrder

LEMMA ReadsStep ==
  ASSUME TypeOK, BytesInOrder, NEW d \in Dir, Reads(d)
  PROVE  TypeOK' /\ BytesInOrder'
<1>1. PICK n \in 1..Len(outq[d]) :
        /\ received' = [received EXCEPT ![d] =
             [bytes |-> @.bytes \o BytesOf(SubSeq(outq[d], 1, n)),
              fds   |-> @.fds \o FdsOf(outq[d], n)]]
        /\ outq' = [outq EXCEPT ![d] = Rest(@, n)]
  BY DEF Reads
<1>2. UNCHANGED <<traffic, written, open, inq, reader, writer, running>>
  BY DEF Reads
<1> DEFINE x == BytesOf(SubSeq(outq[d], 1, n))
           q == Rest(outq[d], n)
           g == FdsOf(outq[d], n)
           a == received[d].bytes
<1>3. /\ outq[d] \in Seq(Cell) /\ a \in Seq(Nat) /\ received[d].fds \in Seq(Nat)
      /\ BytesOf(inq[d]) \in Seq(Nat) /\ Chunk(d) \in Seq(Nat)
      /\ Unread(reader[d]) \in Seq(Nat)
  BY PartsType
<1>4. /\ q \in Seq(Cell) /\ Len(q) <= Len(outq[d])
      /\ x \in Seq(Nat) /\ BytesOf(q) \in Seq(Nat)
      /\ x \o BytesOf(q) = BytesOf(outq[d])
      /\ g \in Seq(Nat)
  BY <1>3, ReceivedBytes
<1>5. a \o x \in Seq(Nat) /\ received[d].fds \o g \in Seq(Nat)
  BY <1>3, <1>4, ConcatProperties
<1>6. /\ received' = [received EXCEPT ![d] =
             [bytes |-> a \o x, fds |-> received[d].fds \o g]]
      /\ outq' = [outq EXCEPT ![d] = q]
  BY <1>1
<1> HIDE DEF x, q, g
<1>7. TypeOK'
  <2>1. \A e \in Dir : Len(outq'[e]) <= Room
    <3> SUFFICES ASSUME NEW e \in Dir PROVE Len(outq'[e]) <= Room
      OBVIOUS
    <3>1. CASE e = d
      <4>1. outq'[e] = q /\ Len(outq[d]) <= Room
        BY <1>6, <3>1 DEF TypeOK
      <4>2. Len(outq[d]) \in Nat /\ Len(q) \in Nat /\ Room \in Nat
        BY <1>3, <1>4, LenProperties, FdStreamAssumption
      <4> QED
        BY <4>1, <4>2, <1>4
    <3>2. CASE e # d
      BY <1>6, <3>2 DEF TypeOK
    <3> QED
      BY <3>1, <3>2
  <2>2. outq' \in [Dir -> Seq(Cell)]
    BY <1>4, <1>6 DEF TypeOK
  <2>3. received' \in [Dir -> [bytes : Seq(Nat), fds : Seq(Nat)]]
    BY <1>5, <1>6 DEF TypeOK
  <2> QED
    BY <1>2, <2>1, <2>2, <2>3 DEF TypeOK, writer
<1>8. ASSUME NEW e \in Dir PROVE Stream(e)' = Interval(0, written'[e])
  <2>1. CASE e # d
    BY <1>2, <1>6, <2>1 DEF TypeOK, BytesInOrder, Stream, Chunk, writer
  <2>2. CASE e = d
    <3> DEFINE b == BytesOf(q)
               c == Chunk(d)
               u == Unread(reader[d])
               y == BytesOf(inq[d])
    <3>1. Stream(d)' = ((((a \o x) \o b) \o c) \o u) \o y
      BY <1>2, <1>6 DEF TypeOK, Stream, Chunk, writer
    <3>2. Stream(d) = (((a \o (x \o b)) \o c) \o u) \o y
      BY <1>4 DEF Stream
    <3>3. a \in Seq(Nat) /\ x \in Seq(Nat) /\ b \in Seq(Nat)
      BY <1>3, <1>4
    <3> HIDE DEF a, b, c, u, y
    <3>4. (a \o x) \o b = a \o (x \o b)
      BY SMTT(30), <3>3, Assoc
    <3>5. Stream(d)' = Stream(d) /\ written' = written
      BY <1>2, <3>1, <3>2, <3>4
    <3>6. Stream(d)' = Interval(0, written'[d])
      BY <3>5 DEF BytesInOrder
    <3>7. Stream(e)' = Stream(d)'
      BY <2>2 DEF Stream, Chunk
    <3> QED
      BY <2>2, <3>6, <3>7
  <2> QED
    BY <2>1, <2>2
<1> QED
  BY <1>7, <1>8 DEF BytesInOrder

LEMMA InitOK ==
  ASSUME Init
  PROVE  TypeOK /\ BytesInOrder
<1>1. /\ <<>> \in Seq(Nat) /\ <<>> \in Seq(Cell) /\ Len(<<>>) = 0
  BY EmptySeq
<1>2. Room \in Nat
  BY FdStreamAssumption
<1>3. TypeOK
  <2>1. received \in [Dir -> [bytes : Seq(Nat), fds : Seq(Nat)]]
    BY <1>1 DEF Init
  <2>2. reader \in [Dir -> Reader]
    BY <1>1 DEF Init, Reader
  <2>3. /\ written \in [Dir -> Nat] /\ open \in SUBSET Peer
        /\ inq \in [Dir -> Seq(Cell)] /\ outq \in [Dir -> Seq(Cell)]
    BY <1>1 DEF Init
  <2>4. /\ sending \in Dir /\ chunk \in Seq(Nat) /\ fds \in Seq(Nat)
        /\ fds_pending \in BOOLEAN /\ running \in BOOLEAN
        /\ traffic \in Traffics
    BY <1>1 DEF Init, Dir
  <2>5. ASSUME NEW d \in Dir
        PROVE  /\ reader[d].start <= Len(reader[d].buf)
               /\ Len(inq[d]) <= Room /\ Len(outq[d]) <= Room
    <3>1. reader[d].start = 0 /\ reader[d].buf = <<>>
      BY DEF Init
    <3>2. inq[d] = <<>> /\ outq[d] = <<>>
      BY DEF Init
    <3> QED
      BY <1>1, <1>2, <3>1, <3>2
  <2> QED
    BY <2>1, <2>2, <2>3, <2>4, <2>5 DEF TypeOK
<1>4. ASSUME NEW d \in Dir PROVE Stream(d) = Interval(0, written[d])
  <2>1. BytesOf(<<>>) \in Seq(Nat) /\ Len(BytesOf(<<>>)) = 0
    BY <1>1, BytesOfType
  <2>2. BytesOf(<<>>) = <<>>
    BY <2>1, EmptySeq
  <2>3. Unread(reader[d]) = <<>>
    <3>1. Unread(reader[d]) = Rest(<<>>, 0)
      BY DEF Init, Unread
    <3>2. Rest(<<>>, 0) = <<>>
      BY <1>1, RestZero
    <3> QED
      BY <3>1, <3>2
  <2>4. Interval(0, 0) = <<>>
    <3>1. Interval(0, 0) \in Seq(Nat) /\ Len(Interval(0, 0)) = 0 - 0
      BY IntervalType
    <3> QED
      BY <3>1, EmptySeq
  <2>5. <<>> \o <<>> = <<>>
    BY <1>1, ConcatEmptySeq
  <2> QED
    BY <2>2, <2>3, <2>4, <2>5 DEF Init, Stream, Chunk
<1> QED
  BY <1>3, <1>4 DEF BytesInOrder

LEMMA StepOK ==
  ASSUME TypeOK, BytesInOrder, [Next]_vars
  PROVE  TypeOK' /\ BytesInOrder'
<1>1. ASSUME NEW d \in Dir, Receive(d)
      PROVE  TypeOK' /\ BytesInOrder'
  BY <1>1, ReceiveStep
<1>2. ASSUME NEW d \in Dir, ReceiveEof(d)
      PROVE  TypeOK' /\ BytesInOrder'
  BY <1>2, StopStep DEF ReceiveEof
<1>3. ASSUME NEW d \in Dir, TakeMessage(d)
      PROVE  TypeOK' /\ BytesInOrder'
  BY <1>3, TakeMessageStep
<1>4. CASE SendSome
  BY <1>4, SendSomeStep
<1>5. ASSUME NEW d \in Dir, Writes(d)
      PROVE  TypeOK' /\ BytesInOrder'
  BY <1>5, WritesStep
<1>6. ASSUME NEW d \in Dir, Reads(d)
      PROVE  TypeOK' /\ BytesInOrder'
  BY <1>6, ReadsStep
<1>7. ASSUME NEW peer \in Peer, Closes(peer)
      PROVE  TypeOK' /\ BytesInOrder'
  BY <1>7 DEF Closes, TypeOK, BytesInOrder, Stream, Chunk, writer
<1>8. CASE UNCHANGED vars
  BY <1>8 DEF vars, peers, writer, TypeOK, BytesInOrder, Stream, Chunk
<1> QED
  BY <1>1, <1>2, <1>3, <1>4, <1>5, <1>6, <1>7, <1>8 DEF Next, Router

-----------------------------------------------------------------------------
(* Descriptors: how many go with the first bytes of a traffic.               *)

Regular(t) ==
  /\ t \in Traffic
  /\ \A m \in 1..Len(t) : /\ EndOf(t, m) >= EndOf(t, m - 1) + HeaderSize
                          /\ FdEndOf(t, m) >= FdEndOf(t, m - 1)
Total(t) == EndOf(t, Len(t))

LEMMA TrafficIsRegular ==
  ASSUME TypeOK, NEW d \in Dir
  PROVE  Regular(traffic[d])
<1>1. traffic[d] \in Traffic /\ traffic \in Traffics
  BY FdStreamAssumption DEF TypeOK
<1> QED BY <1>1, FdStreamAssumption DEF Regular

LEMMA EndTypes ==
  ASSUME NEW t, Regular(t)
  PROVE  /\ Len(t) \in Nat
         /\ \A m \in 0..Len(t) : EndOf(t, m) \in Nat /\ FdEndOf(t, m) \in Nat
         /\ EndOf(t, 0) = 0 /\ FdEndOf(t, 0) = 0
<1>1. Len(t) \in Nat /\ t \in Seq([last : Nat, lastFd : Nat])
  BY LenProperties DEF Regular, Traffic
<1>2. ASSUME NEW m \in 0..Len(t), m # 0
      PROVE  EndOf(t, m) \in Nat /\ FdEndOf(t, m) \in Nat
  <2>1. m \in 1..Len(t)
    BY <1>1, <1>2
  <2>2. t[m] \in [last : Nat, lastFd : Nat]
    BY <1>1, <2>1, ElementOfSeq
  <2> QED BY <1>2, <2>2 DEF EndOf, FdEndOf
<1> QED BY <1>1, <1>2 DEF EndOf, FdEndOf

\* Later messages end later, and their descriptors too.
LEMMA EndsGrow ==
  ASSUME NEW t, Regular(t), NEW i \in 0..Len(t), NEW j \in 0..Len(t), i < j
  PROVE  /\ EndOf(t, i) + HeaderSize <= EndOf(t, j)
         /\ FdEndOf(t, i) <= FdEndOf(t, j)
<1> DEFINE Grows(n) == \A m \in 0..Len(t) :
                         m < n => /\ EndOf(t, m) + HeaderSize <= EndOf(t, n)
                                  /\ FdEndOf(t, m) <= FdEndOf(t, n)
           Good == {n \in Nat : n <= Len(t) => Grows(n)}
<1>1. /\ Len(t) \in Nat /\ HeaderSize \in Nat
      /\ \A m \in 0..Len(t) : EndOf(t, m) \in Nat /\ FdEndOf(t, m) \in Nat
  BY EndTypes, FdStreamAssumption
<1>2. 0 \in Good
  BY <1>1
<1>3. ASSUME NEW n \in Nat, n \in Good PROVE n + 1 \in Good
  <2> SUFFICES ASSUME n + 1 <= Len(t), NEW m \in 0..Len(t), m < n + 1
               PROVE  /\ EndOf(t, m) + HeaderSize <= EndOf(t, n + 1)
                      /\ FdEndOf(t, m) <= FdEndOf(t, n + 1)
    OBVIOUS
  <2>1. /\ n + 1 \in 1..Len(t) /\ (n + 1) - 1 = n /\ n \in 0..Len(t)
        /\ n + 1 \in 0..Len(t) /\ n <= Len(t)
    BY <1>1
  <2>2. PICK a \in Nat, b \in Nat, f \in Nat, g \in Nat :
          /\ a = EndOf(t, n) /\ b = EndOf(t, n + 1)
          /\ f = FdEndOf(t, n) /\ g = FdEndOf(t, n + 1)
    BY <1>1, <2>1
  <2>3. b >= a + HeaderSize /\ g >= f
    BY <2>1, <2>2 DEF Regular
  <2>4. CASE m = n
    BY <1>1, <2>2, <2>3, <2>4
  <2>5. CASE m # n
    <3>1. m < n
      BY <2>5
    <3>2. EndOf(t, m) + HeaderSize <= a /\ FdEndOf(t, m) <= f
      BY <1>3, <2>1, <2>2, <3>1
    <3>3. PICK x \in Nat, y \in Nat : x = EndOf(t, m) /\ y = FdEndOf(t, m)
      BY <1>1
    <3>4. x + HeaderSize <= a /\ y <= f
      BY <3>2, <3>3
    <3>5. PICK size \in Nat : size = HeaderSize
      BY <1>1
    <3>6. x + size <= b /\ y <= g
      BY <2>3, <3>4, <3>5
    <3> QED BY <2>2, <3>3, <3>5, <3>6
  <2> QED BY <2>4, <2>5
<1>4. j \in Good
  <2>1. j \in Nat
    BY <1>1
  <2> HIDE DEF Good
  <2> QED BY <1>2, <1>3, <2>1, SetInduction
<1> QED BY <1>1, <1>4

\* Every byte belongs to a message,
LEMMA ByteHasMessage ==
  ASSUME NEW t, Regular(t), NEW n \in 1..Total(t)
  PROVE  \E m \in 1..Len(t) : EndOf(t, m - 1) < n /\ n <= EndOf(t, m)
<1> DEFINE In(m) == EndOf(t, m - 1) < n /\ n <= EndOf(t, m)
           Good == {k \in Nat : k <= Len(t) /\ n <= EndOf(t, k)
                                  => \E m \in 1..Len(t) : In(m)}
<1>1. /\ Len(t) \in Nat /\ EndOf(t, 0) = 0
      /\ \A m \in 0..Len(t) : EndOf(t, m) \in Nat
  BY EndTypes
<1>2. n \in Nat /\ 1 <= n /\ n <= EndOf(t, Len(t))
  <2>1. Total(t) \in Nat
    BY <1>1 DEF Total
  <2> QED BY <2>1 DEF Total
<1>3. 0 \in Good
  BY <1>1, <1>2
<1>4. ASSUME NEW k \in Nat, k \in Good PROVE k + 1 \in Good
  <2> SUFFICES ASSUME k + 1 <= Len(t), n <= EndOf(t, k + 1)
               PROVE  \E m \in 1..Len(t) : In(m)
    OBVIOUS
  <2>1. /\ k + 1 \in 1..Len(t) /\ (k + 1) - 1 = k /\ k \in 0..Len(t)
        /\ k <= Len(t)
    BY <1>1
  <2>2. EndOf(t, k) \in Nat
    BY <1>1, <2>1
  <2>3. CASE n <= EndOf(t, k)
    BY <1>4, <2>1, <2>3
  <2>4. CASE ~(n <= EndOf(t, k))
    <3>1. EndOf(t, k) < n
      BY <1>2, <2>2, <2>4
    <3> QED BY <2>1, <3>1
  <2> QED BY <2>3, <2>4
<1>5. Len(t) \in Good
  <2> HIDE DEF Good
  <2> QED BY <1>1, <1>3, <1>4, SetInduction
<1> QED BY <1>1, <1>2, <1>5

\* and to one only.
LEMMA OneMessage ==
  ASSUME NEW t, Regular(t), NEW n \in Nat,
         NEW i \in 1..Len(t), EndOf(t, i - 1) < n, n <= EndOf(t, i),
         NEW j \in 1..Len(t), EndOf(t, j - 1) < n, n <= EndOf(t, j)
  PROVE  i = j
<1>1. /\ Len(t) \in Nat /\ HeaderSize \in Nat
      /\ \A m \in 0..Len(t) : EndOf(t, m) \in Nat
  BY EndTypes, FdStreamAssumption
<1>2. ASSUME NEW k \in 1..Len(t), NEW l \in 1..Len(t), k < l,
             n <= EndOf(t, k), EndOf(t, l - 1) < n
      PROVE  FALSE
  <2>1. /\ k \in 0..Len(t) /\ l - 1 \in 0..Len(t) /\ (k = l - 1 \/ k < l - 1)
    BY <1>1, <1>2
  <2>2. PICK a \in Nat, b \in Nat : a = EndOf(t, k) /\ b = EndOf(t, l - 1)
    BY <1>1, <2>1
  <2>3. CASE k = l - 1
    BY <1>2, <2>2, <2>3
  <2>4. CASE k < l - 1
    <3>1. a + HeaderSize <= b
      BY <2>1, <2>2, <2>4, EndsGrow
    <3>2. n <= a /\ b < n
      BY <1>2, <2>2
    <3> QED BY <1>1, <3>1, <3>2
  <2> QED BY <2>1, <2>3, <2>4
<1>3. i \in Nat /\ j \in Nat
  BY <1>1
<1> QED BY <1>2, <1>3

\* The first bytes up to one of a message bring the descriptors of all messages
\* up to this one.
LEMMA FdsByMessage ==
  ASSUME NEW t, Regular(t), NEW m \in 1..Len(t), NEW n \in Nat,
         EndOf(t, m - 1) < n, n <= EndOf(t, m)
  PROVE  FdsBy(t, n) = FdEndOf(t, m)
<1> DEFINE In(k) == EndOf(t, k - 1) < n /\ n <= EndOf(t, k)
<1>1. n # 0
  <2>1. m - 1 \in 0..Len(t)
    BY EndTypes
  <2>2. EndOf(t, m - 1) \in Nat
    BY <2>1, EndTypes
  <2> QED BY <2>2
<1>2. PICK k : k = CHOOSE x \in 1..Len(t) : In(x)
  OBVIOUS
<1>3. k \in 1..Len(t) /\ In(k)
  BY <1>2
<1>4. k = m
  BY <1>3, OneMessage
<1> QED BY <1>1, <1>2, <1>4 DEF FdsBy

LEMMA FdsByEnd ==
  ASSUME NEW t, Regular(t), NEW m \in 0..Len(t)
  PROVE  FdsBy(t, EndOf(t, m)) = FdEndOf(t, m)
<1>1. Len(t) \in Nat /\ EndOf(t, 0) = 0 /\ FdEndOf(t, 0) = 0
  BY EndTypes
<1>2. CASE m = 0
  BY <1>1, <1>2 DEF FdsBy
<1>3. CASE m # 0
  <2>1. /\ m \in 1..Len(t) /\ m - 1 \in 0..Len(t) /\ m - 1 < m
    BY <1>1, <1>3
  <2>2. PICK a \in Nat, b \in Nat : a = EndOf(t, m - 1) /\ b = EndOf(t, m)
    BY <2>1, EndTypes
  <2>3. a + HeaderSize <= b /\ HeaderSize \in Nat \ {0}
    BY <2>1, <2>2, EndsGrow, FdStreamAssumption
  <2>4. a < b
    BY <2>3
  <2> QED BY <2>1, <2>2, <2>4, FdsByMessage
<1> QED BY <1>2, <1>3

LEMMA FdsByType ==
  ASSUME NEW t, Regular(t), NEW n \in 0..Total(t)
  PROVE  FdsBy(t, n) \in Nat
<1>1. Total(t) \in Nat
  BY EndTypes DEF Total
<1>2. CASE n = 0
  BY <1>2 DEF FdsBy
<1>3. CASE n # 0
  <2>1. n \in 1..Total(t) /\ n \in Nat
    BY <1>1, <1>3
  <2>2. PICK m \in 1..Len(t) : EndOf(t, m - 1) < n /\ n <= EndOf(t, m)
    BY <2>1, ByteHasMessage
  <2>3. m \in 0..Len(t)
    BY EndTypes
  <2> QED BY <2>1, <2>2, <2>3, FdsByMessage, EndTypes
<1> QED BY <1>2, <1>3

\* One more byte brings the descriptors of its message if it is the first.
LEMMA NextByte ==
  ASSUME NEW t, Regular(t), NEW n \in 1..Total(t)
  PROVE  \/ FdsBy(t, n) = FdsBy(t, n - 1)
         \/ \E m \in 1..Len(t) : /\ EndOf(t, m - 1) = n - 1
                                 /\ FdsBy(t, n) = FdEndOf(t, m)
                                 /\ FdsBy(t, n - 1) = FdEndOf(t, m - 1)
<1>1. n \in Nat /\ n - 1 \in Nat /\ Len(t) \in Nat
  <2>1. Total(t) \in Nat
    BY EndTypes DEF Total
  <2> QED BY <2>1, EndTypes
<1>2. PICK m \in 1..Len(t) : EndOf(t, m - 1) < n /\ n <= EndOf(t, m)
  BY ByteHasMessage
<1>3. m \in 0..Len(t) /\ m - 1 \in 0..Len(t)
  BY <1>1
<1>4. PICK a \in Nat, b \in Nat : a = EndOf(t, m - 1) /\ b = EndOf(t, m)
  BY <1>3, EndTypes
<1>5. FdsBy(t, n) = FdEndOf(t, m)
  BY <1>1, <1>2, FdsByMessage
<1>6. CASE a < n - 1
  <2>1. n - 1 <= b
    BY <1>1, <1>2, <1>4
  <2>2. FdsBy(t, n - 1) = FdEndOf(t, m)
    BY <1>1, <1>4, <1>6, <2>1, FdsByMessage
  <2> QED BY <1>5, <2>2
<1>7. CASE ~(a < n - 1)
  <2>1. a = n - 1
    BY <1>1, <1>2, <1>4, <1>7
  <2>2. FdsBy(t, n - 1) = FdEndOf(t, m - 1)
    BY <1>3, <1>4, <2>1, FdsByEnd
  <2> QED BY <1>4, <1>5, <2>1, <2>2
<1> QED BY <1>6, <1>7

\* No more bytes, no more descriptors.
LEMMA FdsGrow ==
  ASSUME NEW t, Regular(t), NEW a \in Nat, NEW b \in 0..Total(t), a <= b
  PROVE  FdsBy(t, a) \in Nat /\ FdsBy(t, b) \in Nat /\ FdsBy(t, a) <= FdsBy(t, b)
<1> DEFINE Good == {n \in Nat : a + n <= Total(t) => FdsBy(t, a) <= FdsBy(t, a + n)}
<1>1. Total(t) \in Nat /\ a \in 0..Total(t) /\ b \in Nat
  <2>1. Total(t) \in Nat
    BY EndTypes DEF Total
  <2> QED BY <2>1
<1>2. FdsBy(t, a) \in Nat /\ FdsBy(t, b) \in Nat
  BY <1>1, FdsByType
<1>3. 0 \in Good
  BY <1>2
<1>4. ASSUME NEW n \in Nat, n \in Good PROVE n + 1 \in Good
  <2> SUFFICES ASSUME a + (n + 1) <= Total(t)
               PROVE  FdsBy(t, a) <= FdsBy(t, a + (n + 1))
    OBVIOUS
  <2>1. PICK c \in Nat : c = a + n
    OBVIOUS
  <2>2. /\ a + (n + 1) = c + 1 /\ (c + 1) - 1 = c /\ c + 1 \in 1..Total(t)
        /\ c \in 0..Total(t) /\ c + 1 \in 0..Total(t) /\ c <= Total(t)
    BY <1>1, <2>1
  <2>3. PICK x \in Nat, y \in Nat : x = FdsBy(t, c) /\ y = FdsBy(t, c + 1)
    BY <2>2, FdsByType
  <2>4. x <= y
    <3>1. CASE y = x
      BY <3>1
    <3>2. CASE y # x
      <4>1. PICK m \in 1..Len(t) : y = FdEndOf(t, m) /\ x = FdEndOf(t, m - 1)
        BY <2>2, <2>3, <3>2, NextByte
      <4>2. FdEndOf(t, m) >= FdEndOf(t, m - 1)
        BY DEF Regular
      <4> QED BY <4>1, <4>2
    <3> QED BY <3>1, <3>2
  <2>5. FdsBy(t, a) <= x
    BY <1>4, <2>1, <2>2, <2>3
  <2>6. FdsBy(t, a) <= y
    BY <1>2, <2>4, <2>5
  <2> QED BY <2>2, <2>3, <2>6
<1>5. b - a \in Good
  <2>1. b - a \in Nat
    BY <1>1
  <2> HIDE DEF Good
  <2> QED BY <1>3, <1>4, <2>1, SetInduction
<1>6. a + (b - a) = b /\ b <= Total(t)
  BY <1>1
<1> QED BY <1>2, <1>5, <1>6

\* Bytes that bring none.
BringNone(t, a, b) == \A n \in a + 1..b : FdsBy(t, n) = FdsBy(t, n - 1)

LEMMA NoFdsBetween ==
  ASSUME NEW t, Regular(t), NEW a \in Nat, NEW b \in 0..Total(t), a <= b,
         BringNone(t, a, b)
  PROVE  FdsBy(t, a) = FdsBy(t, b)
<1> DEFINE Good == {n \in Nat : a + n <= b => FdsBy(t, a) = FdsBy(t, a + n)}
<1>1. Total(t) \in Nat /\ b \in Nat
  <2>1. Total(t) \in Nat
    BY EndTypes DEF Total
  <2> QED BY <2>1
<1>2. 0 \in Good
  OBVIOUS
<1>3. ASSUME NEW n \in Nat, n \in Good PROVE n + 1 \in Good
  <2>1. PICK c \in Nat : c = a + n
    OBVIOUS
  <2>2. a + (n + 1) = c + 1 /\ (c + 1) - 1 = c
    BY <2>1
  <2>3. CASE c + 1 <= b
    <3>1. c <= b /\ c + 1 \in a + 1..b
      BY <1>1, <2>1, <2>3
    <3>2. FdsBy(t, c + 1) = FdsBy(t, c)
      BY <2>2, <3>1 DEF BringNone
    <3> QED BY <1>3, <2>1, <2>2, <3>1, <3>2
  <2>4. CASE ~(c + 1 <= b)
    BY <2>2, <2>4
  <2> QED BY <2>3, <2>4
<1>4. b - a \in Good
  <2>1. b - a \in Nat
    BY <1>1
  <2> HIDE DEF Good
  <2> QED BY <1>2, <1>3, <2>1, SetInduction
<1>5. a + (b - a) = b
  BY <1>1
<1> QED BY <1>1, <1>4, <1>5

-----------------------------------------------------------------------------
(* Descriptors in a socket.                                                  *)

LEMMA IntervalEmpty ==
  ASSUME NEW a \in Nat
  PROVE  Interval(a, a) = <<>>
<1>1. Interval(a, a) \in Seq(Nat) /\ Len(Interval(a, a)) = a - a
  BY IntervalType
<1> QED BY <1>1, EmptySeq

LEMMA FdsBetweenType ==
  ASSUME NEW t, Regular(t), NEW a \in Nat, NEW b \in 0..Total(t), a <= b
  PROVE  /\ FdsBetween(t, a, b) \in Seq(Nat)
         /\ Len(FdsBetween(t, a, b)) = FdsBy(t, b) - FdsBy(t, a)
         /\ FdsBy(t, a) \in Nat /\ FdsBy(t, b) \in Nat
         /\ FdsBy(t, a) <= FdsBy(t, b)
         /\ FdsBetween(t, a, b) = <<>> <=> FdsBy(t, a) = FdsBy(t, b)
<1>1. PICK x \in Nat, y \in Nat :
        x = FdsBy(t, a) /\ y = FdsBy(t, b) /\ x <= y
  BY FdsGrow
<1>2. PICK fd : fd = Interval(x, y)
  OBVIOUS
<1>3. fd \in Seq(Nat) /\ Len(fd) = y - x
  BY <1>1, <1>2, IntervalType
<1>4. fd = <<>> <=> x = y
  <2>1. fd = <<>> => x = y
    BY <1>1, <1>3, EmptySeq
  <2>2. x = y => fd = <<>>
    BY <1>2, IntervalEmpty
  <2> QED BY <2>1, <2>2
<1>5. FdsBetween(t, a, b) = fd
  BY <1>1, <1>2 DEF FdsBetween
<1> QED BY <1>1, <1>3, <1>4, <1>5

LEMMA FdsBetweenConcat ==
  ASSUME NEW t, Regular(t), NEW a \in Nat, NEW b \in Nat,
         NEW c \in 0..Total(t), a <= b, b <= c
  PROVE  FdsBetween(t, a, b) \o FdsBetween(t, b, c) = FdsBetween(t, a, c)
<1>1. b \in 0..Total(t)
  <2>1. Total(t) \in Nat
    BY EndTypes DEF Total
  <2> QED BY <2>1
<1>2. PICK x \in Nat, y \in Nat : x = FdsBy(t, a) /\ y = FdsBy(t, b) /\ x <= y
  BY <1>1, FdsGrow
<1>3. PICK z \in Nat : z = FdsBy(t, c) /\ y <= z
  BY <1>2, FdsGrow
<1> QED BY <1>2, <1>3, IntervalConcat DEF FdsBetween

\* What sendmsg makes of a socket: only the first byte of a buffer carries
\* descriptors, and the byte before it was the last of its own.
Buffers(data) ==
  /\ data # <<>> => data[Len(data)].last
  /\ \A i \in 2..Len(data) : data[i].fds # <<>> => data[i - 1].last

LEMMA SentCells ==
  ASSUME NEW data \in Seq(Cell), NEW bytes \in Seq(Nat), NEW with \in Seq(Nat)
  PROVE  /\ Sent(data, bytes, with) \in Seq(Cell)
         /\ Len(Sent(data, bytes, with)) = Len(data) + Len(bytes)
         /\ \A i \in 1..Len(data) :
              /\ Sent(data, bytes, with)[i].fds = data[i].fds
              /\ data[i].last => Sent(data, bytes, with)[i].last
         /\ \A i \in 1..Len(bytes) :
              /\ Sent(data, bytes, with)[Len(data) + i].fds =
                   (IF i = 1 THEN with ELSE <<>>)
              /\ i = Len(bytes) => Sent(data, bytes, with)[Len(data) + i].last
<1> DEFINE new == [i \in 1..Len(bytes) |->
                     [byte |-> bytes[i],
                      fds  |-> IF i = 1 THEN with ELSE <<>>,
                      last |-> i = Len(bytes)]]
<1>1. Len(bytes) \in Nat /\ Len(data) \in Nat
      /\ \A i \in 1..Len(bytes) : bytes[i] \in Nat
  BY LenProperties, ElementOfSeq
<1>2. \A i \in 1..Len(bytes) : (IF i = 1 THEN with ELSE <<>>) \in Seq(Nat)
  BY EmptySeq
<1>3. new \in [1..Len(bytes) -> Cell]
  BY <1>1, <1>2 DEF Cell
<1>4. new \in Seq(Cell)
  BY <1>1, <1>3, SeqDef
<1>5. Len(new) = Len(bytes)
  <2>1. DOMAIN new = 1..Len(new) /\ Len(new) \in Nat
    BY <1>4, LenProperties
  <2> QED BY <2>1, <1>1
<1>6. \A i \in 1..Len(bytes) : /\ new[i].fds = IF i = 1 THEN with ELSE <<>>
                               /\ i = Len(bytes) => new[i].last
  OBVIOUS
<1>7. Sent(data, bytes, with) = data \o new
  BY DEF Sent
<1> HIDE DEF new
<1>8. /\ data \o new \in Seq(Cell) /\ Len(data \o new) = Len(data) + Len(new)
      /\ \A i \in 1..Len(data) + Len(new) :
           (data \o new)[i] = IF i <= Len(data) THEN data[i] ELSE new[i - Len(data)]
  BY <1>4, ConcatProperties
<1>9. \A i \in 1..Len(data) : (data \o new)[i] = data[i]
  BY <1>1, <1>5, <1>8
<1>10. ASSUME NEW i \in 1..Len(bytes)
       PROVE  (data \o new)[Len(data) + i] = new[i]
  <2>1. /\ Len(data) + i \in 1..Len(data) + Len(new)
        /\ ~(Len(data) + i <= Len(data)) /\ (Len(data) + i) - Len(data) = i
    BY <1>1, <1>5
  <2> QED BY <1>8, <2>1
<1> QED BY <1>5, <1>6, <1>7, <1>8, <1>9, <1>10

LEMMA SentOld ==
  ASSUME NEW data \in Seq(Cell), NEW bytes \in Seq(Nat), NEW with \in Seq(Nat),
         NEW i \in 1..Len(data)
  PROVE  Sent(data, bytes, with)[i].fds = data[i].fds
         /\ (data[i].last => Sent(data, bytes, with)[i].last)
BY Zenon, SentCells

LEMMA SentNew ==
  ASSUME NEW data \in Seq(Cell), NEW bytes \in Seq(Nat), NEW with \in Seq(Nat),
         NEW i \in 1..Len(bytes)
  PROVE  /\ Sent(data, bytes, with)[Len(data) + i].fds =
              (IF i = 1 THEN with ELSE <<>>)
         /\ i = Len(bytes) => Sent(data, bytes, with)[Len(data) + i].last
BY Zenon, SentCells

Brings(t, with, a, b) == with = FdsBetween(t, a, b)

\* One more sendmsg, of bytes of which only the first may bring descriptors.
LEMMA SentFds ==
  ASSUME NEW t, Regular(t), NEW data \in Seq(Cell), NEW from \in Nat,
         CarryTheirFds(t, data, from), Buffers(data),
         NEW bytes \in Seq(Nat), bytes # <<>>,
         NEW to \in 0..Total(t), to = from + Len(data) + Len(bytes),
         BringNone(t, from + Len(data) + 1, to),
         NEW with \in Seq(Nat), Brings(t, with, from + Len(data), to)
  PROVE  /\ CarryTheirFds(t, Sent(data, bytes, with), from)
         /\ Buffers(Sent(data, bytes, with))
<1>1. PICK q : q = Sent(data, bytes, with)
  OBVIOUS
<1>2. PICK k \in Nat, l \in Nat : k = Len(data) /\ l = Len(bytes)
  BY LenProperties
<1>3. l # 0 /\ Total(t) \in Nat
  <2>1. l # 0
    BY <1>2, EmptySeq
  <2> QED BY <2>1, EndTypes DEF Total
<1>4. /\ Len(q) = k + l
      /\ \A i \in 1..k : q[i].fds = data[i].fds /\ (data[i].last => q[i].last)
      /\ \A i \in 1..l : /\ q[k + i].fds = IF i = 1 THEN with ELSE <<>>
                         /\ i = l => q[k + i].last
  <2>1. Len(q) = Len(data) + Len(bytes)
    BY Zenon, <1>1, SentCells
  <2>2. \A i \in 1..Len(data) :
          q[i].fds = data[i].fds /\ (data[i].last => q[i].last)
    BY Zenon, <1>1, SentOld
  <2>3. \A i \in 1..Len(bytes) :
          q[Len(data) + i].fds = (IF i = 1 THEN with ELSE <<>>)
    BY Zenon, <1>1, SentNew
  <2>4. \A i \in 1..Len(bytes) : i = Len(bytes) => q[Len(data) + i].last
    BY Zenon, <1>1, SentNew
  <2> QED BY <1>2, <2>1, <2>2, <2>3, <2>4
<1>5. PICK b \in Nat : b = from + k
  OBVIOUS
<1>6. to = b + l
  BY <1>2, <1>5
<1>7. \A i \in 2..l : FdsBy(t, b + i) = FdsBy(t, b + i - 1)
  <2> TAKE i \in 2..l
  <2>1. b + i \in (b + 1) + 1..to
    BY <1>3, <1>6
  <2>2. from + Len(data) + 1 = b + 1
    BY <1>2, <1>5
  <2> QED BY <2>1, <2>2 DEF BringNone
<1>8. FdsBy(t, b + 1) = FdsBy(t, to)
  <2>1. b + 1 \in Nat /\ b + 1 <= to
    BY <1>3, <1>6
  <2> QED BY <1>2, <1>5, <2>1, NoFdsBetween
<1>9. ASSUME NEW i \in 1..l PROVE q[k + i].fds = FdsBetween(t, b + i - 1, b + i)
  <2>1. CASE i = 1
    <3>1. b + i - 1 = b /\ b + i = b + 1
      BY <2>1
    <3>2. q[k + i].fds = FdsBetween(t, b, to)
      BY <1>2, <1>4, <1>5, <2>1 DEF Brings
    <3> QED BY <1>8, <3>1, <3>2 DEF FdsBetween
  <2>2. CASE i # 1
    <3>1. i \in 2..l /\ b + i \in 0..Total(t) /\ b + i \in Nat
      BY <1>3, <1>6, <2>2
    <3>2. FdsBy(t, b + i) = FdsBy(t, b + i - 1)
      BY <1>7, <3>1
    <3>3. FdsBy(t, b + i) \in Nat
      BY <3>1, FdsByType
    <3>4. FdsBetween(t, b + i - 1, b + i) = <<>>
      BY <3>2, <3>3, IntervalEmpty DEF FdsBetween
    <3> QED BY <1>4, <2>2, <3>4
  <2> QED BY <2>1, <2>2
<1>10. ASSUME NEW i \in 1..Len(q)
       PROVE  q[i].fds = FdsBetween(t, from + i - 1, from + i)
  <2>1. CASE i <= k
    <3>1. i \in 1..k
      BY <1>4, <2>1
    <3> QED BY <1>2, <1>4, <3>1 DEF CarryTheirFds
  <2>2. CASE ~(i <= k)
    <3>1. PICK j \in 1..l : i = k + j
      <4>1. i - k \in 1..l /\ i = k + (i - k)
        BY <1>4, <2>2
      <4> QED BY <4>1
    <3>2. from + i - 1 = b + j - 1 /\ from + i = b + j
      BY <1>5, <3>1
    <3> QED BY <1>9, <3>1, <3>2
  <2> QED BY <2>1, <2>2
<1>11. q[Len(q)].last
  <2>1. l \in 1..l /\ Len(q) = k + l
    BY <1>3, <1>4
  <2> QED BY <1>4, <2>1
<1>12. ASSUME NEW i \in 2..Len(q), q[i].fds # <<>> PROVE q[i - 1].last
  <2>1. CASE i <= k
    <3>1. i \in 1..k /\ i - 1 \in 1..k /\ i \in 2..k
      BY SMTT(60), <1>4, <2>1
    <3>2. data[i].fds # <<>>
      BY <1>4, <1>12, <3>1
    <3> QED BY <1>2, <1>4, <3>1, <3>2 DEF Buffers
  <2>2. CASE ~(i <= k)
    <3>1. PICK j \in 1..l : i = k + j
      <4>1. i - k \in 1..l /\ i = k + (i - k)
        BY <1>4, <2>2
      <4> QED BY <4>1
    <3>2. j = 1
      BY <1>4, <1>12, <3>1
    <3>3. i - 1 = k /\ k \in 1..k /\ k # 0
      BY <3>1, <3>2
    <3>4. data[k].last
      <4>1. data # <<>>
        BY <1>2, <3>3, EmptySeq
      <4> QED BY <1>2, <4>1 DEF Buffers
    <3> QED BY <1>4, <3>3, <3>4
  <2> QED BY <2>1, <2>2
<1> QED BY <1>1, <1>10, <1>11, <1>12 DEF CarryTheirFds, Buffers

\* What is left in a socket is as it was.
LEMMA RestFds ==
  ASSUME NEW t, NEW data \in Seq(Cell), NEW from \in Nat,
         CarryTheirFds(t, data, from), Buffers(data), NEW n \in 0..Len(data)
  PROVE  CarryTheirFds(t, Rest(data, n), from + n) /\ Buffers(Rest(data, n))
<1>1. PICK q : q = Rest(data, n)
  OBVIOUS
<1>2. PICK k \in Nat : k = Len(data)
  BY LenProperties
<1>3. q \in Seq(Cell) /\ Len(q) = k - n /\ \A i \in 1..k - n : q[i] = data[n + i]
  BY <1>1, <1>2, RestType
<1>4. n \in Nat /\ n <= k
  BY <1>2
<1>5. ASSUME NEW i \in 1..Len(q)
      PROVE  q[i].fds = FdsBetween(t, (from + n) + i - 1, (from + n) + i)
  <2>1. n + i \in 1..k /\ i \in 1..k - n
    BY <1>3, <1>4
  <2>2. /\ from + (n + i) - 1 = (from + n) + i - 1
        /\ from + (n + i) = (from + n) + i
    BY <1>4, <2>1
  <2>3. data[n + i].fds = FdsBetween(t, from + (n + i) - 1, from + (n + i))
    BY <1>2, <2>1 DEF CarryTheirFds
  <2> QED BY <1>3, <2>1, <2>2, <2>3
<1>6. ASSUME q # <<>> PROVE q[Len(q)].last
  <2>1. k - n # 0
    BY <1>3, <1>6, EmptySeq
  <2>2. k - n \in 1..k - n /\ n + (k - n) = k /\ k # 0
    BY <1>4, <2>1
  <2>3. data[k].last
    BY <1>2, <2>2, EmptySeq DEF Buffers
  <2> QED BY <1>3, <2>2, <2>3
<1>7. ASSUME NEW i \in 2..Len(q), q[i].fds # <<>> PROVE q[i - 1].last
  <2>1. /\ n + i \in 2..k /\ i \in 1..k - n /\ i - 1 \in 1..k - n
        /\ n + (i - 1) = n + i - 1
    BY <1>3, <1>4
  <2>2. data[n + i].fds # <<>>
    BY <1>3, <1>7, <2>1
  <2>3. data[n + i - 1].last
    BY <1>2, <2>1, <2>2 DEF Buffers
  <2> QED BY <1>3, <2>1, <2>3
<1> QED BY <1>1, <1>5, <1>6, <1>7 DEF CarryTheirFds, Buffers

\* Of the bytes one recvmsg returns at most one brings descriptors.
LEMMA OneCarrier ==
  ASSUME NEW data \in Seq(Cell), Buffers(data), NEW n \in 1..Len(data),
         \A i \in 1..n - 1 : ~StopsAfter(data, i),
         NEW k \in Carriers(data, n), NEW l \in Carriers(data, n)
  PROVE  k = l
<1>1. Len(data) \in Nat
  BY LenProperties
<1>2. ASSUME NEW i \in Carriers(data, n), NEW j \in Carriers(data, n), i < j
      PROVE  FALSE
  <2>1. /\ i \in 1..n /\ j \in 1..n /\ data[i].fds # <<>> /\ data[j].fds # <<>>
    BY DEF Carriers
  <2>2. j \in 2..Len(data) /\ j - 1 \in 1..n - 1 /\ i \in 1..j - 1
    BY <1>1, <1>2, <2>1
  <2>3. data[j - 1].last
    BY <2>1, <2>2 DEF Buffers
  <2>4. i \in Carriers(data, j - 1)
    BY <2>1, <2>2 DEF Carriers
  <2>5. StopsAfter(data, j - 1)
    BY <2>3, <2>4 DEF StopsAfter
  <2> QED BY <2>2, <2>5
<1>3. k \in Nat /\ l \in Nat
  BY <1>1 DEF Carriers
<1> QED BY <1>2, <1>3

\* recvmsg returns all descriptors that go with the bytes it returns, and they
\* all go with one of them.
LEMMA ReceivedFds ==
  ASSUME NEW t, Regular(t), NEW data \in Seq(Cell), NEW from \in Nat,
         CarryTheirFds(t, data, from), Buffers(data),
         from + Len(data) <= Total(t), NEW n \in 1..Len(data), Returns(data, n)
  PROVE  /\ FdsOf(data, n) = FdsBetween(t, from, from + n)
         /\ \/ FdsBy(t, from) = FdsBy(t, from + n)
            \/ \E k \in 1..n : /\ FdsBy(t, from + k - 1) = FdsBy(t, from)
                               /\ FdsBy(t, from + k) = FdsBy(t, from + n)
                               /\ FdsBy(t, from + k - 1) # FdsBy(t, from + k)
<1>1. /\ Len(data) \in Nat /\ Total(t) \in Nat /\ n \in Nat
      /\ from + n \in 0..Total(t)
  <2>1. Len(data) \in Nat /\ Total(t) \in Nat
    BY LenProperties, EndTypes DEF Total
  <2> QED BY <2>1
<1>2. \A i \in 1..n : from + i \in 0..Total(t) /\ from + i - 1 \in Nat
                      /\ from + i - 1 <= from + i /\ i \in 1..Len(data)
  BY <1>1
<1>3. ASSUME NEW i \in 1..n
      PROVE  /\ data[i].fds = FdsBetween(t, from + i - 1, from + i)
             /\ data[i].fds = <<>>
                  <=> FdsBy(t, from + i - 1) = FdsBy(t, from + i)
  <2>1. data[i].fds = FdsBetween(t, from + i - 1, from + i)
    BY <1>2 DEF CarryTheirFds
  <2>2. PICK a \in Nat, b \in 0..Total(t) :
          a = from + i - 1 /\ b = from + i /\ a <= b
    BY <1>2
  <2>3. FdsBetween(t, a, b) = <<>> <=> FdsBy(t, a) = FdsBy(t, b)
    BY <2>2, FdsBetweenType
  <2> QED BY <2>1, <2>2, <2>3
<1>4. ASSUME NEW x \in 0..n, NEW y \in 0..n, x <= y,
             \A i \in x + 1..y : data[i].fds = <<>>
      PROVE  FdsBy(t, from + x) = FdsBy(t, from + y)
  <2>1. PICK a \in Nat, b \in 0..Total(t) :
          a = from + x /\ b = from + y /\ a <= b
    <3>1. x \in Nat /\ y \in Nat /\ from + y \in 0..Total(t)
      BY <1>1
    <3> QED BY <1>4, <3>1
  <2>2. ASSUME NEW m \in a + 1..b PROVE FdsBy(t, m) = FdsBy(t, m - 1)
    <3>1. PICK i \in x + 1..y : m = from + i /\ i \in 1..n
      <4>1. m - from \in x + 1..y /\ m - from \in 1..n /\ m = from + (m - from)
        BY <1>1, <2>1
      <4> QED BY <4>1
    <3>2. data[i].fds = <<>>
      BY <1>4
    <3>3. from + i - 1 = m - 1
      BY <3>1
    <3> QED BY <1>3, <3>1, <3>2, <3>3
  <2>3. BringNone(t, a, b)
    BY <2>2 DEF BringNone
  <2> QED BY <2>1, <2>3, NoFdsBetween
<1>5. \A i \in 1..n : data[i].fds # <<>> <=> i \in Carriers(data, n)
  BY DEF Carriers
<1>6. CASE Carriers(data, n) = {}
  <2>1. FdsBy(t, from + 0) = FdsBy(t, from + n)
    <3>1. 0 \in 0..n /\ n \in 0..n /\ 0 <= n
      BY <1>1
    <3>2. \A i \in 0 + 1..n : data[i].fds = <<>>
      BY <1>5, <1>6
    <3> QED BY <1>4, <3>1, <3>2
  <2>2. from + 0 = from /\ from <= from + n
    BY <1>1
  <2>3. FdsBetween(t, from, from + n) = <<>>
    BY <1>1, <2>1, <2>2, FdsBetweenType
  <2>4. FdsOf(data, n) = <<>>
    BY <1>6 DEF FdsOf
  <2> QED BY <2>1, <2>2, <2>3, <2>4
<1>7. CASE Carriers(data, n) # {}
  <2>1. PICK k \in Carriers(data, n) : FdsOf(data, n) = data[k].fds
    BY <1>7 DEF FdsOf
  <2>2. k \in 1..n /\ data[k].fds # <<>>
    BY <2>1 DEF Carriers
  <2>3. \A i \in 1..n : i # k => data[i].fds = <<>>
    <3>1. \A i \in 1..n - 1 : ~StopsAfter(data, i)
      BY DEF Returns
    <3> QED BY <1>5, <2>1, <3>1, OneCarrier
  <2>4. FdsBy(t, from + 0) = FdsBy(t, from + (k - 1))
    <3>1. 0 \in 0..n /\ k - 1 \in 0..n /\ 0 <= k - 1
      BY <1>1, <2>2
    <3>2. ASSUME NEW i \in 0 + 1..k - 1 PROVE data[i].fds = <<>>
      <4>1. i \in 1..n /\ i # k
        BY <1>1, <2>2
      <4> QED BY <2>3, <4>1
    <3> QED BY <1>4, <3>1, <3>2
  <2>5. FdsBy(t, from + k) = FdsBy(t, from + n)
    <3>1. k \in 0..n /\ n \in 0..n /\ k <= n
      BY <1>1, <2>2
    <3>2. ASSUME NEW i \in k + 1..n PROVE data[i].fds = <<>>
      <4>1. i \in 1..n /\ i # k
        BY <1>1, <2>2
      <4> QED BY <2>3, <4>1
    <3> QED BY <1>4, <3>1, <3>2
  <2>6. from + 0 = from /\ from + (k - 1) = from + k - 1
    BY <2>2
  <2>7. /\ data[k].fds = FdsBetween(t, from + k - 1, from + k)
        /\ FdsBy(t, from + k - 1) # FdsBy(t, from + k)
    BY <1>3, <2>2
  <2>8. FdsBy(t, from + k - 1) = FdsBy(t, from)
    BY <2>4, <2>6
  <2>9. FdsOf(data, n) = FdsBetween(t, from, from + n)
    BY <2>1, <2>5, <2>7, <2>8 DEF FdsBetween
  <2> QED BY <2>2, <2>5, <2>7, <2>8, <2>9
<1> QED BY <1>6, <1>7

-----------------------------------------------------------------------------
(* Where the descriptors of one direction are: w bytes are written, of which *)
(* g are received, b sent on, c taken from the buffer, e read.               *)

\* What is being sent on is the end of a message.
EndsMessage(t, b, c) ==
  \E m \in 0..Len(t) : /\ c = EndOf(t, m)
                       /\ b # c => m > 0 /\ EndOf(t, m - 1) <= b

Positions(t, w, g, b, c, e, out, back) ==
  /\ {w, g, b, c, e} \subseteq Nat
  /\ w <= Total(t) /\ w = e + Len(back)
  /\ c <= e /\ b <= c /\ b = g + Len(out)
  /\ EndsMessage(t, b, c)

Places(t, w, g, b, c, e, with, out, hand, fdq, back) ==
  /\ Positions(t, w, g, b, c, e, out, back)
  /\ with = FdsBetween(t, 0, g)
  /\ hand = FdsBetween(t, b, c)
  /\ fdq = FdsBetween(t, c, e)
  /\ CarryTheirFds(t, out, g) /\ Buffers(out)
  /\ CarryTheirFds(t, back, e) /\ Buffers(back)

LEMMA ReadPlaces ==
  ASSUME NEW t, Regular(t), NEW w, NEW g, NEW b, NEW c, NEW e,
         NEW with, NEW out \in Seq(Cell), NEW hand, NEW fdq,
         NEW back \in Seq(Cell),
         Places(t, w, g, b, c, e, with, out, hand, fdq, back),
         NEW n \in 1..Len(back), Returns(back, n)
  PROVE  Places(t, w, g, b, c, e + n, with, out, hand, fdq \o FdsOf(back, n),
                Rest(back, n))
<1>1. PICK k \in Nat : k = Len(back) /\ n \in Nat /\ 1 <= n /\ n <= k
  BY LenProperties
<1>2. /\ w \in Nat /\ g \in Nat /\ b \in Nat /\ c \in Nat /\ e \in Nat
      /\ w <= Total(t) /\ w = e + k /\ c <= e /\ b <= c /\ b = g + Len(out)
      /\ EndsMessage(t, b, c)
  BY <1>1 DEF Places, Positions
<1>3. Total(t) \in Nat
  BY EndTypes DEF Total
<1>4. /\ e + n \in Nat /\ e + n \in 0..Total(t) /\ c <= e + n /\ e <= e + n
      /\ w = (e + n) + (k - n)
  BY <1>1, <1>2, <1>3
<1>5. Len(Rest(back, n)) = k - n /\ n \in 0..Len(back)
  <2>1. n \in 0..Len(back)
    BY <1>1
  <2> QED BY <1>1, <2>1, RestType
<1>6. Positions(t, w, g, b, c, e + n, out, Rest(back, n))
  BY <1>2, <1>4, <1>5 DEF Positions
<1>7. FdsOf(back, n) = FdsBetween(t, e, e + n)
  <2>1. CarryTheirFds(t, back, e) /\ Buffers(back) /\ e + Len(back) <= Total(t)
    BY <1>1, <1>2 DEF Places
  <2> QED BY <1>2, <2>1, ReceivedFds
<1>8. fdq \o FdsOf(back, n) = FdsBetween(t, c, e + n)
  <2>1. PICK z \in 0..Total(t) : z = e + n
    BY <1>4
  <2>2. FdsBetween(t, c, e) \o FdsBetween(t, e, z) = FdsBetween(t, c, z)
    BY SMTT(60), <1>2, <1>4, <2>1, FdsBetweenConcat
  <2> QED BY <1>7, <2>1, <2>2 DEF Places
<1>9. CarryTheirFds(t, Rest(back, n), e + n) /\ Buffers(Rest(back, n))
  BY <1>2, <1>5, RestFds DEF Places
<1> QED BY <1>6, <1>8, <1>9 DEF Places

LEMMA ArrivedPlaces ==
  ASSUME NEW t, Regular(t), NEW w, NEW g, NEW b, NEW c, NEW e,
         NEW with, NEW out \in Seq(Cell), NEW hand, NEW fdq,
         NEW back \in Seq(Cell),
         Places(t, w, g, b, c, e, with, out, hand, fdq, back),
         NEW n \in 1..Len(out), Returns(out, n)
  PROVE  Places(t, w, g + n, b, c, e, with \o FdsOf(out, n), Rest(out, n),
                hand, fdq, back)
<1>1. PICK k \in Nat, l \in Nat :
        k = Len(out) /\ l = Len(back) /\ n \in Nat /\ 1 <= n /\ n <= k
  BY LenProperties
<1>2. /\ w \in Nat /\ g \in Nat /\ b \in Nat /\ c \in Nat /\ e \in Nat
      /\ w <= Total(t) /\ w = e + l /\ c <= e /\ b <= c /\ b = g + k
      /\ EndsMessage(t, b, c)
  BY <1>1 DEF Places, Positions
<1>3. Total(t) \in Nat
  BY EndTypes DEF Total
<1>4. /\ g + n \in Nat /\ g + n \in 0..Total(t) /\ b = (g + n) + (k - n)
      /\ g <= g + n /\ 0 <= g /\ 0 \in Nat /\ g + k <= Total(t)
  BY <1>1, <1>2, <1>3
<1>5. Len(Rest(out, n)) = k - n /\ n \in 0..Len(out)
  <2>1. n \in 0..Len(out)
    BY <1>1
  <2> QED BY <1>1, <2>1, RestType
<1>6. Positions(t, w, g + n, b, c, e, Rest(out, n), back)
  BY <1>1, <1>2, <1>4, <1>5 DEF Positions
<1>7. FdsOf(out, n) = FdsBetween(t, g, g + n)
  <2>1. CarryTheirFds(t, out, g) /\ Buffers(out) /\ g + Len(out) <= Total(t)
    BY <1>1, <1>4 DEF Places
  <2> QED BY <1>2, <2>1, ReceivedFds
<1>8. with \o FdsOf(out, n) = FdsBetween(t, 0, g + n)
  <2>1. PICK z \in 0..Total(t) : z = g + n
    BY <1>4
  <2>2. FdsBetween(t, 0, g) \o FdsBetween(t, g, z) = FdsBetween(t, 0, z)
    BY SMTT(60), <1>2, <1>4, <2>1, FdsBetweenConcat
  <2> QED BY <1>7, <2>1, <2>2 DEF Places
<1>9. CarryTheirFds(t, Rest(out, n), g + n) /\ Buffers(Rest(out, n))
  BY <1>2, <1>5, RestFds DEF Places
<1> QED BY <1>6, <1>8, <1>9 DEF Places

LEMMA IntervalCut ==
  ASSUME NEW x \in Nat, NEW y \in Nat, NEW z \in Nat, x <= y, y <= z
  PROVE  /\ SubSeq(Interval(x, z), 1, y - x) = Interval(x, y)
         /\ Rest(Interval(x, z), y - x) = Interval(y, z)
         /\ Len(Interval(x, z)) = z - x
<1>1. PICK p, q, s : p = Interval(x, y) /\ q = Interval(y, z) /\ s = Interval(x, z)
  OBVIOUS
<1>2. /\ p \in Seq(Nat) /\ Len(p) = y - x /\ \A i \in 1..y - x : p[i] = x + i
      /\ q \in Seq(Nat) /\ Len(q) = z - y /\ \A i \in 1..z - y : q[i] = y + i
  BY <1>1, IntervalType
<1>3. s \in Seq(Nat) /\ Len(s) = z - x /\ \A i \in 1..z - x : s[i] = x + i
  <2>1. x <= z
    OBVIOUS
  <2> QED BY <1>1, <2>1, IntervalType
<1>4. PICK n \in 0..Len(s) : n = y - x
  BY <1>3
<1>5. PICK front, rest : front = SubSeq(s, 1, n) /\ rest = Rest(s, n)
  OBVIOUS
<1>6. /\ rest \in Seq(Nat) /\ Len(rest) = Len(s) - n
      /\ \A i \in 1..Len(s) - n : rest[i] = s[n + i]
      /\ front \in Seq(Nat) /\ Len(front) = n
      /\ \A i \in 1..n : front[i] = s[i]
  BY <1>3, <1>4, <1>5, RestType
<1>7. front = p
  <2>1. \A i \in 1..Len(front) : front[i] = p[i]
    BY <1>2, <1>3, <1>4, <1>6
  <2>2. Len(front) = Len(p)
    BY <1>2, <1>4, <1>6
  <2> QED BY <1>2, <1>6, <2>1, <2>2, SeqEqual
<1>8. rest = q
  <2>1. ASSUME NEW i \in 1..Len(rest) PROVE rest[i] = q[i]
    <3>1. i \in 1..z - y /\ n + i \in 1..z - x /\ x + (n + i) = y + i
          /\ i \in 1..Len(s) - n
      BY <1>3, <1>4, <1>6
    <3> QED BY ZenonT(60), <1>2, <1>3, <1>6, <3>1
  <2>2. Len(rest) = Len(q)
    BY <1>2, <1>3, <1>4, <1>6
  <2> QED BY <1>2, <1>6, <2>1, <2>2, SeqEqual
<1> QED BY <1>1, <1>3, <1>4, <1>5, <1>7, <1>8

LEMMA TakenFds ==
  ASSUME NEW t, Regular(t), NEW c \in Nat, NEW e \in 0..Total(t),
         NEW m \in 1..Len(t), c = EndOf(t, m - 1), EndOf(t, m) <= e
  PROVE  \E k \in Nat, n \in Nat :
           /\ k = EndOf(t, m) /\ c < k
           /\ n = FdEndOf(t, m) - FdEndOf(t, m - 1)
           /\ n <= Len(FdsBetween(t, c, e))
           /\ SubSeq(FdsBetween(t, c, e), 1, n) = FdsBetween(t, c, k)
           /\ Rest(FdsBetween(t, c, e), n) = FdsBetween(t, k, e)
<1>1. Total(t) \in Nat /\ Len(t) \in Nat /\ e \in Nat
  <2>1. Total(t) \in Nat
    BY EndTypes DEF Total
  <2> QED BY <2>1, EndTypes
<1>2. m \in 0..Len(t) /\ m - 1 \in 0..Len(t) /\ m - 1 < m
  BY <1>1
<1>3. PICK k \in Nat : k = EndOf(t, m)
  BY <1>2, EndTypes
<1>4. c < k /\ k <= e
  <2>1. c + HeaderSize <= k /\ HeaderSize \in Nat \ {0}
    BY <1>2, <1>3, EndsGrow, FdStreamAssumption
  <2> QED BY <1>3, <2>1
<1>5. PICK x \in Nat, y \in Nat :
        /\ x = FdEndOf(t, m - 1) /\ y = FdEndOf(t, m) /\ x <= y
        /\ FdsBy(t, c) = x /\ FdsBy(t, k) = y
  BY <1>2, <1>3, EndTypes, EndsGrow, FdsByEnd
<1>6. PICK z \in Nat : z = FdsBy(t, e) /\ y <= z
  BY <1>3, <1>4, <1>5, FdsGrow
<1>7. /\ SubSeq(Interval(x, z), 1, y - x) = Interval(x, y)
      /\ Rest(Interval(x, z), y - x) = Interval(y, z)
      /\ Len(Interval(x, z)) = z - x
  <2>1. x <= y
    BY <1>5
  <2>2. y <= z
    BY <1>6
  <2> QED BY ZenonT(30), <2>1, <2>2, IntervalCut
<1>8. y - x \in Nat /\ y - x <= z - x
  BY <1>5, <1>6
<1>9. PICK n \in Nat : n = y - x /\ n <= z - x
  BY <1>8
<1>10. /\ SubSeq(Interval(x, z), 1, n) = Interval(x, y)
       /\ Rest(Interval(x, z), n) = Interval(y, z)
       /\ n <= Len(Interval(x, z))
  BY <1>7, <1>9
<1>11. /\ FdsBetween(t, c, e) = Interval(x, z)
       /\ FdsBetween(t, c, k) = Interval(x, y)
       /\ FdsBetween(t, k, e) = Interval(y, z)
  BY <1>5, <1>6 DEF FdsBetween
<1>12. n = FdEndOf(t, m) - FdEndOf(t, m - 1)
  BY <1>5, <1>9
<1> QED BY Zenon, <1>3, <1>4, <1>10, <1>11, <1>12

\* A message that is complete has its descriptors in the queue.
LEMMA TakenPlaces ==
  ASSUME NEW t, Regular(t), NEW w, NEW g, NEW b, NEW c, NEW e,
         NEW with, NEW out \in Seq(Cell), NEW hand, NEW fdq,
         NEW back \in Seq(Cell),
         Places(t, w, g, b, c, e, with, out, hand, fdq, back), b = c,
         NEW m \in 1..Len(t), c = EndOf(t, m - 1), EndOf(t, m) <= e
  PROVE  \E n \in Nat :
           /\ n = FdEndOf(t, m) - FdEndOf(t, m - 1) /\ n <= Len(fdq)
           /\ Places(t, w, g, b, EndOf(t, m), e, with, out,
                     SubSeq(fdq, 1, n), Rest(fdq, n), back)
<1>1. /\ w \in Nat /\ g \in Nat /\ b \in Nat /\ c \in Nat /\ e \in Nat
      /\ w <= Total(t) /\ w = e + Len(back) /\ c <= e /\ b = g + Len(out)
      /\ fdq = FdsBetween(t, c, e)
  BY DEF Places, Positions
<1>2. Total(t) \in Nat /\ Len(t) \in Nat /\ Len(back) \in Nat
  BY EndTypes, LenProperties DEF Total
<1>3. e \in 0..Total(t)
  BY <1>1, <1>2
<1>4. PICK k \in Nat, n \in Nat :
        /\ k = EndOf(t, m) /\ c < k
        /\ n = FdEndOf(t, m) - FdEndOf(t, m - 1)
        /\ n <= Len(fdq)
        /\ SubSeq(fdq, 1, n) = FdsBetween(t, c, k)
        /\ Rest(fdq, n) = FdsBetween(t, k, e)
  <2>1. \E k \in Nat, n \in Nat :
           /\ k = EndOf(t, m) /\ c < k
           /\ n = FdEndOf(t, m) - FdEndOf(t, m - 1)
           /\ n <= Len(FdsBetween(t, c, e))
           /\ SubSeq(FdsBetween(t, c, e), 1, n) = FdsBetween(t, c, k)
           /\ Rest(FdsBetween(t, c, e), n) = FdsBetween(t, k, e)
    BY <1>1, <1>3, TakenFds
  <2> QED BY Zenon, <1>1, <2>1
<1>5. Positions(t, w, g, b, k, e, out, back)
  <2>1. m \in 0..Len(t) /\ m > 0
    BY <1>2
  <2>2. EndsMessage(t, b, k)
    BY <1>1, <1>4, <2>1 DEF EndsMessage
  <2>3. b <= k /\ k <= e
    BY <1>1, <1>4
  <2> QED BY <1>1, <2>2, <2>3 DEF Positions
<1>6. Places(t, w, g, b, k, e, with, out, SubSeq(fdq, 1, n), Rest(fdq, n), back)
  BY <1>4, <1>5 DEF Places
<1> QED BY <1>4, <1>6

\* All bytes of a message after the first bring none.
LEMMA WithinMessage ==
  ASSUME NEW t, Regular(t), NEW m \in 1..Len(t), NEW a \in Nat, NEW b \in Nat,
         EndOf(t, m - 1) <= a, a < b, b <= EndOf(t, m)
  PROVE  /\ BringNone(t, a + 1, b) /\ b \in 0..Total(t)
         /\ FdsBy(t, b) = FdEndOf(t, m)
         /\ FdsBy(t, a) = IF a = EndOf(t, m - 1) THEN FdEndOf(t, m - 1)
                                                 ELSE FdEndOf(t, m)
<1>1. /\ Len(t) \in Nat /\ m \in 0..Len(t) /\ m - 1 \in 0..Len(t)
      /\ Len(t) \in 0..Len(t)
  BY EndTypes
<1>2. PICK x \in Nat, y \in Nat, z \in Nat :
        x = EndOf(t, m - 1) /\ y = EndOf(t, m) /\ z = Total(t)
  BY <1>1, EndTypes DEF Total
<1>3. y <= z
  <2>1. CASE m = Len(t)
    BY <1>2, <2>1 DEF Total
  <2>2. CASE m # Len(t)
    <3>1. m < Len(t)
      BY <1>1, <2>2
    <3>2. EndOf(t, m) + HeaderSize <= EndOf(t, Len(t)) /\ HeaderSize \in Nat
      BY <1>1, <3>1, EndsGrow, FdStreamAssumption
    <3> QED BY <1>2, <3>2 DEF Total
  <2> QED BY <2>1, <2>2
<1>4. \A n \in a + 1..b : FdsBy(t, n) = FdEndOf(t, m)
  <2> TAKE n \in a + 1..b
  <2>1. n \in Nat /\ x < n /\ n <= y
    BY <1>2
  <2> QED BY <1>2, <2>1, FdsByMessage
<1>5. BringNone(t, a + 1, b)
  <2> SUFFICES ASSUME NEW n \in (a + 1) + 1..b
               PROVE  FdsBy(t, n) = FdsBy(t, n - 1)
    BY DEF BringNone
  <2>1. n \in a + 1..b /\ n - 1 \in a + 1..b
    OBVIOUS
  <2> QED BY <1>4, <2>1
<1>6. b \in a + 1..b /\ b <= z
  BY <1>2, <1>3
<1>7. FdsBy(t, a) = IF a = x THEN FdEndOf(t, m - 1) ELSE FdEndOf(t, m)
  <2>1. CASE a = x
    BY <1>1, <1>2, <2>1, FdsByEnd
  <2>2. CASE a # x
    <3>1. x < a /\ a <= y
      BY <1>2, <2>2
    <3> QED BY <1>2, <2>2, <3>1, FdsByMessage
  <2> QED BY <2>1, <2>2
<1> QED BY <1>2, <1>4, <1>5, <1>6, <1>7

\* The first piece of a message takes all its descriptors.
LEMMA SentPlaces ==
  ASSUME NEW t, Regular(t), NEW w, NEW g, NEW b, NEW c, NEW e,
         NEW with, NEW out \in Seq(Cell), NEW hand \in Seq(Nat), NEW fdq,
         NEW back \in Seq(Cell),
         Places(t, w, g, b, c, e, with, out, hand, fdq, back),
         NEW bytes \in Seq(Nat), bytes # <<>>, NEW n \in Nat,
         n = Len(bytes), b + n <= c
  PROVE  Places(t, w, g, b + n, c, e, with, Sent(out, bytes, hand), <<>>,
                fdq, back)
<1>1. /\ w \in Nat /\ g \in Nat /\ b \in Nat /\ c \in Nat /\ e \in Nat
      /\ w <= Total(t) /\ w = e + Len(back) /\ c <= e /\ b = g + Len(out)
      /\ EndsMessage(t, b, c)
  BY DEF Places, Positions
<1>2. n # 0 /\ Len(out) \in Nat /\ Len(back) \in Nat /\ Total(t) \in Nat
  BY EmptySeq, LenProperties, EndTypes DEF Total
<1>3. b < b + n /\ b + n \in Nat /\ b # c
  BY <1>1, <1>2
<1>4. PICK m \in 1..Len(t) : c = EndOf(t, m) /\ EndOf(t, m - 1) <= b
  <2>1. PICK m \in 0..Len(t) : c = EndOf(t, m) /\ m > 0 /\ EndOf(t, m - 1) <= b
    BY <1>1, <1>3 DEF EndsMessage
  <2>2. m \in 1..Len(t)
    BY <2>1, EndTypes
  <2> QED BY <2>1, <2>2
<1>5. PICK j \in Nat : j = b + n
  BY <1>3
<1>6. /\ BringNone(t, b + 1, j) /\ j \in 0..Total(t)
      /\ FdsBy(t, j) = FdEndOf(t, m)
  BY SMTT(60), <1>1, <1>3, <1>4, <1>5, WithinMessage
<1>7. FdsBy(t, c) = FdEndOf(t, m) /\ FdsBy(t, c) \in Nat
  <2>1. m \in 0..Len(t)
    BY EndTypes
  <2> QED BY <1>4, <2>1, FdsByEnd, EndTypes
<1>8. hand = FdsBetween(t, b, j) /\ FdsBetween(t, j, c) = <<>>
  BY <1>6, <1>7, IntervalEmpty DEF Places, FdsBetween
<1>9. /\ CarryTheirFds(t, Sent(out, bytes, hand), g)
      /\ Buffers(Sent(out, bytes, hand))
  <2>1. g + Len(out) = b /\ j = g + Len(out) + Len(bytes)
    BY <1>1, <1>5
  <2>2. BringNone(t, g + Len(out) + 1, j) /\ Brings(t, hand, g + Len(out), j)
    BY <1>6, <1>8, <2>1 DEF Brings
  <2>3. CarryTheirFds(t, out, g) /\ Buffers(out)
    BY DEF Places
  <2> QED BY <1>1, <1>6, <2>1, <2>2, <2>3, SentFds
<1>10. Positions(t, w, g, j, c, e, Sent(out, bytes, hand), back)
  <2>1. Len(Sent(out, bytes, hand)) = Len(out) + n
    BY SentCells
  <2>2. j = g + Len(Sent(out, bytes, hand)) /\ j <= c
    BY <1>1, <1>2, <1>5, <2>1
  <2>3. EndsMessage(t, j, c)
    <3>1. m \in 0..Len(t) /\ m > 0
      BY EndTypes
    <3>2. EndOf(t, m - 1) \in Nat
      <4>1. m - 1 \in 0..Len(t)
        BY EndTypes
      <4> QED BY <4>1, EndTypes
    <3>3. EndOf(t, m - 1) <= j
      BY SMTT(60), <1>1, <1>3, <1>4, <1>5, <3>2
    <3> QED BY <1>4, <3>1, <3>3 DEF EndsMessage
  <2> QED BY <1>1, <2>2, <2>3 DEF Positions
<1> QED BY <1>5, <1>8, <1>9, <1>10 DEF Places

LEMMA WrittenPlaces ==
  ASSUME NEW t, Regular(t), NEW w, NEW g, NEW b, NEW c, NEW e,
         NEW with, NEW out \in Seq(Cell), NEW hand, NEW fdq,
         NEW back \in Seq(Cell),
         Places(t, w, g, b, c, e, with, out, hand, fdq, back),
         NEW m \in 1..Len(t), EndOf(t, m - 1) <= w,
         NEW bytes \in Seq(Nat), bytes # <<>>, NEW n \in Nat,
         n = Len(bytes), w + n <= EndOf(t, m),
         NEW new \in Seq(Nat),
         new = IF w # EndOf(t, m - 1) THEN <<>>
               ELSE Interval(FdEndOf(t, m - 1), FdEndOf(t, m))
  PROVE  Places(t, w + n, g, b, c, e, with, out, hand, fdq,
                Sent(back, bytes, new))
<1>1. /\ w \in Nat /\ g \in Nat /\ b \in Nat /\ c \in Nat /\ e \in Nat
      /\ w = e + Len(back) /\ c <= e /\ b <= c /\ b = g + Len(out)
      /\ EndsMessage(t, b, c)
  BY DEF Places, Positions
<1>2. n # 0 /\ Len(back) \in Nat /\ Total(t) \in Nat
  BY EmptySeq, LenProperties, EndTypes DEF Total
<1>3. PICK j \in Nat : j = w + n /\ w < j
  BY <1>1, <1>2
<1>4. /\ BringNone(t, w + 1, j) /\ j \in 0..Total(t)
      /\ FdsBy(t, j) = FdEndOf(t, m)
      /\ FdsBy(t, w) = IF w = EndOf(t, m - 1) THEN FdEndOf(t, m - 1)
                                              ELSE FdEndOf(t, m)
  BY SMTT(60), <1>1, <1>3, WithinMessage
<1>5. FdEndOf(t, m) \in Nat
  <2>1. m \in 0..Len(t)
    BY EndTypes
  <2> QED BY <2>1, EndTypes
<1>6. new = FdsBetween(t, w, j)
  <2>1. CASE w = EndOf(t, m - 1)
    BY <1>4, <2>1 DEF FdsBetween
  <2>2. CASE w # EndOf(t, m - 1)
    BY <1>4, <1>5, <2>2, IntervalEmpty DEF FdsBetween
  <2> QED BY <2>1, <2>2
<1>7. /\ CarryTheirFds(t, Sent(back, bytes, new), e)
      /\ Buffers(Sent(back, bytes, new))
  <2>1. e + Len(back) = w /\ j = e + Len(back) + Len(bytes)
    BY <1>1, <1>3
  <2>2. BringNone(t, e + Len(back) + 1, j) /\ Brings(t, new, e + Len(back), j)
    BY <1>4, <1>6, <2>1 DEF Brings
  <2>3. CarryTheirFds(t, back, e) /\ Buffers(back)
    BY DEF Places
  <2> QED BY <1>1, <1>4, <2>1, <2>2, <2>3, SentFds
<1>8. Positions(t, j, g, b, c, e, out, Sent(back, bytes, new))
  <2>1. Len(Sent(back, bytes, new)) = Len(back) + Len(bytes)
    BY ZenonT(90), SentCells
  <2>2. PICK l \in Nat : l = Len(Sent(back, bytes, new)) /\ l = Len(back) + n
    BY <1>2, <2>1
  <2>3. j = e + l /\ j <= Total(t)
    <3>1. PICK p \in Nat : p = Len(back)
      BY <1>2
    <3>2. w \in Nat /\ e \in Nat /\ w = e + p /\ j = w + n /\ l = p + n
      BY <1>1, <1>3, <2>2, <3>1
    <3>3. j = e + l
      BY <3>2
    <3> QED BY <1>2, <1>4, <3>3
  <2>4. j = e + Len(Sent(back, bytes, new)) /\ j <= Total(t)
    BY <2>2, <2>3
  <2> QED BY <1>1, <1>3, <2>4 DEF Positions
<1> QED BY <1>3, <1>7, <1>8 DEF Places
-----------------------------------------------------------------------------
(* The descriptors of a direction are where its bytes are.                   *)

InPlace(d) ==
  Places(traffic[d], written[d], Come(d), SentOn(d), Taken(d), ReadIn(d),
         received[d].fds, outq[d], FdsInHand(d), reader[d].fdq, inq[d])
FdsTracking == \A d \in Dir : InPlace(d)

LEMMA TrackingOrders ==
  ASSUME FdsTracking PROVE FdsInOrder
BY DEF FdsTracking, InPlace, Places, FdsInOrder

LEMMA Untouched ==
  ASSUME NEW e \in Dir, InPlace(e), traffic' = traffic,
         written'[e] = written[e], received'[e] = received[e],
         inq'[e] = inq[e], outq'[e] = outq[e], reader'[e] = reader[e],
         Chunk(e)' = Chunk(e), FdsInHand(e)' = FdsInHand(e)
  PROVE  InPlace(e)'
BY DEF InPlace, Come, SentOn, Taken, ReadIn

LEMMA Appended ==
  ASSUME NEW p \in Seq(Nat), NEW q \in Seq(Nat)
  PROVE  /\ p \o q \in Seq(Nat) /\ Len(p \o q) = Len(p) + Len(q)
         /\ Len(p) \in Nat /\ Len(q) \in Nat
BY ConcatProperties, LenProperties

LEMMA FirstAfter ==
  ASSUME NEW p \in Seq(Nat), NEW q \in Seq(Nat), q # <<>>
  PROVE  (p \o q)[Len(p) + 1] = q[1]
<1>1. Len(p) \in Nat /\ Len(q) \in Nat /\ Len(q) # 0
  BY LenProperties, EmptySeq
<1>2. \A i \in 1..Len(p) + Len(q) :
        (p \o q)[i] = IF i <= Len(p) THEN p[i] ELSE q[i - Len(p)]
  BY ConcatProperties
<1>3. /\ Len(p) + 1 \in 1..Len(p) + Len(q) /\ ~(Len(p) + 1 <= Len(p))
      /\ (Len(p) + 1) - Len(p) = 1
  BY <1>1
<1> QED BY <1>2, <1>3

LEMMA FirstUnread ==
  ASSUME NEW p \in Seq(Nat), NEW u \in Seq(Nat), NEW y \in Seq(Nat),
         NEW n \in Nat
  PROVE  u # <<>> /\ p \o u \o y = Interval(0, n) => u[1] = Len(p) + 1
<1>0. (p \o u) \o y = p \o (u \o y)
  BY SMTT(60), ConcatProperties, ConcatAssociative
<1> SUFFICES ASSUME u # <<>>, p \o u \o y = Interval(0, n)
             PROVE  u[1] = Len(p) + 1
  OBVIOUS
<1>1. u \o y \in Seq(Nat) /\ Len(u \o y) = Len(u) + Len(y)
  BY Appended
<1>2. PICK v \in Seq(Nat) : v = u \o y
  BY <1>1
<1>3. Len(u) \in Nat /\ Len(y) \in Nat /\ Len(u) # 0 /\ Len(p) \in Nat
  BY LenProperties, EmptySeq
<1>4. v[1] = u[1] /\ Len(v) = Len(u) + Len(y)
  <2>1. \A i \in 1..Len(u) + Len(y) :
          (u \o y)[i] = IF i <= Len(u) THEN u[i] ELSE y[i - Len(u)]
    BY ConcatProperties
  <2>2. 1 \in 1..Len(u) + Len(y) /\ 1 <= Len(u)
    BY <1>3
  <2> QED BY <1>1, <1>2, <2>1, <2>2
<1>5. p \o v = Interval(0, n)
  BY Zenon, <1>0, <1>2
<1>6. v # <<>>
  <2>1. Len(v) # 0
    BY <1>3, <1>4
  <2> QED BY <2>1, EmptySeq
<1>7. (p \o v)[Len(p) + 1] = u[1]
  BY <1>4, <1>6, FirstAfter
<1>8. Len(p \o v) = Len(p) + Len(v)
  BY Appended
<1>9. PICK s : s = Interval(0, n)
  OBVIOUS
<1>10. Len(s) = n /\ \A i \in 1..n : s[i] = i
  <2>1. 0 \in Nat /\ 0 <= n
    OBVIOUS
  <2>2. Len(s) = n - 0 /\ \A i \in 1..n - 0 : s[i] = 0 + i
    BY <1>9, <2>1, IntervalType
  <2>3. n - 0 = n /\ \A i \in 1..n : 0 + i = i
    OBVIOUS
  <2> QED BY <2>2, <2>3
<1>11. s[Len(p) + 1] = u[1] /\ Len(s) = Len(p) + Len(v)
  BY <1>5, <1>7, <1>8, <1>9
<1>12. Len(p) + 1 \in 1..n
  BY <1>3, <1>4, <1>10, <1>11
<1> QED BY <1>10, <1>11, <1>12

\* The first unread byte is the next one to be taken.
LEMMA NextUnread ==
  ASSUME TypeOK, BytesInOrder, NEW d \in Dir, Avail(reader[d]) # 0
  PROVE  /\ reader[d].buf[reader[d].start + 1] = Taken(d) + 1
         /\ Taken(d) \in Nat
<1>1. /\ received[d].bytes \in Seq(Nat) /\ BytesOf(outq[d]) \in Seq(Nat)
      /\ Chunk(d) \in Seq(Nat) /\ Unread(reader[d]) \in Seq(Nat)
      /\ BytesOf(inq[d]) \in Seq(Nat) /\ outq[d] \in Seq(Cell)
      /\ Len(Unread(reader[d])) = Avail(reader[d]) /\ Avail(reader[d]) \in Nat
  BY PartsType
<1>2. Len(BytesOf(outq[d])) = Len(outq[d])
  BY <1>1, BytesOfType
<1>3. PICK a \in Seq(Nat), b \in Seq(Nat), c \in Seq(Nat), u \in Seq(Nat),
           y \in Seq(Nat) :
        /\ a = received[d].bytes /\ b = BytesOf(outq[d]) /\ c = Chunk(d)
        /\ u = Unread(reader[d]) /\ y = BytesOf(inq[d])
  BY <1>1
<1>4. a \o b \in Seq(Nat) /\ Len(a \o b) = Len(a) + Len(b)
  BY Appended
<1>5. /\ a \o b \o c \in Seq(Nat) /\ Len(a \o b \o c) = Len(a \o b) + Len(c)
  BY <1>4, Appended
<1>6. Len(a) \in Nat /\ Len(b) \in Nat /\ Len(c) \in Nat
  BY LenProperties
<1>7. Taken(d) = Len(a \o b \o c) /\ Taken(d) \in Nat
  <2>1. Taken(d) = Len(a) + Len(b) + Len(c)
    BY <1>2, <1>3 DEF Taken, SentOn, Come
  <2>2. Len(a \o b \o c) = Len(a) + Len(b) + Len(c)
    BY <1>4, <1>5
  <2> QED BY <1>6, <2>1, <2>2
<1>8. (a \o b \o c) \o u \o y = Interval(0, written[d]) /\ written[d] \in Nat
  BY <1>3 DEF TypeOK, BytesInOrder, Stream
<1>9. u # <<>>
  BY <1>1, <1>3, EmptySeq
<1>10. u[1] = Taken(d) + 1
  <2>1. PICK p \in Seq(Nat) : p = a \o b \o c
    BY <1>5
  <2>2. p \o u \o y = Interval(0, written[d])
    BY <1>8, <2>1
  <2>3. u[1] = Len(p) + 1
    BY <1>8, <1>9, <2>2, FirstUnread
  <2> QED BY <1>7, <2>1, <2>3
<1>11. u[1] = reader[d].buf[reader[d].start + 1]
  <2>1. /\ reader[d].buf \in Seq(Nat) /\ reader[d].start \in Nat
        /\ reader[d].start <= Len(reader[d].buf)
    BY DEF TypeOK, Reader
  <2>2. /\ reader[d].start \in 0..Len(reader[d].buf)
        /\ 1 \in 1..Len(reader[d].buf) - reader[d].start
    <3>1. Len(reader[d].buf) \in Nat
      BY <2>1, LenProperties
    <3>2. Len(reader[d].buf) - reader[d].start \in Nat \ {0}
      BY <1>1 DEF Avail
    <3> QED BY <2>1, <3>1, <3>2
  <2>3. Rest(reader[d].buf, reader[d].start)[1] = reader[d].buf[reader[d].start + 1]
    BY <2>1, <2>2, RestType
  <2> QED BY <1>3, <2>3 DEF Unread
<1> QED BY <1>7, <1>10, <1>11

LEMMA ReadAdds ==
  ASSUME NEW r \in Reader, NEW bytes \in Seq(Nat), NEW got
  PROVE  Avail([buf |-> r.buf \o bytes, start |-> r.start, fdq |-> got])
           = Avail(r) + Len(bytes)
<1>1. /\ r.buf \in Seq(Nat) /\ r.start \in Nat
      /\ Len(r.buf \o bytes) = Len(r.buf) + Len(bytes)
  BY ConcatProperties DEF Reader
<1>2. Len(r.buf) \in Nat /\ Len(bytes) \in Nat
  BY <1>1, LenProperties
<1> QED BY <1>1, <1>2 DEF Avail

LEMMA ReceivePlaces ==
  ASSUME TypeOK, BytesInOrder, FdsTracking, NEW d \in Dir, Receive(d), ~Stop
  PROVE  FdsTracking'
<1>1. PICK n \in 1..Len(inq[d]) :
        /\ Returns(inq[d], n)
        /\ reader' = [reader EXCEPT ![d] =
             [buf   |-> @.buf \o BytesOf(SubSeq(inq[d], 1, n)),
              start |-> @.start,
              fdq   |-> @.fdq \o FdsOf(inq[d], n)]]
        /\ inq' = [inq EXCEPT ![d] = Rest(@, n)]
        /\ UNCHANGED <<peers, outq, writer, running>>
  BY DEF Receive
<1>2. /\ UNCHANGED <<traffic, written, received, open, outq, sending, chunk, fds,
                     fds_pending, running>>
      /\ \A e \in Dir : Chunk(e)' = Chunk(e) /\ FdsInHand(e)' = FdsInHand(e)
  BY <1>1 DEF peers, writer, Chunk, FdsInHand, FdsToSend
<1>3. ASSUME NEW e \in Dir, e # d PROVE InPlace(e)'
  <2>1. reader'[e] = reader[e] /\ inq'[e] = inq[e]
    BY <1>1, <1>3 DEF TypeOK
  <2>2. InPlace(e)
    BY DEF FdsTracking
  <2> QED BY <1>2, <2>1, <2>2, Untouched
<1>4. InPlace(d)'
  <2>1. /\ reader[d] \in Reader /\ inq[d] \in Seq(Cell) /\ outq[d] \in Seq(Cell)
        /\ Avail(reader[d]) \in Nat
    BY PartsType
  <2>2. PICK x, got : /\ x = BytesOf(SubSeq(inq[d], 1, n))
                      /\ got = reader[d].fdq \o FdsOf(inq[d], n)
    OBVIOUS
  <2>3. x \in Seq(Nat) /\ Len(x) = n
    <3>1. n \in 0..Len(inq[d])
      BY <2>1, LenProperties
    <3>2. SubSeq(inq[d], 1, n) \in Seq(Cell) /\ Len(SubSeq(inq[d], 1, n)) = n
      BY <2>1, <3>1, RestType
    <3> QED BY <2>2, <3>2, BytesOfType
  <2>4. /\ reader'[d] = [buf |-> reader[d].buf \o x, start |-> reader[d].start,
                         fdq |-> got]
        /\ inq'[d] = Rest(inq[d], n)
    BY <1>1, <2>2 DEF TypeOK
  <2>5. Avail(reader'[d]) = Avail(reader[d]) + n
    <3>1. Avail([buf |-> reader[d].buf \o x, start |-> reader[d].start,
                 fdq |-> got])
            = Avail(reader[d]) + Len(x)
      BY <2>1, <2>3, ReadAdds
    <3> QED BY Zenon, <2>3, <2>4, <3>1
  <2>6. /\ Come(d)' = Come(d) /\ SentOn(d)' = SentOn(d) /\ Taken(d)' = Taken(d)
    BY <1>2 DEF Come, SentOn, Taken
  <2>7. Taken(d) \in Nat
    BY DEF FdsTracking, InPlace, Places, Positions
  <2>8. ReadIn(d)' = ReadIn(d) + n
    <3>1. ReadIn(d)' = Taken(d)' + Avail(reader'[d])
      BY DEF ReadIn
    <3>2. n \in Nat
      OBVIOUS
    <3> QED BY <2>1, <2>5, <2>6, <2>7, <3>1, <3>2 DEF ReadIn
  <2>9. Regular(traffic[d])
    BY TrafficIsRegular
  <2>10. Places(traffic[d], written[d], Come(d), SentOn(d), Taken(d), ReadIn(d) + n,
                received[d].fds, outq[d], FdsInHand(d),
                reader[d].fdq \o FdsOf(inq[d], n), Rest(inq[d], n))
    <3>1. Places(traffic[d], written[d], Come(d), SentOn(d), Taken(d), ReadIn(d),
                 received[d].fds, outq[d], FdsInHand(d), reader[d].fdq, inq[d])
      BY DEF FdsTracking, InPlace
    <3> QED BY <1>1, <2>1, <2>9, <3>1, ReadPlaces
  <2>11. reader'[d].fdq = reader[d].fdq \o FdsOf(inq[d], n)
    <3>1. reader'[d].fdq = got
      BY <2>4
    <3> QED BY Zenon, <2>2, <3>1
  <2> QED BY <1>2, <2>4, <2>6, <2>8, <2>10, <2>11 DEF InPlace
<1> QED BY <1>3, <1>4 DEF FdsTracking

LEMMA ReadsPlaces ==
  ASSUME TypeOK, FdsTracking, NEW d \in Dir, Reads(d)
  PROVE  FdsTracking'
<1>1. PICK n \in 1..Len(outq[d]) :
        /\ Returns(outq[d], n)
        /\ received' = [received EXCEPT ![d] =
             [bytes |-> @.bytes \o BytesOf(SubSeq(outq[d], 1, n)),
              fds   |-> @.fds \o FdsOf(outq[d], n)]]
        /\ outq' = [outq EXCEPT ![d] = Rest(@, n)]
  BY DEF Reads
<1>2. /\ UNCHANGED <<traffic, written, open, inq, reader, sending, chunk, fds,
                     fds_pending, running>>
      /\ \A e \in Dir : Chunk(e)' = Chunk(e) /\ FdsInHand(e)' = FdsInHand(e)
  BY DEF Reads, writer, Chunk, FdsInHand, FdsToSend
<1>3. ASSUME NEW e \in Dir, e # d PROVE InPlace(e)'
  <2>1. received'[e] = received[e] /\ outq'[e] = outq[e]
    BY <1>1, <1>3 DEF TypeOK
  <2>2. InPlace(e)
    BY DEF FdsTracking
  <2> QED BY <1>2, <2>1, <2>2, Untouched
<1>4. InPlace(d)'
  <2>1. /\ reader[d] \in Reader /\ inq[d] \in Seq(Cell) /\ outq[d] \in Seq(Cell)
        /\ Avail(reader[d]) \in Nat /\ received[d].bytes \in Seq(Nat)
        /\ Chunk(d) \in Seq(Nat)
    BY PartsType
  <2>2. PICK x, got : /\ x = BytesOf(SubSeq(outq[d], 1, n))
                      /\ got = received[d].fds \o FdsOf(outq[d], n)
    OBVIOUS
  <2>3. n \in 0..Len(outq[d])
    BY <2>1, LenProperties
  <2>4. x \in Seq(Nat) /\ Len(x) = n
    <3>1. SubSeq(outq[d], 1, n) \in Seq(Cell) /\ Len(SubSeq(outq[d], 1, n)) = n
      BY <2>1, <2>3, RestType
    <3> QED BY <2>2, <3>1, BytesOfType
  <2>5. /\ received'[d] = [bytes |-> received[d].bytes \o x,
                           fds   |-> got]
        /\ outq'[d] = Rest(outq[d], n)
    BY <1>1, <2>2 DEF TypeOK
  <2>6. PICK k \in Nat, l \in Nat, h \in Nat :
          k = Come(d) /\ l = Len(outq[d]) /\ h = Len(Chunk(d))
    BY <2>1, LenProperties DEF Come
  <2>7. Come(d)' = k + n
    <3>1. Len(received[d].bytes \o x) = Len(received[d].bytes) + Len(x)
      BY <2>1, <2>4, ConcatProperties
    <3> QED BY <2>4, <2>5, <2>6, <3>1 DEF Come
  <2>8. Len(outq'[d]) = l - n
    <3>1. Len(Rest(outq[d], n)) = Len(outq[d]) - n
      <4>1. PICK q \in Seq(Cell) : q = outq[d]
        BY <2>1
      <4>2. PICK i \in 0..Len(q) : i = n
        BY <2>3, <4>1
      <4>3. Len(Rest(q, i)) = Len(q) - i
        BY RestType
      <4> QED BY <4>1, <4>2, <4>3
    <3> QED BY <2>5, <2>6, <3>1
  <2>9. SentOn(d)' = SentOn(d)
    <3>1. SentOn(d)' = (k + n) + (l - n) /\ SentOn(d) = k + l
      BY <2>6, <2>7, <2>8 DEF SentOn
    <3>2. n \in Nat
      OBVIOUS
    <3> QED BY <3>1, <3>2
  <2>10. Taken(d)' = Taken(d) /\ ReadIn(d)' = ReadIn(d) /\ Come(d)' = Come(d) + n
    BY <1>2, <2>6, <2>7, <2>9 DEF Taken, ReadIn
  <2>11. Regular(traffic[d])
    BY TrafficIsRegular
  <2>12. Places(traffic[d], written[d], Come(d) + n, SentOn(d), Taken(d), ReadIn(d),
                received[d].fds \o FdsOf(outq[d], n), Rest(outq[d], n),
                FdsInHand(d), reader[d].fdq, inq[d])
    <3>1. Places(traffic[d], written[d], Come(d), SentOn(d), Taken(d), ReadIn(d),
                 received[d].fds, outq[d], FdsInHand(d), reader[d].fdq, inq[d])
      BY DEF FdsTracking, InPlace
    <3> QED BY <1>1, <2>1, <2>11, <3>1, ArrivedPlaces
  <2>13. received'[d].fds = received[d].fds \o FdsOf(outq[d], n)
    <3>1. received'[d].fds = got
      BY <2>5
    <3> QED BY Zenon, <2>2, <3>1
  <2> QED BY <1>2, <2>5, <2>9, <2>10, <2>12, <2>13 DEF InPlace
<1> QED BY <1>3, <1>4 DEF FdsTracking

\* Between two messages, what the buffer begins with is a header.
LEMMA CurrentMessage ==
  ASSUME TypeOK, BytesInOrder, FdsTracking, NEW d \in Dir, chunk = <<>>,
         Avail(reader[d]) # 0
  PROVE  /\ HeaderOk(d) /\ SentOn(d) = Taken(d) /\ Taken(d) \in Nat
         /\ Current(d) \in 1..Len(traffic[d])
         /\ EndOf(traffic[d], Current(d) - 1) = Taken(d)
<1>1. PICK t : t = traffic[d]
  OBVIOUS
<1>2. Regular(t)
  BY <1>1, TrafficIsRegular
<1>3. /\ written[d] \in Nat /\ SentOn(d) \in Nat /\ Taken(d) \in Nat
      /\ ReadIn(d) \in Nat /\ written[d] <= Total(t)
      /\ written[d] = ReadIn(d) + Len(inq[d])
      /\ EndsMessage(t, SentOn(d), Taken(d))
  BY <1>1 DEF FdsTracking, InPlace, Places, Positions
<1>4. Len(inq[d]) \in Nat /\ Avail(reader[d]) \in Nat
  BY PartsType, LenProperties
<1>5. Total(t) \in Nat /\ Len(t) \in Nat
  BY <1>2, EndTypes DEF Total
<1>6. Taken(d) < Total(t)
  <2>1. ReadIn(d) = Taken(d) + Avail(reader[d])
    BY DEF ReadIn
  <2> QED BY <1>3, <1>4, <1>5, <2>1
<1>7. PICK m \in 0..Len(t) : Taken(d) = EndOf(t, m)
  BY <1>3 DEF EndsMessage
<1>8. m + 1 \in 1..Len(t) /\ (m + 1) - 1 = m
  <2>1. m # Len(t)
    BY <1>3, <1>5, <1>6, <1>7 DEF Total
  <2> QED BY <1>5, <2>1
<1>9. reader[d].buf[reader[d].start + 1] = Taken(d) + 1
  BY NextUnread
<1>10. HeaderOk(d)
  <2>1. Starts(d, m + 1)
    BY <1>1, <1>7, <1>8, <1>9 DEF Starts
  <2> QED BY <1>1, <1>8, <2>1 DEF HeaderOk
<1>11. PICK c : c = Current(d)
  OBVIOUS
<1>12. c \in 1..Len(t) /\ Starts(d, c)
  BY <1>1, <1>10, <1>11 DEF HeaderOk, Current
<1>13. EndOf(t, c - 1) = Taken(d)
  <2>1. c - 1 \in 0..Len(t)
    BY <1>5, <1>12
  <2>2. PICK x \in Nat, y \in Nat : x = EndOf(t, c - 1) /\ y = Taken(d)
    BY <1>2, <1>3, <2>1, EndTypes
  <2>3. x + 1 = y + 1
    BY <1>1, <1>9, <1>12, <2>2 DEF Starts
  <2> QED BY <2>2, <2>3
<1>14. SentOn(d) = Taken(d)
  <2>1. Chunk(d) = <<>> /\ Len(<<>>) = 0
    BY EmptySeq DEF Chunk
  <2> QED BY <1>3, <2>1 DEF Taken
<1> QED BY <1>1, <1>3, <1>10, <1>11, <1>12, <1>13, <1>14

\* A complete message is in the buffer to its end.
LEMMA CompleteMessage ==
  ASSUME TypeOK, BytesInOrder, FdsTracking, NEW d \in Dir, chunk = <<>>,
         Avail(reader[d]) >= Needed(d)
  PROVE  /\ Avail(reader[d]) # 0
         /\ TotalLen(d) \in Nat \ {0} /\ TotalLen(d) <= Avail(reader[d])
         /\ Taken(d) + TotalLen(d) = EndOf(traffic[d], Current(d))
         /\ EndOf(traffic[d], Current(d)) <= ReadIn(d)
<1>1. Avail(reader[d]) \in Nat /\ HeaderSize \in Nat \ {0}
  BY PartsType, FdStreamAssumption
<1>2. ~(Avail(reader[d]) < HeaderSize)
  BY <1>1 DEF Needed
<1>3. Avail(reader[d]) # 0
  BY <1>1, <1>2
<1>4. /\ HeaderOk(d) /\ Taken(d) \in Nat /\ Current(d) \in 1..Len(traffic[d])
      /\ EndOf(traffic[d], Current(d) - 1) = Taken(d)
  BY <1>3, CurrentMessage
<1>5. Needed(d) = TotalLen(d)
  BY <1>2, <1>4 DEF Needed
<1>6. TotalLen(d) \in Nat \ {0}
  BY <1>4, MessageLength
<1>7. PICK k \in Nat : k = EndOf(traffic[d], Current(d))
  <2>1. Current(d) \in 0..Len(traffic[d])
    BY <1>4, Ends
  <2> QED BY <2>1, Ends
<1>8. PICK a \in Nat, b \in Nat, l \in Nat :
        a = Taken(d) /\ b = Avail(reader[d]) /\ l = TotalLen(d)
  BY <1>1, <1>4, <1>6
<1>9. l = k - a /\ l <= b
  BY <1>4, <1>5, <1>7, <1>8 DEF TotalLen
<1>10. a + l = k /\ k <= a + b
  BY <1>9
<1> QED BY <1>3, <1>6, <1>7, <1>8, <1>9, <1>10 DEF ReadIn

LEMMA TakeMessagePlaces ==
  ASSUME TypeOK, BytesInOrder, FdsTracking, NEW d \in Dir, TakeMessage(d), ~Stop
  PROVE  FdsTracking'
<1> DEFINE r == reader[d]
           n == DeclaredFds(d)
<1>1. /\ reader' = [reader EXCEPT ![d] =
           [Consume(r, TotalLen(d)) EXCEPT !.fdq = Rest(r.fdq, n)]]
      /\ sending' = d
      /\ chunk' = SubSeq(Unread(r), 1, TotalLen(d))
      /\ fds' = SubSeq(r.fdq, 1, n)
      /\ fds_pending' = (SubSeq(r.fdq, 1, n) # <<>>)
      /\ UNCHANGED <<traffic, written, received, open, inq, outq, running>>
      /\ chunk = <<>> /\ Avail(r) >= Needed(d)
  BY DEF TakeMessage, Polled, TakeFds, peers
<1>2. ASSUME NEW e \in Dir, e # d PROVE InPlace(e)'
  <2>1. reader'[e] = reader[e]
    BY <1>1, <1>2 DEF TypeOK
  <2>2. /\ Chunk(e) = <<>> /\ Chunk(e)' = <<>>
        /\ FdsInHand(e) = <<>> /\ FdsInHand(e)' = <<>>
    BY <1>1, <1>2 DEF Chunk, FdsInHand
  <2>3. InPlace(e)
    BY DEF FdsTracking
  <2> QED BY <1>1, <2>1, <2>2, <2>3, Untouched
<1>3. InPlace(d)'
  <2>1. /\ r \in Reader /\ r.start <= Len(r.buf) /\ Unread(r) \in Seq(Nat)
        /\ Len(Unread(r)) = Avail(r) /\ Avail(r) \in Nat
        /\ outq[d] \in Seq(Cell) /\ inq[d] \in Seq(Cell)
    BY PartsType
  <2>2. /\ Avail(r) # 0 /\ TotalLen(d) \in Nat \ {0} /\ TotalLen(d) <= Avail(r)
        /\ Taken(d) + TotalLen(d) = EndOf(traffic[d], Current(d))
        /\ EndOf(traffic[d], Current(d)) <= ReadIn(d)
    BY <1>1, CompleteMessage
  <2>3. /\ SentOn(d) = Taken(d) /\ Taken(d) \in Nat
        /\ Current(d) \in 1..Len(traffic[d])
        /\ EndOf(traffic[d], Current(d) - 1) = Taken(d)
    BY <1>1, <2>2, CurrentMessage
  <2>4. /\ Places(traffic[d], written[d], Come(d), SentOn(d), Taken(d), ReadIn(d),
                  received[d].fds, outq[d], FdsInHand(d), r.fdq, inq[d])
        /\ Regular(traffic[d])
    BY TrafficIsRegular DEF FdsTracking, InPlace
  <2>5. PICK k \in Nat :
          /\ k = FdEndOf(traffic[d], Current(d)) - FdEndOf(traffic[d], Current(d) - 1)
          /\ Places(traffic[d], written[d], Come(d), SentOn(d),
                    EndOf(traffic[d], Current(d)), ReadIn(d), received[d].fds,
                    outq[d], SubSeq(r.fdq, 1, k), Rest(r.fdq, k), inq[d])
    BY <2>1, <2>2, <2>3, <2>4, TakenPlaces
  <2>6. k = n
    BY <2>5 DEF DeclaredFds
  <2>7. Chunk(d)' = chunk' /\ Len(chunk') = TotalLen(d) /\ chunk' # <<>>
    <3>1. TotalLen(d) \in 0..Len(Unread(r))
      BY <2>1, <2>2
    <3>2. Len(SubSeq(Unread(r), 1, TotalLen(d))) = TotalLen(d)
      BY <2>1, <3>1, RestType
    <3>3. Len(chunk') = TotalLen(d)
      BY <1>1, <3>2
    <3>4. chunk' # <<>>
      BY <2>2, <3>3, EmptySeq
    <3> QED BY <1>1, <3>3, <3>4 DEF Chunk
  <2>8. FdsInHand(d)' = SubSeq(r.fdq, 1, n)
    BY <1>1, <2>7 DEF FdsInHand, FdsToSend
  <2>9. /\ Come(d)' = Come(d) /\ SentOn(d)' = SentOn(d)
        /\ Taken(d)' = EndOf(traffic[d], Current(d))
    BY <1>1, <2>2, <2>3, <2>7 DEF Come, SentOn, Taken
  <2>10. reader'[d].fdq = Rest(r.fdq, n) /\ Avail(reader'[d]) = Avail(r) - TotalLen(d)
    <3>1. TotalLen(d) \in 0..Avail(r)
      BY <2>1, <2>2
    <3>2. /\ Consume(r, TotalLen(d)) \in Reader
          /\ Consume(r, TotalLen(d)).start <= Len(Consume(r, TotalLen(d)).buf)
          /\ Unread(Consume(r, TotalLen(d))) = Rest(Unread(r), TotalLen(d))
      BY <2>1, <3>1, ConsumeUnread
    <3>3. PICK a \in Seq(Nat), j \in Nat, g \in Seq(Nat) :
            Consume(r, TotalLen(d)) = [buf |-> a, start |-> j, fdq |-> g]
      BY <3>2 DEF Reader
    <3>4. PICK f : f = Rest(r.fdq, n)
      OBVIOUS
    <3>5. reader'[d] = [buf |-> a, start |-> j, fdq |-> f]
      <4>1. reader'[d] = [Consume(r, TotalLen(d)) EXCEPT !.fdq = f]
        BY <1>1, <3>4 DEF TypeOK
      <4>2. [Consume(r, TotalLen(d)) EXCEPT !.fdq = f]
              = [buf |-> a, start |-> j, fdq |-> f]
        BY <3>3
      <4> QED BY <4>1, <4>2
    <3>6. Len(Rest(a, j)) = Len(a) - j
      <4>1. j \in 0..Len(a)
        <5>1. j <= Len(a) /\ Len(a) \in Nat
          BY <3>2, <3>3, LenProperties
        <5> QED BY <5>1
      <4> QED BY <4>1, RestType
    <3>7. Rest(a, j) = Rest(Unread(r), TotalLen(d))
      BY <3>2, <3>3 DEF Unread
    <3>8. Len(Rest(Unread(r), TotalLen(d))) = Avail(r) - TotalLen(d)
      <4>1. PICK u \in Seq(Nat) : u = Unread(r)
        BY <2>1
      <4>2. PICK i \in 0..Len(u) : i = TotalLen(d)
        BY <2>1, <3>1, <4>1
      <4>3. Len(Rest(u, i)) = Len(u) - i
        BY RestType
      <4> QED BY <2>1, <4>1, <4>2, <4>3
    <3>9. Avail(reader'[d]) = Len(a) - j
      BY <3>5 DEF Avail
    <3> QED BY <3>4, <3>5, <3>6, <3>7, <3>8, <3>9
  <2>11. ReadIn(d)' = ReadIn(d)
    <3>1. PICK a \in Nat, b \in Nat, l \in Nat :
            a = Taken(d) /\ b = Avail(r) /\ l = TotalLen(d)
      BY <2>1, <2>2, <2>3
    <3>2. Taken(d)' = a + l /\ Avail(reader'[d]) = b - l
      BY <2>2, <2>9, <2>10, <3>1
    <3>3. (a + l) + (b - l) = a + b
      OBVIOUS
    <3> QED BY <3>1, <3>2, <3>3 DEF ReadIn
  <2>12. Places(traffic[d], written[d], Come(d), SentOn(d),
                EndOf(traffic[d], Current(d)), ReadIn(d), received[d].fds,
                outq[d], SubSeq(r.fdq, 1, n), Rest(r.fdq, n), inq[d])
    BY <2>5, <2>6
  <2> HIDE DEF n, r
  <2> QED BY <1>1, <2>8, <2>9, <2>10, <2>11, <2>12 DEF InPlace
<1> QED BY <1>2, <1>3 DEF FdsTracking

LEMMA SendSomePlaces ==
  ASSUME TypeOK, FdsTracking, SendSome, ~Stop
  PROVE  FdsTracking'
<1>1. PICK d \in Dir : d = sending
  BY DEF TypeOK
<1>2. PICK n \in 1..Len(chunk) :
        /\ outq' = [outq EXCEPT
                      ![d] = Sent(@, SubSeq(chunk, 1, n), FdsToSend)]
        /\ chunk' = Rest(chunk, n)
        /\ fds_pending' = FALSE
        /\ UNCHANGED <<traffic, written, received, open, inq, reader, sending,
                       fds, running>>
  BY <1>1 DEF SendSome, peers
<1>3. chunk \in Seq(Nat) /\ Len(chunk) \in Nat /\ chunk # <<>>
      /\ FdsToSend \in Seq(Nat)
  BY LenProperties, EmptySeq DEF TypeOK, SendSome, FdsToSend
<1>4. ASSUME NEW e \in Dir, e # d PROVE InPlace(e)'
  <2>1. outq'[e] = outq[e]
    BY <1>2, <1>4 DEF TypeOK
  <2>2. /\ Chunk(e) = <<>> /\ Chunk(e)' = <<>>
        /\ FdsInHand(e) = <<>> /\ FdsInHand(e)' = <<>>
    BY <1>1, <1>2, <1>4 DEF Chunk, FdsInHand
  <2>3. InPlace(e)
    BY DEF FdsTracking
  <2> QED BY <1>2, <2>1, <2>2, <2>3, Untouched
<1>5. InPlace(d)'
  <2>1. /\ outq[d] \in Seq(Cell) /\ inq[d] \in Seq(Cell)
        /\ received[d].bytes \in Seq(Nat)
    BY PartsType
  <2>2. n \in 0..Len(chunk) /\ n \in Nat
    BY <1>3
  <2>3. PICK x \in Seq(Nat) : x = SubSeq(chunk, 1, n) /\ Len(x) = n /\ x # <<>>
    <3>1. SubSeq(chunk, 1, n) \in Seq(Nat) /\ Len(SubSeq(chunk, 1, n)) = n
      BY <1>3, <2>2, RestType
    <3>2. SubSeq(chunk, 1, n) # <<>>
      BY <3>1, EmptySeq
    <3> QED BY <3>1, <3>2
  <2>4. Len(chunk') = Len(chunk) - n
    <3>1. Len(Rest(chunk, n)) = Len(chunk) - n
      BY <1>3, <2>2, RestType
    <3> QED BY <1>2, <3>1
  <2>5. FdsInHand(d) = FdsToSend /\ FdsInHand(d)' = <<>>
        /\ Chunk(d) = chunk /\ Chunk(d)' = chunk'
    BY <1>1, <1>2, <1>3 DEF FdsInHand, FdsToSend, Chunk
  <2>6. outq'[d] = Sent(outq[d], x, FdsToSend)
    BY <1>2, <2>3 DEF TypeOK
  <2>7. PICK a \in Nat, b \in Nat, l \in Nat :
          a = Come(d) /\ b = Len(outq[d]) /\ l = Len(chunk)
    BY <1>3, <2>1, LenProperties DEF Come
  <2>8. Len(outq'[d]) = b + n
    <3>1. Len(Sent(outq[d], x, FdsToSend)) = Len(outq[d]) + Len(x)
      BY <1>3, <2>1, SentBytes
    <3> QED BY <2>3, <2>6, <2>7, <3>1
  <2>9. /\ Come(d)' = a /\ SentOn(d)' = a + (b + n)
        /\ Taken(d)' = (a + (b + n)) + (l - n)
        /\ SentOn(d) = a + b /\ Taken(d) = (a + b) + l
    BY <1>2, <2>4, <2>5, <2>7, <2>8 DEF Come, SentOn, Taken
  <2>10. /\ Come(d)' = Come(d) /\ SentOn(d)' = SentOn(d) + n
         /\ Taken(d)' = Taken(d) /\ SentOn(d) + n <= Taken(d)
    <3>1. l - n \in Nat
      BY <2>2, <2>7
    <3>2. /\ a + (b + n) = (a + b) + n /\ (a + (b + n)) + (l - n) = (a + b) + l
          /\ (a + b) + n <= (a + b) + l
      BY <2>2, <3>1
    <3> QED BY <2>7, <2>9, <3>2
  <2>11. ReadIn(d)' = ReadIn(d)
    BY <1>2, <2>10 DEF ReadIn
  <2>12. Places(traffic[d], written[d], Come(d), SentOn(d) + n, Taken(d),
                ReadIn(d), received[d].fds, Sent(outq[d], x, FdsToSend), <<>>,
                reader[d].fdq, inq[d])
    <3>1. /\ Places(traffic[d], written[d], Come(d), SentOn(d), Taken(d),
                    ReadIn(d), received[d].fds, outq[d], FdsToSend,
                    reader[d].fdq, inq[d])
          /\ Regular(traffic[d])
      BY <2>5, TrafficIsRegular DEF FdsTracking, InPlace
    <3> QED BY <1>3, <2>1, <2>2, <2>3, <2>10, <3>1, SentPlaces
  <2> QED BY <1>2, <2>5, <2>6, <2>10, <2>11, <2>12 DEF InPlace
<1> QED BY <1>4, <1>5 DEF FdsTracking

LEMMA WritesPlaces ==
  ASSUME TypeOK, FdsTracking, NEW d \in Dir, Writes(d)
  PROVE  FdsTracking'
<1>1. PICK m \in 1..Len(traffic[d]) :
        /\ EndOf(traffic[d], m - 1) <= written[d]
        /\ written[d] < EndOf(traffic[d], m)
        /\ \E n \in 1..(EndOf(traffic[d], m) - written[d]) :
             /\ written' = [written EXCEPT ![d] = @ + n]
             /\ inq' = [inq EXCEPT ![d] =
                  Sent(@, Interval(written[d], written[d] + n),
                       IF written[d] # EndOf(traffic[d], m - 1) THEN <<>>
                       ELSE Interval(FdEndOf(traffic[d], m - 1),
                                     FdEndOf(traffic[d], m)))]
  BY DEF Writes
<1>2. PICK with : with = IF written[d] # EndOf(traffic[d], m - 1) THEN <<>>
                         ELSE Interval(FdEndOf(traffic[d], m - 1),
                                       FdEndOf(traffic[d], m))
  OBVIOUS
<1>3. with \in Seq(Nat)
  BY <1>2, EmptySeq, FdRange
<1>4. PICK n \in 1..(EndOf(traffic[d], m) - written[d]) :
        /\ written' = [written EXCEPT ![d] = @ + n]
        /\ inq' = [inq EXCEPT ![d] =
             Sent(@, Interval(written[d], written[d] + n), with)]
  BY <1>1, <1>2
<1>5. /\ UNCHANGED <<traffic, received, open, outq, reader, sending, chunk,
                     fds, fds_pending, running>>
      /\ \A e \in Dir : Chunk(e)' = Chunk(e) /\ FdsInHand(e)' = FdsInHand(e)
  BY DEF Writes, writer, Chunk, FdsInHand, FdsToSend
<1>6. ASSUME NEW e \in Dir, e # d PROVE InPlace(e)'
  <2>1. written'[e] = written[e] /\ inq'[e] = inq[e]
    BY <1>4, <1>6 DEF TypeOK
  <2>2. InPlace(e)
    BY DEF FdsTracking
  <2> QED BY <1>5, <2>1, <2>2, Untouched
<1>7. InPlace(d)'
  <2>1. outq[d] \in Seq(Cell) /\ inq[d] \in Seq(Cell) /\ written[d] \in Nat
    BY PartsType DEF TypeOK
  <2>2. PICK k \in Nat, w \in Nat : k = EndOf(traffic[d], m) /\ w = written[d]
    <3>1. m \in 0..Len(traffic[d])
      BY Ends
    <3> QED BY <2>1, <3>1, Ends
  <2>3. n \in Nat /\ n # 0 /\ w + n <= k /\ w + n \in Nat
    BY <2>2
  <2>4. PICK x \in Seq(Nat) : x = Interval(w, w + n) /\ Len(x) = n /\ x # <<>>
    <3>1. w <= w + n /\ (w + n) - w = n
      BY <2>3
    <3>2. Interval(w, w + n) \in Seq(Nat) /\ Len(Interval(w, w + n)) = (w + n) - w
      BY <2>3, <3>1, IntervalType
    <3>3. Interval(w, w + n) # <<>>
      BY <2>3, <3>1, <3>2, EmptySeq
    <3> QED BY <3>1, <3>2, <3>3
  <2>5. inq'[d] = Sent(inq[d], x, with) /\ written'[d] = w + n
    BY <1>4, <2>2, <2>4 DEF TypeOK
  <2>6. /\ Come(d)' = Come(d) /\ SentOn(d)' = SentOn(d) /\ Taken(d)' = Taken(d)
        /\ ReadIn(d)' = ReadIn(d)
    BY <1>5 DEF Come, SentOn, Taken, ReadIn
  <2>7. Places(traffic[d], w + n, Come(d), SentOn(d), Taken(d), ReadIn(d),
               received[d].fds, outq[d], FdsInHand(d), reader[d].fdq,
               Sent(inq[d], x, with))
    <3>1. /\ Places(traffic[d], w, Come(d), SentOn(d), Taken(d), ReadIn(d),
                    received[d].fds, outq[d], FdsInHand(d), reader[d].fdq,
                    inq[d])
          /\ Regular(traffic[d])
      BY <2>2, TrafficIsRegular DEF FdsTracking, InPlace
    <3>2. EndOf(traffic[d], m - 1) <= w /\ w + n <= EndOf(traffic[d], m)
      BY <1>1, <2>2, <2>3
    <3>3. with = IF w # EndOf(traffic[d], m - 1) THEN <<>>
                 ELSE Interval(FdEndOf(traffic[d], m - 1), FdEndOf(traffic[d], m))
      BY <1>2, <2>2
    <3> QED BY <1>3, <2>1, <2>3, <2>4, <3>1, <3>2, <3>3, WrittenPlaces
  <2> QED BY <1>5, <2>5, <2>6, <2>7 DEF InPlace
<1> QED BY <1>6, <1>7 DEF FdsTracking

LEMMA InitPlaces ==
  ASSUME Init, TypeOK
  PROVE  FdsTracking
<1> SUFFICES ASSUME NEW d \in Dir PROVE InPlace(d)
  BY DEF FdsTracking
<1>1. /\ received[d] = [bytes |-> <<>>, fds |-> <<>>] /\ written[d] = 0
      /\ inq[d] = <<>> /\ outq[d] = <<>> /\ chunk = <<>>
      /\ reader[d] = [buf |-> <<>>, start |-> 0, fdq |-> <<>>]
  BY DEF Init
<1>2. Len(<<>>) = 0
  BY EmptySeq
<1>3. /\ Come(d) = 0 /\ SentOn(d) = 0 /\ Taken(d) = 0 /\ ReadIn(d) = 0
      /\ FdsInHand(d) = <<>>
  BY <1>1, <1>2 DEF Come, SentOn, Taken, ReadIn, Avail, Chunk, FdsInHand
<1>4. Regular(traffic[d])
  BY TrafficIsRegular
<1>5. FdsBetween(traffic[d], 0, 0) = <<>>
  <2>1. FdsBy(traffic[d], 0) = 0
    BY DEF FdsBy
  <2> QED BY <2>1, IntervalEmpty DEF FdsBetween
<1>6. Positions(traffic[d], 0, 0, 0, 0, 0, <<>>, <<>>)
  <2>1. /\ Len(traffic[d]) \in Nat /\ Total(traffic[d]) \in Nat
        /\ EndOf(traffic[d], 0) = 0
    BY <1>4, EndTypes DEF Total
  <2>2. EndsMessage(traffic[d], 0, 0)
    BY <2>1 DEF EndsMessage
  <2> QED BY <1>2, <2>1, <2>2 DEF Positions
<1>7. CarryTheirFds(traffic[d], <<>>, 0) /\ Buffers(<<>>)
  BY <1>2 DEF CarryTheirFds, Buffers
<1> QED BY <1>1, <1>3, <1>5, <1>6, <1>7 DEF InPlace, Places

LEMMA StaysInPlace ==
  ASSUME UNCHANGED <<traffic, written, received, inq, outq, reader, writer>>,
         FdsTracking
  PROVE  FdsTracking'
<1>1. ASSUME NEW e \in Dir PROVE InPlace(e)'
  <2>1. Chunk(e)' = Chunk(e) /\ FdsInHand(e)' = FdsInHand(e)
    BY DEF writer, Chunk, FdsInHand, FdsToSend
  <2>2. InPlace(e)
    BY DEF FdsTracking
  <2> QED BY <2>1, <2>2, Untouched
<1> QED BY <1>1 DEF FdsTracking

LEMMA TrackingStep ==
  ASSUME TypeOK, BytesInOrder, FdsTracking, [Next]_vars
  PROVE  FdsTracking'
<1>1. CASE Stop
  BY <1>1, StaysInPlace DEF Stop, peers
<1>2. ASSUME ~Stop, NEW d \in Dir, Receive(d)
      PROVE  FdsTracking'
  BY <1>2, ReceivePlaces
<1>3. ASSUME NEW d \in Dir, ReceiveEof(d)
      PROVE  FdsTracking'
  BY <1>1, <1>3 DEF ReceiveEof
<1>4. ASSUME ~Stop, NEW d \in Dir, TakeMessage(d)
      PROVE  FdsTracking'
  BY <1>4, TakeMessagePlaces
<1>5. ASSUME ~Stop, SendSome
      PROVE  FdsTracking'
  BY <1>5, SendSomePlaces
<1>6. ASSUME NEW d \in Dir, Writes(d)
      PROVE  FdsTracking'
  BY <1>6, WritesPlaces
<1>7. ASSUME NEW d \in Dir, Reads(d)
      PROVE  FdsTracking'
  BY <1>7, ReadsPlaces
<1>8. ASSUME NEW peer \in Peer, Closes(peer)
      PROVE  FdsTracking'
  BY <1>8, StaysInPlace DEF Closes
<1>9. CASE UNCHANGED vars
  BY <1>9, StaysInPlace DEF vars, peers
<1> QED
  BY <1>1, <1>2, <1>3, <1>4, <1>5, <1>6, <1>7, <1>8, <1>9 DEF Next, Router

-----------------------------------------------------------------------------
(* When the router stops.                                                    *)

\* The next message with descriptors whose first byte is among the bytes
\* between e and e + n.
LEMMA NextCarrier ==
  ASSUME NEW t, Regular(t), NEW e \in Nat, NEW n \in Nat, e + n <= Total(t),
         NEW k \in 1..n,
         FdsBy(t, e + k - 1) = FdsBy(t, e), FdsBy(t, e + k) = FdsBy(t, e + n),
         FdsBy(t, e + k - 1) # FdsBy(t, e + k)
  PROVE  \E m \in 1..Len(t) : /\ e <= EndOf(t, m - 1)
                              /\ FdEndOf(t, m - 1) = FdsBy(t, e)
                              /\ FdEndOf(t, m) = FdsBy(t, e + n)
<1>1. Total(t) \in Nat
  BY EndTypes DEF Total
<1>2. PICK i \in 1..Total(t) : i = e + k
  <2>1. e + k \in 1..Total(t)
    BY <1>1
  <2> QED BY <2>1
<1>3. e + k - 1 = i - 1 /\ e <= i - 1
  BY <1>2
<1>4. PICK m \in 1..Len(t) : /\ EndOf(t, m - 1) = i - 1
                             /\ FdsBy(t, i) = FdEndOf(t, m)
                             /\ FdsBy(t, i - 1) = FdEndOf(t, m - 1)
  <2>1. FdsBy(t, i) # FdsBy(t, i - 1)
    BY <1>2, <1>3
  <2> QED BY <2>1, NextByte
<1> QED BY <1>2, <1>3, <1>4

\* Where a message begins later, it is a later one.
LEMMA LaterBegin ==
  ASSUME NEW t, Regular(t), NEW i \in 1..Len(t), NEW j \in 1..Len(t),
         EndOf(t, i - 1) < EndOf(t, j - 1)
  PROVE  i < j
<1>1. /\ Len(t) \in Nat /\ HeaderSize \in Nat
      /\ i - 1 \in 0..Len(t) /\ j - 1 \in 0..Len(t)
  BY EndTypes, FdStreamAssumption
<1>2. PICK a \in Nat, b \in Nat : a = EndOf(t, i - 1) /\ b = EndOf(t, j - 1)
  BY <1>1, EndTypes
<1>3. ASSUME j < i PROVE FALSE
  <2>1. j - 1 < i - 1
    BY <1>1, <1>3
  <2>2. b + HeaderSize <= a
    BY <1>1, <1>2, <2>1, EndsGrow
  <2>3. a < b
    BY <1>2
  <2> QED BY <1>1, <1>2, <2>2, <2>3
<1>4. i # j
  BY <1>2
<1> QED BY <1>1, <1>3, <1>4

\* The n bytes after e bring no descriptors, or those of one message.
OneCarrierAtMost(t, e, n) ==
  \/ FdsBy(t, e) = FdsBy(t, e + n)
  \/ \E k \in 1..n : /\ FdsBy(t, e + k - 1) = FdsBy(t, e)
                     /\ FdsBy(t, e + k) = FdsBy(t, e + n)
                     /\ FdsBy(t, e + k - 1) # FdsBy(t, e + k)

\* A read within a message brings what the message still lacks, or the
\* descriptors of the next message with any: beyond the limit, the two are
\* crowded.
Exceeds(t, m, n) == FdsBy(t, n) - FdEndOf(t, m - 1) > MaxFds

LEMMA Overflow ==
  ASSUME NEW t, Regular(t), NEW m \in 1..Len(t), NEW e \in Nat, NEW n \in Nat,
         EndOf(t, m - 1) <= e, e < EndOf(t, m), e + n \in 0..Total(t),
         OneCarrierAtMost(t, e, n), Exceeds(t, m, e + n)
  PROVE  Crowded(t)
<1>1. /\ Len(t) \in Nat /\ m \in 0..Len(t) /\ m - 1 \in 0..Len(t)
      /\ MaxFds \in Nat /\ m - 1 < m /\ Total(t) \in Nat
  BY EndTypes, FdStreamAssumption DEF Total
<1>2. \/ FdsBy(t, e) = FdsBy(t, e + n)
      \/ \E l \in 1..Len(t) : /\ e <= EndOf(t, l - 1)
                              /\ FdEndOf(t, l - 1) = FdsBy(t, e)
                              /\ FdEndOf(t, l) = FdsBy(t, e + n)
  <2>1. e + n <= Total(t)
    BY <1>1
  <2> QED BY <2>1, NextCarrier DEF OneCarrierAtMost
<1>3. PICK a \in Nat, b \in Nat : /\ a = EndOf(t, m - 1) /\ b = EndOf(t, m)
                                  /\ a <= e /\ e < b
  BY <1>1, EndTypes
<1>4. PICK x \in Nat, u \in Nat :
        x = FdEndOf(t, m - 1) /\ u = FdEndOf(t, m) /\ x <= u
  BY <1>1, EndTypes, EndsGrow
<1>5. PICK y \in Nat, z \in Nat : y = FdsBy(t, e) /\ z = FdsBy(t, e + n)
  <2>1. e \in 0..Total(t)
    BY <1>1
  <2> QED BY <2>1, FdsByType
<1>6. z - x > MaxFds
  BY <1>4, <1>5 DEF Exceeds
<1>7. y = IF e = a THEN x ELSE u
  <2>1. CASE e = a
    BY <1>1, <1>3, <1>4, <1>5, <2>1, FdsByEnd
  <2>2. CASE e # a
    <3>1. a < e /\ e <= b
      BY <1>3, <2>2
    <3> QED BY <1>3, <1>4, <1>5, <2>2, <3>1, FdsByMessage
  <2> QED BY <2>1, <2>2
<1>8. CASE y = z
  <2>1. u - x > MaxFds
    BY SMTT(60), <1>1, <1>4, <1>6, <1>7, <1>8
  <2> QED BY <1>4, <2>1 DEF Crowded, TooMany, FdCount
<1>9. CASE y # z
  <2>1. PICK l \in 1..Len(t) : /\ e <= EndOf(t, l - 1)
                               /\ FdEndOf(t, l - 1) = y /\ FdEndOf(t, l) = z
    BY <1>2, <1>5, <1>9
  <2>2. l \in 0..Len(t) /\ l - 1 \in 0..Len(t) /\ l - 1 < l
    BY <1>1
  <2>3. y < z
    <3>1. y <= z
      BY <2>1, <2>2, EndsGrow
    <3> QED BY <1>9, <3>1
  <2>4. FdCount(t, l) = z - y /\ FdCount(t, m) = u - x
    BY <1>4, <2>1 DEF FdCount
  <2>5. CASE y = x
    <3>1. FdCount(t, l) > MaxFds
      BY <1>6, <2>4, <2>5
    <3> QED BY <3>1 DEF Crowded, TooMany
  <2>6. CASE y # x
    <3>1. y = u /\ a < e /\ x < u
      BY <1>3, <1>4, <1>7, <2>6
    <3>2. m < l
      <4>1. PICK f \in Nat : f = EndOf(t, l - 1)
        BY <2>2, EndTypes
      <4>2. a < f
        BY <2>1, <3>1, <4>1
      <4> QED BY <1>3, <4>1, <4>2, LaterBegin
    <3>3. u - x > 0 /\ z - y > 0
      BY <2>3, <3>1
    <3>4. (u - x) + (z - y) > MaxFds
      BY <1>6, <3>1
    <3>5. Neighbours(t, m, l)
      BY <1>4, <2>1, <2>4, <3>1, <3>2, <3>3 DEF Neighbours
    <3> QED BY <2>4, <3>4, <3>5 DEF Crowded
  <2> QED BY <2>5, <2>6
<1> QED BY <1>8, <1>9

LEMMA ReceivedAtMost ==
  ASSUME NEW t, Regular(t), NEW data \in Seq(Cell), NEW e \in Nat,
         CarryTheirFds(t, data, e), Buffers(data),
         e + Len(data) <= Total(t), NEW n \in 1..Len(data), Returns(data, n)
  PROVE  FdsOf(data, n) = FdsBetween(t, e, e + n) /\ OneCarrierAtMost(t, e, n)
BY ReceivedFds DEF OneCarrierAtMost

\* What is in the buffer while more is read is the beginning of a message.
LEMMA Unfinished ==
  ASSUME TypeOK, BytesInOrder, FdsTracking, NEW d \in Dir, chunk = <<>>,
         Avail(reader[d]) < Needed(d), inq[d] # <<>>
  PROVE  \E m \in 1..Len(traffic[d]) : /\ EndOf(traffic[d], m - 1) = Taken(d)
                                       /\ ReadIn(d) < EndOf(traffic[d], m)
<1>1. PICK t : t = traffic[d] /\ Regular(t)
  BY TrafficIsRegular
<1>2. /\ written[d] \in Nat /\ Taken(d) \in Nat /\ ReadIn(d) \in Nat
      /\ written[d] <= Total(t) /\ written[d] = ReadIn(d) + Len(inq[d])
      /\ EndsMessage(t, SentOn(d), Taken(d))
  BY <1>1 DEF FdsTracking, InPlace, Places, Positions
<1>3. Len(inq[d]) \in Nat \ {0} /\ Avail(reader[d]) \in Nat
  BY PartsType, LenProperties, EmptySeq
<1>4. /\ Total(t) \in Nat /\ Len(t) \in Nat /\ HeaderSize \in Nat \ {0}
      /\ \A m \in 0..Len(t) : EndOf(t, m) \in Nat
  BY <1>1, EndTypes, FdStreamAssumption DEF Total
<1>5. ReadIn(d) = Taken(d) + Avail(reader[d])
  BY DEF ReadIn
<1>6. CASE Avail(reader[d]) = 0
  <2>1. ReadIn(d) = Taken(d) /\ Taken(d) < Total(t)
    BY <1>2, <1>3, <1>4, <1>5, <1>6
  <2>2. PICK m \in 0..Len(t) : Taken(d) = EndOf(t, m)
    BY <1>2 DEF EndsMessage
  <2>3. m + 1 \in 1..Len(t) /\ (m + 1) - 1 = m
    <3>1. m # Len(t)
      BY <1>2, <1>4, <2>1, <2>2 DEF Total
    <3> QED BY <1>4, <3>1
  <2>4. EndOf(t, m) < EndOf(t, m + 1)
    <3>1. m \in 0..Len(t) /\ m + 1 \in 0..Len(t) /\ m < m + 1
      BY <1>4, <2>3
    <3>2. PICK a \in Nat, b \in Nat : a = EndOf(t, m) /\ b = EndOf(t, m + 1)
      BY <1>4, <3>1
    <3>3. a + HeaderSize <= b
      BY <1>1, <3>1, <3>2, EndsGrow
    <3> QED BY <1>4, <3>2, <3>3
  <2> QED BY <1>1, <2>1, <2>2, <2>3, <2>4
<1>7. CASE Avail(reader[d]) # 0
  <2>1. PICK c : c = Current(d)
    OBVIOUS
  <2>2. HeaderOk(d) /\ c \in 1..Len(t) /\ EndOf(t, c - 1) = Taken(d)
    BY <1>1, <1>7, <2>1, CurrentMessage
  <2>3. PICK a \in Nat, b \in Nat : a = Taken(d) /\ b = EndOf(t, c)
    <3>1. c \in 0..Len(t)
      BY <1>4, <2>2
    <3> QED BY <1>2, <1>4, <3>1
  <2>4. TotalLen(d) = b - a
    BY <1>1, <2>1, <2>2, <2>3 DEF TotalLen
  <2>5. a + HeaderSize <= b
    <3>1. c \in 0..Len(t) /\ c - 1 \in 0..Len(t) /\ c - 1 < c
      BY <1>4, <2>2
    <3> QED BY <1>1, <2>2, <2>3, <3>1, EndsGrow
  <2>6. Avail(reader[d]) < b - a
    <3>1. CASE Avail(reader[d]) < HeaderSize
      BY <1>3, <1>4, <2>3, <2>5, <3>1
    <3>2. CASE ~(Avail(reader[d]) < HeaderSize)
      <4>1. Needed(d) = TotalLen(d)
        BY <2>2, <3>2 DEF Needed
      <4> QED BY <2>4, <4>1
    <3> QED BY <3>1, <3>2
  <2>7. ReadIn(d) < b
    BY <1>3, <1>5, <2>3, <2>6
  <2> QED BY <1>1, <2>2, <2>3, <2>7
<1> QED BY <1>6, <1>7

\* The queue and what a read adds to it are of one message, or of two that
\* are crowded.
LEMMA ReceiveOverflows ==
  ASSUME TypeOK, BytesInOrder, FdsTracking, NEW d \in Dir, chunk = <<>>,
         Avail(reader[d]) < Needed(d),
         NEW n \in 1..Len(inq[d]), Returns(inq[d], n),
         Len(reader[d].fdq) + Len(FdsOf(inq[d], n)) > MaxFds
  PROVE  Crowded(traffic[d])
<1>1. PICK t : t = traffic[d] /\ Regular(t)
  BY TrafficIsRegular
<1>2. inq[d] \in Seq(Cell) /\ Len(inq[d]) \in Nat /\ inq[d] # <<>>
  BY PartsType, LenProperties, EmptySeq
<1>3. PICK m \in 1..Len(t) : /\ EndOf(t, m - 1) = Taken(d)
                             /\ ReadIn(d) < EndOf(t, m)
  BY <1>1, <1>2, Unfinished
<1>4. PICK c \in Nat, e \in Nat : c = Taken(d) /\ e = ReadIn(d)
  BY DEF FdsTracking, InPlace, Places, Positions
<1>5. /\ c <= e /\ CarryTheirFds(t, inq[d], e) /\ Buffers(inq[d])
      /\ reader[d].fdq = FdsBetween(t, c, e)
  BY <1>1, <1>4 DEF FdsTracking, InPlace, Places, Positions
<1>6. /\ n \in Nat /\ e + n \in 0..Total(t) /\ e \in 0..Total(t)
      /\ e <= e + n /\ e + n <= Total(t) /\ e + Len(inq[d]) <= Total(t)
  <2>1. PICK w \in Nat, l \in Nat :
          w = written[d] /\ l = Len(inq[d]) /\ w <= Total(t) /\ w = e + l
    BY <1>1, <1>2, <1>4 DEF FdsTracking, InPlace, Places, Positions
  <2>2. Total(t) \in Nat
    BY <1>1, EndTypes DEF Total
  <2>3. n \in Nat /\ n <= l
    BY <2>1
  <2> QED BY <2>1, <2>2, <2>3
<1>7. FdsOf(inq[d], n) = FdsBetween(t, e, e + n) /\ OneCarrierAtMost(t, e, n)
  BY ZenonT(30), <1>1, <1>2, <1>5, <1>6, ReceivedAtMost
<1>8. PICK x \in Nat, y \in Nat :
        /\ x = FdsBy(t, c) /\ y = FdsBy(t, e)
        /\ Len(FdsBetween(t, c, e)) = y - x
  <2>1. /\ Len(FdsBetween(t, c, e)) = FdsBy(t, e) - FdsBy(t, c)
        /\ FdsBy(t, c) \in Nat /\ FdsBy(t, e) \in Nat
    BY <1>1, <1>5, <1>6, FdsBetweenType
  <2> QED BY <2>1
<1>9. PICK z \in Nat : /\ z = FdsBy(t, e + n)
                       /\ Len(FdsBetween(t, e, e + n)) = z - FdsBy(t, e)
  BY <1>1, <1>6, FdsBetweenType
<1>10. z - x > MaxFds
  <2>1. (y - x) + (z - y) > MaxFds
    BY <1>5, <1>7, <1>8, <1>9
  <2>2. MaxFds \in Nat
    BY FdStreamAssumption
  <2> QED BY <2>1, <2>2
<1>11. x = FdEndOf(t, m - 1)
  <2>1. m - 1 \in 0..Len(t)
    BY <1>1, EndTypes
  <2> QED BY <1>1, <1>3, <1>4, <1>8, <2>1, FdsByEnd
<1>12. Exceeds(t, m, e + n)
  BY <1>9, <1>10, <1>11 DEF Exceeds
<1>13. EndOf(t, m - 1) <= e /\ e < EndOf(t, m)
  BY <1>3, <1>4, <1>5
<1> QED BY <1>1, <1>6, <1>7, <1>12, <1>13, Overflow

\* A message that is complete has its descriptors: it is refused only when it
\* has too many.
LEMMA TakeRefused ==
  ASSUME TypeOK, BytesInOrder, FdsTracking, NEW d \in Dir, chunk = <<>>,
         Avail(reader[d]) >= Needed(d),
         \/ ~HeaderOk(d)
         \/ DeclaredFds(d) > MaxFds
         \/ DeclaredFds(d) > Len(reader[d].fdq)
  PROVE  Crowded(traffic[d])
<1>1. PICK t, m : t = traffic[d] /\ m = Current(d) /\ Regular(t)
  BY TrafficIsRegular
<1>2. Avail(reader[d]) # 0 /\ EndOf(t, m) <= ReadIn(d)
  BY <1>1, CompleteMessage
<1>3. /\ HeaderOk(d) /\ SentOn(d) = Taken(d) /\ Taken(d) \in Nat
      /\ m \in 1..Len(t) /\ EndOf(t, m - 1) = Taken(d)
  BY <1>1, <1>2, CurrentMessage
<1>4. outq[d] \in Seq(Cell) /\ inq[d] \in Seq(Cell) /\ reader[d].fdq \in Seq(Nat)
  BY PartsType
<1>5. Places(t, written[d], Come(d), SentOn(d), Taken(d), ReadIn(d),
             received[d].fds, outq[d], FdsInHand(d), reader[d].fdq, inq[d])
  BY <1>1 DEF FdsTracking, InPlace
<1>6. PICK k \in Nat : k = FdEndOf(t, m) - FdEndOf(t, m - 1)
                       /\ k <= Len(reader[d].fdq)
  BY <1>1, <1>2, <1>3, <1>4, <1>5, TakenPlaces
<1>7. DeclaredFds(d) = k
  BY <1>1, <1>6 DEF DeclaredFds
<1>8. Len(reader[d].fdq) \in Nat
  BY <1>4, LenProperties
<1>9. k > MaxFds
  BY <1>3, <1>6, <1>7, <1>8
<1> QED BY <1>1, <1>3, <1>6, <1>9 DEF Crowded, TooMany, FdCount

LEMMA AcceptsStep ==
  ASSUME TypeOK, BytesInOrder, FdsTracking, AcceptsTraffic, [Next]_vars
  PROVE  AcceptsTraffic'
<1> DEFINE Excused == open # Peer \/ \E d \in Dir : Crowded(traffic[d])
<1>1. traffic' = traffic /\ (open # Peer => open' # Peer)
  BY DEF Next, Router, Receive, ReceiveEof, TakeMessage, SendSome, Writes, Reads,
         Closes, Stop, peers, vars, TypeOK
<1>2. Excused => AcceptsTraffic'
  BY <1>1 DEF AcceptsTraffic
<1>3. \A d \in Dir : Sender(d) \in Peer /\ Receiver(d) \in Peer
  BY DEF Dir, Peer, Sender, Receiver
<1>4. CASE running' = running
  BY <1>2, <1>4 DEF AcceptsTraffic
<1>5. CASE running' # running
  <2>1. ASSUME NEW d \in Dir, Receive(d) PROVE Excused
    <3>1. /\ chunk = <<>> /\ Avail(reader[d]) < Needed(d)
          /\ \E n \in 1..Len(inq[d]) :
               /\ Returns(inq[d], n)
               /\ Len(reader[d].fdq) + Len(FdsOf(inq[d], n)) > MaxFds
      BY <1>5, <2>1 DEF Receive, Polled
    <3> QED BY <3>1, ReceiveOverflows
  <2>2. ASSUME NEW d \in Dir, ReceiveEof(d) PROVE Excused
    BY <1>3, <2>2 DEF ReceiveEof, AtEof
  <2>3. ASSUME NEW d \in Dir, TakeMessage(d) PROVE Excused
    <3>1. /\ chunk = <<>> /\ Avail(reader[d]) >= Needed(d)
          /\ \/ ~HeaderOk(d)
             \/ DeclaredFds(d) > MaxFds
             \/ DeclaredFds(d) > Len(reader[d].fdq)
      BY <1>5, <2>3 DEF TakeMessage, Polled
    <3> QED BY <3>1, TakeRefused
  <2>4. ASSUME SendSome PROVE Excused
    BY <1>3, <1>5, <2>4 DEF SendSome, TypeOK
  <2>5. ~UNCHANGED vars /\ (\A d \in Dir : ~Writes(d) /\ ~Reads(d))
        /\ \A peer \in Peer : ~Closes(peer)
    BY <1>5 DEF Writes, Reads, Closes, vars
  <2> HIDE DEF Excused
  <2>6. Next
    BY <2>5
  <2>7. Excused
    BY <2>1, <2>2, <2>3, <2>4, <2>5, <2>6 DEF Next, Router
  <2> QED BY <1>2, <2>7
<1> QED BY <1>4, <1>5

-----------------------------------------------------------------------------
(* The messages that have come to their end.                                 *)

\* k messages end within the first n bytes.
EndsAfter(t, n, k) ==
  /\ k \in 0..Len(t)
  /\ EndOf(t, k) <= n
  /\ k < Len(t) => n < EndOf(t, k + 1)

LEMMA EndedIs ==
  ASSUME NEW t, Regular(t), NEW n \in Nat, NEW k, EndsAfter(t, n, k)
  PROVE  Ended(t, n) = k
<1>1. /\ Len(t) \in Nat /\ HeaderSize \in Nat /\ k \in 0..Len(t) /\ k \in Nat
      /\ \A m \in 0..Len(t) : EndOf(t, m) \in Nat
  BY EndTypes, FdStreamAssumption DEF EndsAfter
<1>2. ASSUME NEW m \in 1..Len(t) PROVE EndOf(t, m) <= n <=> m <= k
  <2>1. m \in 0..Len(t) /\ m \in Nat
    BY <1>1
  <2>2. PICK a \in Nat, b \in Nat : a = EndOf(t, m) /\ b = EndOf(t, k) /\ b <= n
    BY <1>1, <2>1 DEF EndsAfter
  <2>3. CASE m = k
    BY <2>1, <2>2, <2>3
  <2>4. CASE m < k
    <3>1. a + HeaderSize <= b
      BY <1>1, <2>1, <2>2, <2>4, EndsGrow
    <3>2. a <= n
      BY <1>1, <2>2, <3>1
    <3>3. EndOf(t, m) <= n
      BY <2>2, <3>2
    <3>4. m <= k
      BY <1>1, <2>1, <2>4
    <3> QED BY <3>3, <3>4
  <2>5. CASE k < m
    <3>1. k + 1 \in 0..Len(t) /\ k < Len(t)
      BY <1>1, <2>1, <2>5
    <3>2. PICK c \in Nat : c = EndOf(t, k + 1) /\ n < c
      BY <1>1, <3>1 DEF EndsAfter
    <3>3. CASE m = k + 1
      <4>1. n < a
        BY <2>2, <3>2, <3>3
      <4> QED BY <1>1, <2>1, <2>2, <2>5, <4>1
    <3>4. CASE k + 1 < m
      <4>1. c + HeaderSize <= a
        BY <2>1, <2>2, <3>1, <3>2, <3>4, EndsGrow
      <4>2. n < a
        BY <1>1, <3>2, <4>1
      <4> QED BY <1>1, <2>1, <2>2, <2>5, <4>2
    <3> QED BY <1>1, <2>1, <2>5, <3>3, <3>4
  <2> QED BY <1>1, <2>1, <2>3, <2>4, <2>5
<1>3. {m \in 1..Len(t) : EndOf(t, m) <= n} = 1..k
  <2>1. 1..k \subseteq 1..Len(t)
    BY <1>1
  <2>2. \A m \in 1..Len(t) : m \in 1..k <=> m <= k
    BY <1>1
  <2> QED BY <1>2, <2>1, <2>2
<1>4. Cardinality(1..k) = k
  <2>1. 1 \in Int /\ k \in Int
    BY <1>1
  <2>2. Cardinality(1..k) = IF 1 > k THEN 0 ELSE k - 1 + 1
    BY <2>1, FS_Interval
  <2> QED BY <1>1, <2>2
<1> QED BY <1>3, <1>4 DEF Ended

LEMMA SomeEnded ==
  ASSUME NEW t, Regular(t), NEW n \in Nat
  PROVE  EndsAfter(t, n, Ended(t, n))
<1>1. Len(t) \in Nat /\ EndOf(t, 0) = 0
  BY EndTypes
<1>2. PICK s : s = {m \in 1..Len(t) : EndOf(t, m) <= n}
  OBVIOUS
<1>3. CASE s = {}
  <2>1. EndsAfter(t, n, 0)
    <3>1. Len(t) > 0 => 1 \in 1..Len(t)
      BY <1>1
    <3>2. Len(t) > 0 => ~(EndOf(t, 1) <= n)
      BY <1>2, <1>3, <3>1
    <3>3. Len(t) > 0 => EndOf(t, 1) \in Nat
      <4>1. Len(t) > 0 => 1 \in 0..Len(t)
        BY <1>1
      <4> QED BY <4>1, EndTypes
    <3>4. 0 < Len(t) => n < EndOf(t, 1)
      BY <1>1, <3>2, <3>3
    <3> QED BY <1>1, <3>4 DEF EndsAfter
  <2> QED BY <2>1, EndedIs
<1>4. CASE s # {}
  <2>1. PICK k : k \in s /\ \A y \in s : y <= k
    BY <1>1, <1>2, <1>4, LastPosition
  <2>2. k \in 1..Len(t) /\ EndOf(t, k) <= n /\ k \in 0..Len(t) /\ k \in Nat
    BY <1>1, <1>2, <2>1
  <2>3. k < Len(t) => n < EndOf(t, k + 1)
    <3> SUFFICES ASSUME k < Len(t) PROVE n < EndOf(t, k + 1)
      OBVIOUS
    <3>1. k + 1 \in 1..Len(t) /\ k + 1 \in 0..Len(t) /\ ~(k + 1 <= k)
      BY <1>1, <2>2
    <3>2. ~(EndOf(t, k + 1) <= n)
      BY <1>2, <2>1, <3>1
    <3>3. EndOf(t, k + 1) \in Nat
      BY <3>1, EndTypes
    <3> QED BY <3>2, <3>3
  <2>4. EndsAfter(t, n, k)
    BY <2>2, <2>3 DEF EndsAfter
  <2> QED BY <2>4, EndedIs
<1> QED BY <1>3, <1>4

LEMMA EndedGrows ==
  ASSUME NEW t, Regular(t), NEW a \in Nat, NEW b \in Nat, a <= b
  PROVE  /\ Ended(t, a) \in 0..Len(t) /\ Ended(t, b) \in 0..Len(t)
         /\ Ended(t, a) <= Ended(t, b)
<1>1. PICK i, j : i = Ended(t, a) /\ j = Ended(t, b)
  OBVIOUS
<1>2. EndsAfter(t, a, i) /\ EndsAfter(t, b, j)
  BY <1>1, SomeEnded
<1>3. /\ Len(t) \in Nat /\ i \in 0..Len(t) /\ j \in 0..Len(t)
      /\ HeaderSize \in Nat
  BY <1>2, EndTypes, FdStreamAssumption DEF EndsAfter
<1>4. ASSUME j < i PROVE FALSE
  <2>1. j + 1 \in 0..Len(t) /\ j < Len(t)
    BY <1>3, <1>4
  <2>2. PICK x \in Nat, y \in Nat : /\ x = EndOf(t, i) /\ y = EndOf(t, j + 1)
                                    /\ x <= a /\ b < y
    BY <1>2, <1>3, <2>1, EndTypes DEF EndsAfter
  <2>3. x < y
    BY <2>2
  <2>4. CASE i = j + 1
    BY <2>2, <2>3, <2>4
  <2>5. CASE j + 1 < i
    <3>1. y + HeaderSize <= x
      BY <1>3, <2>1, <2>2, <2>5, EndsGrow
    <3> QED BY <1>3, <2>2, <2>3, <3>1
  <2> QED BY <1>3, <1>4, <2>4, <2>5
<1> QED BY <1>1, <1>3, <1>4

\* A prefix of the numbers from 1 on.
LEMMA IntervalPrefix ==
  ASSUME NEW a \in Seq(Nat), NEW b \in Seq(Nat), NEW n \in Nat,
         a \o b = Interval(0, n)
  PROVE  a = Interval(0, Len(a)) /\ Len(a) <= n
<1>1. Len(a) \in Nat /\ Len(b) \in Nat
  BY LenProperties
<1>2. /\ Len(a \o b) = Len(a) + Len(b)
      /\ \A i \in 1..Len(a) + Len(b) :
           (a \o b)[i] = IF i <= Len(a) THEN a[i] ELSE b[i - Len(a)]
  BY ConcatProperties
<1>3. PICK s : s = Interval(0, n) /\ Len(s) = n /\ \A i \in 1..n : s[i] = i
  <2>1. PICK s : s = Interval(0, n)
    OBVIOUS
  <2>2. 0 \in Nat /\ 0 <= n
    OBVIOUS
  <2>3. Len(s) = n - 0 /\ \A i \in 1..n - 0 : s[i] = 0 + i
    BY <2>1, <2>2, IntervalType
  <2>4. n - 0 = n /\ \A i \in 1..n : 0 + i = i
    OBVIOUS
  <2> QED BY <2>1, <2>3, <2>4
<1>4. n = Len(a) + Len(b)
  BY <1>2, <1>3
<1>5. PICK r : r = Interval(0, Len(a))
  OBVIOUS
<1>6. /\ r \in Seq(Nat) /\ Len(r) = Len(a)
      /\ \A i \in 1..Len(a) : r[i] = i
  <2>1. 0 \in Nat /\ 0 <= Len(a)
    BY <1>1
  <2>2. /\ r \in Seq(Nat) /\ Len(r) = Len(a) - 0
        /\ \A i \in 1..Len(a) - 0 : r[i] = 0 + i
    BY <1>1, <1>5, <2>1, IntervalType
  <2>3. Len(a) - 0 = Len(a) /\ \A i \in 1..Len(a) : 0 + i = i
    BY <1>1
  <2> QED BY <2>2, <2>3
<1>7. ASSUME NEW i \in 1..Len(a) PROVE a[i] = r[i]
  <2>1. i \in 1..Len(a) + Len(b) /\ i <= Len(a) /\ i \in 1..n
    BY <1>1, <1>4
  <2>2. (a \o b)[i] = a[i]
    BY <1>2, <2>1
  <2>3. (a \o b)[i] = s[i]
    BY <1>3
  <2> QED BY <1>3, <1>6, <2>1, <2>2, <2>3
<1>8. a = r
  BY <1>6, <1>7, SeqEqual
<1> QED BY <1>1, <1>4, <1>5, <1>8

\* A clipping of the numbers from 1 on does not depend on how far they go.
LEMMA ClipInterval ==
  ASSUME NEW a \in Nat, NEW b \in Nat, NEW n \in Nat, a <= b, b <= n
  PROVE  Clip(Interval(0, n), a, b) = Interval(a, b)
<1>1. PICK s : s = Interval(0, n)
  OBVIOUS
<1>2. s \in Seq(Nat) /\ Len(s) = n /\ \A i \in 1..n : s[i] = i
  <2>1. 0 \in Nat /\ 0 <= n
    OBVIOUS
  <2>2. /\ s \in Seq(Nat) /\ Len(s) = n - 0
        /\ \A i \in 1..n - 0 : s[i] = 0 + i
    BY <1>1, <2>1, IntervalType
  <2>3. n - 0 = n /\ \A i \in 1..n : 0 + i = i
    OBVIOUS
  <2> QED BY <2>2, <2>3
<1>3. Min({b, n}) = b
  <2>1. \A x \in {b, n} : (\A y \in {b, n} : x <= y) <=> x = b
    OBVIOUS
  <2>2. b \in {b, n}
    OBVIOUS
  <2> QED BY <2>1, <2>2 DEF Min
<1>4. PICK c : c = SubSeq(s, a + 1, b)
  OBVIOUS
<1>5. /\ c \in Seq(Nat) /\ Len(c) = b - a
      /\ \A i \in 1..b - a : c[i] = a + i
  <2>1. \A i \in a + 1..b : s[i] \in Nat /\ s[i] = i
    BY <1>2
  <2>2. a + 1 \in Int /\ b \in Int
    OBVIOUS
  <2>3. /\ c \in Seq(Nat)
        /\ Len(c) = IF a + 1 <= b THEN b - (a + 1) + 1 ELSE 0
        /\ \A i \in 1..b - (a + 1) + 1 : c[i] = s[(a + 1) + i - 1]
    BY <1>4, <2>1, <2>2, SubSeqProperties
  <2>4. ASSUME NEW i \in 1..b - a PROVE c[i] = a + i
    <3>1. i \in 1..b - (a + 1) + 1 /\ (a + 1) + i - 1 = a + i /\ a + i \in 1..n
      OBVIOUS
    <3> QED BY <1>2, <2>3, <3>1
  <2> QED BY <2>3, <2>4
<1>6. PICK r : r = Interval(a, b)
  OBVIOUS
<1>7. r \in Seq(Nat) /\ Len(r) = b - a /\ \A i \in 1..b - a : r[i] = a + i
  BY <1>6, IntervalType
<1>8. c = r
  BY <1>5, <1>7, SeqEqual
<1> QED BY <1>1, <1>2, <1>3, <1>4, <1>6, <1>8 DEF Clip

\* What is a message, and that a prefix of the traffic is cut into its first
\* messages.
AMessage == [bytes : Seq(Nat), fds : Seq(Nat)]

AllWithin(t, g, f, n) ==
  \A m \in 1..n : EndOf(t, m) <= g /\ FdEndOf(t, m) <= f

LEMMA MessagesInType ==
  ASSUME NEW t, Regular(t), NEW g \in Nat, NEW f \in Nat, NEW n \in 0..Len(t),
         AllWithin(t, g, f, n)
  PROVE  /\ MessagesIn(t, Interval(0, g), Interval(0, f), n) \in Seq(AMessage)
         /\ Len(MessagesIn(t, Interval(0, g), Interval(0, f), n)) = n
         /\ \A m \in 1..n :
              MessagesIn(t, Interval(0, g), Interval(0, f), n)[m] =
                [bytes |-> Interval(EndOf(t, m - 1), EndOf(t, m)),
                 fds   |-> Interval(FdEndOf(t, m - 1), FdEndOf(t, m))]
<1>1. Len(t) \in Nat /\ HeaderSize \in Nat
  BY EndTypes, FdStreamAssumption
<1>2. PICK s : s = MessagesIn(t, Interval(0, g), Interval(0, f), n)
  OBVIOUS
<1>3. ASSUME NEW m \in 1..n
      PROVE  /\ s[m] = [bytes |-> Interval(EndOf(t, m - 1), EndOf(t, m)),
                        fds   |-> Interval(FdEndOf(t, m - 1), FdEndOf(t, m))]
             /\ s[m] \in AMessage
  <2>1. m \in 0..Len(t) /\ m - 1 \in 0..Len(t) /\ m - 1 < m
    BY <1>1
  <2>2. PICK a \in Nat, b \in Nat, c \in Nat, d \in Nat :
          /\ a = EndOf(t, m - 1) /\ b = EndOf(t, m)
          /\ c = FdEndOf(t, m - 1) /\ d = FdEndOf(t, m)
    BY <2>1, EndTypes
  <2>3. a <= b /\ c <= d /\ b <= g /\ d <= f
    <3>1. a + HeaderSize <= b /\ c <= d
      BY <2>1, <2>2, EndsGrow
    <3>2. b <= g /\ d <= f
      BY <2>2 DEF AllWithin
    <3> QED BY <1>1, <3>1, <3>2
  <2>4. /\ Clip(Interval(0, g), a, b) = Interval(a, b)
        /\ Clip(Interval(0, f), c, d) = Interval(c, d)
    BY <2>3, ClipInterval
  <2>5. Interval(a, b) \in Seq(Nat) /\ Interval(c, d) \in Seq(Nat)
    BY <2>3, IntervalType
  <2>6. s[m] = [bytes |-> Clip(Interval(0, g), a, b),
                fds   |-> Clip(Interval(0, f), c, d)]
    BY <1>2, <2>2 DEF MessagesIn
  <2>7. s[m] = [bytes |-> Interval(a, b), fds |-> Interval(c, d)]
    BY <2>4, <2>6
  <2>8. s[m] \in AMessage
    BY <2>5, <2>7 DEF AMessage
  <2> QED BY <2>2, <2>7, <2>8
<1>4. s = [m \in 1..n |-> s[m]]
  BY <1>2 DEF MessagesIn
<1>5. s \in [1..n -> AMessage]
  BY <1>3, <1>4
<1>6. s \in Seq(AMessage) /\ Len(s) = n
  <2>1. n \in Nat
    OBVIOUS
  <2> QED BY <1>5, <2>1, FunctionType
<1> QED BY <1>2, <1>3, <1>6

\* The messages of a traffic.
LEMMA MessagesOfType ==
  ASSUME NEW t, Regular(t)
  PROVE  /\ MessagesOf(t) \in Seq(AMessage) /\ Len(MessagesOf(t)) = Len(t)
         /\ \A m \in 1..Len(t) :
              MessagesOf(t)[m] =
                [bytes |-> Interval(EndOf(t, m - 1), EndOf(t, m)),
                 fds   |-> Interval(FdEndOf(t, m - 1), FdEndOf(t, m))]
<1>1. /\ Len(t) \in Nat /\ Len(t) \in 0..Len(t) /\ HeaderSize \in Nat
      /\ \A m \in 0..Len(t) : EndOf(t, m) \in Nat /\ FdEndOf(t, m) \in Nat
  BY EndTypes, FdStreamAssumption
<1>2. PICK g \in Nat, f \in Nat : g = EndOf(t, Len(t)) /\ f = FdEndOf(t, Len(t))
  BY <1>1
<1>3. ASSUME NEW m \in 1..Len(t) PROVE EndOf(t, m) <= g /\ FdEndOf(t, m) <= f
  <2>1. CASE m = Len(t)
    BY <1>2, <2>1
  <2>2. CASE m # Len(t)
    <3>1. m \in 0..Len(t) /\ m < Len(t)
      BY <1>1, <2>2
    <3>2. PICK a \in Nat, b \in Nat : a = EndOf(t, m) /\ b = FdEndOf(t, m)
      BY <1>1, <3>1
    <3>3. a + HeaderSize <= g /\ b <= f
      BY <1>1, <1>2, <3>1, <3>2, EndsGrow
    <3> QED BY <1>1, <3>2, <3>3
  <2> QED BY <2>1, <2>2
<1>4. MessagesOf(t) = MessagesIn(t, Interval(0, g), Interval(0, f), Len(t))
  BY <1>2 DEF MessagesOf
<1>5. AllWithin(t, g, f, Len(t))
  BY <1>3 DEF AllWithin
<1>6. /\ MessagesIn(t, Interval(0, g), Interval(0, f), Len(t)) \in Seq(AMessage)
      /\ Len(MessagesIn(t, Interval(0, g), Interval(0, f), Len(t))) = Len(t)
      /\ \A m \in 1..Len(t) :
           MessagesIn(t, Interval(0, g), Interval(0, f), Len(t))[m] =
             [bytes |-> Interval(EndOf(t, m - 1), EndOf(t, m)),
              fds   |-> Interval(FdEndOf(t, m - 1), FdEndOf(t, m))]
  BY ZenonT(40), <1>1, <1>5, MessagesInType
<1> QED BY Zenon, <1>4, <1>6

\* What has arrived are the first messages, as many as have come to their end.
LEMMA ArrivedMessages ==
  ASSUME NEW t, Regular(t), NEW g \in 0..Total(t)
  PROVE  MessagesIn(t, Interval(0, g), FdsBetween(t, 0, g), Ended(t, g))
           = SubSeq(MessagesOf(t), 1, Ended(t, g))
<1>1. /\ Len(t) \in Nat /\ HeaderSize \in Nat /\ Total(t) \in Nat /\ g \in Nat
      /\ \A m \in 0..Len(t) : EndOf(t, m) \in Nat /\ FdEndOf(t, m) \in Nat
  BY EndTypes, FdStreamAssumption DEF Total
<1>2. PICK n \in 0..Len(t) : n = Ended(t, g) /\ EndOf(t, n) <= g
  BY <1>1, SomeEnded DEF EndsAfter
<1>3. PICK f \in Nat : f = FdsBy(t, g)
  BY FdsByType
<1>4. FdsBetween(t, 0, g) = Interval(0, f)
  BY <1>3 DEF FdsBetween, FdsBy
<1>5. ASSUME NEW m \in 1..n PROVE EndOf(t, m) <= g /\ FdEndOf(t, m) <= f
  <2>1. m \in 0..Len(t) /\ (m = n \/ m < n) /\ n \in 0..Len(t)
    BY <1>1
  <2>2. PICK a \in Nat, b \in Nat : a = EndOf(t, m) /\ b = EndOf(t, n)
    BY <1>1, <2>1
  <2>3. a <= b
    <3>1. CASE m = n
      BY <2>2, <3>1
    <3>2. CASE m < n
      <4>1. a + HeaderSize <= b
        BY <2>1, <2>2, <3>2, EndsGrow
      <4> QED BY <1>1, <4>1
    <3> QED BY <2>1, <3>1, <3>2
  <2>4. a <= g
    BY <1>1, <1>2, <2>2, <2>3
  <2>5. FdsBy(t, a) <= f /\ FdsBy(t, a) = FdEndOf(t, m)
    BY <1>3, <2>1, <2>2, <2>4, FdsGrow, FdsByEnd
  <2> QED BY <2>2, <2>4, <2>5
<1>6. PICK s, all : /\ s = MessagesIn(t, Interval(0, g), Interval(0, f), n)
                    /\ all = MessagesOf(t)
  OBVIOUS
<1>7. /\ s \in Seq(AMessage) /\ Len(s) = n
      /\ \A m \in 1..n :
           s[m] = [bytes |-> Interval(EndOf(t, m - 1), EndOf(t, m)),
                   fds   |-> Interval(FdEndOf(t, m - 1), FdEndOf(t, m))]
  <2>1. AllWithin(t, g, f, n)
    BY <1>5 DEF AllWithin
  <2>2. /\ MessagesIn(t, Interval(0, g), Interval(0, f), n) \in Seq(AMessage)
        /\ Len(MessagesIn(t, Interval(0, g), Interval(0, f), n)) = n
        /\ \A m \in 1..n :
             MessagesIn(t, Interval(0, g), Interval(0, f), n)[m] =
               [bytes |-> Interval(EndOf(t, m - 1), EndOf(t, m)),
                fds   |-> Interval(FdEndOf(t, m - 1), FdEndOf(t, m))]
    BY ZenonT(40), <1>1, <2>1, MessagesInType
  <2> QED BY Zenon, <1>6, <2>2
<1>8. /\ all \in Seq(AMessage) /\ Len(all) = Len(t)
      /\ \A m \in 1..Len(t) :
           all[m] = [bytes |-> Interval(EndOf(t, m - 1), EndOf(t, m)),
                     fds   |-> Interval(FdEndOf(t, m - 1), FdEndOf(t, m))]
  BY <1>6, MessagesOfType
<1>9. PICK r : r = SubSeq(all, 1, n)
  OBVIOUS
<1>10. r \in Seq(AMessage) /\ Len(r) = n /\ \A m \in 1..n : r[m] = all[m]
  <2>1. n \in 0..Len(all)
    BY <1>8
  <2> QED BY <1>8, <1>9, <2>1, RestType
<1>11. ASSUME NEW m \in 1..n PROVE s[m] = r[m]
  <2>1. m \in 1..Len(t)
    BY <1>1
  <2>2. /\ s[m] = [bytes |-> Interval(EndOf(t, m - 1), EndOf(t, m)),
                   fds   |-> Interval(FdEndOf(t, m - 1), FdEndOf(t, m))]
        /\ r[m] = all[m]
    BY <1>7, <1>10
  <2>3. all[m] = [bytes |-> Interval(EndOf(t, m - 1), EndOf(t, m)),
                  fds   |-> Interval(FdEndOf(t, m - 1), FdEndOf(t, m))]
    BY <1>8, <2>1
  <2> QED BY <2>2, <2>3
<1>12. s = r
  <2>1. Len(s) = Len(r) /\ \A m \in 1..Len(s) : s[m] = r[m]
    BY <1>7, <1>10, <1>11
  <2> QED BY <1>7, <1>10, <2>1, SeqEqual
<1> QED BY <1>2, <1>4, <1>6, <1>9, <1>12

\* One more message is put, or more of those put are delivered.
LEMMA PutOne ==
  ASSUME NEW t, Regular(t), NEW w \in Nat, NEW m \in 1..Len(t),
         EndOf(t, m - 1) <= w, w < EndOf(t, m), NEW n \in Nat,
         w + n <= EndOf(t, m)
  PROVE  \/ Ended(t, w + n) = Ended(t, w)
         \/ SubSeq(MessagesOf(t), 1, Ended(t, w + n))
              = Append(SubSeq(MessagesOf(t), 1, Ended(t, w)), MessagesOf(t)[m])
<1>1. /\ Len(t) \in Nat /\ m \in 0..Len(t) /\ m - 1 \in 0..Len(t)
      /\ (m - 1) + 1 = m /\ m - 1 < Len(t) /\ HeaderSize \in Nat \ {0}
  BY EndTypes, FdStreamAssumption
<1>2. EndsAfter(t, w, m - 1)
  BY <1>1 DEF EndsAfter
<1>3. Ended(t, w) = m - 1
  BY <1>2, EndedIs
<1>4. PICK a \in Nat, b \in Nat : a = EndOf(t, m - 1) /\ b = EndOf(t, m)
  BY <1>1, EndTypes
<1>5. PICK j \in Nat : j = w + n /\ a <= j /\ j <= b
  BY <1>4
<1>6. CASE j < b
  <2>1. EndsAfter(t, j, m - 1)
    BY <1>1, <1>4, <1>5, <1>6 DEF EndsAfter
  <2> QED BY <1>3, <1>5, <2>1, EndedIs
<1>7. CASE ~(j < b)
  <2>1. j = b
    BY <1>5, <1>7
  <2>2. m < Len(t) => j < EndOf(t, m + 1)
    <3> SUFFICES ASSUME m < Len(t) PROVE j < EndOf(t, m + 1)
      OBVIOUS
    <3>1. m + 1 \in 0..Len(t) /\ m < m + 1
      BY <1>1
    <3>2. PICK c \in Nat : c = EndOf(t, m + 1)
      BY <3>1, EndTypes
    <3>3. b + HeaderSize <= c
      BY <1>1, <1>4, <3>1, <3>2, EndsGrow
    <3>4. j < c
      BY <1>1, <2>1, <3>3
    <3> QED BY <3>2, <3>4
  <2>3. EndsAfter(t, j, m)
    BY <1>1, <1>4, <2>1, <2>2 DEF EndsAfter
  <2>4. Ended(t, j) = m
    BY <2>3, EndedIs
  <2>5. PICK all \in Seq(AMessage) : all = MessagesOf(t) /\ Len(all) = Len(t)
    BY MessagesOfType
  <2>6. SubSeq(all, 1, m) = SubSeq(all, 1, m - 1) \o <<all[m]>>
    <3>1. 1 \in 1..Len(all) /\ m \in 1..Len(all)
      BY <2>5
    <3> QED BY <3>1, SubSeqRecursiveSecond
  <2>7. Append(SubSeq(all, 1, m - 1), all[m]) = SubSeq(all, 1, m - 1) \o <<all[m]>>
    <3>1. all[m] \in AMessage
      BY <2>5, ElementOfSeq
    <3>2. m - 1 \in 0..Len(all)
      BY <1>1, <2>5
    <3>3. SubSeq(all, 1, m - 1) \in Seq(AMessage)
      BY <3>2, RestType
    <3> QED BY <3>1, <3>3, AppendIsConcat
  <2> QED BY <1>3, <1>5, <2>4, <2>5, <2>6, <2>7
<1> QED BY <1>6, <1>7

-----------------------------------------------------------------------------
(* The channel between the two peers.                                        *)

Begins(a, s) == \E z \in Seq(Nat) : s = a \o z

LEMMA BeginsOn ==
  ASSUME NEW a \in Seq(Nat), NEW s \in Seq(Nat), NEW b \in Seq(Nat),
         Begins(a, s)
  PROVE  s \o b \in Seq(Nat) /\ Begins(a, s \o b)
<1>1. PICK z \in Seq(Nat) : s = a \o z
  BY DEF Begins
<1>2. (a \o z) \o b = a \o (z \o b) /\ z \o b \in Seq(Nat)
  BY SMTT(30), ConcatProperties, ConcatAssociative
<1>3. s \o b \in Seq(Nat)
  BY ConcatProperties
<1> QED BY <1>1, <1>2, <1>3 DEF Begins

LEMMA WhatArrives ==
  ASSUME TypeOK, BytesInOrder, FdsTracking, NEW d \in Dir
  PROVE  /\ Come(d) \in Nat /\ Come(d) <= written[d] /\ written[d] \in Nat
         /\ Delivered(d) =
              SubSeq(MessagesOf(traffic[d]), 1, Ended(traffic[d], Come(d)))
<1>1. PICK t, g : t = traffic[d] /\ g = Come(d) /\ Regular(t)
  BY TrafficIsRegular
<1>2. received[d].fds = FdsBetween(t, 0, g) /\ written[d] <= Total(t)
  BY <1>1 DEF FdsTracking, InPlace, Places, Positions
<1>3. received[d].bytes = Interval(0, g) /\ g <= written[d] /\ g \in Nat
  <2>1. PICK a \in Seq(Nat), b \in Seq(Nat), c \in Seq(Nat), u \in Seq(Nat),
             y \in Seq(Nat) :
          /\ a = received[d].bytes /\ b = BytesOf(outq[d]) /\ c = Chunk(d)
          /\ u = Unread(reader[d]) /\ y = BytesOf(inq[d])
    BY PartsType
  <2>2. Begins(a, a \o b) /\ a \o b \in Seq(Nat)
    BY ConcatProperties DEF Begins
  <2>3. PICK p \in Seq(Nat) : p = a \o b
    BY <2>2
  <2>4. PICK q \in Seq(Nat) : q = p \o c /\ Begins(a, q)
    BY <2>2, <2>3, BeginsOn
  <2>5. PICK r \in Seq(Nat) : r = q \o u /\ Begins(a, r)
    BY <2>4, BeginsOn
  <2>6. PICK z \in Seq(Nat) : r \o y = a \o z
    <3>1. Begins(a, r \o y)
      BY <2>5, BeginsOn
    <3> QED BY <3>1 DEF Begins
  <2>7. PICK w \in Nat : w = written[d]
    BY DEF TypeOK
  <2>8. a = Interval(0, Len(a)) /\ Len(a) <= w
    <3>1. ((a \o b \o c) \o u) \o y = Interval(0, w)
      BY <2>1, <2>7 DEF BytesInOrder, Stream
    <3>2. a \o z = Interval(0, w)
      BY Zenon, <2>3, <2>4, <2>5, <2>6, <3>1
    <3> QED BY <3>2, IntervalPrefix
  <2>9. Len(a) = g /\ Len(a) \in Nat
    BY <1>1, <2>1, LenProperties DEF Come
  <2> QED BY <2>1, <2>7, <2>8, <2>9
<1>4. g \in 0..Total(t)
  <2>1. Total(t) \in Nat /\ written[d] \in Nat
    BY SMTT(60), <1>1, EndTypes DEF Total, TypeOK
  <2> QED BY <1>2, <1>3, <2>1
<1>5. MessagesIn(t, Interval(0, g), FdsBetween(t, 0, g), Ended(t, g))
        = SubSeq(MessagesOf(t), 1, Ended(t, g))
  BY <1>1, <1>4, ArrivedMessages
<1>6. Delivered(d) = SubSeq(MessagesOf(t), 1, Ended(t, g))
  BY <1>1, <1>2, <1>3, <1>5 DEF Delivered, Come
<1>7. written[d] \in Nat
  BY DEF TypeOK
<1> QED BY <1>1, <1>3, <1>6, <1>7

\* What a step may do to what is put and delivered in one direction.
PutsOne(d) ==
  /\ \E m \in AnyMessage : Put(d)' = Append(Put(d), m)
  /\ Delivered(d)' = Delivered(d)
DeliversSome(d) ==
  /\ \E n \in Len(Delivered(d)) + 1..Len(Put(d)) :
       Delivered(d)' = SubSeq(Put(d), 1, n)
  /\ Put(d)' = Put(d)
ChannelStep(d) ==
  \/ PutsOne(d) \/ DeliversSome(d)
  \/ Put(d)' = Put(d) /\ Delivered(d)' = Delivered(d)

LEMMA WritesPuts ==
  ASSUME TypeOK, NEW d \in Dir, NEW e \in Dir, Writes(e)
  PROVE  ChannelStep(d)
<1>1. traffic' = traffic /\ received' = received
  BY DEF Writes
<1>2. Delivered(d)' = Delivered(d)
  BY <1>1 DEF Delivered
<1>3. CASE d # e
  <2>1. written'[d] = written[d]
    BY <1>3 DEF Writes, TypeOK
  <2> QED BY <1>1, <1>2, <2>1 DEF ChannelStep, Put
<1>4. CASE d = e
  <2>1. PICK m \in 1..Len(traffic[d]) :
          /\ EndOf(traffic[d], m - 1) <= written[d]
          /\ written[d] < EndOf(traffic[d], m)
          /\ \E n \in 1..(EndOf(traffic[d], m) - written[d]) :
               written' = [written EXCEPT ![d] = @ + n]
    BY <1>4 DEF Writes
  <2>2. PICK n \in 1..(EndOf(traffic[d], m) - written[d]) :
          written' = [written EXCEPT ![d] = @ + n]
    BY <2>1
  <2>3. PICK t, w : t = traffic[d] /\ w = written[d] /\ Regular(t)
    BY TrafficIsRegular
  <2>4. PICK b \in Nat : b = EndOf(t, m)
    <3>1. m \in 0..Len(t)
      BY <2>3, EndTypes
    <3> QED BY <2>3, <3>1, EndTypes
  <2>5. /\ w \in Nat /\ n \in Nat /\ w + n <= b /\ written'[d] = w + n
    BY SMTT(60), <2>2, <2>3, <2>4 DEF TypeOK
  <2>6. \/ Ended(t, w + n) = Ended(t, w)
        \/ SubSeq(MessagesOf(t), 1, Ended(t, w + n))
             = Append(SubSeq(MessagesOf(t), 1, Ended(t, w)), MessagesOf(t)[m])
    <3>1. /\ EndOf(t, m - 1) <= w /\ w < EndOf(t, m) /\ w + n <= EndOf(t, m)
          /\ m \in 1..Len(t)
      BY <2>1, <2>3, <2>4, <2>5
    <3> QED BY ZenonT(30), <2>3, <2>5, <3>1, PutOne
  <2>7. /\ Put(d) = SubSeq(MessagesOf(t), 1, Ended(t, w))
        /\ Put(d)' = SubSeq(MessagesOf(t), 1, Ended(t, w + n))
    BY <1>1, <2>3, <2>5 DEF Put
  <2>8. MessagesOf(t)[m] \in AnyMessage
    <3>1. PICK s \in Seq(AMessage) : s = MessagesOf(t) /\ Len(s) = Len(t)
      BY <2>3, MessagesOfType
    <3>2. DOMAIN s = 1..Len(s)
      BY LenProperties
    <3>3. s[m] \in ToSet(s)
      BY <2>3, <3>1, <3>2 DEF ToSet
    <3>4. traffic \in Traffics
      BY DEF TypeOK
    <3> QED BY <2>3, <3>1, <3>3, <3>4 DEF AnyMessage
  <2>9. CASE Ended(t, w + n) = Ended(t, w)
    BY <1>2, <2>7, <2>9 DEF ChannelStep
  <2>10. CASE SubSeq(MessagesOf(t), 1, Ended(t, w + n))
                = Append(SubSeq(MessagesOf(t), 1, Ended(t, w)), MessagesOf(t)[m])
    BY <1>2, <2>7, <2>8, <2>10 DEF ChannelStep, PutsOne
  <2> QED BY <2>6, <2>9, <2>10
<1> QED BY <1>3, <1>4

Arrivals ==
  \A d \in Dir :
    /\ Come(d) \in Nat /\ Come(d) <= written[d]
    /\ Delivered(d) =
         SubSeq(MessagesOf(traffic[d]), 1, Ended(traffic[d], Come(d)))

LEMMA ArrivalsHold == TypeOK /\ BytesInOrder /\ FdsTracking => Arrivals
BY WhatArrives DEF Arrivals

LEMMA ReadsDelivers ==
  ASSUME TypeOK, BytesInOrder, FdsTracking, Arrivals', NEW d \in Dir,
         traffic' = traffic, written' = written, Come(d)' >= Come(d)
  PROVE  ChannelStep(d)
<1>1. PICK t, g, h, w :
        /\ t = traffic[d] /\ g = Come(d) /\ h = Come(d)' /\ w = written[d]
        /\ Regular(t)
  BY TrafficIsRegular
<1>2. /\ g \in Nat /\ w \in Nat
      /\ Delivered(d) = SubSeq(MessagesOf(t), 1, Ended(t, g))
  BY <1>1, WhatArrives
<1>3. /\ h \in Nat /\ h <= w
      /\ Delivered(d)' = SubSeq(MessagesOf(t), 1, Ended(t, h))
  <2>1. /\ Come(d)' \in Nat /\ Come(d)' <= written'[d]
        /\ Delivered(d)' =
             SubSeq(MessagesOf(traffic'[d]), 1, Ended(traffic'[d], Come(d)'))
    BY DEF Arrivals
  <2> QED BY <1>1, <2>1
<1>4. Put(d) = SubSeq(MessagesOf(t), 1, Ended(t, w)) /\ Put(d)' = Put(d)
  BY <1>1 DEF Put
<1>5. PICK i \in 0..Len(t), j \in 0..Len(t), k \in 0..Len(t) :
        /\ i = Ended(t, g) /\ j = Ended(t, h) /\ k = Ended(t, w)
        /\ i <= j /\ j <= k
  <2>1. g <= h
    BY <1>1, <1>2, <1>3
  <2>2. /\ Ended(t, g) \in 0..Len(t) /\ Ended(t, h) \in 0..Len(t)
        /\ Ended(t, g) <= Ended(t, h)
    BY <1>1, <1>2, <1>3, <2>1, EndedGrows
  <2>3. Ended(t, w) \in 0..Len(t) /\ Ended(t, h) <= Ended(t, w)
    BY <1>1, <1>2, <1>3, EndedGrows
  <2> QED BY <2>2, <2>3
<1>6. PICK s \in Seq(AMessage) : s = MessagesOf(t) /\ Len(s) = Len(t)
  BY <1>1, MessagesOfType
<1>7. CASE i = j
  BY <1>2, <1>3, <1>4, <1>5, <1>7 DEF ChannelStep
<1>8. CASE i # j
  <2>1. Len(t) \in Nat /\ i \in 0..Len(s) /\ k \in 0..Len(s)
    BY <1>1, <1>6, EndTypes
  <2>2. Len(SubSeq(s, 1, i)) = i /\ Len(SubSeq(s, 1, k)) = k
    BY <2>1, RestType
  <2>3. j \in i + 1..k
    BY <1>5, <1>8, <2>1
  <2>4. SubSeq(SubSeq(s, 1, k), 1, j) = SubSeq(s, 1, j)
    <3>1. PICK p \in Seq(AMessage) : p = SubSeq(s, 1, k)
      BY <2>1, RestType
    <3>2. /\ Len(p) = k /\ \A m \in 1..k : p[m] = s[m]
      BY <2>1, <3>1, RestType
    <3>3. PICK q, r : q = SubSeq(p, 1, j) /\ r = SubSeq(s, 1, j)
      OBVIOUS
    <3>4. j \in 0..Len(p) /\ j \in 0..Len(s)
      BY <1>5, <1>6, <3>2
    <3>5. q \in Seq(AMessage) /\ Len(q) = j /\ \A m \in 1..j : q[m] = p[m]
      BY <3>3, <3>4, RestType
    <3>6. r \in Seq(AMessage) /\ Len(r) = j /\ \A m \in 1..j : r[m] = s[m]
      BY <3>3, <3>4, RestType
    <3>7. \A m \in 1..j : m \in 1..k
      BY <1>5, <2>1
    <3>8. q = r
      BY <3>2, <3>5, <3>6, <3>7, SeqEqual
    <3> QED BY <3>1, <3>3, <3>8
  <2>5. /\ Len(Delivered(d)) = i /\ Len(Put(d)) = k
        /\ Delivered(d)' = SubSeq(Put(d), 1, j)
    BY <1>2, <1>3, <1>4, <1>5, <1>6, <2>2, <2>4
  <2>6. j \in Len(Delivered(d)) + 1..Len(Put(d))
    BY <2>3, <2>5
  <2> QED BY <1>4, <2>5, <2>6 DEF ChannelStep, DeliversSome
<1> QED BY <1>7, <1>8

LEMMA EveryStepDelivers ==
  ASSUME TypeOK, BytesInOrder, FdsTracking, [Next]_vars, NEW d \in Dir
  PROVE  ChannelStep(d)
<1>1. TypeOK' /\ BytesInOrder' /\ FdsTracking'
  BY StepOK, TrackingStep
<1>0. Arrivals'
  BY <1>1, ArrivalsHold, PTL
<1>2. ASSUME NEW e \in Dir, Writes(e) PROVE ChannelStep(d)
  BY <1>2, WritesPuts
<1>3. ASSUME NEW e \in Dir, Reads(e) PROVE ChannelStep(d)
  <2>1. traffic' = traffic /\ written' = written
    BY <1>3 DEF Reads
  <2>2. Come(d)' >= Come(d)
    <3>1. CASE d # e
      <4>1. received'[d] = received[d]
        BY <1>3, <3>1 DEF Reads, TypeOK
      <4>2. Come(d) \in Nat
        BY WhatArrives
      <4> QED BY <4>1, <4>2 DEF Come
    <3>2. CASE d = e
      <4>1. PICK n \in 1..Len(outq[d]) :
              received' = [received EXCEPT ![d] =
                [bytes |-> @.bytes \o BytesOf(SubSeq(outq[d], 1, n)),
                 fds   |-> @.fds \o FdsOf(outq[d], n)]]
        BY <1>3, <3>2 DEF Reads
      <4>2. PICK x \in Seq(Nat), a \in Seq(Nat) :
              /\ x = BytesOf(SubSeq(outq[d], 1, n))
              /\ a = received[d].bytes
        BY PartsType, ReceivedBytes
      <4>3. received'[d].bytes = a \o x
        BY <4>1, <4>2 DEF TypeOK
      <4>4. /\ Len(a \o x) = Len(a) + Len(x) /\ Len(a) \in Nat /\ Len(x) \in Nat
        BY Appended
      <4>5. Len(a \o x) >= Len(a)
        BY <4>4
      <4> QED BY <4>2, <4>3, <4>5 DEF Come
    <3> QED BY <3>1, <3>2
  <2> QED BY <1>0, <2>1, <2>2, ReadsDelivers
<1>4. ASSUME UNCHANGED <<traffic, written, received>> PROVE ChannelStep(d)
  BY <1>4 DEF ChannelStep, Put, Delivered
<1>5. ASSUME NEW e \in Dir, Receive(e) \/ ReceiveEof(e) \/ TakeMessage(e)
      PROVE  ChannelStep(d)
  BY <1>4, <1>5 DEF Receive, ReceiveEof, TakeMessage, Stop, peers
<1>6. CASE SendSome
  BY <1>4, <1>6 DEF SendSome, Stop, peers
<1>7. ASSUME NEW peer \in Peer, Closes(peer) PROVE ChannelStep(d)
  BY <1>4, <1>7 DEF Closes
<1>8. CASE UNCHANGED vars
  BY <1>4, <1>8 DEF vars, peers
<1> QED BY <1>2, <1>3, <1>5, <1>6, <1>7, <1>8 DEF Next, Router

LEMMA NothingAtFirst ==
  ASSUME Init, NEW d \in Dir
  PROVE  Put(d) = <<>> /\ Delivered(d) = <<>>
<1>1. TypeOK /\ BytesInOrder
  BY InitOK
<1>2. FdsTracking
  BY <1>1, InitPlaces
<1>3. PICK t : t = traffic[d] /\ Regular(t)
  BY <1>1, TrafficIsRegular
<1>4. written[d] = 0 /\ Come(d) = 0
  <2>1. received[d].bytes = <<>> /\ Len(<<>>) = 0 /\ written[d] = 0
    BY EmptySeq DEF Init
  <2> QED BY <2>1 DEF Come
<1>5. Ended(t, 0) = 0
  <2>1. /\ Len(t) \in Nat /\ EndOf(t, 0) = 0 /\ HeaderSize \in Nat \ {0}
    BY <1>3, EndTypes, FdStreamAssumption
  <2>2. 0 < Len(t) => 0 < EndOf(t, 0 + 1)
    <3> SUFFICES ASSUME 0 < Len(t) PROVE 0 < EndOf(t, 1)
      OBVIOUS
    <3>1. 0 \in 0..Len(t) /\ 1 \in 0..Len(t) /\ 0 < 1
      BY <2>1
    <3>2. PICK a \in Nat : a = EndOf(t, 1)
      BY <1>3, <3>1, EndTypes
    <3>3. EndOf(t, 0) + HeaderSize <= a
      BY <1>3, <3>1, <3>2, EndsGrow
    <3> QED BY <2>1, <3>2, <3>3
  <2>3. EndsAfter(t, 0, 0)
    BY <2>1, <2>2 DEF EndsAfter
  <2> QED BY <1>3, <2>3, EndedIs
<1>6. SubSeq(MessagesOf(t), 1, 0) = <<>>
  <2>1. 1 \in Int /\ 0 \in Int /\ 0 < 1
    OBVIOUS
  <2> QED BY <2>1, SubSeqEmpty
<1>7. Delivered(d) = SubSeq(MessagesOf(traffic[d]), 1, Ended(traffic[d], Come(d)))
  BY <1>1, <1>2, WhatArrives
<1> QED BY <1>3, <1>4, <1>5, <1>6, <1>7 DEF Put


-----------------------------------------------------------------------------
(* The theorems.                                                             *)

\* Every variable keeps its type, sockets never hold more than they take and
\* the buffer is never read beyond its end, for every traffic and every size
\* of buffers and sockets (socket.rs:71-100).
THEOREM TypeCorrect == Spec => []TypeOK
<1>1. Init => TypeOK /\ BytesInOrder
  BY InitOK
<1>2. (TypeOK /\ BytesInOrder) /\ [Next]_vars => (TypeOK /\ BytesInOrder)'
  BY StepOK
<1> QED
  BY <1>1, <1>2, PTL DEF Spec

\* The router forwards every byte once and in order, however reads and writes
\* are cut (socket.rs:71-100, 182-216).
THEOREM BytesStayInOrder == Spec => []BytesInOrder
<1>1. Init => TypeOK /\ BytesInOrder
  BY InitOK
<1>2. (TypeOK /\ BytesInOrder) /\ [Next]_vars => (TypeOK /\ BytesInOrder)'
  BY StepOK
<1> QED
  BY <1>1, <1>2, PTL DEF Spec

\* Every descriptor is where the first byte of its message is, and arrives with
\* it, however the writes, the reads and the pieces of a message cut the stream
\* (socket.rs:104-131, 182-216).
THEOREM FdsStayInOrder == Spec => []FdsInOrder
<1>1. Init => TypeOK /\ BytesInOrder /\ FdsTracking
  BY InitOK, InitPlaces
<1>2. (TypeOK /\ BytesInOrder /\ FdsTracking) /\ [Next]_vars
        => (TypeOK /\ BytesInOrder /\ FdsTracking)'
  BY StepOK, TrackingStep
<1>3. FdsTracking => FdsInOrder
  BY TrackingOrders
<1> QED
  BY <1>1, <1>2, <1>3, PTL DEF Spec

\* The forwarding loop ends only when a peer hangs up, or on traffic in which
\* one message, or a message and the next one with descriptors, carry more than
\* the limit (socket.rs:104-131, 274-283).
THEOREM TrafficIsAccepted == Spec => []AcceptsTraffic
<1>1. Init => TypeOK /\ BytesInOrder /\ FdsTracking /\ AcceptsTraffic
  BY InitOK, InitPlaces DEF Init, AcceptsTraffic
<1>2. (TypeOK /\ BytesInOrder /\ FdsTracking /\ AcceptsTraffic) /\ [Next]_vars
        => (TypeOK /\ BytesInOrder /\ FdsTracking /\ AcceptsTraffic)'
  BY StepOK, TrackingStep, AcceptsStep
<1> QED
  BY <1>1, <1>2, PTL DEF Spec

\* FdStream implements MessageChannel in both directions: the receiver has a
\* prefix of the messages that were sent, each complete with its descriptors.
THEOREM MessagesAreDelivered == Spec => DeliversMessages
<1> DEFINE I == TypeOK /\ BytesInOrder /\ FdsTracking
           UpStep == [Up!Put \/ Up!Deliver]_<<Put("up"), Delivered("up")>>
           DownStep ==
             [Down!Put \/ Down!Deliver]_<<Put("down"), Delivered("down")>>
<1>1. Init => I /\ Up!Init /\ Down!Init
  <2>1. "up" \in Dir /\ "down" \in Dir
    BY DEF Dir
  <2> QED BY <2>1, InitOK, InitPlaces, NothingAtFirst DEF Up!Init, Down!Init
<1>2. I /\ [Next]_vars => I' /\ UpStep /\ DownStep
  <2> SUFFICES ASSUME TypeOK, BytesInOrder, FdsTracking, [Next]_vars
               PROVE  I' /\ UpStep /\ DownStep
    OBVIOUS
  <2>1. I'
    BY StepOK, TrackingStep
  <2>2. ChannelStep("up") /\ ChannelStep("down")
    BY EveryStepDelivers DEF Dir
  <2>3. UpStep
    BY <2>2 DEF ChannelStep, PutsOne, DeliversSome, Up!Put, Up!Deliver
  <2>4. DownStep
    BY <2>2 DEF ChannelStep, PutsOne, DeliversSome, Down!Put, Down!Deliver
  <2> QED BY <2>1, <2>3, <2>4
<1> HIDE DEF I
<1> QED
  BY <1>1, <1>2, PTL DEF Spec, DeliversMessages, Up!Spec, Down!Spec
=============================================================================
