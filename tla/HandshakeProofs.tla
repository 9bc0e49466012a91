--------------------------- MODULE HandshakeProofs --------------------------
(***************************************************************************)
(* Theorems about the handshake, for any clients that log in, any number   *)
(* of pieces their lines come in and any size of the buffer.               *)
(***************************************************************************)
EXTENDS HandshakeProperties, SequenceTheorems, TLAPS

-----------------------------------------------------------------------------
(* Types.                                                                    *)

LEMMA Ends == "client" \in End /\ "sandbox" \in End /\ "host" \in End
BY DEF End

LEMMA Words ==
  /\ ClientWord \subseteq Word /\ BusWord \subseteq Word
  /\ \A word \in BusWord : word # "MESSAGE"
BY DEF Word, ClientWord, BusWord

\* A line is one piece or more, numbered from the first.
LEMMA PiecesOfLine ==
  ASSUME script \in Scripts, NEW word \in Word
  PROVE  /\ Pieces(word) \in Seq(Piece)
         /\ Len(Pieces(word)) = Size(word, script.pieces)
         /\ script.pieces \in Nat /\ script.pieces > 0
         /\ \A i \in 1..Size(word, script.pieces) :
              Pieces(word)[i] = PieceOf(word, i, script.pieces)
<1> DEFINE n == Size(word, script.pieces)
           line == [i \in 1..n |-> [word |-> word, part |-> i, of |-> n]]
<1>1. n \in Nat /\ n > 0 /\ script.pieces \in Nat /\ script.pieces > 0
  BY HandshakeAssumption DEF Size
<1>2. Pieces(word) = line
  BY DEF Pieces, Size
<1> HIDE DEF n
<1>3. line \in [1..n -> Piece]
  BY <1>1 DEF Piece
<1>4. line \in Seq(Piece) /\ Len(line) = n
  <2> HIDE DEF line
  <2> QED BY <1>1, <1>3, SeqDef, LenProperties
<1> QED BY <1>1, <1>2, <1>4 DEF n, PieceOf

LEMMA WholeType == \A word \in Word : Whole(word) \in Line
BY DEF Whole, Line

\* What an end says is added to its socket.
LEMMA SayTypes ==
  ASSUME TypeOK, NEW end \in End, NEW words \in Seq(Word), NEW pieces,
         Say(end, words, pieces),
         IF end = "host" THEN pieces \in Seq(BusWord) ELSE pieces \in Seq(Piece)
  PROVE  /\ said' \in [End -> Seq(Word)]
         /\ DOMAIN wire' = End
         /\ wire'["client"] \in Seq(Piece) /\ wire'["sandbox"] \in Seq(Piece)
         /\ wire'["host"] \in Seq(BusWord)
<1>1. said[end] \o words \in Seq(Word)
  BY ConcatProperties DEF TypeOK
<1>2. said' = [said EXCEPT ![end] = said[end] \o words]
  BY DEF Say
<1>3. said' \in [End -> Seq(Word)]
  BY <1>1, <1>2 DEF TypeOK
<1>4. wire' = [wire EXCEPT ![end] = wire[end] \o pieces]
  BY DEF Say
<1>5. IF end = "host" THEN wire[end] \o pieces \in Seq(BusWord)
                      ELSE wire[end] \o pieces \in Seq(Piece)
  BY ConcatProperties DEF TypeOK, End
<1> QED BY <1>3, <1>4, <1>5, Ends DEF TypeOK

LEMMA ConsumeTypes ==
  ASSUME TypeOK, NEW end \in End, wire[end] # <<>>, Consume(end)
  PROVE  /\ DOMAIN wire' = End
         /\ wire'["client"] \in Seq(Piece) /\ wire'["sandbox"] \in Seq(Piece)
         /\ wire'["host"] \in Seq(BusWord)
<1>1. IF end = "host" THEN Tail(wire[end]) \in Seq(BusWord)
                      ELSE Tail(wire[end]) \in Seq(Piece)
  BY HeadTailProperties DEF TypeOK, End
<1>2. wire' = [wire EXCEPT ![end] = Tail(wire[end])]
  BY DEF Consume
<1> QED BY <1>1, <1>2, Ends DEF TypeOK

LEMMA WriteTypes ==
  ASSUME TypeOK, NEW end \in End, NEW lines \in Seq(Line), Write(end, lines)
  PROVE  relayed' \in [End -> Seq(Line)]
<1>1. relayed[end] \o lines \in Seq(Line)
  BY ConcatProperties DEF TypeOK
<1> QED BY <1>1 DEF Write, TypeOK

LEMMA FailTypes == ASSUME TypeOK, Fail PROVE TypeOK'
BY DEF Fail, TypeOK, outside, Phase

LEMMA LineTypes ==
  ASSUME TypeOK, NEW end \in {"client", "sandbox"}, wire[end] # <<>>
  PROVE  LineOf(end) \in Line /\ Head(wire[end]) \in Piece
<1>1. Head(wire[end]) \in Piece
  BY HeadTailProperties DEF TypeOK
<1> QED BY <1>1 DEF LineOf, Line, Piece

LEMMA HostReadTypes ==
  ASSUME TypeOK, NEW in, NEW accepted, NEW lines \in Seq(Line),
         NEW next \in Phase, HostReads(in, accepted, lines, next)
  PROVE  TypeOK'
<1>1. CASE Fail
  BY <1>1, FailTypes
<1>2. CASE /\ wire["host"] # <<>>
           /\ phase' = next /\ Consume("host") /\ Write("host", lines)
           /\ UNCHANGED <<begin_received, pending_responses, partial, outside>>
  BY <1>2, ConsumeTypes, WriteTypes, Ends DEF TypeOK, outside
<1> QED BY <1>1, <1>2 DEF HostReads

LEMMA RouterTypes == ASSUME TypeOK, Router PROVE TypeOK'
<1>1. ASSUME NEW word \in Word PROVE <<Whole(word)>> \in Seq(Line)
  BY <1>1, WholeType
<1>2. ASSUME NEW v \in Word, NEW w \in Word
      PROVE  <<Whole(v), Whole(w)>> \in Seq(Line)
  BY <1>2, WholeType
<1>3. {"NUL", "AUTH", "NEGOTIATE_UNIX_FD", "BEGIN", "HELLO"} \subseteq Word
  BY DEF Word, ClientWord
<1> <<>> \in Seq(Line)
  OBVIOUS
<1>4. CASE ForwardNull
  BY <1>1, <1>3, <1>4, ConsumeTypes, WriteTypes, Ends
  DEF ForwardNull, TypeOK, outside, Phase
<1>5. CASE NullFails
  BY <1>5, FailTypes DEF NullFails
<1>6. ASSUME NEW end \in {"client", "sandbox"}, ReadPart(end) PROVE TypeOK'
  <2>1. end \in End /\ wire[end] # <<>> /\ Consume(end)
    BY <1>6, Ends DEF ReadPart
  <2>2. partial' \in [{"client", "sandbox"} -> 0..AuthBufferSize]
    BY SMTT(30), <1>6, HandshakeAssumption DEF ReadPart, TypeOK
  <2> QED BY <1>6, <2>1, <2>2, ConsumeTypes DEF ReadPart, TypeOK, outside
<1>7. ASSUME NEW end \in {"client", "sandbox"}, ReadFails(end) PROVE TypeOK'
  BY <1>7, FailTypes DEF ReadFails
<1>8. ASSUME DropReads
      PROVE  partial' \in [{"client", "sandbox"} -> 0..AuthBufferSize]
  BY <1>8, HandshakeAssumption DEF DropReads
<1>9. CASE ReadClientLine
  <2>1. CASE Fail
    BY <2>1, FailTypes
  <2>2. CASE "sandbox" \in open
    <3>1. wire["client"] # <<>> /\ LineOf("client") \in Line
      BY <1>9, LineTypes DEF ReadClientLine, Complete
    <3>2. /\ Consume("client") /\ Write("sandbox", <<LineOf("client")>>)
          /\ pending_responses' \in {pending_responses, pending_responses + 1}
          /\ begin_received' \in BOOLEAN
          /\ DropReads /\ UNCHANGED <<phase, outside>>
      BY <1>9, <2>2 DEF ReadClientLine, TypeOK
    <3>3. /\ relayed' \in [End -> Seq(Line)] /\ pending_responses' \in Nat
          /\ partial' \in [{"client", "sandbox"} -> 0..AuthBufferSize]
      <4>1. <<LineOf("client")>> \in Seq(Line)
        BY <3>1
      <4>2. relayed' \in [End -> Seq(Line)]
        <5>1. PICK lines \in Seq(Line) : lines = <<LineOf("client")>>
          BY <4>1
        <5>2. Write("sandbox", lines)
          BY <3>2, <5>1
        <5> QED BY <5>2, WriteTypes, Ends
      <4>3. partial' \in [{"client", "sandbox"} -> 0..AuthBufferSize]
        BY <1>8, <3>2
      <4>4. pending_responses' \in Nat
        BY <3>2 DEF TypeOK
      <4> QED BY <4>2, <4>3, <4>4
    <3>4. /\ DOMAIN wire' = End
          /\ wire'["client"] \in Seq(Piece) /\ wire'["sandbox"] \in Seq(Piece)
          /\ wire'["host"] \in Seq(BusWord)
      BY <3>1, <3>2, ConsumeTypes, Ends
    <3> QED BY <3>2, <3>3, <3>4 DEF TypeOK, outside
  <2> QED BY <1>9, <2>1, <2>2 DEF ReadClientLine
<1>10. CASE ReadSandboxLine
  <2>1. CASE Fail
    BY <2>1, FailTypes
  <2>2. CASE "client" \in open
    <3>1. wire["sandbox"] # <<>> /\ LineOf("sandbox") \in Line
      BY <1>10, LineTypes DEF ReadSandboxLine, Complete
    <3>2. /\ Consume("sandbox") /\ Write("client", <<LineOf("sandbox")>>)
          /\ pending_responses' \in Nat
          /\ DropReads /\ UNCHANGED <<phase, begin_received, outside>>
      BY <1>10, <2>2 DEF ReadSandboxLine, TypeOK, Decrement
    <3>3. /\ relayed' \in [End -> Seq(Line)]
          /\ partial' \in [{"client", "sandbox"} -> 0..AuthBufferSize]
      <4>1. <<LineOf("sandbox")>> \in Seq(Line)
        BY <3>1
      <4> QED BY <1>8, <3>2, <4>1, WriteTypes, Ends
    <3>4. /\ DOMAIN wire' = End
          /\ wire'["client"] \in Seq(Piece) /\ wire'["sandbox"] \in Seq(Piece)
          /\ wire'["host"] \in Seq(BusWord)
      BY <3>1, <3>2, ConsumeTypes, Ends
    <3> QED BY <3>2, <3>3, <3>4 DEF TypeOK, outside
  <2> QED BY <1>10, <2>1, <2>2 DEF ReadSandboxLine
<1>11. CASE StartHostAuth
  <2>1. CASE Fail
    BY <2>1, FailTypes
  <2>2. CASE "host" \in open
    BY <1>2, <1>3, <1>11, <2>2, WriteTypes, Ends
    DEF StartHostAuth, TypeOK, outside, Phase
  <2> QED BY <1>11, <2>1, <2>2 DEF StartHostAuth
<1>12. CASE ReadHostOk
  BY <1>1, <1>3, <1>12, HostReadTypes DEF ReadHostOk, Phase
<1>13. CASE ReadHostFd
  BY <1>1, <1>2, <1>3, <1>13, HostReadTypes DEF ReadHostFd, Phase
<1>14. CASE ReadHelloReply
  BY <1>14, HostReadTypes DEF ReadHelloReply, Phase
<1>15. CASE ReadNameAcquired
  BY <1>15, HostReadTypes DEF ReadNameAcquired, Phase
<1> QED
  BY <1>4, <1>5, <1>6, <1>7, <1>9, <1>10, <1>11, <1>12, <1>13, <1>14, <1>15
  DEF Router

\* What the two buses say is made of their words.
LEMMA BusAnswersType ==
  ASSUME NEW line, NEW words \in Answers(line)
  PROVE  \/ words = <<>>
         \/ Len(words) = 1 /\ words \in Seq(BusWord) /\ words = <<words[1]>>
<1>1. \A word \in BusWord : <<word>> \in Seq(BusWord) /\ Len(<<word>>) = 1
  OBVIOUS
<1>2. {"OK", "REJECTED", "DATA", "AGREE_UNIX_FD", "ERROR"} \subseteq BusWord
  BY DEF BusWord
<1>3. words = <<>> \/ \E word \in BusWord : words = <<word>>
  BY <1>2 DEF Answers
<1>4. CASE words = <<>>
  BY <1>4
<1>5. ASSUME NEW word \in BusWord, words = <<word>>
      PROVE  Len(words) = 1 /\ words \in Seq(BusWord) /\ words = <<words[1]>>
  BY <1>5
<1> QED BY <1>3, <1>4, <1>5

LEMMA HostAnswersType ==
  ASSUME NEW word, NEW words \in HostAnswersTo(word)
  PROVE  words \in Seq(BusWord)
<1>1. /\ <<>> \in Seq(BusWord)
      /\ \A v \in BusWord : <<v>> \in Seq(BusWord)
      /\ \A v, w \in BusWord : <<v, w>> \in Seq(BusWord)
  OBVIOUS
<1>2. {"OK", "REJECTED", "AGREE_UNIX_FD", "ERROR", "RETURN", "NameAcquired"}
        \subseteq BusWord
  BY DEF BusWord
<1>3. \/ words = <<>> \/ \E v \in BusWord : words = <<v>>
      \/ \E v, w \in BusWord : words = <<v, w>>
  BY <1>2 DEF HostAnswersTo
<1> QED BY <1>1, <1>3

\* Every variable has its type, for any scripts and any size of the buffer.
THEOREM TypeCorrect == Spec => []TypeOK
<1>1. Init => TypeOK
  <2>1. <<>> \in Seq(Piece) /\ <<>> \in Seq(BusWord)
        /\ <<>> \in Seq(Line) /\ <<>> \in Seq(Word)
    OBVIOUS
  <2> SUFFICES ASSUME Init PROVE TypeOK
    OBVIOUS
  <2>2. /\ phase \in Phase /\ begin_received \in BOOLEAN
        /\ pending_responses \in Nat
        /\ partial \in [{"client", "sandbox"} -> 0..AuthBufferSize]
        /\ open \in SUBSET End /\ script \in Scripts /\ hostpass \in BOOLEAN
        /\ heard \in [{"sandbox", "host"} -> Nat]
    <3>1. /\ partial \in [{"client", "sandbox"} -> 0..AuthBufferSize]
          /\ heard \in [{"sandbox", "host"} -> Nat]
      BY HandshakeAssumption DEF Init
    <3> QED BY <3>1 DEF Init, Phase
  <2>3. /\ relayed \in [End -> Seq(Line)] /\ said \in [End -> Seq(Word)]
        /\ DOMAIN wire = End
    BY <2>1 DEF Init
  <2>4. /\ wire["client"] \in Seq(Piece) /\ wire["sandbox"] \in Seq(Piece)
        /\ wire["host"] \in Seq(BusWord)
    BY <2>1, Ends DEF Init
  <2> QED BY <2>2, <2>3, <2>4 DEF TypeOK
<1>2. TypeOK /\ [Next]_vars => TypeOK'
  <2> SUFFICES ASSUME TypeOK, [Next]_vars PROVE TypeOK'
    OBVIOUS
  <2>1. CASE Router
    BY <2>1, RouterTypes
  <2>2. CASE ClientSends
    <3>1. PICK word \in Word : Say("client", <<word>>, Pieces(word))
      <4>1. PICK step : /\ step = script.steps[Len(said["client"]) + 1]
                        /\ Say("client", <<step.word>>, Pieces(step.word))
        BY <2>2 DEF ClientSends
      <4>2. Len(said["client"]) + 1 \in 1..Len(script.steps)
        <5>1. said["client"] \in Seq(Word) /\ script.steps \in Seq([word : ClientWord, after : Nat])
          BY HandshakeAssumption, Ends DEF TypeOK
        <5>2. Len(said["client"]) \in Nat /\ Len(script.steps) \in Nat
          BY <5>1, LenProperties
        <5> QED BY <2>2, <5>2 DEF ClientSends
      <4>3. step.word \in Word
        <5>1. script.steps \in Seq([word : ClientWord, after : Nat])
          BY HandshakeAssumption DEF TypeOK
        <5>2. step \in [word : ClientWord, after : Nat]
          BY <4>1, <4>2, <5>1, ElementOfSeq
        <5> QED BY <5>2, Words
      <4> QED BY <4>1, <4>3
    <3>2. Pieces(word) \in Seq(Piece) /\ <<word>> \in Seq(Word)
      BY PiecesOfLine DEF TypeOK
    <3> QED
      BY <2>2, <3>1, <3>2, SayTypes, Ends DEF ClientSends, TypeOK, router
  <2>3. CASE SandboxAnswers
    <3>1. heard' \in [{"sandbox", "host"} -> Nat]
      BY SMTT(30), <2>3 DEF SandboxAnswers, TypeOK
    <3>2. CASE UNCHANGED <<said, wire>> /\ open' = open \ {"sandbox"}
      BY <2>3, <3>1, <3>2 DEF SandboxAnswers, TypeOK, router
    <3>3. ASSUME NEW line, NEW words \in Answers(line), UNCHANGED open,
                 Say("sandbox", words, IF words = <<>> THEN <<>>
                                       ELSE Pieces(words[1]))
          PROVE  TypeOK'
      <4>1. words \in Seq(Word)
        <5>1. words \in Seq(BusWord)
          BY <3>3, BusAnswersType, EmptySeq
        <5> QED BY <5>1, Words, SeqMonotonic
      <4>2. (IF words = <<>> THEN <<>> ELSE Pieces(words[1])) \in Seq(Piece)
        BY <3>3, BusAnswersType, PiecesOfLine, Words, ElementOfSeq DEF TypeOK
      <4>3. /\ said' \in [End -> Seq(Word)]
            /\ DOMAIN wire' = End
            /\ wire'["client"] \in Seq(Piece)
            /\ wire'["sandbox"] \in Seq(Piece)
            /\ wire'["host"] \in Seq(BusWord)
        BY <3>3, <4>1, <4>2, SayTypes, Ends
      <4> QED BY <2>3, <3>1, <3>3, <4>3 DEF SandboxAnswers, TypeOK, router
    <3> QED BY <2>3, <3>2, <3>3 DEF SandboxAnswers
  <2>4. CASE HostAnswers
    <3>1. heard' \in [{"sandbox", "host"} -> Nat]
      BY SMTT(30), <2>4 DEF HostAnswers, TypeOK
    <3>2. PICK words \in Seq(BusWord) : Say("host", words, words)
      BY <2>4, HostAnswersType DEF HostAnswers
    <3>3. words \in Seq(Word)
      BY <3>2, Words, SeqMonotonic
    <3> QED
      BY <2>4, <3>1, <3>2, <3>3, SayTypes, Ends DEF HostAnswers, TypeOK, router
  <2>5. CASE HostSignals
    <3>1. <<"SIGNAL">> \in Seq(BusWord) /\ <<"SIGNAL">> \in Seq(Word)
      BY DEF BusWord, Word
    <3> QED BY <2>5, <3>1, SayTypes, Ends DEF HostSignals, TypeOK, router
  <2>6. ASSUME NEW end \in End, Closes(end) PROVE TypeOK'
    BY <2>6 DEF Closes, TypeOK, router
  <2>7. CASE UNCHANGED vars
    BY <2>7 DEF vars, outside, TypeOK
  <2> QED BY <2>1, <2>2, <2>3, <2>4, <2>5, <2>6, <2>7 DEF Next
<1> QED BY <1>1, <1>2, PTL DEF Spec

-----------------------------------------------------------------------------
(* Lines on their way.                                                       *)

\* Unread with its witnesses: u lines, the k-th of which starts at start[k].
Layout(words, read, p, pieces, n, u, start) ==
  /\ Len(words) = read + u
  /\ \A k \in 1..u : Size(words[read + k], n) \in Nat /\ read + k \in 1..Len(words)
  /\ u > 0 => p < Size(words[read + 1], n)
  /\ \A k \in 1..u + 1 : /\ start[k] \in Int
                         /\ 1 - p <= start[k] /\ start[k] <= Len(pieces) + 1
  /\ start[1] = 1 - p
  /\ start[u + 1] = Len(pieces) + 1
  /\ \A k, l \in 1..u + 1 : k < l => start[k] < start[l]
  /\ \A k \in 1..u : start[k + 1] = start[k] + Size(words[read + k], n)
  /\ \A k \in 1..u : \A j \in 1..Size(words[read + k], n) :
       start[k] + j > 1 =>
         pieces[start[k] + j - 1] = PieceOf(words[read + k], j, n)

LEMMA SizeType == \A word, n : n \in Nat \ {0} => Size(word, n) \in Nat \ {0}
BY DEF Size

LEMMA UnreadLayout ==
  ASSUME NEW words \in Seq(Word), NEW read \in Nat, NEW p \in Nat,
         NEW pieces \in Seq(Piece), NEW n \in Nat \ {0},
         Unread(words, read, p, pieces, n)
  PROVE  \E u \in Nat : \E start : Layout(words, read, p, pieces, n, u, start)
<1>1. Len(words) \in Nat /\ Len(pieces) \in Nat
  BY LenProperties
<1>2. PICK u : u = Len(words) - read
  OBVIOUS
<1>3. u \in Nat /\ Len(words) = read + u
  BY <1>1, <1>2 DEF Unread
<1>4. /\ u > 0 => p < Size(words[read + 1], n)
      /\ \E start \in [1..u + 1 -> 1 - p..Len(pieces) + 1] :
           /\ start[1] = 1 - p
           /\ start[u + 1] = Len(pieces) + 1
           /\ \A k, l \in 1..u + 1 : k < l => start[k] < start[l]
           /\ \A k \in 1..u :
                /\ start[k + 1] = start[k] + Size(words[read + k], n)
                /\ \A j \in 1..Size(words[read + k], n) :
                     start[k] + j > 1 =>
                       pieces[start[k] + j - 1] = PieceOf(words[read + k], j, n)
  BY <1>2, Zenon DEF Unread
<1>5. PICK start \in [1..u + 1 -> 1 - p..Len(pieces) + 1] :
           /\ start[1] = 1 - p
           /\ start[u + 1] = Len(pieces) + 1
           /\ \A k, l \in 1..u + 1 : k < l => start[k] < start[l]
           /\ \A k \in 1..u :
                /\ start[k + 1] = start[k] + Size(words[read + k], n)
                /\ \A j \in 1..Size(words[read + k], n) :
                     start[k] + j > 1 =>
                       pieces[start[k] + j - 1] = PieceOf(words[read + k], j, n)
  BY <1>4
<1>6. ASSUME NEW k \in 1..u + 1
      PROVE  /\ start[k] \in Int
             /\ 1 - p <= start[k] /\ start[k] <= Len(pieces) + 1
  <2>1. start[k] \in 1 - p..Len(pieces) + 1
    OBVIOUS
  <2> QED BY <1>1, <2>1
<1>7. ASSUME NEW k \in 1..u
      PROVE  Size(words[read + k], n) \in Nat /\ read + k \in 1..Len(words)
  <2>1. Size(words[read + k], n) \in Nat
    BY DEF Size
  <2>2. read + k \in 1..Len(words)
    BY <1>1, <1>3
  <2> QED BY <2>1, <2>2
<1>8. /\ \A k \in 1..u : start[k + 1] = start[k] + Size(words[read + k], n)
      /\ \A k \in 1..u : \A j \in 1..Size(words[read + k], n) :
           start[k] + j > 1 =>
             pieces[start[k] + j - 1] = PieceOf(words[read + k], j, n)
  BY <1>5
<1>9. /\ start[1] = 1 - p /\ start[u + 1] = Len(pieces) + 1
      /\ \A k, l \in 1..u + 1 : k < l => start[k] < start[l]
  BY <1>5
<1>10. Layout(words, read, p, pieces, n, u, start)
  BY <1>3, <1>4, <1>6, <1>7, <1>8, <1>9, Zenon DEF Layout
<1> QED BY <1>3, <1>10, Zenon

LEMMA LayoutUnread ==
  ASSUME NEW words \in Seq(Word), NEW read \in Nat, NEW p \in Nat,
         NEW pieces \in Seq(Piece), NEW n \in Nat \ {0}, NEW u \in Nat,
         NEW start, DOMAIN start = 1..u + 1, start = [k \in 1..u + 1 |-> start[k]],
         Layout(words, read, p, pieces, n, u, start)
  PROVE  Unread(words, read, p, pieces, n)
<1>1. Len(words) \in Nat /\ Len(pieces) \in Nat
  BY LenProperties
<1>2. Len(words) = read + u
  BY DEF Layout
<1>3. PICK v : v = Len(words) - read
  OBVIOUS
<1>4. v = u
  BY <1>1, <1>2, <1>3
<1>5. start \in [1..u + 1 -> 1 - p..Len(pieces) + 1]
  <2>1. ASSUME NEW k \in 1..u + 1
        PROVE  start[k] \in 1 - p..Len(pieces) + 1
    BY <1>1 DEF Layout
  <2> QED BY <2>1
<1>6. \A k \in 1..v :
        /\ start[k + 1] = start[k] + Size(words[read + k], n)
        /\ \A j \in 1..Size(words[read + k], n) :
             start[k] + j > 1 =>
               pieces[start[k] + j - 1] = PieceOf(words[read + k], j, n)
  BY <1>4, Zenon DEF Layout
<1>7. /\ v \in Nat
      /\ v > 0 => p < Size(words[read + 1], n)
      /\ start[1] = 1 - p
      /\ start[v + 1] = Len(pieces) + 1
      /\ \A k, l \in 1..v + 1 : k < l => start[k] < start[l]
      /\ start \in [1..v + 1 -> 1 - p..Len(pieces) + 1]
  BY <1>4, <1>5, Zenon DEF Layout
<1>8. Len(words) - read = v
  BY <1>3
<1> QED BY <1>6, <1>7, <1>8, Zenon DEF Unread

\* The next piece is the next of the line being read.
LEMMA NextPiece ==
  ASSUME NEW words \in Seq(Word), NEW read \in Nat, NEW p \in Nat,
         NEW pieces \in Seq(Piece), NEW n \in Nat \ {0},
         Unread(words, read, p, pieces, n), pieces # <<>>
  PROVE  /\ read < Len(words) /\ p < Size(words[read + 1], n)
         /\ Head(pieces) = PieceOf(words[read + 1], p + 1, n)
<1>1. PICK u \in Nat : \E start : Layout(words, read, p, pieces, n, u, start)
  BY UnreadLayout
<1>2. PICK start : Layout(words, read, p, pieces, n, u, start)
  BY <1>1
<1>3. Len(pieces) \in Nat /\ Len(pieces) > 0 /\ Head(pieces) = pieces[1]
  BY HeadTailProperties, EmptySeq, LenProperties
<1>4. u > 0
  BY <1>2, <1>3 DEF Layout
<1>5. /\ 1 \in 1..u /\ p < Size(words[read + 1], n)
      /\ Size(words[read + 1], n) \in Nat
      /\ start[1] = 1 - p /\ read < Len(words)
  BY <1>2, <1>4 DEF Layout
<1>6. p + 1 \in 1..Size(words[read + 1], n)
  BY <1>5
<1>7. start[1] + (p + 1) > 1 /\ start[1] + (p + 1) - 1 = 1
  BY <1>5
<1>8. pieces[start[1] + (p + 1) - 1] = PieceOf(words[read + 1], p + 1, n)
  BY <1>2, <1>5, <1>6, <1>7 DEF Layout
<1> QED BY <1>3, <1>5, <1>7, <1>8

\* One more piece of the line is taken.
LEMMA PieceTaken ==
  ASSUME NEW words \in Seq(Word), NEW read \in Nat, NEW p \in Nat,
         NEW pieces \in Seq(Piece), NEW n \in Nat \ {0},
         Unread(words, read, p, pieces, n), pieces # <<>>,
         Head(pieces).part # Head(pieces).of
  PROVE  Unread(words, read, p + 1, Tail(pieces), n)
<1>1. PICK u \in Nat : \E start : Layout(words, read, p, pieces, n, u, start)
  BY UnreadLayout
<1>2. PICK start : Layout(words, read, p, pieces, n, u, start)
  BY <1>1
<1>3. PICK rest : rest = Tail(pieces)
  OBVIOUS
<1>4. /\ rest \in Seq(Piece) /\ Len(rest) = Len(pieces) - 1
      /\ \A i \in 1..Len(rest) : rest[i] = pieces[i + 1]
      /\ Len(pieces) \in Nat /\ Len(pieces) > 0 /\ Len(rest) \in Nat
  BY <1>3, HeadTailProperties, EmptySeq, LenProperties
<1>5. p + 1 < Size(words[read + 1], n)
  <2>1. Head(pieces) = PieceOf(words[read + 1], p + 1, n)
        /\ p < Size(words[read + 1], n)
    BY NextPiece
  <2>2. p + 1 # Size(words[read + 1], n)
    BY <2>1 DEF PieceOf
  <2> QED BY <2>1, <2>2 DEF Size
<1>6. PICK next : next = [k \in 1..u + 1 |-> start[k] - 1]
  OBVIOUS
<1>7. \A k \in 1..u + 1 : /\ next[k] = start[k] - 1 /\ start[k] \in Int
                          /\ 1 - p <= start[k] /\ start[k] <= Len(pieces) + 1
  <2>1. \A k \in 1..u + 1 : next[k] = start[k] - 1
    BY <1>6
  <2>2. \A k \in 1..u + 1 : /\ start[k] \in Int
                            /\ 1 - p <= start[k] /\ start[k] <= Len(pieces) + 1
    BY <1>2 DEF Layout
  <2> QED BY <2>1, <2>2
<1>8. \A k \in 1..u : k \in 1..u + 1 /\ k + 1 \in 1..u + 1
  OBVIOUS
<1>9. \A k \in 1..u + 1 :
        /\ next[k] \in Int
        /\ 1 - (p + 1) <= next[k] /\ next[k] <= Len(rest) + 1
  <2> TAKE k \in 1..u + 1
  <2>1. PICK s \in Int : s = start[k]
    BY <1>7
  <2>2. next[k] = s - 1 /\ 1 - p <= s /\ s <= Len(pieces) + 1
    BY <1>7, <2>1
  <2> QED BY <1>4, <2>2
<1>10. next[1] = 1 - (p + 1) /\ next[u + 1] = Len(rest) + 1
  <2>1. start[1] = 1 - p /\ start[u + 1] = Len(pieces) + 1
    BY <1>2 DEF Layout
  <2> QED BY SMTT(30), <1>4, <1>7, <2>1
<1>11. \A k, l \in 1..u + 1 : k < l => next[k] < next[l]
  <2>1. \A k, l \in 1..u + 1 : k < l => start[k] < start[l]
    BY <1>2 DEF Layout
  <2> TAKE k, l \in 1..u + 1
  <2>2. /\ start[k] \in Int /\ start[l] \in Int
        /\ next[k] = start[k] - 1 /\ next[l] = start[l] - 1
    BY <1>7
  <2> QED BY <2>1, <2>2
<1>12. \A k \in 1..u : /\ Size(words[read + k], n) \in Nat
                       /\ start[k + 1] = start[k] + Size(words[read + k], n)
                       /\ read + k \in 1..Len(words)
  BY <1>2 DEF Layout
<1>13. \A k \in 1..u : next[k + 1] = next[k] + Size(words[read + k], n)
  <2> TAKE k \in 1..u
  <2>1. /\ start[k] \in Int /\ start[k + 1] \in Int
        /\ next[k] = start[k] - 1 /\ next[k + 1] = start[k + 1] - 1
    BY <1>7, <1>8
  <2>2. /\ Size(words[read + k], n) \in Nat
        /\ start[k + 1] = start[k] + Size(words[read + k], n)
    BY <1>12
  <2> QED BY SMTT(30), <2>1, <2>2
<1>14. ASSUME NEW k \in 1..u, NEW j \in 1..Size(words[read + k], n),
              next[k] + j > 1
       PROVE  rest[next[k] + j - 1] = PieceOf(words[read + k], j, n)
  <2>1. /\ next[k] = start[k] - 1 /\ start[k] \in Int /\ j \in Int
        /\ start[k] + j <= Len(pieces) + 1
    <3>1. k \in 1..u + 1 /\ k + 1 \in 1..u + 1
      BY <1>8
    <3>2. /\ next[k] = start[k] - 1 /\ start[k] \in Int /\ start[k + 1] \in Int
          /\ start[k + 1] <= Len(pieces) + 1
      BY <1>7, <3>1
    <3>3. /\ Size(words[read + k], n) \in Nat
          /\ start[k + 1] = start[k] + Size(words[read + k], n)
      BY <1>12
    <3>4. PICK s \in Int, t \in Int, size \in Nat :
            s = start[k] /\ t = start[k + 1] /\ size = Size(words[read + k], n)
      BY <3>2, <3>3
    <3>5. j \in Int /\ j <= size
      BY <3>4
    <3>6. t = s + size /\ t <= Len(pieces) + 1
      BY <3>2, <3>3, <3>4
    <3>7. s + j <= Len(pieces) + 1
      BY <1>4, <3>5, <3>6
    <3> QED BY <3>2, <3>4, <3>5, <3>7
  <2>2. next[k] + j - 1 \in 1..Len(rest) /\ start[k] + j > 1
        /\ (next[k] + j - 1) + 1 = start[k] + j - 1
    <3>1. PICK s \in Int, i \in Int : s = start[k] /\ i = j
      BY <2>1
    <3>2. next[k] = s - 1 /\ s + i <= Len(pieces) + 1 /\ (s - 1) + i > 1
      BY <1>14, <2>1, <3>1
    <3>3. (s - 1) + i - 1 \in 1..Len(rest) /\ s + i > 1
          /\ ((s - 1) + i - 1) + 1 = s + i - 1
      BY <1>4, <3>2
    <3> QED BY <3>1, <3>2, <3>3
  <2>3. pieces[start[k] + j - 1] = PieceOf(words[read + k], j, n)
    BY <1>2, <2>2 DEF Layout
  <2> QED BY <1>4, <2>2, <2>3
<1>15. Len(words) = read + u
  BY <1>2 DEF Layout
<1>16. Layout(words, read, p + 1, rest, n, u, next)
  BY <1>5, <1>9, <1>10, <1>11, <1>12, <1>13, <1>14, <1>15, Zenon DEF Layout
<1>17. DOMAIN next = 1..u + 1 /\ next = [k \in 1..u + 1 |-> next[k]]
  BY <1>6
<1>18. Unread(words, read, p + 1, rest, n)
  <2> p + 1 \in Nat
    OBVIOUS
  <2> QED BY <1>4, <1>16, <1>17, LayoutUnread
<1> QED BY <1>3, <1>18

\* The last piece of the line is taken.
LEMMA LineTaken ==
  ASSUME NEW words \in Seq(Word), NEW read \in Nat, NEW p \in Nat,
         NEW pieces \in Seq(Piece), NEW n \in Nat \ {0},
         Unread(words, read, p, pieces, n), pieces # <<>>,
         Head(pieces).part = Head(pieces).of
  PROVE  /\ Head(pieces).word = words[read + 1] /\ p + 1 = Head(pieces).of
         /\ Unread(words, read + 1, 0, Tail(pieces), n)
<1>1. PICK u \in Nat : \E start : Layout(words, read, p, pieces, n, u, start)
  BY UnreadLayout
<1>2. PICK start : Layout(words, read, p, pieces, n, u, start)
  BY <1>1
<1>3. PICK rest : rest = Tail(pieces)
  OBVIOUS
<1>4. /\ rest \in Seq(Piece) /\ Len(rest) = Len(pieces) - 1
      /\ \A i \in 1..Len(rest) : rest[i] = pieces[i + 1]
      /\ Len(pieces) \in Nat /\ Len(pieces) > 0 /\ Len(rest) \in Nat
  BY <1>3, HeadTailProperties, EmptySeq, LenProperties
<1>5. /\ Head(pieces) = PieceOf(words[read + 1], p + 1, n)
      /\ read < Len(words)
  BY NextPiece
<1>6. /\ p + 1 = Size(words[read + 1], n) /\ Head(pieces).of = p + 1
      /\ Head(pieces).word = words[read + 1]
  BY <1>5 DEF PieceOf
<1>7. Len(words) = read + u /\ u > 0 /\ u - 1 \in Nat
  <2>1. Len(words) = read + u
    BY <1>2 DEF Layout
  <2> QED BY <1>5, <2>1
<1>8. PICK v \in Nat : v = u - 1
  BY <1>7
<1>9. PICK next : next = [k \in 1..v + 1 |-> start[k + 1] - 1]
  OBVIOUS
<1>10. \A k \in 1..v + 1 : k \in 1..u + 1 /\ k + 1 \in 1..u + 1 /\ k \in 1..u
  BY <1>8
<1>11. \A k \in 1..u + 1 : start[k] \in Int /\ start[k] <= Len(pieces) + 1
  BY <1>2 DEF Layout
<1>12. start[1] = 1 - p /\ start[u + 1] = Len(pieces) + 1
  BY <1>2 DEF Layout
<1>13. \A k, l \in 1..u + 1 : k < l => start[k] < start[l]
  BY <1>2 DEF Layout
<1>14. \A k \in 1..u : /\ Size(words[read + k], n) \in Nat
                       /\ start[k + 1] = start[k] + Size(words[read + k], n)
                       /\ read + k \in 1..Len(words)
  BY <1>2 DEF Layout
<1>15. start[2] = 2
  <2>1. 1 \in 1..u /\ 1 + 1 = 2
    BY <1>7
  <2>2. start[2] = start[1] + Size(words[read + 1], n)
    BY <1>14, <2>1
  <2> QED BY <1>6, <1>12, <2>2
<1>16. \A k \in 1..v + 1 : /\ next[k] = start[k + 1] - 1
                           /\ next[k] \in Int /\ 1 <= next[k]
                           /\ next[k] <= Len(rest) + 1
  <2> TAKE k \in 1..v + 1
  <2>1. 2 \in 1..u + 1 /\ k + 1 \in 1..u + 1 /\ (k + 1 = 2 \/ 2 < k + 1)
    BY <1>7, <1>10
  <2>2. PICK s \in Int : s = start[k + 1]
    BY <1>11, <2>1
  <2>3. s <= Len(pieces) + 1
    BY <1>11, <2>1, <2>2
  <2>4. s = 2 \/ 2 < s
    BY <1>13, <1>15, <2>1, <2>2
  <2>5. next[k] = s - 1
    BY <1>9, <2>2
  <2> QED BY SMTT(30), <1>4, <2>2, <2>3, <2>4, <2>5
<1>17. next[1] = 1 /\ next[v + 1] = Len(rest) + 1
  <2>1. 1 \in 1..v + 1 /\ v + 1 \in 1..v + 1 /\ (v + 1) + 1 = u + 1 /\ 1 + 1 = 2
    BY <1>8
  <2>2. next[1] = start[2] - 1 /\ next[v + 1] = start[u + 1] - 1
    BY <1>9, <2>1
  <2> QED BY <1>4, <1>12, <1>15, <2>2
<1>18. ASSUME NEW k \in 1..v + 1, NEW l \in 1..v + 1, k < l
       PROVE  next[k] < next[l]
  <2>1. /\ k + 1 \in 1..u + 1 /\ l + 1 \in 1..u + 1
        /\ k + 1 < l + 1
    BY SMTT(30), <1>10, <1>18
  <2>2. start[k + 1] < start[l + 1]
    BY <1>13, <2>1
  <2>3. PICK s \in Int, t \in Int : s = start[k + 1] /\ t = start[l + 1]
    BY <1>11, <2>1
  <2>4. next[k] = s - 1 /\ next[l] = t - 1
    BY <1>16, <2>3
  <2>5. s < t
    BY <2>2, <2>3
  <2>6. s - 1 < t - 1
    BY <2>5
  <2> QED BY <2>4, <2>6
<1>19. \A k \in 1..v : /\ k + 1 \in 1..u /\ k \in 1..v + 1 /\ k + 1 \in 1..v + 1
                       /\ read + 1 + k = read + (k + 1)
  BY <1>8
<1>20. \A k \in 1..v : Size(words[read + 1 + k], n) \in Nat
                        /\ read + 1 + k \in 1..Len(words)
  BY <1>14, <1>19
<1>21. \A k \in 1..v : next[k + 1] = next[k] + Size(words[read + 1 + k], n)
  <2> TAKE k \in 1..v
  <2>1. start[(k + 1) + 1] = start[k + 1] + Size(words[read + (k + 1)], n)
    BY <1>14, <1>19
  <2>2. next[k] = start[k + 1] - 1 /\ next[k + 1] = start[(k + 1) + 1] - 1
    BY <1>16, <1>19
  <2>3. start[k + 1] \in Int /\ Size(words[read + 1 + k], n) \in Nat
        /\ read + 1 + k = read + (k + 1)
    BY <1>10, <1>11, <1>19, <1>20
  <2> QED BY <2>1, <2>2, <2>3
<1>22. ASSUME NEW k \in 1..v, NEW j \in 1..Size(words[read + 1 + k], n)
       PROVE  rest[next[k] + j - 1] = PieceOf(words[read + 1 + k], j, n)
  <2>1. /\ next[k] = start[k + 1] - 1 /\ start[k + 1] \in Int /\ j \in Int
        /\ next[k] \in Int /\ 1 <= next[k] /\ j >= 1
        /\ next[k] + j <= Len(rest) + 1
    <3>1. /\ next[k + 1] = next[k] + Size(words[read + 1 + k], n)
          /\ Size(words[read + 1 + k], n) \in Nat
      BY <1>20, <1>21
    <3>2. k \in 1..v + 1 /\ k + 1 \in 1..v + 1 /\ k + 1 \in 1..u + 1
      BY <1>10, <1>19
    <3>3. /\ next[k + 1] <= Len(rest) + 1 /\ next[k] = start[k + 1] - 1
          /\ next[k] \in Int /\ 1 <= next[k] /\ start[k + 1] \in Int
      BY <1>11, <1>16, <3>2
    <3>4. j \in Int /\ 1 <= j /\ j <= Size(words[read + 1 + k], n)
      BY <3>1
    <3>5. next[k] + j <= Len(rest) + 1
      <4>1. PICK size \in Nat : size = Size(words[read + 1 + k], n)
        BY <3>1
      <4>2. next[k] + size <= Len(rest) + 1 /\ j <= size
        BY <3>1, <3>3, <3>4, <4>1
      <4>3. PICK x \in Int, i \in Int, m \in Int :
              x = next[k] /\ i = j /\ m = Len(rest)
        BY SMTT(30), <1>4, <3>3, <3>4
      <4>4. x + i <= m + 1
        BY SMTT(30), <4>2, <4>3
      <4> QED BY <4>3, <4>4
    <3> QED BY <3>3, <3>4, <3>5
  <2>2. next[k] + j - 1 \in 1..Len(rest) /\ start[k + 1] + j > 1
        /\ (next[k] + j - 1) + 1 = start[k + 1] + j - 1
    <3>1. PICK s \in Int, i \in Int : s = start[k + 1] /\ i = j
      BY <2>1
    <3>2. /\ next[k] = s - 1 /\ (s - 1) + i <= Len(rest) + 1
          /\ 1 <= s - 1 /\ 1 <= i
      BY <2>1, <3>1
    <3>3. (s - 1) + i - 1 \in 1..Len(rest) /\ s + i > 1
          /\ ((s - 1) + i - 1) + 1 = s + i - 1
      BY <1>4, <3>2
    <3> QED BY <3>1, <3>2, <3>3
  <2>3. k + 1 \in 1..u /\ j \in 1..Size(words[read + (k + 1)], n)
    BY <1>19
  <2>4. pieces[start[k + 1] + j - 1] = PieceOf(words[read + (k + 1)], j, n)
    BY <1>2, <2>2, <2>3 DEF Layout
  <2> QED BY <1>4, <1>19, <2>2, <2>4
<1>23. Len(words) = (read + 1) + v
  BY <1>7, <1>8
<1>24. v > 0 => 0 < Size(words[read + 1 + 1], n)
  BY DEF Size
<1>25. 1 - 0 = 1
  OBVIOUS
<1>26. Layout(words, read + 1, 0, rest, n, v, next)
  BY <1>16, <1>17, <1>18, <1>20, <1>21, <1>22, <1>23, <1>24, <1>25, Zenon
  DEF Layout
<1>27. DOMAIN next = 1..v + 1 /\ next = [k \in 1..v + 1 |-> next[k]]
  BY <1>9
<1>28. Unread(words, read + 1, 0, rest, n)
  <2> read + 1 \in Nat /\ 0 \in Nat
    OBVIOUS
  <2> QED BY <1>4, <1>26, <1>27, LayoutUnread
<1> QED BY <1>3, <1>6, <1>28

\* One more line is said.
LEMMA LineSaid ==
  ASSUME NEW words \in Seq(Word), NEW read \in Nat, NEW p \in Nat,
         NEW pieces \in Seq(Piece), NEW n \in Nat \ {0},
         Unread(words, read, p, pieces, n),
         NEW word \in Word, NEW line \in Seq(Piece), Len(line) = Size(word, n),
         \A i \in 1..Size(word, n) : line[i] = PieceOf(word, i, n)
  PROVE  Unread(words \o <<word>>, read, p, pieces \o line, n)
<1>1. PICK u \in Nat : \E start : Layout(words, read, p, pieces, n, u, start)
  BY UnreadLayout
<1>2. PICK start : Layout(words, read, p, pieces, n, u, start)
  BY <1>1
<1>3. PICK more, all, size :
        more = words \o <<word>> /\ all = pieces \o line /\ size = Size(word, n)
  OBVIOUS
<1>4. size \in Nat /\ size > 0
  BY <1>3 DEF Size
<1>5. /\ all \in Seq(Piece) /\ Len(all) = Len(pieces) + size
      /\ Len(pieces) \in Nat
  BY <1>3, ConcatProperties, LenProperties
<1>6. \A i \in 1..Len(pieces) : all[i] = pieces[i]
  BY <1>3, ConcatProperties
<1>7. \A i \in 1..size : all[Len(pieces) + i] = PieceOf(word, i, n)
  <2> TAKE i \in 1..size
  <2>1. /\ Len(pieces) + i \in 1..Len(pieces) + Len(line)
        /\ ~(Len(pieces) + i <= Len(pieces)) /\ Len(pieces) + i - Len(pieces) = i
    BY <1>3, <1>4, <1>5
  <2>2. all[Len(pieces) + i] = line[i]
    BY <1>3, <2>1, ConcatProperties
  <2> QED BY <1>3, <2>2
<1>8. /\ more \in Seq(Word) /\ Len(more) = Len(words) + 1 /\ Len(words) \in Nat
      /\ \A i \in 1..Len(words) : more[i] = words[i]
      /\ more[Len(words) + 1] = word
  <2>1. <<word>> \in Seq(Word) /\ Len(<<word>>) = 1 /\ <<word>>[1] = word
    OBVIOUS
  <2> QED BY <1>3, <2>1, ConcatProperties, LenProperties
<1>9. Len(words) = read + u
  BY <1>2 DEF Layout
<1>10. \A k \in 1..u + 1 : /\ start[k] \in Int
                           /\ 1 - p <= start[k] /\ start[k] <= Len(pieces) + 1
  BY <1>2 DEF Layout
<1>11. start[1] = 1 - p /\ start[u + 1] = Len(pieces) + 1
  BY <1>2 DEF Layout
<1>12. \A k, l \in 1..u + 1 : k < l => start[k] < start[l]
  BY <1>2 DEF Layout
<1>13. \A k \in 1..u : /\ Size(words[read + k], n) \in Nat
                       /\ start[k + 1] = start[k] + Size(words[read + k], n)
                       /\ read + k \in 1..Len(words)
  BY <1>2 DEF Layout
<1>14. /\ \A k \in 1..u : more[read + k] = words[read + k]
       /\ more[read + (u + 1)] = word
  <2>1. read + (u + 1) = Len(words) + 1
    BY <1>9
  <2> QED BY <1>8, <1>13, <2>1
<1>15. p < Size(more[read + 1], n)
  <2>1. CASE u > 0
    <3>1. 1 \in 1..u /\ p < Size(words[read + 1], n)
      BY <1>2, <2>1 DEF Layout
    <3> QED BY <1>14, <3>1
  <2>2. CASE u = 0
    <3>1. p = 0
      BY <1>5, <1>11, <2>2
    <3>2. Size(more[read + 1], n) = size
      <4>1. read + (u + 1) = read + 1
        BY <2>2
      <4> QED BY <1>3, <1>14, <4>1
    <3> QED BY <1>4, <3>1, <3>2
  <2> QED BY <2>1, <2>2
<1>16. PICK v \in Nat : v = u + 1
  OBVIOUS
<1>17. PICK next :
         next = [k \in 1..v + 1 |-> IF k = v + 1 THEN Len(all) + 1 ELSE start[k]]
  OBVIOUS
<1>18. next[v + 1] = Len(all) + 1 /\ \A k \in 1..v : next[k] = start[k]
  <2>1. v + 1 \in 1..v + 1 /\ \A k \in 1..v : k \in 1..v + 1 /\ k # v + 1
    OBVIOUS
  <2> QED BY <1>17, <2>1
<1>19. \A k \in 1..v + 1 : k \in 1..v \/ k = v + 1
  OBVIOUS
<1>20. ASSUME NEW k \in 1..v + 1
       PROVE  /\ next[k] \in Int
              /\ 1 - p <= next[k] /\ next[k] <= Len(all) + 1
  <2>1. CASE k = v + 1
    BY <1>4, <1>5, <1>18, <2>1
  <2>2. CASE k \in 1..v
    <3>1. PICK s \in Int : s = start[k]
      BY <1>10, <1>16, <2>2
    <3>2. next[k] = s /\ 1 - p <= s /\ s <= Len(pieces) + 1
      BY <1>10, <1>16, <1>18, <2>2, <3>1
    <3> QED BY <1>4, <1>5, <3>2
  <2> QED BY <1>19, <2>1, <2>2
<1>21. next[1] = 1 - p
  <2>1. 1 \in 1..v
    BY <1>16
  <2> QED BY <1>11, <1>18, <2>1
<1>22. ASSUME NEW k \in 1..v + 1, NEW l \in 1..v + 1, k < l
       PROVE  next[k] < next[l]
  <2>1. k \in 1..v
    BY <1>22
  <2>2. CASE l = v + 1
    <3>1. PICK s \in Int : s = start[k]
      BY <1>10, <1>16, <2>1
    <3>2. next[k] = s /\ s <= Len(pieces) + 1
      BY <1>10, <1>16, <1>18, <2>1, <3>1
    <3> QED BY <1>4, <1>5, <1>18, <2>2, <3>2
  <2>3. CASE l \in 1..v
    BY <1>12, <1>16, <1>18, <1>22, <2>1, <2>3
  <2> QED BY <1>19, <2>2, <2>3
<1>23. ASSUME NEW k \in 1..v
       PROVE  Size(more[read + k], n) \in Nat /\ read + k \in 1..Len(more)
  <2>1. Size(more[read + k], n) \in Nat
    BY DEF Size
  <2> QED BY <1>8, <1>9, <1>16, <2>1
<1>24. \A k \in 1..v : k = u + 1 \/ k \in 1..u
  BY <1>16
<1>25. \A k \in 1..u : k \in 1..v /\ k + 1 \in 1..v
  BY <1>16
<1>26. ASSUME NEW k \in 1..v
       PROVE  next[k + 1] = next[k] + Size(more[read + k], n)
  <2>1. CASE k = u + 1
    <3>1. next[k + 1] = Len(all) + 1 /\ next[k] = start[u + 1]
      BY <1>16, <1>18, <2>1
    <3>2. Size(more[read + k], n) = size
      BY <1>3, <1>14, <2>1
    <3> QED BY <1>4, <1>5, <1>11, <3>1, <3>2
  <2>2. CASE k \in 1..u
    <3>1. next[k + 1] = start[k + 1] /\ next[k] = start[k]
      BY <1>18, <1>25, <2>2
    <3> QED BY <1>13, <1>14, <2>2, <3>1
  <2> QED BY <1>24, <2>1, <2>2
<1>27. ASSUME NEW k \in 1..v, NEW j \in 1..Size(more[read + k], n),
              next[k] + j > 1
       PROVE  all[next[k] + j - 1] = PieceOf(more[read + k], j, n)
  <2>1. CASE k = u + 1
    <3>1. next[k] = Len(pieces) + 1 /\ more[read + k] = word
      BY <1>11, <1>14, <1>16, <1>18, <2>1
    <3>2. j \in 1..size
      BY <1>3, <3>1
    <3>3. next[k] + j - 1 = Len(pieces) + j
      BY <1>5, <1>4, <3>1, <3>2
    <3> QED BY <1>7, <3>1, <3>2, <3>3
  <2>2. CASE k \in 1..u
    <3>1. /\ next[k] = start[k] /\ more[read + k] = words[read + k]
          /\ start[k] \in Int /\ start[k + 1] \in Int
          /\ start[k + 1] <= Len(pieces) + 1
      BY <1>10, <1>14, <1>16, <1>18, <1>25, <2>2
    <3>2. PICK s \in Int, m \in Nat :
            s = start[k] /\ m = Size(words[read + k], n)
      BY <1>13, <2>2, <3>1
    <3>3. j \in 1..m /\ s + m <= Len(pieces) + 1 /\ s + j > 1
      BY <1>13, <1>27, <2>2, <3>1, <3>2
    <3>4. s + j - 1 \in 1..Len(pieces)
      BY <1>5, <3>3
    <3>5. pieces[s + j - 1] = PieceOf(words[read + k], j, n)
      BY <1>2, <2>2, <3>2, <3>3 DEF Layout
    <3> QED BY <1>6, <3>1, <3>2, <3>4, <3>5
  <2> QED BY <1>24, <2>1, <2>2
<1>28. Len(more) = read + v
  BY <1>8, <1>9, <1>16
<1>29. Layout(more, read, p, all, n, v, next)
  BY <1>15, <1>18, <1>20, <1>21, <1>22, <1>23, <1>26, <1>27, <1>28, Zenon
  DEF Layout
<1>30. DOMAIN next = 1..v + 1 /\ next = [k \in 1..v + 1 |-> next[k]]
  BY <1>17
<1>31. Unread(more, read, p, all, n)
  BY <1>5, <1>8, <1>29, <1>30, LayoutUnread
<1> QED BY <1>3, <1>31

\* All that was said has been read when there is nothing of the next line.
LEMMA AllRead ==
  ASSUME NEW words \in Seq(Word), NEW read \in Nat, NEW p \in Nat,
         NEW pieces \in Seq(Piece), NEW n \in Nat \ {0},
         Unread(words, read, p, pieces, n), n = 1 \/ Len(words) = read
  PROVE  p = 0
<1>1. PICK u \in Nat : \E start : Layout(words, read, p, pieces, n, u, start)
  BY UnreadLayout
<1>2. PICK start : Layout(words, read, p, pieces, n, u, start)
  BY <1>1
<1>3. Len(pieces) \in Nat /\ Len(words) = read + u
  BY <1>2, LenProperties DEF Layout
<1>4. CASE u = 0
  <2>1. start[1] = 1 - p /\ start[u + 1] = Len(pieces) + 1
    BY <1>2 DEF Layout
  <2> QED BY <1>3, <1>4, <2>1
<1>5. CASE u > 0 /\ n = 1
  <2>1. p < Size(words[read + 1], n)
    BY <1>2, <1>5 DEF Layout
  <2> QED BY <1>5, <2>1 DEF Size
<1> QED BY <1>3, <1>4, <1>5

LEMMA NothingSaid ==
  ASSUME NEW n \in Nat \ {0}
  PROVE  Unread(<<>>, 0, 0, <<>>, n)
<1>1. PICK start : start = [k \in 1..0 + 1 |-> 1]
  OBVIOUS
<1>2. /\ <<>> \in Seq(Word) /\ <<>> \in Seq(Piece)
      /\ Len(<<>>) = 0 /\ 1..0 = {} /\ 1..0 + 1 = {1} /\ start[1] = 1
  BY <1>1
<1>3. Layout(<<>>, 0, 0, <<>>, n, 0, start)
  <2>1. Len(<<>>) = 0 + 0 /\ ~(0 > 0) /\ 1 = 1 - 0 /\ 0 + 1 = 1 /\ ~(1 < 1)
        /\ 1 \in Int /\ 1 <= 0 + 1 /\ 1 <= 1
    BY <1>2
  <2> QED BY <1>2, <2>1 DEF Layout
<1>4. DOMAIN start = 1..0 + 1 /\ start = [k \in 1..0 + 1 |-> start[k]]
  BY <1>1
<1>5. PICK none, zero : none = <<>> /\ zero = 0 /\ zero \in Nat
  OBVIOUS
<1>6. /\ none \in Seq(Word) /\ none \in Seq(Piece)
      /\ DOMAIN start = 1..zero + 1 /\ start = [k \in 1..zero + 1 |-> start[k]]
      /\ Layout(none, zero, zero, none, n, zero, start)
  BY <1>2, <1>3, <1>4, <1>5
<1>7. Unread(none, zero, zero, none, n)
  BY <1>5, <1>6, LayoutUnread
<1> QED BY <1>5, <1>7

-----------------------------------------------------------------------------
(* What a login says.                                                        *)

LEMMA BeginAtType ==
  \A steps : /\ CredentialsAt(steps) \in {2, 3}
             /\ BeginAt(steps) \in {CredentialsAt(steps) + 1,
                                    CredentialsAt(steps) + 2}
             /\ BeginAt(steps) \in {3, 4, 5}
<1> TAKE steps
<1>1. CredentialsAt(steps) \in {2, 3}
  BY DEF CredentialsAt
<1>2. BeginAt(steps) \in {CredentialsAt(steps) + 1, CredentialsAt(steps) + 2}
  BY DEF BeginAt
<1> QED BY <1>1, <1>2

LEMMA AnswersDueGrows ==
  ASSUME NEW steps, NEW i \in Nat, NEW j \in Nat, i <= j
  PROVE  /\ AnswersDue(steps, i) \in Nat
         /\ AnswersDue(steps, i) <= AnswersDue(steps, j)
<1>1. BeginAt(steps) \in {3, 4, 5}
  BY BeginAtType
<1>2. PICK b \in {3, 4, 5} : b = BeginAt(steps)
  BY <1>1
<1> QED BY <1>2 DEF AnswersDue

LEMMA LoginWords ==
  ASSUME NEW steps, IsLogin(steps),
         NEW i \in 1..Len(steps), Len(steps) \in Nat, i <= BeginAt(steps)
  PROVE  /\ steps[i].word # "MESSAGE"
         /\ steps[i].word = "BEGIN" <=> i = BeginAt(steps)
         /\ steps[i].word \in {"NUL", "BEGIN", "AUTH", "AUTH_EMPTY", "DATA",
                               "NEGOTIATE_UNIX_FD"}
         /\ AnswersDue(steps, i) = AnswersDue(steps, i - 1)
              + (IF steps[i].word \in {"NUL", "BEGIN"} THEN 0 ELSE 1)
<1>1. PICK b \in {3, 4, 5}, c \in {2, 3} :
        /\ b = BeginAt(steps) /\ c = CredentialsAt(steps)
        /\ b \in {c + 1, c + 2}
  BY BeginAtType
<1>2. /\ i = 1 => steps[i].word = "NUL"
      /\ i = 2 => steps[i].word \in {"AUTH", "AUTH_EMPTY"}
      /\ 2 < i /\ i <= c => steps[i].word = "DATA"
      /\ c < i /\ i < b => steps[i].word = "NEGOTIATE_UNIX_FD"
      /\ i = b => steps[i].word = "BEGIN"
  BY <1>1 DEF IsLogin
<1>3. i \in Nat /\ i <= b /\ i >= 1
  BY <1>1
<1>4. i = 1 \/ i = 2 \/ (2 < i /\ i <= c) \/ (c < i /\ i < b) \/ i = b
  BY <1>1, <1>3
<1>5. /\ i = 1 => i # b
      /\ i = 2 => i # b
      /\ i <= c => i # b
  BY <1>1
<1>6. /\ steps[i].word # "MESSAGE"
      /\ steps[i].word = "BEGIN" <=> i = b
      /\ steps[i].word = "NUL" <=> i = 1
      /\ steps[i].word \in {"NUL", "BEGIN", "AUTH", "AUTH_EMPTY", "DATA",
                            "NEGOTIATE_UNIX_FD"}
  BY <1>2, <1>4, <1>5, <1>1
<1>7. AnswersDue(steps, i) = AnswersDue(steps, i - 1)
              + (IF i = 1 \/ i = b THEN 0 ELSE 1)
  BY <1>1, <1>3 DEF AnswersDue
<1> QED BY <1>1, <1>6, <1>7

-----------------------------------------------------------------------------
(* Every line arrives.                                                       *)

\* What LineTracking rests on: the types, as the lemmas above want them.
LEMMA LineFacts ==
  ASSUME TypeOK
  PROVE  /\ script.steps \in Seq([word : ClientWord, after : Nat])
         /\ script.pieces \in Nat \ {0} /\ Len(script.steps) \in Nat
         /\ \A end \in End : /\ said[end] \in Seq(Word)
                             /\ relayed[end] \in Seq(Line)
                             /\ Len(said[end]) \in Nat
                             /\ Len(relayed[end]) \in Nat
         /\ \A end \in {"client", "sandbox"} :
              /\ wire[end] \in Seq(Piece)
              /\ partial[end] \in Nat
         /\ heard["sandbox"] \in Nat /\ heard["host"] \in Nat
<1>1. /\ script.steps \in Seq([word : ClientWord, after : Nat])
      /\ script.pieces \in Nat \ {0}
  BY HandshakeAssumption DEF TypeOK
<1>2. Len(script.steps) \in Nat
  BY <1>1, LenProperties
<1>3. ASSUME NEW end \in End
      PROVE  /\ said[end] \in Seq(Word) /\ relayed[end] \in Seq(Line)
             /\ Len(said[end]) \in Nat /\ Len(relayed[end]) \in Nat
  BY LenProperties DEF TypeOK
<1>4. ASSUME NEW end \in {"client", "sandbox"}
      PROVE  wire[end] \in Seq(Piece) /\ partial[end] \in Nat
  <2>1. partial[end] \in 0..AuthBufferSize /\ AuthBufferSize \in Nat
    BY HandshakeAssumption DEF TypeOK
  <2> QED BY <2>1 DEF TypeOK
<1>5. heard["sandbox"] \in Nat /\ heard["host"] \in Nat
  BY DEF TypeOK
<1> QED BY <1>1, <1>2, <1>3, <1>4, <1>5

\* LineTracking is about the two pipes between the client and the sandbox bus.
LinesAsBefore ==
  /\ script' = script /\ begin_received' = begin_received
  /\ partial' = partial
  /\ heard'["sandbox"] = heard["sandbox"]
  /\ \A end \in {"client", "sandbox"} :
       /\ said'[end] = said[end] /\ relayed'[end] = relayed[end]
       /\ wire'[end] = wire[end]

LEMMA LinesKept ==
  ASSUME LineTracking, LinesAsBefore,
         phase' \in {phase, "failed"} \/ ( /\ phase \notin {"null", "failed"}
                                           /\ phase' # "null" )
  PROVE  LineTracking'
<1>1. KeepsToScript'
  BY DEF LineTracking, LinesAsBefore, KeepsToScript
<1>2. NothingLost'
  BY DEF LineTracking, LinesAsBefore, NothingLost, RelaysLines, Relays
<1>3. ReadToBegin'
  BY DEF LineTracking, LinesAsBefore, ReadToBegin
<1>4. LinesAnswered'
  BY DEF LineTracking, LinesAsBefore, LinesAnswered
<1> QED BY <1>1, <1>2, <1>3, <1>4 DEF LineTracking

\* The steps of one login that the client's next unread line belongs to.
LEMMA NextClientLine ==
  ASSUME TypeOK, LineTracking, wire["client"] # <<>>, ~begin_received,
         Len(relayed["sandbox"]) > 0
  PROVE  LET c == Len(relayed["sandbox"])
         IN  /\ IsLogin(script.steps)
             /\ c + 1 \in 1..Len(script.steps)
             /\ c + 1 \in 1..Len(said["client"])
             /\ c + 1 <= BeginAt(script.steps)
             /\ Head(wire["client"]).word = script.steps[c + 1].word
             /\ script.steps[c + 1].after <= Len(relayed["client"])
<1>1. PICK c \in Nat : c = Len(relayed["sandbox"])
  BY LineFacts, Ends
<1>2. /\ c < Len(said["client"])
      /\ Head(wire["client"]) =
           PieceOf(said["client"][c + 1], partial["client"] + 1, script.pieces)
  <2>1. Unread(said["client"], c, partial["client"], wire["client"],
               script.pieces)
    BY <1>1 DEF LineTracking, NothingLost
  <2>2. /\ said["client"] \in Seq(Word) /\ partial["client"] \in Nat
        /\ wire["client"] \in Seq(Piece) /\ script.pieces \in Nat \ {0}
    BY LineFacts, Ends
  <2> QED BY SMTT(30), <2>1, <2>2, NextPiece
<1>3. /\ Len(said["client"]) \in Nat /\ Len(script.steps) \in Nat
      /\ Len(said["client"]) <= Len(script.steps)
  BY LineFacts, Ends DEF LineTracking, KeepsToScript
<1>4. c + 1 \in 1..Len(said["client"]) /\ c + 1 \in 1..Len(script.steps)
  BY <1>2, <1>3
<1>5. /\ said["client"][c + 1] = script.steps[c + 1].word
      /\ script.steps[c + 1].after <= Len(relayed["client"])
  BY <1>4 DEF LineTracking, KeepsToScript
<1>6. IsLogin(script.steps) /\ c <= BeginAt(script.steps)
      /\ c # BeginAt(script.steps)
  BY <1>1 DEF LineTracking, ReadToBegin
<1>7. c + 1 <= BeginAt(script.steps)
  BY <1>6, BeginAtType
<1>8. Head(wire["client"]).word = script.steps[c + 1].word
  BY <1>2, <1>5 DEF PieceOf
<1> QED BY <1>1, <1>4, <1>5, <1>6, <1>7, <1>8

\* Nothing is in the read that the completed one drops: a client whose lines
\* come in pieces has nothing unread while an answer is due to it.
LEMMA OtherReadIsEmpty ==
  ASSUME ClientsLogIn, TypeOK, LineTracking
  PROVE  /\ wire["client"] # <<>> /\ ~begin_received
              /\ Len(relayed["sandbox"]) > 0 => partial["sandbox"] = 0
         /\ wire["sandbox"] # <<>> => partial["client"] = 0
<1>1. PICK c \in Nat, r \in Nat, h \in Nat, sc \in Nat, ss \in Nat :
        /\ c = Len(relayed["sandbox"]) /\ r = Len(relayed["client"])
        /\ h = heard["sandbox"]
        /\ sc = Len(said["client"]) /\ ss = Len(said["sandbox"])
  BY LineFacts, Ends
<1>2. h <= c /\ ss = AnswersDue(script.steps, h) /\ r <= ss /\ c <= sc
  BY <1>1 DEF LineTracking, LinesAnswered, NothingLost, RelaysLines, Relays
<1>3. PICK due \in Nat : due = AnswersDue(script.steps, c)
  BY <1>2, AnswersDueGrows
<1>4. ss <= due
  BY <1>2, <1>3, AnswersDueGrows
<1>5. c < sc => script.pieces = 1 \/ due <= r
  <2> SUFFICES ASSUME c < sc, script.pieces # 1 PROVE due <= r
    OBVIOUS
  <2>1. TakesTurns(script.steps)
    BY DEF ClientsLogIn, TypeOK
  <2>2. sc <= Len(script.steps) /\ Len(script.steps) \in Nat
    BY <1>1, LineFacts DEF LineTracking, KeepsToScript
  <2>3. c + 1 \in 1..Len(script.steps) /\ c + 1 \in 1..sc /\ (c + 1) - 1 = c
    BY <2>2
  <2>4. script.steps[c + 1].after <= r
    BY <1>1, <2>3 DEF LineTracking, KeepsToScript
  <2>5. script.steps[c + 1].after >= due
    BY <1>3, <2>1, <2>3 DEF TakesTurns
  <2>6. script.steps[c + 1].after \in Nat
    <3>1. script.steps[c + 1] \in [word : ClientWord, after : Nat]
      BY <2>3, LineFacts, ElementOfSeq
    <3> QED BY <3>1
  <2> QED BY <2>4, <2>5, <2>6
<1>6. /\ Unread(said["client"], c, partial["client"], wire["client"],
                script.pieces)
      /\ Unread(said["sandbox"], r, partial["sandbox"], wire["sandbox"],
                script.pieces)
  BY <1>1 DEF LineTracking, NothingLost
<1>7. ASSUME wire["client"] # <<>>, ~begin_received, c > 0
      PROVE  partial["sandbox"] = 0
  <2>1. c < sc
    BY <1>1, <1>6, <1>7, NextPiece, LineFacts, Ends
  <2>2. script.pieces = 1 \/ ss = r
    BY <1>2, <1>4, <1>5, <2>1
  <2> QED BY <1>1, <1>6, <2>2, AllRead, LineFacts, Ends
<1>8. ASSUME wire["sandbox"] # <<>>
      PROVE  partial["client"] = 0
  <2>1. r < ss
    BY <1>1, <1>6, <1>8, NextPiece, LineFacts, Ends
  <2>2. script.pieces = 1 \/ sc = c
    BY <1>2, <1>4, <1>5, <2>1
  <2> QED BY <1>1, <1>6, <2>2, AllRead, LineFacts, Ends
<1> QED BY <1>1, <1>7, <1>8

\* The next line of one end is taken as a whole and written to the other one.
LEMMA WholeLineTaken ==
  ASSUME TypeOK, LineTracking,
         NEW from \in {"client", "sandbox"}, NEW to \in {"client", "sandbox"},
         from # to, wire[from] # <<>>,
         Head(wire[from]).part = Head(wire[from]).of,
         Consume(from), partial'[from] = 0,
         Write(to, <<Whole(Head(wire[from]).word)>>),
         UNCHANGED <<said, script>>,
         Unread(said[to], Len(relayed[from]), partial'[to], wire[to],
                script.pieces)
  PROVE  /\ NothingLost'
         /\ Len(relayed'[to]) = Len(relayed[to]) + 1
         /\ relayed'[from] = relayed[from]
<1>1. PICK c \in Nat : c = Len(relayed[to])
  BY LineFacts, Ends
<1>2. /\ said[from] \in Seq(Word) /\ partial[from] \in Nat
      /\ wire[from] \in Seq(Piece) /\ script.pieces \in Nat \ {0}
      /\ relayed[to] \in Seq(Line) /\ Len(said[from]) \in Nat
  BY LineFacts, Ends
<1>3. Unread(said[from], c, partial[from], wire[from], script.pieces)
  BY <1>1 DEF LineTracking, NothingLost
<1>4. /\ Head(wire[from]).word = said[from][c + 1]
      /\ Unread(said[from], c + 1, 0, Tail(wire[from]), script.pieces)
  BY SMTT(30), <1>2, <1>3, LineTaken
<1>5. c < Len(said[from])
  BY <1>2, <1>3, NextPiece
<1>6. /\ wire'[from] = Tail(wire[from]) /\ wire'[to] = wire[to]
      /\ relayed'[to] = Append(relayed[to], Whole(said[from][c + 1]))
      /\ relayed'[from] = relayed[from]
  <2>1. /\ wire'[from] = Tail(wire[from]) /\ wire'[to] = wire[to]
        /\ relayed'[to] = relayed[to] \o <<Whole(said[from][c + 1])>>
        /\ relayed'[from] = relayed[from]
    BY <1>4, Ends DEF Consume, Write, TypeOK
  <2> QED BY <1>2, <2>1, AppendIsConcat
<1>7. /\ Len(relayed'[to]) = c + 1
      /\ \A i \in 1..c : relayed'[to][i] = relayed[to][i]
      /\ relayed'[to][c + 1] = Whole(said[from][c + 1])
  BY <1>1, <1>2, <1>6, AppendProperties
<1>8. Relays(from, to)'
  <2>1. \A i \in 1..c : relayed[to][i] = Whole(said[from][i])
    BY <1>1 DEF LineTracking, NothingLost, RelaysLines, Relays
  <2>2. \A i \in 1..c + 1 : i \in 1..c \/ i = c + 1
    OBVIOUS
  <2>3. \A i \in 1..c + 1 : relayed'[to][i] = Whole(said[from][i])
    BY <1>7, <2>1, <2>2
  <2> QED BY <1>2, <1>5, <1>7, <2>3 DEF Relays, Whole
<1>9. Relays(to, from)'
  <2>1. Relays(to, from)
    BY DEF LineTracking, NothingLost, RelaysLines
  <2> QED BY <1>6, <2>1 DEF Relays, Whole
<1>10. /\ Unread(said'[from], Len(relayed'[to]), partial'[from],
                 wire'[from], script'.pieces)
       /\ Unread(said'[to], Len(relayed'[from]), partial'[to],
                 wire'[to], script'.pieces)
  BY <1>4, <1>6, <1>7
<1>11. NothingLost'
  BY <1>8, <1>9, <1>10 DEF NothingLost, RelaysLines
<1> QED BY <1>1, <1>6, <1>7, <1>11

LEMMA ForwardNullLines ==
  ASSUME ClientsLogIn, TypeOK, LineTracking, ForwardNull
  PROVE  LineTracking'
<1>1. /\ phase = "null" /\ phase' = "auth" /\ wire["client"] # <<>>
      /\ Head(wire["client"]).word = "NUL"
      /\ Consume("client") /\ Write("sandbox", <<Whole("NUL")>>)
      /\ UNCHANGED <<begin_received, pending_responses, partial, open, script,
                     hostpass, said, heard>>
  BY DEF ForwardNull, outside
<1>2. Len(relayed["sandbox"]) = 0
  BY <1>1 DEF LineTracking, ReadToBegin
<1>3. /\ Unread(said["client"], 0, partial["client"], wire["client"],
                script.pieces)
      /\ Unread(said["sandbox"], Len(relayed["client"]), partial["sandbox"],
                wire["sandbox"], script.pieces)
  BY <1>2 DEF LineTracking, NothingLost
<1>4. /\ Head(wire["client"]) =
           PieceOf(said["client"][1], partial["client"] + 1, script.pieces)
      /\ partial["client"] < Size(said["client"][1], script.pieces)
      /\ 0 < Len(said["client"])
  <2>1. PICK zero \in Nat : zero = 0 /\ zero + 1 = 1
    OBVIOUS
  <2>2. /\ Unread(said["client"], zero, partial["client"], wire["client"],
                  script.pieces)
        /\ said["client"] \in Seq(Word) /\ partial["client"] \in Nat
        /\ wire["client"] \in Seq(Piece) /\ script.pieces \in Nat \ {0}
    BY <1>3, <2>1, LineFacts, Ends
  <2>3. /\ Head(wire["client"]) = PieceOf(said["client"][zero + 1],
                                    partial["client"] + 1, script.pieces)
        /\ partial["client"] < Size(said["client"][zero + 1], script.pieces)
        /\ zero < Len(said["client"])
    BY SMTT(30), <1>1, <2>2, NextPiece
  <2> QED BY <2>1, <2>3
<1>5. said["client"][1] = "NUL"
  BY <1>1, <1>4 DEF PieceOf
<1>6. /\ partial["client"] = 0
      /\ Head(wire["client"]).part = Head(wire["client"]).of
  <2>1. partial["client"] \in Nat /\ partial["client"] < 1
    BY <1>4, <1>5, LineFacts DEF Size
  <2> QED BY <1>4, <1>5, <2>1 DEF PieceOf, Size
<1>7. NothingLost' /\ Len(relayed'["sandbox"]) = 0 + 1
      /\ relayed'["client"] = relayed["client"]
  <2>1. /\ partial'["client"] = 0 /\ UNCHANGED <<said, script>>
        /\ Unread(said["sandbox"], Len(relayed["client"]), partial'["sandbox"],
                wire["sandbox"], script.pieces)
        /\ Write("sandbox", <<Whole(Head(wire["client"]).word)>>)
    BY <1>1, <1>3, <1>6
  <2> QED BY <1>1, <1>2, <1>6, <2>1, WholeLineTaken
<1>8. script.steps[1].word = "NUL"
  <2>1. 1 \in 1..Len(said["client"])
    BY <1>4, LineFacts, Ends
  <2> QED BY <1>5, <2>1 DEF LineTracking, KeepsToScript
<1>9. KeepsToScript'
  BY <1>1, <1>7 DEF LineTracking, KeepsToScript
<1>10. ReadToBegin'
  <2>1. IsLogin(script.steps)
    BY <1>8 DEF ClientsLogIn, TypeOK
  <2>2. ~begin_received /\ BeginAt(script.steps) \in {3, 4, 5}
    BY <1>2, BeginAtType DEF LineTracking, ReadToBegin
  <2> QED BY <1>1, <1>7, <2>1, <2>2 DEF ReadToBegin
<1>11. LinesAnswered'
  <2>1. heard["sandbox"] \in Nat /\ heard["sandbox"] <= 0
    BY <1>2, LineFacts DEF LineTracking, LinesAnswered
  <2> QED BY <1>1, <1>7, <2>1 DEF LineTracking, LinesAnswered
<1> QED BY <1>7, <1>9, <1>10, <1>11 DEF LineTracking

LEMMA ReadPartLines ==
  ASSUME TypeOK, LineTracking,
         NEW end \in {"client", "sandbox"}, ReadPart(end)
  PROVE  LineTracking'
<1>1. /\ phase = "auth" /\ wire[end] # <<>> /\ ~EndsLine(Head(wire[end]))
      /\ end = "client" => ~begin_received
      /\ wire' = [wire EXCEPT ![end] = Tail(@)]
      /\ partial' = [partial EXCEPT ![end] = @ + 1]
      /\ UNCHANGED <<phase, begin_received, pending_responses, relayed, open,
                     script, hostpass, said, heard>>
  BY DEF ReadPart, MayRead, Consume, outside
<1> DEFINE other == IF end = "client" THEN "sandbox" ELSE "client"
<1>2. /\ said[end] \in Seq(Word) /\ partial[end] \in Nat
      /\ wire[end] \in Seq(Piece) /\ script.pieces \in Nat \ {0}
      /\ relayed[other] \in Seq(Line) /\ Len(relayed[other]) \in Nat
  BY LineFacts, Ends
<1>3. PICK c \in Nat : c = Len(relayed[other])
  BY <1>2
<1>4. Unread(said[end], c, partial[end], wire[end], script.pieces)
  BY <1>3 DEF LineTracking, NothingLost
<1>5. Head(wire[end]).word # "MESSAGE"
  <2>1. CASE end = "client"
    <3>1. Len(relayed["sandbox"]) > 0
      BY <1>1 DEF LineTracking, ReadToBegin
    <3>2. /\ IsLogin(script.steps) /\ c + 1 \in 1..Len(script.steps)
          /\ c + 1 <= BeginAt(script.steps)
          /\ Head(wire["client"]).word = script.steps[c + 1].word
      BY <1>1, <1>3, <2>1, <3>1, NextClientLine
    <3> QED BY <2>1, <3>2, LoginWords, LineFacts
  <2>2. CASE end = "sandbox"
    <3>1. /\ c < Len(said[end])
          /\ Head(wire[end]) =
               PieceOf(said[end][c + 1], partial[end] + 1, script.pieces)
      <4>1. /\ said[end] \in Seq(Word) /\ partial[end] \in Nat
            /\ wire[end] \in Seq(Piece) /\ script.pieces \in Nat \ {0}
            /\ wire[end] # <<>>
        BY <1>1, <1>2
      <4> QED BY SMTT(30), <1>4, <4>1, NextPiece
    <3>2. c + 1 \in 1..Len(said[end])
      BY <3>1, LineFacts, Ends
    <3>3. said[end][c + 1] # "MESSAGE"
      BY <2>2, <3>2 DEF LineTracking, LinesAnswered
    <3> QED BY <3>1, <3>3 DEF PieceOf
  <2> QED BY <2>1, <2>2
<1>6. Unread(said[end], c, partial[end] + 1, Tail(wire[end]), script.pieces)
  <2>1. Head(wire[end]).part # Head(wire[end]).of
    BY <1>1, <1>5 DEF EndsLine
  <2> QED BY <1>1, <1>2, <1>4, <2>1, PieceTaken
<1>7. /\ wire'[end] = Tail(wire[end]) /\ wire'[other] = wire[other]
      /\ partial'[end] = partial[end] + 1 /\ partial'[other] = partial[other]
  BY <1>1, Ends DEF TypeOK
<1>8. NothingLost'
  <2>1. Unread(said'[end], Len(relayed'[other]), partial'[end],
               wire'[end], script'.pieces)
    BY <1>1, <1>3, <1>6, <1>7
  <2>2. Unread(said[other], Len(relayed[end]), partial[other],
               wire[other], script.pieces)
    BY DEF LineTracking, NothingLost
  <2>3. Unread(said'[other], Len(relayed'[end]), partial'[other],
               wire'[other], script'.pieces)
    BY <1>1, <1>7, <2>2
  <2>4. RelaysLines'
    BY <1>1 DEF LineTracking, NothingLost, RelaysLines, Relays, Whole
  <2> QED BY <2>1, <2>3, <2>4 DEF NothingLost
<1>9. KeepsToScript'
  BY <1>1 DEF LineTracking, KeepsToScript
<1>10. ReadToBegin'
  BY <1>1, <1>7 DEF LineTracking, ReadToBegin
<1>11. LinesAnswered'
  BY <1>1 DEF LineTracking, LinesAnswered
<1> QED BY <1>8, <1>9, <1>10, <1>11 DEF LineTracking

LEMMA FailLines == ASSUME LineTracking, Fail PROVE LineTracking'
BY LinesKept DEF Fail, LinesAsBefore, outside

\* A line that is complete is the next one that was said, and whole.
LEMMA NextLineIsWhole ==
  ASSUME TypeOK, LineTracking,
         NEW from \in {"client", "sandbox"}, NEW to \in {"client", "sandbox"},
         from # to, Complete(from)
  PROVE  LET c == Len(relayed[to])
         IN  /\ c + 1 \in 1..Len(said[from])
             /\ Head(wire[from]).word = said[from][c + 1]
             /\ LineOf(from) = Whole(said[from][c + 1])
<1>1. PICK c \in Nat : c = Len(relayed[to])
  BY LineFacts, Ends
<1>2. wire[from] # <<>> /\ EndsLine(Head(wire[from]))
  BY DEF Complete
<1>3. /\ said[from] \in Seq(Word) /\ partial[from] \in Nat
      /\ wire[from] \in Seq(Piece) /\ script.pieces \in Nat \ {0}
      /\ Len(said[from]) \in Nat
  BY LineFacts, Ends
<1>4. Unread(said[from], c, partial[from], wire[from], script.pieces)
  BY <1>1 DEF LineTracking, NothingLost
<1>5. /\ Head(wire[from]).word = said[from][c + 1]
      /\ partial[from] + 1 = Head(wire[from]).of
  BY SMTT(30), <1>2, <1>3, <1>4, LineTaken DEF EndsLine
<1>6. c < Len(said[from])
  BY <1>2, <1>3, <1>4, NextPiece
<1>7. LineOf(from) = Whole(said[from][c + 1])
  BY <1>2, <1>5 DEF LineOf, Whole, EndsLine
<1> QED BY <1>1, <1>3, <1>5, <1>6, <1>7

LEMMA ReadClientLines ==
  ASSUME ClientsLogIn, TypeOK, LineTracking, ReadClientLine
  PROVE  LineTracking'
<1>1. CASE Fail
  BY <1>1, FailLines
<1>2. CASE "sandbox" \in open
  <2>1. /\ phase = "auth" /\ ~begin_received /\ wire["client"] # <<>>
        /\ EndsLine(Head(wire["client"]))
        /\ Consume("client") /\ Write("sandbox", <<LineOf("client")>>)
        /\ begin_received' = (begin_received \/ Is(LineOf("client"), {"BEGIN"}))
        /\ DropReads
        /\ UNCHANGED <<phase, open, script, hostpass, said, heard>>
    BY <1>2 DEF ReadClientLine, Complete, MayRead, outside
  <2>2. PICK c \in Nat : c = Len(relayed["sandbox"]) /\ c > 0
    BY <2>1, LineFacts, Ends DEF LineTracking, ReadToBegin
  <2>3. /\ IsLogin(script.steps) /\ c + 1 \in 1..Len(script.steps)
        /\ c + 1 <= BeginAt(script.steps)
        /\ Head(wire["client"]).word = script.steps[c + 1].word
    BY <2>1, <2>2, NextClientLine
  <2>4. LineOf("client") = Whole(Head(wire["client"]).word)
    BY <1>2, NextLineIsWhole DEF ReadClientLine
  <2>5. /\ NothingLost' /\ Len(relayed'["sandbox"]) = c + 1
        /\ relayed'["client"] = relayed["client"] /\ partial'["client"] = 0
    <3>1. partial["sandbox"] = 0
      BY <2>1, <2>2, OtherReadIsEmpty
    <3>2. Unread(said["sandbox"], Len(relayed["client"]), partial["sandbox"],
                 wire["sandbox"], script.pieces)
      BY DEF LineTracking, NothingLost
    <3>3. partial'["sandbox"] = 0 /\ partial'["client"] = 0
      BY <2>1 DEF DropReads
    <3>4. Head(wire["client"]).part = Head(wire["client"]).of
      BY <2>1 DEF EndsLine
    <3> QED BY <2>1, <2>2, <2>4, <3>1, <3>2, <3>3, <3>4, WholeLineTaken
  <2>6. KeepsToScript'
    BY <2>1, <2>5 DEF LineTracking, KeepsToScript
  <2>7. ReadToBegin'
    <3>1. begin_received' <=> script.steps[c + 1].word = "BEGIN"
      <4>1. Is(LineOf("client"), {"BEGIN"}) <=>
              script.steps[c + 1].word = "BEGIN"
        BY <2>3, <2>4 DEF Is, Whole
      <4> QED BY <2>1, <4>1
    <3>2. script.steps[c + 1].word = "BEGIN" <=> c + 1 = BeginAt(script.steps)
      BY <2>3, LoginWords, LineFacts
    <3> QED BY <2>1, <2>2, <2>3, <2>5, <3>1, <3>2 DEF ReadToBegin
  <2>8. LinesAnswered'
    <3>1. heard["sandbox"] \in Nat /\ heard["sandbox"] <= c
      BY <2>2, LineFacts DEF LineTracking, LinesAnswered
    <3> QED BY <2>1, <2>5, <3>1 DEF LineTracking, LinesAnswered
  <2> QED BY <2>5, <2>6, <2>7, <2>8 DEF LineTracking
<1> QED BY <1>1, <1>2 DEF ReadClientLine

LEMMA ReadSandboxLines ==
  ASSUME ClientsLogIn, TypeOK, LineTracking, ReadSandboxLine
  PROVE  LineTracking'
<1>1. CASE Fail
  BY <1>1, FailLines
<1>2. CASE "client" \in open
  <2>1. /\ phase = "auth" /\ wire["sandbox"] # <<>>
        /\ EndsLine(Head(wire["sandbox"]))
        /\ Consume("sandbox") /\ Write("client", <<LineOf("sandbox")>>)
        /\ DropReads
        /\ UNCHANGED <<phase, begin_received, open, script, hostpass, said,
                       heard>>
    BY <1>2 DEF ReadSandboxLine, Complete, MayRead, outside
  <2>2. PICK c \in Nat : c = Len(relayed["client"])
    BY LineFacts, Ends
  <2>3. LineOf("sandbox") = Whole(Head(wire["sandbox"]).word)
    BY <1>2, NextLineIsWhole DEF ReadSandboxLine
  <2>4. /\ NothingLost' /\ Len(relayed'["client"]) = c + 1
        /\ relayed'["sandbox"] = relayed["sandbox"] /\ partial'["client"] = 0
    <3>1. partial["client"] = 0
      BY <2>1, OtherReadIsEmpty
    <3>2. Unread(said["client"], Len(relayed["sandbox"]), partial["client"],
                 wire["client"], script.pieces)
      BY DEF LineTracking, NothingLost
    <3>3. partial'["sandbox"] = 0 /\ partial'["client"] = 0
      BY <2>1 DEF DropReads
    <3>4. Head(wire["sandbox"]).part = Head(wire["sandbox"]).of
      BY <2>1 DEF EndsLine
    <3> QED BY <2>1, <2>2, <2>3, <3>1, <3>2, <3>3, <3>4, WholeLineTaken
  <2>5. KeepsToScript'
    <3>1. ASSUME NEW i \in 1..Len(said["client"])
          PROVE  script.steps[i].after <= c + 1
      <4>1. script.steps[i].after <= c
        BY <2>2 DEF LineTracking, KeepsToScript
      <4>2. script.steps[i].after \in Nat
        <5>1. i \in 1..Len(script.steps)
          BY LineFacts, Ends DEF LineTracking, KeepsToScript
        <5>2. script.steps[i] \in [word : ClientWord, after : Nat]
          BY <5>1, LineFacts, ElementOfSeq
        <5> QED BY <5>2
      <4> QED BY <4>1, <4>2
    <3> QED BY <2>1, <2>4, <3>1 DEF LineTracking, KeepsToScript
  <2>6. ReadToBegin'
    BY <2>1, <2>4 DEF LineTracking, ReadToBegin
  <2>7. LinesAnswered'
    BY <2>1, <2>4 DEF LineTracking, LinesAnswered
  <2> QED BY <2>4, <2>5, <2>6, <2>7 DEF LineTracking
<1> QED BY <1>1, <1>2 DEF ReadSandboxLine

\* What an end says comes after everything it has said before.
LEMMA LineAdded ==
  ASSUME TypeOK, LineTracking,
         NEW from \in {"client", "sandbox"}, NEW to \in {"client", "sandbox"},
         from # to, NEW word \in Word,
         Say(from, <<word>>, Pieces(word)),
         UNCHANGED <<partial, relayed, script>>
  PROVE  /\ NothingLost'
         /\ Len(said'[from]) = Len(said[from]) + 1
         /\ \A i \in 1..Len(said[from]) : said'[from][i] = said[from][i]
         /\ said'[from][Len(said[from]) + 1] = word
         /\ said'[to] = said[to]
<1>1. /\ said[from] \in Seq(Word) /\ partial[from] \in Nat
      /\ wire[from] \in Seq(Piece) /\ script.pieces \in Nat \ {0}
      /\ Len(said[from]) \in Nat /\ Len(relayed[to]) \in Nat
  BY LineFacts, Ends
<1>2. /\ Pieces(word) \in Seq(Piece)
      /\ Len(Pieces(word)) = Size(word, script.pieces)
      /\ \A i \in 1..Size(word, script.pieces) :
           Pieces(word)[i] = PieceOf(word, i, script.pieces)
  BY PiecesOfLine DEF TypeOK
<1>3. Unread(said[from], Len(relayed[to]), partial[from], wire[from],
             script.pieces)
  BY DEF LineTracking, NothingLost
<1>4. Unread(said[from] \o <<word>>, Len(relayed[to]), partial[from],
             wire[from] \o Pieces(word), script.pieces)
  BY <1>1, <1>2, <1>3, LineSaid
<1>5. /\ said'[from] = said[from] \o <<word>> /\ said'[to] = said[to]
      /\ wire'[from] = wire[from] \o Pieces(word) /\ wire'[to] = wire[to]
  BY Ends DEF Say, TypeOK
<1>6. /\ Len(said'[from]) = Len(said[from]) + 1
      /\ \A i \in 1..Len(said[from]) : said'[from][i] = said[from][i]
      /\ said'[from][Len(said[from]) + 1] = word
  <2>1. said'[from] = Append(said[from], word)
    BY <1>1, <1>5, AppendIsConcat
  <2> QED BY <1>1, <2>1, AppendProperties
<1>7. Unread(said'[from], Len(relayed'[to]), partial'[from], wire'[from],
             script'.pieces)
  BY <1>4, <1>5
<1>8. Unread(said'[to], Len(relayed'[from]), partial'[to], wire'[to],
             script'.pieces)
  <2>1. Unread(said[to], Len(relayed[from]), partial[to], wire[to],
               script.pieces)
    BY DEF LineTracking, NothingLost
  <2> QED BY <1>5, <2>1
<1>9. Relays(from, to)'
  <2>1. /\ Len(relayed[to]) <= Len(said[from])
        /\ \A i \in 1..Len(relayed[to]) :
             i \in 1..Len(said[from]) /\ relayed[to][i] = Whole(said[from][i])
    BY SMTT(30), <1>1 DEF LineTracking, NothingLost, RelaysLines, Relays
  <2>2. Len(relayed'[to]) <= Len(said'[from])
    BY <1>1, <1>6, <2>1
  <2>3. \A i \in 1..Len(relayed'[to]) : relayed'[to][i] = Whole(said'[from][i])
    BY <1>6, <2>1
  <2> QED BY <2>2, <2>3 DEF Relays, Whole
<1>10. Relays(to, from)'
  <2>1. Relays(to, from)
    BY DEF LineTracking, NothingLost, RelaysLines
  <2> QED BY <1>5, <2>1 DEF Relays, Whole
<1>11. NothingLost'
  BY <1>7, <1>8, <1>9, <1>10 DEF NothingLost, RelaysLines
<1> QED BY <1>5, <1>6, <1>11

LEMMA ClientSendsLines ==
  ASSUME TypeOK, LineTracking, ClientSends
  PROVE  LineTracking'
<1>1. PICK sc \in Nat : sc = Len(said["client"])
  BY LineFacts, Ends
<1>2. PICK step : step = script.steps[sc + 1]
  OBVIOUS
<1>3. /\ Len(said["client"]) < Len(script.steps)
      /\ step.after <= Len(relayed["client"])
      /\ Say("client", <<step.word>>, Pieces(step.word))
      /\ UNCHANGED <<phase, begin_received, pending_responses, partial,
                     relayed, open, script, hostpass, heard>>
  BY <1>1, <1>2 DEF ClientSends, router
<1>4. step.word \in Word
  <2>1. sc + 1 \in 1..Len(script.steps)
    BY <1>1, <1>3, LineFacts
  <2>2. step \in [word : ClientWord, after : Nat]
    BY <1>2, <2>1, LineFacts, ElementOfSeq
  <2> QED BY <2>2, Words
<1>5. /\ NothingLost' /\ Len(said'["client"]) = sc + 1
      /\ \A i \in 1..sc : said'["client"][i] = said["client"][i]
      /\ said'["client"][sc + 1] = step.word
      /\ said'["sandbox"] = said["sandbox"]
  BY <1>1, <1>3, <1>4, LineAdded
<1>6. KeepsToScript'
  <2>1. sc + 1 <= Len(script.steps)
    BY <1>1, <1>3, LineFacts
  <2>2. ASSUME NEW i \in 1..sc + 1
        PROVE  /\ said'["client"][i] = script.steps[i].word
               /\ script.steps[i].after <= Len(relayed["client"])
    <3>1. CASE i = sc + 1
      BY <1>2, <1>3, <1>5, <3>1
    <3>2. CASE i \in 1..sc
      BY <1>1, <1>5, <3>2 DEF LineTracking, KeepsToScript
    <3> QED BY <3>1, <3>2
  <2> QED BY <1>3, <1>5, <2>1, <2>2 DEF KeepsToScript
<1>7. ReadToBegin'
  BY <1>3 DEF LineTracking, ReadToBegin
<1>8. LinesAnswered'
  BY <1>3, <1>5 DEF LineTracking, LinesAnswered
<1> QED BY <1>5, <1>6, <1>7, <1>8 DEF LineTracking

\* The line the bus deals with next.
LEMMA LineHeard ==
  ASSUME TypeOK, LineTracking, heard["sandbox"] < Len(relayed["sandbox"])
  PROVE  LET i == heard["sandbox"] + 1
         IN  /\ IsLogin(script.steps)
             /\ i \in 1..Len(script.steps) /\ i \in 1..Len(relayed["sandbox"])
             /\ i \in 1..Len(said["client"])
             /\ i <= BeginAt(script.steps)
             /\ relayed["sandbox"][i] = Whole(script.steps[i].word)
<1>1. PICK h \in Nat, c \in Nat, sc \in Nat, n \in Nat, b \in {3, 4, 5} :
        /\ h = heard["sandbox"] /\ c = Len(relayed["sandbox"])
        /\ sc = Len(said["client"]) /\ n = Len(script.steps)
        /\ b = BeginAt(script.steps)
  BY LineFacts, Ends, BeginAtType
<1>2. c <= sc /\ sc <= n /\ c <= b /\ h < c
  BY <1>1 DEF LineTracking, NothingLost, RelaysLines, Relays, KeepsToScript,
              ReadToBegin
<1>3. h + 1 \in 1..c /\ h + 1 \in 1..sc /\ h + 1 \in 1..n /\ h + 1 <= b
  BY <1>2
<1>4. IsLogin(script.steps)
  BY <1>1, <1>2 DEF LineTracking, ReadToBegin
<1>5. relayed["sandbox"][h + 1] = Whole(said["client"][h + 1])
  BY <1>1, <1>3 DEF LineTracking, NothingLost, RelaysLines, Relays
<1>6. said["client"][h + 1] = script.steps[h + 1].word
  BY <1>1, <1>3 DEF LineTracking, KeepsToScript
<1> QED BY <1>1, <1>3, <1>4, <1>5, <1>6

LEMMA SandboxAnswersLines ==
  ASSUME TypeOK, LineTracking, SandboxAnswers
  PROVE  LineTracking'
<1>1. PICK h \in Nat, ss \in Nat : h = heard["sandbox"] /\ ss = Len(said["sandbox"])
  BY LineFacts, Ends
<1>2. PICK word : word = script.steps[h + 1].word
  OBVIOUS
<1>3. /\ heard["sandbox"] < Len(relayed["sandbox"])
      /\ heard'["sandbox"] = h + 1
      /\ UNCHANGED <<phase, begin_received, pending_responses, partial,
                     relayed, script, hostpass>>
  BY <1>1, Ends DEF SandboxAnswers, router, TypeOK
<1>4. /\ IsLogin(script.steps)
      /\ h + 1 \in 1..Len(script.steps) /\ h + 1 \in 1..Len(relayed["sandbox"])
      /\ h + 1 <= BeginAt(script.steps)
      /\ relayed["sandbox"][h + 1] = Whole(word)
  BY <1>1, <1>2, <1>3, LineHeard
<1>5. /\ word # "MESSAGE"
      /\ word \in {"NUL", "BEGIN", "AUTH", "AUTH_EMPTY", "DATA",
                   "NEGOTIATE_UNIX_FD"}
      /\ AnswersDue(script.steps, h + 1) = AnswersDue(script.steps, (h + 1) - 1)
                              + (IF word \in {"NUL", "BEGIN"} THEN 0 ELSE 1)
  BY SMTT(30), <1>2, <1>4, LoginWords, LineFacts
<1>6. /\ AnswersDue(script.steps, h + 1) =
           ss + (IF word \in {"NUL", "BEGIN"} THEN 0 ELSE 1)
      /\ h + 1 <= Len(relayed["sandbox"])
  <2>1. (h + 1) - 1 = h /\ ss = AnswersDue(script.steps, h)
    BY <1>1 DEF LineTracking, LinesAnswered
  <2>2. h + 1 <= Len(relayed["sandbox"])
    BY <1>4, LineFacts, Ends
  <2> QED BY <1>5, <2>1, <2>2
<1>7. KeepsToScript' /\ ReadToBegin'
  <2>1. said'["client"] = said["client"]
    BY Ends DEF SandboxAnswers, Say, TypeOK
  <2>2. KeepsToScript'
    BY <1>3, <2>1 DEF LineTracking, KeepsToScript
  <2>3. ReadToBegin'
    BY <1>3 DEF LineTracking, ReadToBegin
  <2> QED BY <2>2, <2>3
<1>8. CASE UNCHANGED <<said, wire>> /\ word = "BEGIN"
  <2>1. NothingLost'
    BY <1>3, <1>8 DEF LineTracking, NothingLost, RelaysLines, Relays, Whole
  <2>2. LinesAnswered'
    BY <1>1, <1>3, <1>6, <1>8 DEF LineTracking, LinesAnswered
  <2> QED BY <1>7, <2>1, <2>2 DEF LineTracking
<1>9. ASSUME NEW words \in Answers(Whole(word)),
             Say("sandbox", words, IF words = <<>> THEN <<>>
                                   ELSE Pieces(words[1]))
      PROVE  LineTracking'
  <2>1. CASE words = <<>>
    <3>1. \A end \in End : said'[end] = said[end] /\ wire'[end] = wire[end]
      <4>1. /\ said["sandbox"] \o <<>> = said["sandbox"]
            /\ wire["sandbox"] \o <<>> = wire["sandbox"]
        BY LineFacts, Ends, ConcatEmptySeq
      <4>2. /\ said' = [said EXCEPT !["sandbox"] = said["sandbox"]]
            /\ wire' = [wire EXCEPT !["sandbox"] = wire["sandbox"]]
        BY <1>9, <2>1, <4>1 DEF Say
      <4> QED BY <4>2 DEF TypeOK
    <3>2. word \in {"NUL", "BEGIN"}
      BY <1>5, <1>9, <2>1 DEF Answers, Whole
    <3>3. NothingLost'
      BY <1>3, <3>1, Ends
      DEF LineTracking, NothingLost, RelaysLines, Relays, Whole
    <3>4. LinesAnswered'
      BY <1>1, <1>3, <1>6, <3>1, <3>2, Ends DEF LineTracking, LinesAnswered
    <3> QED BY <1>7, <3>3, <3>4 DEF LineTracking
  <2>2. CASE words # <<>>
    <3>1. PICK answer \in BusWord : words = <<answer>>
      BY <1>9, <2>2, BusAnswersType, ElementOfSeq
    <3>2. /\ Say("sandbox", <<answer>>, Pieces(answer))
          /\ answer \in Word /\ answer # "MESSAGE"
      BY <1>9, <3>1, Words
    <3>3. word \notin {"NUL", "BEGIN"}
      BY <1>9, <2>2 DEF Answers, Whole
    <3>4. /\ NothingLost' /\ Len(said'["sandbox"]) = ss + 1
          /\ \A i \in 1..ss : said'["sandbox"][i] = said["sandbox"][i]
          /\ said'["sandbox"][ss + 1] = answer
      BY <1>1, <1>3, <3>2, LineAdded
    <3>5. LinesAnswered'
      <4>1. ASSUME NEW i \in 1..ss + 1
            PROVE  said'["sandbox"][i] # "MESSAGE"
        <5>1. CASE i = ss + 1
          BY <3>2, <3>4, <5>1
        <5>2. CASE i \in 1..ss
          BY <1>1, <3>4, <5>2 DEF LineTracking, LinesAnswered
        <5> QED BY <5>1, <5>2
      <4> QED BY <1>3, <1>6, <3>3, <3>4, <4>1 DEF LinesAnswered
    <3> QED BY <1>7, <3>4, <3>5 DEF LineTracking
  <2> QED BY <2>1, <2>2
<1>10. \/ UNCHANGED <<said, wire>> /\ word = "BEGIN"
       \/ \E words \in Answers(Whole(word)) :
            Say("sandbox", words, IF words = <<>> THEN <<>>
                                  ELSE Pieces(words[1]))
  <2>1. PICK line : line = relayed["sandbox"][heard["sandbox"] + 1]
    OBVIOUS
  <2>2. \/ Is(line, {"BEGIN"}) /\ UNCHANGED <<said, wire>>
        \/ \E words \in Answers(line) :
             Say("sandbox", words, IF words = <<>> THEN <<>>
                                   ELSE Pieces(words[1]))
    BY <2>1 DEF SandboxAnswers
  <2>3. line = Whole(word)
    BY <1>1, <1>4, <2>1
  <2>4. Is(line, {"BEGIN"}) => word = "BEGIN"
    BY <2>3 DEF Is, Whole
  <2> QED BY <2>2, <2>3, <2>4
<1> QED BY <1>8, <1>9, <1>10

LEMMA HostReadKeeps ==
  ASSUME TypeOK, NEW in, in \notin {"null", "failed"}, NEW accepted, NEW lines,
         NEW next, next # "null", HostReads(in, accepted, lines, next)
  PROVE  /\ LinesAsBefore /\ pending_responses' = pending_responses
         /\ phase = in /\ phase' \in {next, "failed"}
<1>1. CASE Fail
  BY <1>1 DEF HostReads, Fail, LinesAsBefore, outside
<1>2. CASE /\ phase' = next /\ Consume("host") /\ Write("host", lines)
           /\ UNCHANGED <<begin_received, pending_responses, partial, outside>>
  BY <1>2, Ends DEF HostReads, Consume, Write, LinesAsBefore, outside, TypeOK
<1> QED BY <1>1, <1>2 DEF HostReads

\* Everything after auth_passthrough leaves the client's lines alone.
HostLogin == \/ StartHostAuth \/ ReadHostOk \/ ReadHostFd
             \/ ReadHelloReply \/ ReadNameAcquired

LEMMA HostLoginKeeps ==
  ASSUME TypeOK, HostLogin
  PROVE  /\ LinesAsBefore /\ pending_responses' = pending_responses
         /\ phase \notin {"null", "failed"} /\ phase' # "null"
         /\ phase' # "auth"
<1>1. CASE StartHostAuth
  <2>1. CASE Fail
    BY <1>1, <2>1 DEF StartHostAuth, Fail, LinesAsBefore, outside
  <2>2. CASE "host" \in open
    BY <1>1, <2>2, Ends DEF StartHostAuth, Write, LinesAsBefore, outside, TypeOK
  <2> QED BY <1>1, <2>1, <2>2 DEF StartHostAuth
<1>2. CASE ReadHostOk
  BY <1>2, HostReadKeeps DEF ReadHostOk
<1>3. CASE ReadHostFd
  BY <1>3, HostReadKeeps DEF ReadHostFd
<1>4. CASE ReadHelloReply
  BY <1>4, HostReadKeeps DEF ReadHelloReply
<1>5. CASE ReadNameAcquired
  BY <1>5, HostReadKeeps DEF ReadNameAcquired
<1> QED BY <1>1, <1>2, <1>3, <1>4, <1>5 DEF HostLogin

\* So does what happens at the host bus, and a socket that is closed.
Elsewhere == \/ HostAnswers \/ HostSignals \/ \E end \in End : Closes(end)

LEMMA ElsewhereKeeps ==
  ASSUME TypeOK, Elsewhere
  PROVE  LinesAsBefore /\ UNCHANGED <<phase, pending_responses>>
<1>1. CASE HostAnswers
  <2>1. PICK words : Say("host", words, words)
    BY <1>1 DEF HostAnswers
  <2> QED BY <1>1, <2>1, Ends DEF HostAnswers, Say, LinesAsBefore, router, TypeOK
<1>2. CASE HostSignals
  BY <1>2, Ends DEF HostSignals, Say, LinesAsBefore, router, TypeOK
<1>3. CASE \E end \in End : Closes(end)
  BY <1>3 DEF Closes, LinesAsBefore, router
<1> QED BY <1>1, <1>2, <1>3 DEF Elsewhere

LEMMA Steps ==
  Next <=> \/ ForwardNull \/ NullFails
           \/ \E end \in {"client", "sandbox"} : ReadPart(end) \/ ReadFails(end)
           \/ ReadClientLine \/ ReadSandboxLine \/ HostLogin
           \/ ClientSends \/ SandboxAnswers \/ Elsewhere
BY DEF Next, Router, HostLogin, Elsewhere

LEMMA LinesStep ==
  ClientsLogIn => (TypeOK /\ LineTracking /\ [Next]_vars => LineTracking')
<1> SUFFICES ASSUME ClientsLogIn, TypeOK, LineTracking, [Next]_vars
             PROVE  LineTracking'
  OBVIOUS
<1>1. CASE ForwardNull
  BY <1>1, ForwardNullLines
<1>2. CASE NullFails
  BY <1>2, FailLines DEF NullFails
<1>3. ASSUME NEW end \in {"client", "sandbox"}, ReadPart(end)
      PROVE  LineTracking'
  BY <1>3, ReadPartLines
<1>4. ASSUME NEW end \in {"client", "sandbox"}, ReadFails(end)
      PROVE  LineTracking'
  BY <1>4, FailLines DEF ReadFails
<1>5. CASE ReadClientLine
  BY <1>5, ReadClientLines
<1>6. CASE ReadSandboxLine
  BY <1>6, ReadSandboxLines
<1>7. CASE HostLogin
  BY <1>7, HostLoginKeeps, LinesKept
<1>8. CASE ClientSends
  BY <1>8, ClientSendsLines
<1>9. CASE SandboxAnswers
  BY <1>9, SandboxAnswersLines
<1>10. CASE Elsewhere
  BY <1>10, ElsewhereKeeps, LinesKept
<1>11. CASE UNCHANGED vars
  BY <1>11, LinesKept DEF vars, outside, LinesAsBefore
<1> QED BY <1>1, <1>2, <1>3, <1>4, <1>5, <1>6, <1>7, <1>8, <1>9, <1>10, <1>11,
           Steps

LEMMA LinesInit == Init => LineTracking
<1> SUFFICES ASSUME Init PROVE LineTracking
  OBVIOUS
<1>1. /\ script.pieces \in Nat \ {0} /\ Len(script.steps) \in Nat
  <2>1. script.steps \in Seq([word : ClientWord, after : Nat])
        /\ script.pieces \in Nat \ {0}
    BY HandshakeAssumption DEF Init
  <2> QED BY <2>1, LenProperties
<1>2. /\ said["client"] = <<>> /\ said["sandbox"] = <<>>
      /\ relayed["client"] = <<>> /\ relayed["sandbox"] = <<>>
      /\ wire["client"] = <<>> /\ wire["sandbox"] = <<>>
      /\ partial["client"] = 0 /\ partial["sandbox"] = 0
      /\ heard["sandbox"] = 0 /\ phase = "null" /\ begin_received = FALSE
  BY Ends DEF Init
<1>3. Len(<<>>) = 0 /\ 1..0 = {}
  OBVIOUS
<1>4. KeepsToScript
  BY <1>1, <1>2, <1>3 DEF KeepsToScript
<1>5. NothingLost
  <2>1. Unread(<<>>, 0, 0, <<>>, script.pieces)
    BY <1>1, NothingSaid
  <2>2. RelaysLines
    BY <1>2, <1>3 DEF RelaysLines, Relays
  <2> QED BY <1>2, <1>3, <2>1, <2>2 DEF NothingLost
<1>6. ReadToBegin
  <2>1. BeginAt(script.steps) \in {3, 4, 5}
    BY BeginAtType
  <2> QED BY <1>2, <1>3, <2>1 DEF ReadToBegin
<1>7. LinesAnswered
  <2>1. AnswersDue(script.steps, 0) = 0
    BY DEF AnswersDue
  <2> QED BY <1>2, <1>3, <2>1 DEF LinesAnswered
<1> QED BY <1>4, <1>5, <1>6, <1>7 DEF LineTracking

LEMMA LinesTracked == ClientsLogIn => (Spec => []LineTracking)
<1> SUFFICES ASSUME ClientsLogIn PROVE Spec => []LineTracking
  OBVIOUS
<1>1. TypeOK /\ LineTracking /\ [Next]_vars => LineTracking'
  BY LinesStep
<1> QED BY <1>1, LinesInit, TypeCorrect, PTL DEF Spec

\* No line is lost, cut or reordered, although auth_passthrough drops one of
\* its two reads whenever the other one completes (auth.rs:58-99): a client
\* whose lines arrive in pieces is waiting when the bus writes, and the bus is
\* waiting when it writes.
THEOREM LinesArrive == ClientsLogIn => (Spec => []RelaysLines)
<1> SUFFICES ASSUME ClientsLogIn PROVE Spec => []RelaysLines
  OBVIOUS
<1>1. LineTracking => RelaysLines
  BY DEF LineTracking, NothingLost
<1> QED BY <1>1, LinesTracked, PTL

-----------------------------------------------------------------------------
(* The login on the host bus.                                                *)

LEMMA HostFacts ==
  ASSUME TypeOK
  PROVE  /\ wire["host"] \in Seq(BusWord) /\ Len(wire["host"]) \in Nat
         /\ said["host"] \in Seq(Word) /\ Len(said["host"]) \in Nat
         /\ relayed["host"] \in Seq(Line) /\ Len(relayed["host"]) \in Nat
         /\ heard["host"] \in Nat
         /\ HostWritten \in 0..5 /\ HostRead \in 0..4
<1>1. wire["host"] \in Seq(BusWord) /\ Len(wire["host"]) \in Nat
  BY LenProperties DEF TypeOK
<1>2. HostWritten \in 0..5 /\ HostRead \in 0..4
  BY DEF HostWritten, HostRead
<1> QED BY <1>1, <1>2, LineFacts, Ends

LEMMA HostLinesAre ==
  /\ HostLines[1] = "NUL" /\ HostLines[2] = "AUTH"
  /\ HostLines[3] = "NEGOTIATE_UNIX_FD" /\ HostLines[4] = "BEGIN"
  /\ HostLines[5] = "HELLO"
BY DEF HostLines

LEMMA HostRepliesAre ==
  /\ HostReplies[1] = {"OK", "REJECTED"}
  /\ HostReplies[2] = {"AGREE_UNIX_FD", "ERROR"}
  /\ HostReplies[3] = {"RETURN", "ERROR"}
  /\ HostReplies[4] = {"NameAcquired"} /\ HostReplies[5] = {"SIGNAL"}
BY DEF HostReplies

\* HostTracking is about what goes to and from the host bus.
HostAsBefore ==
  /\ UNCHANGED hostpass
  /\ said'["host"] = said["host"] /\ relayed'["host"] = relayed["host"]
  /\ wire'["host"] = wire["host"] /\ heard'["host"] = heard["host"]

LEMMA HostKept ==
  ASSUME HostTracking, HostAsBefore,
         phase' \in {phase, "failed"} \/ (phase = "null" /\ phase' = "auth")
  PROVE  HostTracking'
<1> SUFFICES ASSUME phase' # "failed" PROVE HostTracking'
  BY DEF HostTracking, Running
<1>1. HostTold /\ HostReplied /\ HostUnread
  BY DEF HostTracking, Running
<1>2. HostWritten' = HostWritten /\ HostRead' = HostRead
  BY DEF HostAsBefore, HostWritten, HostRead
<1>3. HostTold'
  BY <1>1, <1>2 DEF HostTold, HostAsBefore, Whole
<1>4. HostReplied'
  BY <1>1 DEF HostReplied, HostAsBefore
<1>5. HostUnread'
  BY <1>1, <1>2 DEF HostUnread, HostAsBefore
<1> QED BY <1>3, <1>4, <1>5 DEF HostTracking

LEMMA AfterConcat ==
  ASSUME NEW S, NEW s \in Seq(S), NEW t \in Seq(S), NEW i \in 1..Len(t)
  PROVE  (s \o t)[Len(s) + i] = t[i]
<1>1. Len(s) \in Nat /\ Len(t) \in Nat
  BY LenProperties
<1>2. /\ Len(s) + i \in 1..Len(s) + Len(t)
      /\ ~(Len(s) + i <= Len(s)) /\ Len(s) + i - Len(s) = i
  BY <1>1
<1> QED BY <1>2, ConcatProperties

\* The router writes the next lines of its login.
LEMMA HostWrites ==
  ASSUME TypeOK, HostTold, UNCHANGED heard,
         NEW lines \in Seq(Line), Write("host", lines),
         HostWritten' = HostWritten + Len(lines),
         \A i \in 1..Len(lines) : lines[i] = Whole(HostLines[HostWritten + i]),
         phase' \in {"hello", "acquired"} => ~hostpass'
  PROVE  HostTold'
<1>1. PICK n \in Nat, m \in Nat : n = HostWritten /\ m = Len(lines)
  BY HostFacts, LenProperties
<1>2. HostWritten' = n + m
  BY <1>1
<1>3. Len(relayed["host"]) = n
  BY <1>1 DEF HostTold
<1>4. relayed'["host"] = relayed["host"] \o lines
  BY Ends DEF Write, TypeOK
<1>5. /\ Len(relayed'["host"]) = n + m
      /\ \A i \in 1..n : relayed'["host"][i] = relayed["host"][i]
  BY <1>1, <1>3, <1>4, HostFacts, ConcatProperties
<1>6. \A i \in 1..m : relayed'["host"][n + i] = lines[i]
  <2> TAKE i \in 1..m
  <2>1. (relayed["host"] \o lines)[Len(relayed["host"]) + i] = lines[i]
    BY <1>1, HostFacts, AfterConcat
  <2> QED BY <1>3, <1>4, <2>1
<1>7. ASSUME NEW i \in 1..n + m
      PROVE  relayed'["host"][i] = Whole(HostLines[i])
  <2>1. CASE i \in 1..n
    BY <1>1, <1>5, <2>1 DEF HostTold
  <2>2. CASE i \notin 1..n
    <3>1. PICK j \in 1..m : n + j = i
      <4>1. i - n \in 1..m /\ n + (i - n) = i
        BY <2>2
      <4> QED BY <4>1
    <3> QED BY <1>1, <1>6, <3>1
  <2> QED BY <2>1, <2>2
<1>8. heard'["host"] <= n + m
  <2>1. heard["host"] <= n /\ heard["host"] \in Nat
    BY <1>1, HostFacts DEF HostTold
  <2> QED BY <2>1
<1>9. /\ Len(relayed'["host"]) = HostWritten'
      /\ \A i \in 1..HostWritten' : relayed'["host"][i] = Whole(HostLines[i])
      /\ heard'["host"] <= HostWritten'
  BY <1>2, <1>5, <1>7, <1>8
<1> QED BY <1>9 DEF HostTold, Whole

\* The word the router reads next.
LEMMA NextHostWord ==
  ASSUME TypeOK, HostUnread, wire["host"] # <<>>
  PROVE  /\ HostRead + 1 \in 1..Len(said["host"])
         /\ Head(wire["host"]) = said["host"][HostRead + 1]
<1>1. Len(wire["host"]) > 0 /\ Head(wire["host"]) = wire["host"][1]
  BY HostFacts, HeadTailProperties, EmptySeq
<1>2. Head(wire["host"]) = said["host"][HostRead + 1]
  BY <1>1, HostFacts DEF HostUnread
<1>3. Len(said["host"]) = HostRead + Len(wire["host"])
  BY DEF HostUnread
<1>4. PICK n \in Nat, m \in Nat : n = HostRead /\ m = Len(wire["host"])
  BY HostFacts
<1>5. n + 1 \in 1..n + m
  BY <1>1, <1>4
<1> QED BY <1>2, <1>3, <1>4, <1>5

\* It reads one.
LEMMA HostTakes ==
  ASSUME TypeOK, HostUnread, wire["host"] # <<>>, Consume("host"),
         UNCHANGED said, HostRead' = HostRead + 1,
         HostRead = 0 => Head(wire["host"]) = "OK",
         HostRead = 2 => Head(wire["host"]) = "RETURN"
  PROVE  HostUnread'
<1>1. PICK n \in Nat, m \in Nat : n = HostRead /\ m = Len(wire["host"])
  BY HostFacts
<1>2. HostRead' = n + 1
  BY <1>1
<1>3. wire'["host"] = Tail(wire["host"])
  BY Ends DEF Consume, TypeOK
<1>4. /\ m > 0 /\ Len(wire'["host"]) = m - 1
      /\ \A i \in 1..m - 1 : wire'["host"][i] = wire["host"][i + 1]
  BY <1>1, <1>3, HostFacts, HeadTailProperties, EmptySeq
<1>5. /\ Len(said["host"]) = n + m
      /\ \A i \in 1..m : wire["host"][i] = said["host"][n + i]
  BY <1>1 DEF HostUnread
<1>6. \A i \in 1..m - 1 : wire'["host"][i] = said["host"][(n + 1) + i]
  <2> TAKE i \in 1..m - 1
  <2>1. i + 1 \in 1..m /\ n + (i + 1) = (n + 1) + i
    BY <1>4
  <2> QED BY <1>4, <1>5, <2>1
<1>7. Len(said'["host"]) = (n + 1) + Len(wire'["host"])
  BY <1>4, <1>5
<1>8. Head(wire["host"]) = said["host"][n + 1]
  BY <1>1, NextHostWord
<1>9. said["host"][1] = "OK"
  <2>1. CASE n = 0
    BY <1>1, <1>8, <2>1
  <2>2. CASE n > 0
    BY <1>1, <2>2 DEF HostUnread
  <2> QED BY <2>1, <2>2
<1>10. n + 1 > 2 => said["host"][3] = "RETURN"
  <2>1. CASE n = 2
    BY <1>1, <1>8, <2>1
  <2>2. CASE n > 2
    BY <1>1, <2>2 DEF HostUnread
  <2> QED BY <2>1, <2>2
<1> QED BY <1>2, <1>4, <1>6, <1>7, <1>9, <1>10 DEF HostUnread

LEMMA StartHostTracking ==
  ASSUME TypeOK, HostTracking, StartHostAuth
  PROVE  HostTracking'
<1>1. CASE Fail
  BY <1>1 DEF Fail, HostTracking, Running
<1>2. CASE "host" \in open
  <2>1. /\ phase = "auth" /\ phase' = "host_ok"
        /\ Write("host", <<Whole("NUL"), Whole("AUTH")>>)
        /\ UNCHANGED <<wire, hostpass, said, heard>>
    BY <1>2 DEF StartHostAuth, outside
  <2>2. HostTold /\ HostReplied /\ HostUnread
    BY <2>1 DEF HostTracking, Running
  <2>3. /\ HostWritten = 0 /\ HostWritten' = 2
        /\ HostRead = 0 /\ HostRead' = 0
    BY <2>1 DEF HostWritten, HostRead
  <2>4. HostTold'
    <3>1. PICK lines : lines = <<Whole("NUL"), Whole("AUTH")>>
      OBVIOUS
    <3>2. "NUL" \in Word /\ "AUTH" \in Word
      BY DEF Word, ClientWord
    <3>3. lines \in Seq(Line) /\ Len(lines) = 2
      BY <3>1, <3>2, WholeType
    <3>4. lines[1] = Whole("NUL") /\ lines[2] = Whole("AUTH")
      BY <3>1
    <3>5. \A i \in 1..Len(lines) : lines[i] = Whole(HostLines[HostWritten + i])
      <4> TAKE i \in 1..Len(lines)
      <4>1. i \in {1, 2} /\ HostWritten + i = i
        BY <2>3, <3>3
      <4> QED BY <3>4, <4>1, HostLinesAre
    <3>6. HostWritten' = HostWritten + Len(lines)
      BY <2>3, <3>3
    <3>7. phase' \notin {"hello", "acquired"}
      BY <2>1
    <3> QED BY <2>1, <2>2, <3>1, <3>3, <3>5, <3>6, <3>7, HostWrites
  <2>5. HostReplied' /\ HostUnread'
    BY <2>1, <2>2, <2>3 DEF HostReplied, HostUnread
  <2> QED BY <2>4, <2>5 DEF HostTracking
<1> QED BY <1>1, <1>2 DEF StartHostAuth

\* Each further read, with the writes that follow it.
LEMMA HostReadTracking ==
  ASSUME TypeOK, HostTracking, NEW in \in Phase \ {"failed"}, NEW accepted,
         NEW lines \in Seq(Line), NEW next, HostReads(in, accepted, lines, next),
         phase' = next => /\ HostWritten' = HostWritten + Len(lines)
                          /\ HostRead' = HostRead + 1,
         next \in {"hello", "acquired"} => ~hostpass,
         \A i \in 1..Len(lines) : lines[i] = Whole(HostLines[HostWritten + i]),
         HostRead = 0 => accepted = {"OK"},
         HostRead = 2 => accepted = {"RETURN"}
  PROVE  HostTracking'
<1>1. CASE Fail
  BY <1>1 DEF Fail, HostTracking, Running
<1>2. CASE /\ wire["host"] # <<>> /\ Head(wire["host"]) \in accepted
           /\ phase' = next /\ Consume("host") /\ Write("host", lines)
           /\ UNCHANGED <<begin_received, pending_responses, partial, outside>>
  <2>1. HostTold /\ HostReplied /\ HostUnread
    BY DEF HostTracking, HostReads, Running
  <2>2. UNCHANGED <<said, heard, hostpass>>
    BY <1>2 DEF outside
  <2>3. HostTold'
    BY <1>2, <2>1, <2>2, HostWrites
  <2>4. HostReplied'
    BY <2>1, <2>2 DEF HostReplied
  <2>5. HostUnread'
    BY <1>2, <2>1, <2>2, HostTakes
  <2> QED BY <2>3, <2>4, <2>5 DEF HostTracking
<1> QED BY <1>1, <1>2 DEF HostReads

LEMMA HostLoginTracking ==
  ASSUME TypeOK, HostTracking, HostLogin PROVE HostTracking'
<1>1. "NEGOTIATE_UNIX_FD" \in Word /\ "BEGIN" \in Word /\ "HELLO" \in Word
  BY DEF Word, ClientWord
<1>2. ASSUME NEW word \in Word, NEW lines, lines = <<Whole(word)>>
      PROVE  lines \in Seq(Line) /\ Len(lines) = 1 /\ lines[1] = Whole(word)
  BY <1>2, WholeType
<1>3. CASE StartHostAuth
  BY <1>3, StartHostTracking
<1>4. CASE ReadHostOk
  <2>1. PICK lines : lines = <<Whole("NEGOTIATE_UNIX_FD")>>
    OBVIOUS
  <2>2. HostReads("host_ok", {"OK"}, lines, "host_fd")
    BY <1>4, <2>1 DEF ReadHostOk
  <2>3. /\ lines \in Seq(Line) /\ Len(lines) = 1
        /\ lines[1] = Whole("NEGOTIATE_UNIX_FD")
    BY <1>1, <1>2, <2>1
  <2>4. HostWritten = 2 /\ HostRead = 0
    BY <2>2 DEF HostReads, HostWritten, HostRead
  <2>5. phase' = "host_fd" => HostWritten' = 3 /\ HostRead' = 1
    BY DEF HostWritten, HostRead
  <2>6. \A i \in 1..Len(lines) : lines[i] = Whole(HostLines[HostWritten + i])
    BY <2>3, <2>4, HostLinesAre
  <2>7. phase' = "host_fd" => /\ HostWritten' = HostWritten + Len(lines)
                              /\ HostRead' = HostRead + 1
    BY <2>3, <2>4, <2>5
  <2>8. /\ "host_ok" \in Phase \ {"failed"} /\ lines \in Seq(Line)
        /\ HostRead = 0 => {"OK"} = {"OK"}
        /\ HostRead = 2 => {"OK"} = {"RETURN"}
        /\ "host_fd" \in {"hello", "acquired"} => ~hostpass
    BY <2>3, <2>4 DEF Phase
  <2> QED BY <2>2, <2>6, <2>7, <2>8, HostReadTracking
<1>5. CASE ReadHostFd /\ hostpass
  <2>1. PICK lines : lines = <<Whole("BEGIN")>>
    OBVIOUS
  <2>2. HostReads("host_fd", BusWord, lines, "forwarding")
    BY <1>5, <2>1 DEF ReadHostFd
  <2>3. lines \in Seq(Line) /\ Len(lines) = 1 /\ lines[1] = Whole("BEGIN")
    BY <1>1, <1>2, <2>1
  <2>4. HostWritten = 3 /\ HostRead = 1
    BY <2>2 DEF HostReads, HostWritten, HostRead
  <2>5. phase' = "forwarding" => HostWritten' = 4 /\ HostRead' = 2
    <3>1. phase' # "failed" => hostpass'
      BY <1>5, <2>2 DEF HostReads, Fail, outside
    <3> QED BY <3>1 DEF HostWritten, HostRead
  <2>6. \A i \in 1..Len(lines) : lines[i] = Whole(HostLines[HostWritten + i])
    BY <2>3, <2>4, HostLinesAre
  <2>7. phase' = "forwarding" => /\ HostWritten' = HostWritten + Len(lines)
                                 /\ HostRead' = HostRead + 1
    BY <2>3, <2>4, <2>5
  <2>8. /\ "host_fd" \in Phase \ {"failed"} /\ lines \in Seq(Line)
        /\ HostRead = 0 => BusWord = {"OK"}
        /\ HostRead = 2 => BusWord = {"RETURN"}
        /\ "forwarding" \in {"hello", "acquired"} => ~hostpass
    BY <2>3, <2>4 DEF Phase
  <2> QED BY <2>2, <2>6, <2>7, <2>8, HostReadTracking
<1>6. CASE ReadHostFd /\ ~hostpass
  <2>1. PICK lines : lines = <<Whole("BEGIN"), Whole("HELLO")>>
    OBVIOUS
  <2>2. HostReads("host_fd", BusWord, lines, "hello")
    BY <1>6, <2>1 DEF ReadHostFd
  <2>3. /\ lines \in Seq(Line) /\ Len(lines) = 2
        /\ lines[1] = Whole("BEGIN") /\ lines[2] = Whole("HELLO")
    BY <1>1, <2>1, WholeType
  <2>4. HostWritten = 3 /\ HostRead = 1
    BY <2>2 DEF HostReads, HostWritten, HostRead
  <2>5. phase' = "hello" => HostWritten' = 5 /\ HostRead' = 2
    BY DEF HostWritten, HostRead
  <2>6. \A i \in 1..Len(lines) : lines[i] = Whole(HostLines[HostWritten + i])
    <3> TAKE i \in 1..Len(lines)
    <3>1. i = 1 \/ i = 2
      BY <2>3
    <3> QED BY <2>3, <2>4, <3>1, HostLinesAre
  <2>7. phase' = "hello" => /\ HostWritten' = HostWritten + Len(lines)
                            /\ HostRead' = HostRead + 1
    BY <2>3, <2>4, <2>5
  <2>8. /\ "host_fd" \in Phase \ {"failed"} /\ lines \in Seq(Line)
        /\ HostRead = 0 => BusWord = {"OK"}
        /\ HostRead = 2 => BusWord = {"RETURN"}
        /\ "hello" \in {"hello", "acquired"} => ~hostpass
    BY <1>6, <2>3, <2>4 DEF Phase
  <2> QED BY <2>2, <2>6, <2>7, <2>8, HostReadTracking
<1>7. ASSUME NEW in \in {"hello", "acquired"}, NEW accepted, NEW next,
             HostReads(in, accepted, <<>>, next),
             in = "hello" => accepted = {"RETURN"} /\ next = "acquired",
             in = "acquired" => next = "forwarding"
      PROVE  HostTracking'
  <2>1. \E lines : lines = <<>> /\ lines \in Seq(Line) /\ Len(lines) = 0
    <3>1. <<>> \in Seq(Line) /\ Len(<<>>) = 0
      OBVIOUS
    <3> QED BY <3>1, Zenon
  <2> PICK lines : lines = <<>> /\ lines \in Seq(Line) /\ Len(lines) = 0
    BY <2>1
  <2>2. HostReads(in, accepted, lines, next)
    BY <1>7
  <2>3. /\ HostWritten = 5
        /\ HostRead = IF in = "hello" THEN 2 ELSE 3
    BY <2>2 DEF HostReads, HostWritten, HostRead
  <2>4. ~hostpass
    BY <1>7, <2>2 DEF HostReads, HostTracking, HostTold, Running
  <2>5. phase' = next => /\ HostWritten' = 5
                         /\ HostRead' = IF in = "hello" THEN 3 ELSE 4
    <3>1. phase' # "failed" => ~hostpass'
      BY <2>2, <2>4 DEF HostReads, Fail, outside
    <3> QED BY <1>7, <3>1 DEF HostWritten, HostRead
  <2>6. \A i \in 1..Len(lines) : lines[i] = Whole(HostLines[HostWritten + i])
    OBVIOUS
  <2>7. phase' = next => /\ HostWritten' = HostWritten + Len(lines)
                         /\ HostRead' = HostRead + 1
    BY <2>3, <2>5
  <2>8. in \in Phase \ {"failed"} /\ (HostRead = 2 => accepted = {"RETURN"})
        /\ HostRead # 0
    BY <1>7, <2>3 DEF Phase
  <2> QED BY <2>2, <2>4, <2>6, <2>7, <2>8, HostReadTracking
<1>8. CASE ReadHelloReply
  BY <1>7, <1>8 DEF ReadHelloReply
<1>9. CASE ReadNameAcquired
  BY <1>7, <1>9 DEF ReadNameAcquired
<1> QED BY <1>3, <1>4, <1>5, <1>6, <1>8, <1>9 DEF HostLogin

LEMMA HostHasSaid ==
  ASSUME HostReplied
  PROVE  /\ Len(said["host"]) \in {0, 1, 2, 3, 4, 5}
         /\ Len(said["host"]) > 2 => heard["host"] = 5
<1>1. CASE heard["host"] = 5
  BY <1>1 DEF HostReplied
<1>2. CASE heard["host"] # 5
  <2>1. Len(said["host"]) \in {0, 1, 2}
    BY <1>2 DEF HostReplied
  <2>2. \A n \in {0, 1, 2} : n \in {0, 1, 2, 3, 4, 5} /\ ~(n > 2)
    OBVIOUS
  <2> QED BY <2>1, <2>2, Zenon
<1> QED BY <1>1, <1>2

\* What the host bus says is added to its socket.
LEMMA HostSays ==
  ASSUME TypeOK, HostUnread, NEW words \in Seq(BusWord),
         Say("host", words, words), UNCHANGED <<phase, hostpass>>
  PROVE  /\ HostUnread'
         /\ Len(said'["host"]) = Len(said["host"]) + Len(words)
         /\ \A i \in 1..Len(said["host"]) : said'["host"][i] = said["host"][i]
         /\ \A i \in 1..Len(words) :
              said'["host"][Len(said["host"]) + i] = words[i]
<1>1. PICK n \in Nat, m \in Nat, k \in Nat, r \in Nat :
        /\ n = Len(said["host"]) /\ m = Len(wire["host"])
        /\ k = Len(words) /\ r = HostRead
  BY HostFacts, LenProperties
<1>2. /\ said'["host"] = said["host"] \o words
      /\ wire'["host"] = wire["host"] \o words
  BY Ends DEF Say, TypeOK
<1>3. words \in Seq(Word)
  BY Words, SeqMonotonic
<1>4. /\ Len(said'["host"]) = n + k
      /\ \A i \in 1..n : said'["host"][i] = said["host"][i]
  BY <1>1, <1>2, <1>3, HostFacts, ConcatProperties
<1>5. /\ Len(wire'["host"]) = m + k
      /\ \A i \in 1..m : wire'["host"][i] = wire["host"][i]
  BY <1>1, <1>2, HostFacts, ConcatProperties
<1>6. ASSUME NEW i \in 1..k
      PROVE  /\ said'["host"][n + i] = words[i]
             /\ wire'["host"][m + i] = words[i]
  <2>1. (said["host"] \o words)[Len(said["host"]) + i] = words[i]
    BY <1>1, <1>3, HostFacts, AfterConcat
  <2>2. (wire["host"] \o words)[Len(wire["host"]) + i] = words[i]
    BY <1>1, HostFacts, AfterConcat
  <2> QED BY <1>1, <1>2, <2>1, <2>2
<1>7. /\ n = r + m
      /\ \A i \in 1..m : wire["host"][i] = said["host"][r + i]
  BY <1>1 DEF HostUnread
<1>8. ASSUME NEW i \in 1..m + k
      PROVE  wire'["host"][i] = said'["host"][r + i]
  <2>1. CASE i \in 1..m
    <3>1. r + i \in 1..n
      BY <1>7, <2>1
    <3> QED BY <1>4, <1>5, <1>7, <2>1, <3>1
  <2>2. CASE i \notin 1..m
    <3>1. PICK j \in 1..k : i = m + j /\ r + i = n + j
      <4>1. i - m \in 1..k /\ i = m + (i - m) /\ r + i = n + (i - m)
        BY <1>7, <2>2
      <4> QED BY <4>1
    <3> QED BY <1>6, <3>1
  <2> QED BY <2>1, <2>2
<1>9. HostRead' = r
  BY <1>1 DEF HostRead
<1>10. /\ r > 0 => said'["host"][1] = "OK"
       /\ r > 2 => said'["host"][3] = "RETURN"
  <2>1. /\ r > 0 => said["host"][1] = "OK" /\ 1 \in 1..n
        /\ r > 2 => said["host"][3] = "RETURN" /\ 3 \in 1..n
    BY <1>1, <1>7 DEF HostUnread
  <2> QED BY <1>4, <2>1
<1>11. n + k = r + (m + k)
  BY <1>7
<1>12. HostUnread'
  BY <1>4, <1>5, <1>8, <1>9, <1>10, <1>11 DEF HostUnread
<1> QED BY <1>1, <1>4, <1>6, <1>12

LEMMA HostAnswersTracking ==
  ASSUME TypeOK, HostTracking, HostAnswers PROVE HostTracking'
<1>1. PICK h \in Nat, n \in Nat :
        h = heard["host"] /\ n = Len(said["host"])
  BY HostFacts
<1>2. HostTold /\ HostReplied /\ HostUnread
  BY DEF HostTracking, HostAnswers
<1>3. /\ h < Len(relayed["host"]) /\ heard'["host"] = h + 1
      /\ UNCHANGED <<phase, hostpass, relayed>>
  BY <1>1, Ends DEF HostAnswers, router, TypeOK
<1>4. PICK line : line = relayed["host"][heard["host"] + 1]
  OBVIOUS
<1>5. PICK words \in HostAnswersTo(line.word) : Say("host", words, words)
  BY <1>4 DEF HostAnswers
<1>6. words \in Seq(BusWord)
  BY HostAnswersType
<1>7. /\ HostUnread'
      /\ Len(said'["host"]) = n + Len(words)
      /\ \A i \in 1..n : said'["host"][i] = said["host"][i]
      /\ \A i \in 1..Len(words) : said'["host"][n + i] = words[i]
  BY <1>1, <1>2, <1>3, <1>5, <1>6, HostSays
<1>8. h \in 0..4 /\ line = Whole(HostLines[h + 1]) /\ h + 1 <= HostWritten
  <2>1. PICK m \in 0..5 : m = HostWritten
    BY HostFacts
  <2>2. h < m /\ Len(relayed["host"]) = m
    BY <1>2, <1>3, <2>1 DEF HostTold
  <2>3. h + 1 \in 1..m /\ h \in 0..4
    BY <2>1, <2>2
  <2> QED BY <1>1, <1>2, <1>4, <2>1, <2>3 DEF HostTold
<1>9. HostTold'
  <2>1. HostWritten' = HostWritten
    BY <1>3 DEF HostWritten
  <2> QED BY <1>2, <1>3, <1>8, <2>1 DEF HostTold, Whole
<1>10. line.word = HostLines[h + 1]
  BY <1>8 DEF Whole
<1>11. n \in (CASE h = 2 -> {1} [] h \in {3, 4} -> {2} [] h = 5 -> {3, 4, 5}
               [] OTHER -> {0})
       /\ \A i \in 1..n : said["host"][i] \in HostReplies[i]
  BY <1>1, <1>2 DEF HostReplied
<1>12. HostReplied'
  <2>1. CASE h = 0 \/ h = 3
    <3>1. words = <<>>
      BY <1>10, <2>1, HostLinesAre DEF HostAnswersTo
    <3>2. Len(words) = 0
      BY <3>1
    <3>3. Len(said'["host"]) = n /\ n = IF h = 0 THEN 0 ELSE 2
      BY <1>7, <1>11, <2>1, <3>2
    <3> QED BY <1>3, <1>7, <1>11, <2>1, <3>3 DEF HostReplied
  <2>2. CASE h = 1 \/ h = 2
    <3>1. PICK word : words = <<word>> /\ word \in HostReplies[h]
      BY <1>10, <2>2, HostLinesAre, HostRepliesAre DEF HostAnswersTo
    <3>2. Len(words) = 1 /\ words[1] = word
      BY <3>1
    <3>3. n + 1 = h /\ Len(said'["host"]) = h
      BY <1>7, <1>11, <2>2, <3>2
    <3>4. ASSUME NEW i \in 1..h PROVE said'["host"][i] \in HostReplies[i]
      <4>1. CASE i = h
        BY <1>7, <3>1, <3>2, <3>3, <4>1
      <4>2. CASE i \in 1..n
        BY <1>7, <1>11, <4>2
      <4> QED BY <2>2, <3>3, <4>1, <4>2
    <3> QED BY <1>3, <2>2, <3>3, <3>4 DEF HostReplied
  <2>3. CASE h = 4
    <3>1. n = 2 /\ \A i \in 1..2 : said'["host"][i] \in HostReplies[i]
      BY <1>7, <1>11, <2>3
    <3>2. words \in {<<"RETURN", "NameAcquired">>, <<"ERROR">>}
      BY <1>10, <2>3, HostLinesAre DEF HostAnswersTo
    <3>3. CASE words = <<"RETURN", "NameAcquired">>
      <4>1. Len(words) = 2 /\ words[1] = "RETURN" /\ words[2] = "NameAcquired"
        BY <3>3
      <4>2. /\ Len(said'["host"]) = 4 /\ said'["host"][3] = "RETURN"
            /\ said'["host"][4] = "NameAcquired"
        BY <1>7, <3>1, <4>1
      <4>3. \A i \in 1..4 : said'["host"][i] \in HostReplies[i]
        <5> TAKE i \in 1..4
        <5>1. i \in 1..2 \/ i = 3 \/ i = 4
          OBVIOUS
        <5> QED BY <3>1, <4>2, <5>1, HostRepliesAre
      <4> QED BY <1>3, <2>3, <4>2, <4>3 DEF HostReplied
    <3>4. CASE words = <<"ERROR">>
      <4>1. Len(words) = 1 /\ words[1] = "ERROR"
        BY <3>4
      <4>2. Len(said'["host"]) = 3 /\ said'["host"][3] = "ERROR"
        BY <1>7, <3>1, <4>1
      <4>3. \A i \in 1..3 : said'["host"][i] \in HostReplies[i]
        <5> TAKE i \in 1..3
        <5>1. i \in 1..2 \/ i = 3
          OBVIOUS
        <5> QED BY <3>1, <4>2, <5>1, HostRepliesAre
      <4> QED BY <1>3, <2>3, <4>2, <4>3 DEF HostReplied
    <3> QED BY <3>2, <3>3, <3>4
  <2> QED BY <1>8, <2>1, <2>2, <2>3
<1> QED BY <1>7, <1>9, <1>12 DEF HostTracking

LEMMA HostSignalsTracking ==
  ASSUME TypeOK, HostTracking, HostSignals PROVE HostTracking'
<1>1. HostTold /\ HostReplied /\ HostUnread
  BY DEF HostTracking, HostSignals
<1>2. PICK n \in Nat : n = Len(said["host"])
  BY HostFacts
<1>3. /\ \A i \in 1..n : said["host"][i] \in HostReplies[i]
      /\ n \in {0, 1, 2, 3, 4, 5}
      /\ n > 2 => heard["host"] = 5
      /\ n > 2 => (said["host"][3] = "ERROR" <=> n = 3)
  <2>1. n \in {0, 1, 2, 3, 4, 5} /\ (n > 2 => heard["host"] = 5)
    BY <1>1, <1>2, HostHasSaid
  <2> QED BY <1>1, <1>2, <2>1 DEF HostReplied
<1>4. n = 4
  <2>1. PICK i \in 1..n : said["host"][i] = "NameAcquired"
    BY <1>2 DEF HostSignals, HasSaid
  <2>2. i = 4
    <3>1. i \in {1, 2, 3, 4, 5} /\ "NameAcquired" \in HostReplies[i]
      BY <1>3, <2>1
    <3> QED BY <3>1, HostRepliesAre
  <2>3. \A k \in 1..n : said["host"][k] # "SIGNAL"
    BY <1>2 DEF HostSignals, HasSaid
  <2>4. n # 5
    BY <1>3, <2>3, HostRepliesAre
  <2> QED BY <1>3, <2>1, <2>2, <2>4
<1>5. PICK words : words = <<"SIGNAL">>
  OBVIOUS
<1>6. words \in Seq(BusWord) /\ Len(words) = 1 /\ words[1] = "SIGNAL"
  BY <1>5 DEF BusWord
<1>7. /\ HostUnread'
      /\ Len(said'["host"]) = n + Len(words)
      /\ \A i \in 1..n : said'["host"][i] = said["host"][i]
      /\ \A i \in 1..Len(words) : said'["host"][n + i] = words[i]
  <2>1. Say("host", words, words) /\ UNCHANGED <<phase, hostpass>>
    BY <1>5 DEF HostSignals, router
  <2> QED BY <1>1, <1>2, <1>6, <2>1, HostSays
<1>8. Len(said'["host"]) = 5 /\ said'["host"][5] = "SIGNAL"
  BY <1>4, <1>6, <1>7
<1>9. HostReplied'
  <2>1. \A i \in 1..5 : said'["host"][i] \in HostReplies[i]
    <3> TAKE i \in 1..5
    <3>1. i \in 1..n \/ i = 5
      BY <1>4
    <3> QED BY <1>3, <1>7, <1>8, <3>1, HostRepliesAre
  <2>2. said'["host"][3] # "ERROR" /\ heard'["host"] = 5
    BY <1>3, <1>4, <1>7 DEF HostSignals
  <2> QED BY <1>8, <2>1, <2>2 DEF HostReplied
<1>10. HostTold'
  BY <1>1 DEF HostSignals, HostTold, HostWritten, router, Whole
<1> QED BY <1>7, <1>9, <1>10 DEF HostTracking

\* The other steps leave the host bus alone.
LEMMA HostUntouched ==
  ASSUME TypeOK,
         \/ ForwardNull \/ NullFails
         \/ \E end \in {"client", "sandbox"} : ReadPart(end) \/ ReadFails(end)
         \/ ReadClientLine \/ ReadSandboxLine
         \/ ClientSends \/ SandboxAnswers \/ \E end \in End : Closes(end)
  PROVE  /\ HostAsBefore
         /\ phase' \in {phase, "failed"} \/ (phase = "null" /\ phase' = "auth")
<1>1. ASSUME Fail
      PROVE  HostAsBefore /\ phase' \in {phase, "failed"}
  BY <1>1 DEF Fail, HostAsBefore, outside
<1>2. CASE ForwardNull
  BY <1>2, Ends DEF ForwardNull, Consume, Write, HostAsBefore, outside, TypeOK
<1>3. CASE NullFails
  BY <1>1, <1>3 DEF NullFails
<1>4. ASSUME NEW end \in {"client", "sandbox"}, ReadPart(end)
      PROVE  HostAsBefore /\ phase' = phase
  BY <1>4, Ends DEF ReadPart, Consume, HostAsBefore, outside, TypeOK
<1>5. ASSUME NEW end \in {"client", "sandbox"}, ReadFails(end)
      PROVE  HostAsBefore /\ phase' \in {phase, "failed"}
  BY <1>1, <1>5 DEF ReadFails
<1>6. CASE ReadClientLine
  <2>1. CASE "sandbox" \in open
    BY <1>6, <2>1, Ends
    DEF ReadClientLine, Consume, Write, HostAsBefore, outside, TypeOK
  <2> QED BY <1>1, <1>6, <2>1 DEF ReadClientLine
<1>7. CASE ReadSandboxLine
  <2>1. CASE "client" \in open
    BY <1>7, <2>1, Ends
    DEF ReadSandboxLine, Consume, Write, HostAsBefore, outside, TypeOK
  <2> QED BY <1>1, <1>7, <2>1 DEF ReadSandboxLine
<1>8. CASE ClientSends
  BY <1>8, Ends DEF ClientSends, Say, HostAsBefore, router, TypeOK
<1>9. CASE SandboxAnswers
  BY <1>9, Ends DEF SandboxAnswers, Say, HostAsBefore, router, TypeOK
<1>10. CASE \E end \in End : Closes(end)
  BY <1>10 DEF Closes, HostAsBefore, router
<1> QED BY <1>2, <1>3, <1>4, <1>5, <1>6, <1>7, <1>8, <1>9, <1>10

LEMMA HostTracked == Spec => []HostTracking
<1>1. Init => HostTracking
  <2> SUFFICES ASSUME Init PROVE HostTold /\ HostReplied /\ HostUnread
    BY DEF HostTracking
  <2>1. /\ said["host"] = <<>> /\ relayed["host"] = <<>> /\ wire["host"] = <<>>
        /\ heard["host"] = 0 /\ phase = "null"
    BY Ends DEF Init
  <2>2. Len(<<>>) = 0 /\ 1..0 = {}
    OBVIOUS
  <2>3. HostWritten = 0 /\ HostRead = 0
    BY <2>1 DEF HostWritten, HostRead
  <2> QED BY <2>1, <2>2, <2>3 DEF HostTold, HostReplied, HostUnread
<1>2. TypeOK /\ HostTracking /\ [Next]_vars => HostTracking'
  <2> SUFFICES ASSUME TypeOK, HostTracking, [Next]_vars PROVE HostTracking'
    OBVIOUS
  <2>1. CASE HostLogin
    BY <2>1, HostLoginTracking
  <2>2. CASE HostAnswers
    BY <2>2, HostAnswersTracking
  <2>3. CASE HostSignals
    BY <2>3, HostSignalsTracking
  <2>4. CASE \/ ForwardNull \/ NullFails
             \/ \E end \in {"client", "sandbox"} : ReadPart(end) \/ ReadFails(end)
             \/ ReadClientLine \/ ReadSandboxLine
             \/ ClientSends \/ SandboxAnswers \/ \E end \in End : Closes(end)
    BY <2>4, HostUntouched, HostKept
  <2>5. CASE UNCHANGED vars
    BY <2>5, HostKept DEF vars, outside, HostAsBefore
  <2> QED BY <2>1, <2>2, <2>3, <2>4, <2>5, Steps DEF Elsewhere
<1> QED BY <1>1, <1>2, TypeCorrect, PTL DEF Spec

\* When the forwarding loop starts, the answers to the router's own login are
\* gone from the host bus's socket, and nothing else is.
LEMMA HostSocketIsClean ==
  ASSUME TypeOK, HostTracking, phase = "forwarding"
  PROVE  wire["host"] =
           IF HasSaid("host", "SIGNAL") THEN <<"SIGNAL">> ELSE <<>>
<1>1. HostTold /\ HostReplied /\ HostUnread
  BY DEF HostTracking, Running
<1>2. PICK n \in Nat, m \in Nat, h \in Nat :
        /\ n = Len(said["host"]) /\ m = Len(wire["host"])
        /\ h = heard["host"]
  BY HostFacts
<1>3. /\ \A i \in 1..n : said["host"][i] \in HostReplies[i]
      /\ n \in {0, 1, 2, 3, 4, 5}
      /\ n > 2 => h = 5
      /\ n > 2 => (said["host"][3] = "ERROR" <=> n = 3)
  <2>1. n \in {0, 1, 2, 3, 4, 5} /\ (n > 2 => heard["host"] = 5)
    BY <1>1, <1>2, HostHasSaid
  <2> QED BY <1>1, <1>2, <2>1 DEF HostReplied
<1>4. HasSaid("host", "SIGNAL") <=> n = 5
  <2>1. ASSUME NEW i \in 1..n, said["host"][i] = "SIGNAL" PROVE n = 5
    <3>1. i \in {1, 2, 3, 4, 5} /\ "SIGNAL" \in HostReplies[i]
      BY <1>3, <2>1
    <3>2. i = 5
      BY <3>1, HostRepliesAre
    <3> QED BY <1>3, <3>2
  <2>2. n = 5 => 5 \in 1..n /\ said["host"][5] = "SIGNAL"
    BY <1>3, HostRepliesAre
  <2> QED BY <1>2, <2>1, <2>2 DEF HasSaid
<1>5. IF hostpass THEN n = 2 /\ m = 0 ELSE (n = 4 /\ m = 0) \/ (n = 5 /\ m = 1)
  <2>1. CASE hostpass
    <3>1. HostWritten = 4 /\ HostRead = 2
      BY <2>1 DEF HostWritten, HostRead
    <3>2. h <= 4 /\ n = 2 + m
      BY <1>1, <1>2, <3>1 DEF HostTold, HostUnread
    <3> QED BY <1>3, <2>1, <3>2
  <2>2. CASE ~hostpass
    <3>1. HostRead = 4
      BY <2>2 DEF HostRead
    <3>2. n = 4 + m
      BY <1>1, <1>2, <3>1 DEF HostUnread
    <3> QED BY <1>3, <2>2, <3>2
  <2> QED BY <2>1, <2>2
<1>6. CASE n = 5
  <2>1. m = 1 /\ HostRead = 4
    BY <1>5, <1>6 DEF HostRead
  <2>2. wire["host"][1] = said["host"][5]
    BY <1>1, <1>2, <2>1 DEF HostUnread
  <2>3. wire["host"][1] = "SIGNAL"
    BY <1>3, <1>6, <2>2, HostRepliesAre
  <2>4. wire["host"] = <<"SIGNAL">>
    <3>1. wire["host"] \in Seq(BusWord) /\ Len(wire["host"]) = 1
      BY <1>2, <2>1, HostFacts
    <3>2. wire["host"] = <<wire["host"][1]>>
      BY <3>1
    <3> QED BY <2>3, <3>2
  <2> QED BY <1>4, <1>6, <2>4
<1>7. CASE n # 5
  <2>1. m = 0
    BY <1>5, <1>7
  <2>2. wire["host"] = <<>>
    BY <1>2, <2>1, HostFacts, EmptySeq
  <2> QED BY <1>4, <1>7, <2>2
<1> QED BY <1>6, <1>7

-----------------------------------------------------------------------------
(* What is left for the forwarding loop.                                     *)

\* The last line is all there when nothing of it has been read.
LEMMA LastLine ==
  ASSUME NEW words \in Seq(Word), NEW read \in Nat, NEW p \in Nat,
         NEW pieces \in Seq(Piece), NEW n \in Nat \ {0},
         Unread(words, read, p, pieces, n),
         read < Len(words), p = 0 \/ read + 1 < Len(words),
         NEW last, last = words[Len(words)]
  PROVE  /\ Size(last, n) <= Len(pieces)
         /\ \A j \in 1..Size(last, n) :
              pieces[Len(pieces) - Size(last, n) + j] = PieceOf(last, j, n)
<1>1. PICK u \in Nat : \E start : Layout(words, read, p, pieces, n, u, start)
  BY UnreadLayout
<1>2. PICK start : Layout(words, read, p, pieces, n, u, start)
  BY <1>1
<1>3. Len(words) = read + u /\ u > 0 /\ (p = 0 \/ u > 1) /\ Len(pieces) \in Nat
  <2>1. Len(words) = read + u
    BY <1>2 DEF Layout
  <2> QED BY <2>1, LenProperties
<1>4. PICK size \in Nat : size = Size(last, n) /\ size > 0
  BY DEF Size
<1>5. PICK s \in Int : s = start[u]
  <2>1. u \in 1..u + 1
    BY <1>3
  <2> QED BY <1>2, <2>1 DEF Layout
<1>6. /\ words[read + u] = last /\ u \in 1..u
      /\ start[u + 1] = s + size /\ start[u + 1] = Len(pieces) + 1
  <2>1. words[read + u] = last /\ u \in 1..u
    BY <1>3
  <2>2. start[u + 1] = start[u] + Size(words[read + u], n)
    BY <1>2, <2>1 DEF Layout
  <2>3. start[u + 1] = Len(pieces) + 1
    BY <1>2 DEF Layout
  <2> QED BY <1>4, <1>5, <2>1, <2>2, <2>3
<1>7. s >= 1
  <2>1. CASE u = 1
    <3>1. s = 1 - p
      BY <1>2, <1>5, <2>1 DEF Layout
    <3> QED BY <1>3, <2>1, <3>1
  <2>2. CASE u > 1
    <3>1. 1 \in 1..u /\ 1 \in 1..u + 1 /\ 2 \in 1..u + 1 /\ u \in 1..u + 1
      BY <2>2
    <3>2. PICK first \in Nat : first = Size(words[read + 1], n)
      BY DEF Size
    <3>3. p < first /\ start[1] = 1 - p
      BY <1>2, <2>2, <3>2 DEF Layout
    <3>4. start[1 + 1] = start[1] + first
      BY <1>2, <3>1, <3>2 DEF Layout
    <3>5. start[2] >= 2 /\ start[2] \in Int
      BY <3>3, <3>4
    <3>6. u = 2 \/ start[2] < start[u]
      <4>1. u = 2 \/ 2 < u
        BY <2>2
      <4> QED BY <1>2, <3>1, <4>1 DEF Layout
    <3> QED BY <1>5, <3>5, <3>6
  <2> QED BY <1>3, <2>1, <2>2
<1>8. size <= Len(pieces)
  BY <1>3, <1>6, <1>7
<1>9. ASSUME NEW j \in 1..size
      PROVE  pieces[Len(pieces) - size + j] = PieceOf(last, j, n)
  <2>1. Len(pieces) - size + j = s + j - 1 /\ s + j > 1
    <3>1. PICK m \in Nat : m = Len(pieces)
      BY <1>3
    <3>2. m + 1 = s + size
      BY <1>6, <3>1
    <3>3. m - size + j = s + j - 1 /\ s + j > 1
      BY <1>7, <3>2
    <3> QED BY <3>1, <3>3
  <2>2. j \in 1..Size(words[read + u], n)
    BY <1>4, <1>6
  <2>3. pieces[start[u] + j - 1] = PieceOf(words[read + u], j, n)
    BY <1>2, <1>5, <1>6, <2>1, <2>2 DEF Layout
  <2> QED BY <1>5, <1>6, <2>1, <2>3
<1> QED BY <1>4, <1>8, <1>9

LEMMA Suffix ==
  ASSUME NEW S, NEW s \in Seq(S), NEW t \in Seq(S), Len(s) <= Len(t),
         \A j \in 1..Len(s) : t[Len(t) - Len(s) + j] = s[j]
  PROVE  IsSuffix(s, t)
<1>1. PICK n \in Nat, m \in Nat : n = Len(s) /\ m = Len(t)
  BY LenProperties
<1>2. PICK a, b : a = Reverse(s) /\ b = Reverse(t)
  OBVIOUS
<1>3. /\ a = [i \in 1..n |-> s[(n - i) + 1]]
      /\ b = [i \in 1..m |-> t[(m - i) + 1]]
  BY <1>1, <1>2 DEF Reverse
<1>4. /\ a \in Seq(S) /\ Len(a) = n /\ b \in Seq(S) /\ Len(b) = m
  <2>1. \A i \in 1..n : (n - i) + 1 \in 1..n
    OBVIOUS
  <2>2. \A i \in 1..m : (m - i) + 1 \in 1..m
    OBVIOUS
  <2>3. (\A i \in 1..n : s[i] \in S) /\ (\A i \in 1..m : t[i] \in S)
    BY <1>1, ElementOfSeq
  <2>4. a \in [1..n -> S] /\ b \in [1..m -> S]
    BY <1>3, <2>1, <2>2, <2>3
  <2> QED BY <2>4, SeqDef, LenProperties
<1>5. ASSUME NEW i \in 1..n PROVE a[i] = b[i]
  <2>1. /\ (n - i) + 1 \in 1..n /\ i \in 1..m
        /\ m - n + ((n - i) + 1) = (m - i) + 1
    BY <1>1
  <2>2. t[m - n + ((n - i) + 1)] = s[(n - i) + 1]
    BY <1>1, <2>1
  <2> QED BY <1>3, <2>1, <2>2
<1>6. n <= m
  BY <1>1
<1>7. SubSeq(a, 1, n) = SubSeq(b, 1, n)
  <2>1. \A i \in 1..n : a[i] \in S /\ b[i] \in S
    BY <1>4, <1>5, ElementOfSeq
  <2>2. PICK c, d : c = SubSeq(a, 1, n) /\ d = SubSeq(b, 1, n)
    OBVIOUS
  <2>3. /\ c \in Seq(S) /\ Len(c) = (IF 1 <= n THEN n - 1 + 1 ELSE 0)
        /\ \A i \in 1..n - 1 + 1 : c[i] = a[1 + i - 1]
    BY <2>1, <2>2, SubSeqProperties
  <2>4. /\ d \in Seq(S) /\ Len(d) = (IF 1 <= n THEN n - 1 + 1 ELSE 0)
        /\ \A i \in 1..n - 1 + 1 : d[i] = b[1 + i - 1]
    BY <2>1, <2>2, SubSeqProperties
  <2>5. Len(c) = n /\ Len(d) = n /\ n - 1 + 1 = n
        /\ \A i \in 1..n : 1 + i - 1 = i
    BY <2>3, <2>4
  <2>6. \A i \in 1..n : c[i] = d[i]
    BY <1>5, <2>3, <2>4, <2>5
  <2>7. c = d
    BY <2>3, <2>4, <2>5, <2>6, SeqEqual
  <2> QED BY <2>2, <2>7
<1> QED BY <1>2, <1>4, <1>6, <1>7 DEF IsSuffix, IsPrefix

\* The client's first message is whole in its socket.
LEMMA MessageIsLeft ==
  ASSUME ClientsLogIn, TypeOK, LineTracking,
         NEW k \in 1..Len(said["client"]), said["client"][k] = "MESSAGE"
  PROVE  IsSuffix(Pieces("MESSAGE"), wire["client"])
<1>1. PICK c \in Nat, sc \in Nat, b \in {3, 4, 5} :
        /\ c = Len(relayed["sandbox"]) /\ sc = Len(said["client"])
        /\ b = BeginAt(script.steps)
  BY LineFacts, Ends, BeginAtType
<1>2. /\ sc <= Len(script.steps) /\ Len(script.steps) \in Nat
      /\ \A i \in 1..sc : said["client"][i] = script.steps[i].word
      /\ \A i \in 1..sc : i \in 1..Len(script.steps)
  <2>1. /\ sc <= Len(script.steps) /\ Len(script.steps) \in Nat
        /\ \A i \in 1..sc : said["client"][i] = script.steps[i].word
    BY <1>1, LineFacts DEF LineTracking, KeepsToScript
  <2> QED BY <2>1
<1>3. k \in 1..sc /\ script.steps[k].word = "MESSAGE"
  BY <1>1, <1>2
<1>4. IsLogin(script.steps)
  BY <1>2, <1>3 DEF ClientsLogIn, TypeOK
<1>5. b < k
  <2>1. k \in 1..Len(script.steps)
    BY <1>2, <1>3
  <2>2. ~(k <= b)
    BY <1>1, <1>2, <1>3, <1>4, <2>1, LoginWords
  <2> QED BY <1>3, <2>2
<1>6. sc \in 1..sc /\ b < sc
  BY <1>3, <1>5
<1>7. said["client"][sc] = "MESSAGE"
  BY <1>1, <1>2, <1>4, <1>6 DEF IsLogin
<1>8. /\ c <= b /\ (begin_received <=> c = b)
      /\ begin_received => partial["client"] = 0
      /\ Unread(said["client"], c, partial["client"], wire["client"],
                script.pieces)
  BY <1>1 DEF LineTracking, NothingLost, ReadToBegin
<1>9. c < sc /\ (partial["client"] = 0 \/ c + 1 < sc)
  BY <1>6, <1>8
<1>10. PICK last, size : last = "MESSAGE" /\ size = Size(last, script.pieces)
  OBVIOUS
<1>11. /\ said["client"] \in Seq(Word) /\ partial["client"] \in Nat
       /\ wire["client"] \in Seq(Piece) /\ script.pieces \in Nat \ {0}
       /\ last \in Word
  BY <1>10, LineFacts, Ends DEF Word, ClientWord
<1>12. /\ size <= Len(wire["client"])
       /\ \A j \in 1..size : wire["client"][Len(wire["client"]) - size + j] =
                               PieceOf(last, j, script.pieces)
  <2>1. last = said["client"][Len(said["client"])]
    BY <1>1, <1>7, <1>10
  <2>2. /\ c < Len(said["client"])
        /\ partial["client"] = 0 \/ c + 1 < Len(said["client"])
    BY <1>1, <1>9
  <2>3. PICK words \in Seq(Word), p \in Nat, pieces \in Seq(Piece),
             n \in Nat \ {0} :
          /\ words = said["client"] /\ p = partial["client"]
          /\ pieces = wire["client"] /\ n = script.pieces
    BY <1>11
  <2>4. /\ Unread(words, c, p, pieces, n) /\ last = words[Len(words)]
        /\ c < Len(words) /\ (p = 0 \/ c + 1 < Len(words))
    BY <1>8, <2>1, <2>2, <2>3
  <2>5. c \in Nat
    BY <1>6
  <2>6. /\ Size(last, n) <= Len(pieces)
        /\ \A j \in 1..Size(last, n) :
             pieces[Len(pieces) - Size(last, n) + j] = PieceOf(last, j, n)
    BY SMTT(30), <2>3, <2>4, <2>5, LastLine
  <2> QED BY <1>10, <2>3, <2>6
<1>13. /\ Pieces(last) \in Seq(Piece) /\ Len(Pieces(last)) = size
       /\ \A j \in 1..size : Pieces(last)[j] = PieceOf(last, j, script.pieces)
  BY <1>10, <1>11, PiecesOfLine DEF TypeOK
<1>14. IsSuffix(Pieces(last), wire["client"])
  BY <1>11, <1>12, <1>13, Suffix
<1> QED BY <1>10, <1>14

\* The forwarding loop finds every message that is meant for it and no other:
\* the null byte and the lines are read one by one and never past BEGIN, and
\* the router's login on the host bus reads exactly the answers to it
\* (session.rs:576-636).
THEOREM MessagesAreLeft ==
  ClientsLogIn => (Spec => []MessagesAreLeftForForwarding)
<1> SUFFICES ASSUME ClientsLogIn
             PROVE  Spec => []MessagesAreLeftForForwarding
  OBVIOUS
<1>1. TypeOK /\ LineTracking /\ HostTracking => MessagesAreLeftForForwarding
  <2> SUFFICES ASSUME TypeOK, LineTracking, HostTracking
               PROVE  MessagesAreLeftForForwarding
    OBVIOUS
  <2>1. (\E i \in 1..Len(said["client"]) : said["client"][i] = "MESSAGE")
          => IsSuffix(Pieces("MESSAGE"), wire["client"])
    BY MessageIsLeft
  <2>2. phase = "forwarding" =>
          wire["host"] = IF HasSaid("host", "SIGNAL") THEN <<"SIGNAL">> ELSE <<>>
    BY HostSocketIsClean
  <2> QED BY <2>1, <2>2 DEF MessagesAreLeftForForwarding
<1> QED BY <1>1, TypeCorrect, LinesTracked, HostTracked, PTL

-----------------------------------------------------------------------------
(* The verdict of the sandbox bus.                                           *)

\* What LoginTracking speaks of: the lines, and the count of responses.
LoginAsBefore ==
  /\ UNCHANGED <<script, begin_received, pending_responses>>
  /\ \A end \in {"client", "sandbox"} :
       said'[end] = said[end] /\ relayed'[end] = relayed[end]
  /\ AuthOver' => AuthOver \/ AuthDone

LEMMA VerdictType ==
  /\ Verdict \in {1, 2} /\ CredentialsAt(script.steps) = Verdict + 1
  /\ BeginAt(script.steps) = Verdict + (IF Negotiates(script.steps) THEN 3 ELSE 2)
<1>1. CredentialsAt(script.steps) \in {2, 3}
  BY BeginAtType
<1>2. BeginAt(script.steps) = CredentialsAt(script.steps)
                                + (IF Negotiates(script.steps) THEN 2 ELSE 1)
  BY DEF BeginAt
<1> QED BY <1>1, <1>2 DEF Verdict

LEMMA LoginKept ==
  ASSUME LoginTracking, LoginAsBefore PROVE LoginTracking'
<1>1. Rejected' = Rejected /\ Verdict' = Verdict
  BY DEF LoginAsBefore, Rejected, Verdict
<1>2. Verdicts'
  BY <1>1 DEF LoginTracking, Verdicts, LoginAsBefore
<1>3. NotRefused'
  BY <1>1 DEF LoginTracking, NotRefused, LoginAsBefore
<1>4. ResponseCounted'
  BY <1>1 DEF LoginTracking, ResponseCounted, LoginAsBefore
<1>5. OverWhenDone'
  BY DEF LoginTracking, OverWhenDone, LoginAsBefore, AuthDone
<1> QED BY <1>2, <1>3, <1>4, <1>5 DEF LoginTracking

\* What the client says does not change the verdict.
LEMMA ClientSendsLogin ==
  ASSUME TypeOK, LineTracking, LoginTracking, ClientSends
  PROVE  LoginTracking'
<1>1. PICK sc \in Nat, r \in Nat, ss \in Nat :
        /\ sc = Len(said["client"]) /\ r = Len(relayed["client"])
        /\ ss = Len(said["sandbox"])
  BY LineFacts, Ends
<1>2. PICK step : step = script.steps[sc + 1]
  OBVIOUS
<1>3. /\ step.after <= r /\ (step.after = 0 \/ ~Refused) /\ sc < Len(script.steps)
      /\ Say("client", <<step.word>>, Pieces(step.word))
      /\ UNCHANGED <<phase, begin_received, pending_responses, partial,
                     relayed, open, script, hostpass, heard>>
  BY <1>1, <1>2 DEF ClientSends, router
<1>4. step \in [word : ClientWord, after : Nat]
  <2>1. sc + 1 \in 1..Len(script.steps)
    BY SMTT(30), <1>1, <1>3, LineFacts
  <2> QED BY <1>2, <2>1, LineFacts, ElementOfSeq
<1>5. said'["sandbox"] = said["sandbox"] /\ Len(said'["client"]) = sc + 1
  BY <1>1, <1>3, <1>4, LineAdded, Words
<1>6. Rejected' = Rejected /\ Verdict' = Verdict
  BY <1>3, <1>5 DEF Rejected, Verdict
<1>7. Verdicts'
  BY <1>3, <1>5, <1>6 DEF LoginTracking, Verdicts
<1>8. NotRefused'
  <2> SUFFICES ASSUME BeginAt(script.steps) <= sc + 1,
                      script.steps[BeginAt(script.steps)].after >= Verdict,
                      Rejected
               PROVE  FALSE
    BY <1>3, <1>5, <1>6 DEF NotRefused
  <2>1. CASE BeginAt(script.steps) <= sc
    BY <1>1, <2>1 DEF LoginTracking, NotRefused
  <2>2. CASE BeginAt(script.steps) = sc + 1
    <3>1. step.after >= Verdict
      BY <1>2, <2>2
    <3>2. Verdict \in {1, 2} /\ step.after \in Nat
      BY <1>4, VerdictType
    <3>3. Verdict <= r /\ ~Refused
      BY <1>3, <3>1, <3>2
    <3>4. PICK i \in 1..ss : i <= Verdict /\ said["sandbox"][i] = "REJECTED"
      BY <1>1 DEF Rejected
    <3>5. i \in 1..r
      BY <3>2, <3>3, <3>4
    <3>6. relayed["client"][i].word = "REJECTED"
      <4>1. relayed["client"][i] = Whole(said["sandbox"][i])
        BY <1>1, <3>5 DEF LineTracking, NothingLost, RelaysLines, Relays
      <4> QED BY <3>4, <4>1 DEF Whole
    <3> QED BY <1>1, <3>3, <3>5, <3>6 DEF Refused
  <2> QED BY <2>1, <2>2, BeginAtType
<1>9. ResponseCounted'
  BY <1>3, <1>6 DEF LoginTracking, ResponseCounted
<1>10. OverWhenDone'
  BY <1>3 DEF LoginTracking, OverWhenDone, AuthOver
<1> QED BY <1>7, <1>8, <1>9, <1>10 DEF LoginTracking

\* A line from the client: a request for descriptors is counted.
LEMMA ReadClientLogin ==
  ASSUME ClientsLogIn, TypeOK, LineTracking, LoginTracking, ReadClientLine
  PROVE  LoginTracking'
<1>1. CASE Fail
  BY <1>1, LoginKept DEF Fail, LoginAsBefore, AuthOver, outside
<1>2. CASE "sandbox" \in open
  <2>1. /\ phase = "auth" /\ ~begin_received /\ wire["client"] # <<>>
        /\ Complete("client")
        /\ pending_responses' =
             IF Is(LineOf("client"), {"NEGOTIATE_UNIX_FD"})
             THEN pending_responses + 1 ELSE pending_responses
        /\ Write("sandbox", <<LineOf("client")>>)
        /\ UNCHANGED <<phase, open, script, hostpass, said, heard>>
    BY <1>2 DEF ReadClientLine, Complete, MayRead, outside
  <2>2. PICK c \in Nat : c = Len(relayed["sandbox"]) /\ c > 0
    BY <2>1, LineFacts, Ends DEF LineTracking, ReadToBegin
  <2>3. /\ IsLogin(script.steps) /\ c + 1 \in 1..Len(script.steps)
        /\ c + 1 <= BeginAt(script.steps)
        /\ Head(wire["client"]).word = script.steps[c + 1].word
    BY <2>1, <2>2, NextClientLine
  <2>4. LineOf("client") = Whole(script.steps[c + 1].word)
    BY <2>1, <2>3, NextLineIsWhole
  <2>5. relayed'["client"] = relayed["client"]
        /\ Len(relayed'["sandbox"]) = c + 1
    <3>1. LineOf("client") \in Line
      BY <2>1, LineTypes
    <3>2. relayed'["client"] = relayed["client"]
          /\ relayed'["sandbox"] = relayed["sandbox"] \o <<LineOf("client")>>
      BY <2>1, Ends DEF Write, TypeOK
    <3>3. relayed'["sandbox"] = Append(relayed["sandbox"], LineOf("client"))
      BY <3>1, <3>2, LineFacts, Ends, AppendIsConcat
    <3> QED BY <2>2, <3>1, <3>2, <3>3, LineFacts, Ends, AppendProperties
  <2>6. Rejected' = Rejected /\ Verdict' = Verdict
    BY <2>1 DEF Rejected, Verdict
  <2>7. Verdicts' /\ NotRefused'
    BY <2>1, <2>6 DEF LoginTracking, Verdicts, NotRefused
  <2>8. pending_responses \in Nat
    BY DEF TypeOK
  <2>9. ResponseCounted'
    <3> SUFFICES ASSUME Negotiates(script.steps), c + 1 > Verdict + 1,
                        Len(relayed["client"]) <= Verdict, ~Rejected
                 PROVE  pending_responses' > 0
      BY <2>1, <2>5, <2>6 DEF ResponseCounted
    <3>1. CASE c > Verdict + 1
      <4>1. pending_responses > 0
        BY <2>2, <3>1 DEF LoginTracking, ResponseCounted
      <4> QED BY <2>1, <2>8, <4>1
    <3>2. CASE c = Verdict + 1
      <4>1. /\ CredentialsAt(script.steps) < c + 1
            /\ c + 1 < BeginAt(script.steps)
        BY <3>2, VerdictType
      <4>2. script.steps[c + 1].word = "NEGOTIATE_UNIX_FD"
        BY <2>3, <4>1 DEF IsLogin
      <4>3. Is(LineOf("client"), {"NEGOTIATE_UNIX_FD"})
        BY <2>4, <4>2 DEF Is, Whole
      <4> QED BY <2>1, <2>8, <4>3
    <3>3. Verdict \in {1, 2}
      BY VerdictType
    <3> QED BY <3>1, <3>2, <3>3
  <2>10. OverWhenDone'
    BY <2>1 DEF OverWhenDone, AuthOver
  <2> QED BY <2>7, <2>9, <2>10 DEF LoginTracking
<1> QED BY <1>1, <1>2 DEF ReadClientLine

\* A line from the bus: one that is read as the response to it is the response
\* to it, except for a client that has been refused.
LEMMA ReadSandboxLogin ==
  ASSUME TypeOK, LineTracking, LoginTracking, ReadSandboxLine
  PROVE  LoginTracking'
<1>1. CASE Fail
  BY <1>1, LoginKept DEF Fail, LoginAsBefore, AuthOver, outside
<1>2. CASE "client" \in open
  <2>1. /\ phase = "auth" /\ wire["sandbox"] # <<>> /\ Complete("sandbox")
        /\ pending_responses' = IF AnswersNegotiate(LineOf("sandbox"))
                                THEN Decrement(pending_responses)
                                ELSE pending_responses
        /\ Write("client", <<LineOf("sandbox")>>)
        /\ UNCHANGED <<phase, begin_received, open, script, hostpass, said,
                       heard>>
    BY <1>2 DEF ReadSandboxLine, Complete, MayRead, outside
  <2>2. PICK r \in Nat : r = Len(relayed["client"])
    BY LineFacts, Ends
  <2>3. /\ r + 1 \in 1..Len(said["sandbox"])
        /\ LineOf("sandbox") = Whole(said["sandbox"][r + 1])
    BY <2>1, <2>2, NextLineIsWhole
  <2>4. relayed'["sandbox"] = relayed["sandbox"]
        /\ Len(relayed'["client"]) = r + 1
    <3>1. LineOf("sandbox") \in Line
      BY <2>1, LineTypes
    <3>2. relayed'["sandbox"] = relayed["sandbox"]
          /\ relayed'["client"] = relayed["client"] \o <<LineOf("sandbox")>>
      BY <2>1, Ends DEF Write, TypeOK
    <3>3. relayed'["client"] = Append(relayed["client"], LineOf("sandbox"))
      BY <3>1, <3>2, LineFacts, Ends, AppendIsConcat
    <3> QED BY <2>2, <3>1, <3>2, <3>3, LineFacts, Ends, AppendProperties
  <2>5. Rejected' = Rejected /\ Verdict' = Verdict
    BY <2>1 DEF Rejected, Verdict
  <2>6. Verdicts' /\ NotRefused'
    BY <2>1, <2>5 DEF LoginTracking, Verdicts, NotRefused
  <2>7. ResponseCounted'
    <3> SUFFICES ASSUME Negotiates(script.steps),
                        Len(relayed["sandbox"]) > Verdict + 1,
                        r + 1 <= Verdict, ~Rejected
                 PROVE  pending_responses' > 0
      BY <2>1, <2>4, <2>5 DEF ResponseCounted
    <3>1. pending_responses > 0
      <4>1. r <= Verdict
        BY VerdictType
      <4> QED BY <2>2, <4>1 DEF LoginTracking, ResponseCounted
    <3>2. said["sandbox"][r + 1] \notin {"AGREE_UNIX_FD", "ERROR"}
      BY <2>3 DEF LoginTracking, Verdicts
    <3>3. ~AnswersNegotiate(LineOf("sandbox"))
      BY <2>3, <3>2 DEF AnswersNegotiate, Is, Whole
    <3> QED BY <2>1, <3>1, <3>3
  <2>8. OverWhenDone'
    BY <2>1 DEF OverWhenDone, AuthOver
  <2> QED BY <2>6, <2>7, <2>8 DEF LoginTracking
<1> QED BY <1>1, <1>2 DEF ReadSandboxLine

\* An answer of the bus: the verdict itself, or one before or after it.
LEMMA SandboxAnswersLogin ==
  ASSUME TypeOK, LineTracking, LoginTracking, SandboxAnswers
  PROVE  LoginTracking'
<1>1. PICK h \in Nat, ss \in Nat, v \in {1, 2}, b \in {3, 4, 5} :
        /\ h = heard["sandbox"] /\ ss = Len(said["sandbox"]) /\ v = Verdict
        /\ b = BeginAt(script.steps)
  BY LineFacts, Ends, VerdictType, BeginAtType
<1>2. PICK word : word = script.steps[h + 1].word
  OBVIOUS
<1>3. /\ heard["sandbox"] < Len(relayed["sandbox"])
      /\ UNCHANGED <<phase, begin_received, pending_responses, partial,
                     relayed, script, hostpass>>
      /\ said'["client"] = said["client"]
  BY Ends DEF SandboxAnswers, Say, router, TypeOK
<1>4. /\ IsLogin(script.steps)
      /\ h + 1 \in 1..Len(script.steps) /\ h + 1 <= b
      /\ relayed["sandbox"][h + 1] = Whole(word)
  BY <1>1, <1>2, <1>3, LineHeard
<1>5. ss = IF h <= 1 THEN 0 ELSE IF h < b THEN h - 1 ELSE b - 2
  BY <1>1 DEF LineTracking, LinesAnswered, AnswersDue
<1>6. CASE UNCHANGED said
  BY <1>3, <1>6, LoginKept DEF LoginAsBefore, AuthOver
<1>7. ASSUME NEW answer \in BusWord, <<answer>> \in Answers(Whole(word)),
             Say("sandbox", <<answer>>, Pieces(answer))
      PROVE  LoginTracking'
  <2>1. /\ Len(said'["sandbox"]) = ss + 1
        /\ \A i \in 1..ss : said'["sandbox"][i] = said["sandbox"][i]
        /\ said'["sandbox"][ss + 1] = answer
    BY <1>1, <1>3, <1>7, LineAdded, Words
  <2>2. word \notin {"NUL", "BEGIN", "MESSAGE"}
    BY <1>7 DEF Answers, Whole
  <2>3. h \in 1..b - 2 /\ ss + 1 = h
    <3>1. h + 1 # 1 /\ h + 1 # b
      BY <1>1, <1>2, <1>4, <2>2 DEF IsLogin
    <3> QED BY <1>1, <1>4, <1>5, <3>1
  <2>4. /\ h = 1 => word \in {"AUTH", "AUTH_EMPTY"}
        /\ h = 1 /\ v = 2 <=> word = "AUTH_EMPTY"
        /\ h = 2 /\ v = 2 => word = "DATA"
        /\ h > v => word = "NEGOTIATE_UNIX_FD"
    <3>1. CredentialsAt(script.steps) = v + 1 /\ b = BeginAt(script.steps)
      BY <1>1, VerdictType
    <3>2. /\ h = 1 => word \in {"AUTH", "AUTH_EMPTY"}
          /\ h = 2 /\ v = 2 => word = "DATA"
          /\ h > v => word = "NEGOTIATE_UNIX_FD"
      <4>1. PICK k : k = h + 1 /\ k \in 1..Len(script.steps)
        BY <1>4
      <4>2. /\ k = 2 => word \in {"AUTH", "AUTH_EMPTY"}
            /\ 2 < k /\ k <= v + 1 => word = "DATA"
            /\ v + 1 < k /\ k < b => word = "NEGOTIATE_UNIX_FD"
        BY <1>2, <1>4, <3>1, <4>1 DEF IsLogin
      <4>3. /\ h = 1 => k = 2
            /\ h = 2 /\ v = 2 => 2 < k /\ k <= v + 1
            /\ h > v => v + 1 < k /\ k < b
        BY <2>3, <4>1
      <4> QED BY <4>2, <4>3
    <3>3. h = 1 => (word = "AUTH_EMPTY" <=> v = 2)
      <4>1. h = 1 => Len(script.steps) >= 2 /\ word = script.steps[2].word
        BY <1>2, <1>4, LineFacts
      <4> QED BY <1>1, <4>1 DEF Verdict, CredentialsAt
    <3>4. h # 1 => word # "AUTH_EMPTY"
      <4>1. h # 1 => h > v \/ (h = 2 /\ v = 2)
        BY <2>3
      <4> QED BY <3>2, <4>1
    <3> QED BY <3>2, <3>3, <3>4
  <2>5. (\E i \in 1..ss : said["sandbox"][i] = "DATA") <=>
          HasSaid("sandbox", "DATA")
    BY <1>1 DEF HasSaid
  <2>6. Rejected <=> \E i \in 1..ss : i <= v /\ said["sandbox"][i] = "REJECTED"
    BY <1>1 DEF Rejected
  <2>7. Rejected' <=> Rejected \/ (h <= v /\ answer = "REJECTED")
    <3>1. Rejected' <=> \E i \in 1..ss + 1 :
                          i <= v /\ said'["sandbox"][i] = "REJECTED"
      BY <1>1, <1>3, <2>1 DEF Rejected, Verdict
    <3>2. \A i : i \in 1..ss + 1 <=> i \in 1..ss \/ i = ss + 1
      OBVIOUS
    <3> QED BY <2>1, <2>3, <2>6, <3>1, <3>2
  <2>8. \A i \in 1..ss :
          /\ said["sandbox"][i] = "OK" => i = v /\ ~Rejected
          /\ i <= v => said["sandbox"][i] # "AGREE_UNIX_FD"
          /\ i <= v /\ said["sandbox"][i] = "ERROR" => Rejected
          /\ i < v /\ ~Rejected => said["sandbox"][i] = "DATA"
          /\ i = v /\ ~Rejected => said["sandbox"][i] = "OK"
    BY <1>1 DEF LoginTracking, Verdicts
  <2>9. /\ answer = "OK" => h = v /\ ~Rejected
        /\ h <= v => answer # "AGREE_UNIX_FD"
        /\ h <= v /\ answer = "ERROR" => Rejected
        /\ h < v => answer \in {"DATA", "REJECTED"}
        /\ h = v /\ ~Rejected => answer \in {"OK", "REJECTED"}
    <3>1. CASE h = 1 /\ v = 1
      <4>1. answer \in {"OK", "REJECTED"}
        BY <1>7, <2>4, <3>1 DEF Answers, Whole
      <4>2. ~Rejected
        BY <2>3, <2>6, <3>1
      <4> QED BY <3>1, <4>1, <4>2
    <3>2. CASE h = 1 /\ v = 2
      <4>1. answer \in {"DATA", "REJECTED"}
        BY <1>7, <2>4, <3>2 DEF Answers, Whole
      <4> QED BY <3>2, <4>1
    <3>3. CASE h = 2 /\ v = 2
      <4>1. ss = 1 /\ 1 \in 1..ss
        BY <2>3, <3>3
      <4>2. Rejected <=> said["sandbox"][1] = "REJECTED"
        BY <2>6, <3>3, <4>1
      <4>3. ~Rejected => said["sandbox"][1] = "DATA"
        BY <2>8, <3>3, <4>1
      <4>4. HasSaid("sandbox", "DATA") <=> ~Rejected
        BY <2>5, <4>1, <4>2, <4>3
      <4>5. IF Rejected THEN answer = "ERROR" ELSE answer \in {"OK", "REJECTED"}
        BY <1>7, <2>4, <3>3, <4>4 DEF Answers, Whole
      <4> QED BY <3>3, <4>5
    <3>4. CASE h > v
      <4>1. answer \in {"AGREE_UNIX_FD", "ERROR"}
        BY <1>7, <2>4, <3>4 DEF Answers, Whole
      <4> QED BY <3>4, <4>1
    <3> QED BY <2>3, <3>1, <3>2, <3>3, <3>4
  <2>10. Verdicts'
    <3>1. ASSUME NEW i \in 1..ss + 1
          PROVE  /\ said'["sandbox"][i] = "OK" => i = v /\ ~Rejected'
                 /\ i <= v => said'["sandbox"][i] # "AGREE_UNIX_FD"
                 /\ i <= v /\ said'["sandbox"][i] = "ERROR" => Rejected'
                 /\ i < v /\ ~Rejected' => said'["sandbox"][i] = "DATA"
                 /\ i = v /\ ~Rejected' => said'["sandbox"][i] = "OK"
      <4>1. CASE i = ss + 1
        <5>1. i = h /\ said'["sandbox"][i] = answer
          BY <2>1, <2>3, <4>1
        <5>2. /\ h < v => h <= v
              /\ h = v => h <= v
          BY <2>3
        <5> QED BY <2>7, <2>9, <5>1, <5>2
      <4>2. CASE i \in 1..ss
        <5>1. said'["sandbox"][i] = said["sandbox"][i]
          BY <2>1, <4>2
        <5>2. i = v => ~(h <= v)
          BY <2>3, <4>2
        <5> QED BY <2>7, <2>8, <4>2, <5>1, <5>2
      <4> QED BY <1>1, <4>1, <4>2
    <3>2. Verdict' = v
      BY <1>1, <1>3 DEF Verdict
    <3> QED BY <2>1, <3>1, <3>2 DEF Verdicts
  <2>11. NotRefused'
    <3> SUFFICES ASSUME b <= Len(said["client"]), script.steps[b].after >= v
                 PROVE  ~Rejected'
      BY <1>1, <1>3 DEF NotRefused, Verdict
    <3>1. ~Rejected
      BY <1>1 DEF LoginTracking, NotRefused
    <3>2. PICK r \in Nat : r = Len(relayed["client"]) /\ r <= ss
      BY <1>1, LineFacts, Ends
      DEF LineTracking, NothingLost, RelaysLines, Relays
    <3>3. script.steps[b].after <= r /\ script.steps[b].after \in Nat
      <4>1. PICK sc \in Nat : sc = Len(said["client"]) /\ sc <= Len(script.steps)
        BY LineFacts, Ends DEF LineTracking, KeepsToScript
      <4>2. b \in 1..sc /\ b \in 1..Len(script.steps)
        BY <4>1, LineFacts
      <4>3. script.steps[b] \in [word : ClientWord, after : Nat]
        BY <4>2, LineFacts, ElementOfSeq
      <4> QED BY <3>2, <4>1, <4>2, <4>3 DEF LineTracking, KeepsToScript
    <3>4. ~(h <= v)
      BY <2>3, <3>2, <3>3
    <3> QED BY <2>7, <3>1, <3>4
  <2>12. ResponseCounted' /\ OverWhenDone'
    BY <1>3, <2>7
    DEF LoginTracking, ResponseCounted, OverWhenDone, AuthOver, Verdict
  <2> QED BY <2>10, <2>11, <2>12 DEF LoginTracking
<1>8. CASE \E words \in Answers(Whole(word)) :
             Say("sandbox", words, IF words = <<>> THEN <<>>
                                   ELSE Pieces(words[1]))
  <2>1. PICK words \in Answers(Whole(word)) :
          Say("sandbox", words, IF words = <<>> THEN <<>> ELSE Pieces(words[1]))
    BY <1>8
  <2>2. CASE words = <<>>
    <3>1. said["sandbox"] \o <<>> = said["sandbox"]
      BY LineFacts, Ends, ConcatEmptySeq
    <3>2. said' = [said EXCEPT !["sandbox"] = said["sandbox"]]
      BY <2>1, <2>2, <3>1 DEF Say
    <3>3. said' = said
      BY <3>2 DEF TypeOK
    <3> QED BY <1>6, <3>3
  <2>3. CASE words # <<>>
    <3>1. PICK answer \in BusWord : words = <<answer>>
      BY <2>1, <2>3, BusAnswersType, ElementOfSeq
    <3>2. Say("sandbox", <<answer>>, Pieces(answer))
      BY <2>1, <3>1
    <3> QED BY <1>7, <2>1, <3>1, <3>2
  <2> QED BY <2>2, <2>3
<1>9. \/ UNCHANGED said
      \/ \E words \in Answers(Whole(word)) :
           Say("sandbox", words, IF words = <<>> THEN <<>>
                                 ELSE Pieces(words[1]))
  <2>1. PICK line : line = relayed["sandbox"][heard["sandbox"] + 1]
    OBVIOUS
  <2>2. \/ UNCHANGED said
        \/ \E words \in Answers(line) :
             Say("sandbox", words, IF words = <<>> THEN <<>>
                                   ELSE Pieces(words[1]))
    BY <2>1 DEF SandboxAnswers
  <2>3. line = Whole(word)
    BY <1>1, <1>4, <2>1
  <2> QED BY <2>2, <2>3
<1> QED BY <1>6, <1>8, <1>9

\* The null byte is no line that is answered.
LEMMA ForwardNullLogin ==
  ASSUME TypeOK, LineTracking, LoginTracking, ForwardNull
  PROVE  LoginTracking'
<1>1. /\ phase = "null" /\ phase' = "auth"
      /\ Write("sandbox", <<Whole("NUL")>>)
      /\ UNCHANGED <<begin_received, pending_responses, script, said>>
  BY DEF ForwardNull, outside
<1>2. Len(relayed["sandbox"]) = 0
  BY <1>1 DEF LineTracking, ReadToBegin
<1>3. PICK line \in Line : line = Whole("NUL")
  BY WholeType DEF Word, ClientWord
<1>4. relayed'["client"] = relayed["client"] /\ Len(relayed'["sandbox"]) = 1
  <2>1. relayed'["client"] = relayed["client"]
        /\ relayed'["sandbox"] = relayed["sandbox"] \o <<line>>
    BY <1>1, <1>3, Ends DEF Write, TypeOK
  <2>2. relayed'["sandbox"] = Append(relayed["sandbox"], line)
    BY <2>1, LineFacts, Ends, AppendIsConcat
  <2>3. Len(relayed'["sandbox"]) = Len(relayed["sandbox"]) + 1
    BY <2>2, LineFacts, Ends, AppendProperties
  <2> QED BY <1>2, <2>1, <2>3
<1>5. Rejected' = Rejected /\ Verdict' = Verdict
  BY <1>1 DEF Rejected, Verdict
<1>6. Verdicts' /\ NotRefused'
  BY <1>1, <1>5 DEF LoginTracking, Verdicts, NotRefused
<1>7. ResponseCounted'
  BY <1>4, <1>5, VerdictType DEF ResponseCounted
<1>8. OverWhenDone'
  BY <1>1 DEF OverWhenDone, AuthOver
<1> QED BY <1>6, <1>7, <1>8 DEF LoginTracking

LEMMA LoginStep ==
  ClientsLogIn =>
    (TypeOK /\ LineTracking /\ LoginTracking /\ [Next]_vars => LoginTracking')
<1> SUFFICES ASSUME ClientsLogIn, TypeOK, LineTracking, LoginTracking,
                    [Next]_vars
             PROVE  LoginTracking'
  OBVIOUS
<1>1. CASE ForwardNull
  BY <1>1, ForwardNullLogin
<1>2. ASSUME Fail PROVE LoginTracking'
  BY <1>2, LoginKept DEF Fail, LoginAsBefore, AuthOver, outside
<1>3. CASE NullFails
  BY <1>2, <1>3 DEF NullFails
<1>4. ASSUME NEW end \in {"client", "sandbox"}, ReadPart(end)
      PROVE  LoginTracking'
  BY <1>4, LoginKept DEF ReadPart, LoginAsBefore, AuthOver, outside
<1>5. ASSUME NEW end \in {"client", "sandbox"}, ReadFails(end)
      PROVE  LoginTracking'
  BY <1>2, <1>5 DEF ReadFails
<1>6. CASE ReadClientLine
  BY <1>6, ReadClientLogin
<1>7. CASE ReadSandboxLine
  BY <1>7, ReadSandboxLogin
<1>8. CASE HostLogin
  <2>1. AuthOver \/ AuthDone
    <3>1. CASE StartHostAuth
      BY <3>1 DEF StartHostAuth
    <3>2. CASE ReadHostOk \/ ReadHostFd \/ ReadHelloReply \/ ReadNameAcquired
      BY <3>2 DEF ReadHostOk, ReadHostFd, ReadHelloReply, ReadNameAcquired,
                  HostReads, AuthOver
    <3> QED BY <1>8, <3>1, <3>2 DEF HostLogin
  <2> QED BY <1>8, <2>1, HostLoginKeeps, LoginKept
          DEF LinesAsBefore, LoginAsBefore
<1>9. CASE ClientSends
  BY <1>9, ClientSendsLogin
<1>10. CASE SandboxAnswers
  BY <1>10, SandboxAnswersLogin
<1>11. CASE Elsewhere
  BY <1>11, ElsewhereKeeps, LoginKept
  DEF LinesAsBefore, LoginAsBefore, AuthOver
<1>12. CASE UNCHANGED vars
  BY <1>12, LoginKept DEF vars, outside, LoginAsBefore, AuthOver
<1> QED BY <1>1, <1>3, <1>4, <1>5, <1>6, <1>7, <1>8, <1>9, <1>10, <1>11,
           <1>12, Steps

LEMMA LoginInit == Init => LoginTracking
<1> SUFFICES ASSUME Init PROVE LoginTracking
  OBVIOUS
<1>1. /\ said["client"] = <<>> /\ said["sandbox"] = <<>>
      /\ relayed["sandbox"] = <<>> /\ phase = "null"
  BY Ends DEF Init
<1>2. Len(<<>>) = 0 /\ 1..0 = {}
  OBVIOUS
<1>3. Verdicts /\ ~Rejected
  BY <1>1, <1>2 DEF Verdicts, Rejected
<1>4. ResponseCounted
  BY <1>1, <1>2, VerdictType DEF ResponseCounted
<1> QED BY <1>1, <1>3, <1>4 DEF LoginTracking, NotRefused, OverWhenDone, AuthOver

LEMMA LoginTracked == ClientsLogIn => (Spec => []LoginTracking)
<1> SUFFICES ASSUME ClientsLogIn PROVE Spec => []LoginTracking
  OBVIOUS
<1>1. TypeOK /\ LineTracking /\ LoginTracking /\ [Next]_vars => LoginTracking'
  BY LoginStep
<1> QED BY <1>1, LoginInit, TypeCorrect, LinesTracked, PTL DEF Spec

-----------------------------------------------------------------------------
(* The end of authentication.                                                *)

\* Nothing is unread of an end that has said nothing more.
LEMMA NothingUnread ==
  ASSUME NEW words \in Seq(Word), NEW read \in Nat, NEW p \in Nat,
         NEW pieces \in Seq(Piece), NEW n \in Nat \ {0},
         Unread(words, read, p, pieces, n), Len(words) = read
  PROVE  pieces = <<>>
<1>1. p = 0
  BY AllRead
<1>2. PICK u \in Nat : \E start : Layout(words, read, p, pieces, n, u, start)
  BY UnreadLayout
<1>3. PICK start : Layout(words, read, p, pieces, n, u, start)
  BY <1>2
<1>4. PICK l \in Nat : l = Len(pieces)
  BY LenProperties
<1>5. u = 0
  BY <1>3 DEF Layout
<1>6. start[1] = 1 - p /\ start[u + 1] = l + 1
  BY <1>3, <1>4 DEF Layout
<1>7. l = 0
  BY <1>1, <1>5, <1>6
<1> QED BY <1>4, <1>7, EmptySeq

\* Authentication is over: BEGIN was the last line the bus was given, and the
\* client had waited for what came back before it said it.
LEMMA AuthEnds ==
  ASSUME ClientsLogIn, TypeOK, LineTracking, LoginTracking, AuthOver,
         NEW b, b = BeginAt(script.steps), NEW r, r = Len(relayed["client"])
  PROVE  /\ IsLogin(script.steps) /\ pending_responses = 0
         /\ b \in {3, 4, 5} /\ Len(relayed["sandbox"]) = b
         /\ b <= Len(script.steps) /\ script.steps[b].word = "BEGIN"
         /\ script.steps[b].after \in Nat /\ r \in Nat
         /\ script.steps[b].after <= r
         /\ relayed["sandbox"][b] = Whole("BEGIN")
         /\ b <= Len(said["client"])
<1>1. begin_received /\ pending_responses = 0 /\ b \in {3, 4, 5} /\ r \in Nat
  BY BeginAtType, LineFacts, Ends DEF LoginTracking, OverWhenDone
<1>2. Len(relayed["sandbox"]) = b
  BY <1>1 DEF LineTracking, ReadToBegin
<1>3. IsLogin(script.steps)
  BY <1>1, <1>2 DEF LineTracking, ReadToBegin
<1>4. PICK sc \in Nat, ls \in Nat :
        sc = Len(said["client"]) /\ ls = Len(script.steps)
  BY LineFacts, Ends
<1>5. b <= sc /\ sc <= ls
      /\ relayed["sandbox"][b] = Whole(said["client"][b])
  BY <1>1, <1>2, <1>4
  DEF LineTracking, NothingLost, RelaysLines, Relays, KeepsToScript
<1>6. b \in 1..sc /\ b \in 1..ls
  BY <1>1, <1>5
<1>7. said["client"][b] = script.steps[b].word /\ script.steps[b].after <= r
  BY <1>4, <1>6 DEF LineTracking, KeepsToScript
<1>8. script.steps[b].word = "BEGIN"
  BY <1>3, <1>4, <1>6 DEF IsLogin
<1>9. script.steps[b].after \in Nat
  <2>1. script.steps[b] \in [word : ClientWord, after : Nat]
    BY <1>4, <1>6, LineFacts, ElementOfSeq
  <2> QED BY <2>1
<1> QED BY <1>1, <1>2, <1>3, <1>4, <1>5, <1>6, <1>7, <1>8, <1>9

\* When the sandbox bus has accepted the client, auth_passthrough does not end
\* before the last response has come back.
LEMMA AllIsAnswered ==
  ASSUME ClientsLogIn, VerdictsAwaited, TypeOK, LineTracking, LoginTracking,
         AuthOver, HasSaid("sandbox", "OK")
  PROVE  AnswersBelongToAuth
<1>1. PICK b, r : b = BeginAt(script.steps) /\ r = Len(relayed["client"])
  OBVIOUS
<1>2. /\ IsLogin(script.steps) /\ pending_responses = 0
      /\ b \in {3, 4, 5} /\ Len(relayed["sandbox"]) = b
      /\ b <= Len(script.steps) /\ script.steps[b].word = "BEGIN"
      /\ script.steps[b].after \in Nat /\ r \in Nat
      /\ script.steps[b].after <= r
      /\ relayed["sandbox"][b] = Whole("BEGIN")
  BY <1>1, AuthEnds
<1>3. PICK v \in {1, 2}, ss \in Nat, h \in Nat :
        /\ v = Verdict /\ ss = Len(said["sandbox"]) /\ h = heard["sandbox"]
  BY VerdictType, LineFacts, Ends
<1>4. ~Rejected
  BY DEF HasSaid, LoginTracking, Verdicts
<1>5. r >= b - 2
  <2>1. CASE Negotiates(script.steps)
    <3>1. b = v + 3
      BY <1>1, <1>3, <2>1, VerdictType
    <3>2. ~(Len(relayed["sandbox"]) > v + 1 /\ r <= v)
      BY <1>1, <1>2, <1>3, <1>4, <2>1 DEF LoginTracking, ResponseCounted
    <3> QED BY <1>2, <3>1, <3>2
  <2>2. CASE ~Negotiates(script.steps)
    <3>1. script.steps[b].after >= b - 2
      BY <1>1, <1>2, <2>2 DEF VerdictsAwaited, TypeOK
    <3> QED BY <1>2, <3>1
  <2> QED BY <2>1, <2>2
<1>6. r <= ss
  BY <1>1, <1>3 DEF LineTracking, NothingLost, RelaysLines, Relays
<1>7. ss = IF h <= 1 THEN 0 ELSE IF h < b THEN h - 1 ELSE b - 2
  BY <1>1, <1>3 DEF LineTracking, LinesAnswered, AnswersDue
<1>8. r = ss /\ h + 1 >= b
  BY <1>2, <1>5, <1>6, <1>7
<1>9. wire["sandbox"] = <<>>
  <2>1. /\ Unread(said["sandbox"], r, partial["sandbox"], wire["sandbox"],
                  script.pieces)
        /\ Len(said["sandbox"]) = r
    BY <1>1, <1>3, <1>8 DEF LineTracking, NothingLost
  <2>2. /\ said["sandbox"] \in Seq(Word) /\ partial["sandbox"] \in Nat
        /\ wire["sandbox"] \in Seq(Piece) /\ script.pieces \in Nat \ {0}
    BY LineFacts, Ends
  <2> QED BY <1>2, <2>1, <2>2, NothingUnread
<1>10. ASSUME NEW i \in h + 1..b PROVE Answers(relayed["sandbox"][i]) = {<<>>}
  <2>1. relayed["sandbox"][i] = Whole("BEGIN")
    BY <1>2, <1>8
  <2> QED BY <2>1 DEF Answers, Whole
<1>11. Last(relayed["sandbox"]) = Whole("BEGIN") /\ Len(relayed["sandbox"]) > 0
  BY <1>2 DEF Last
<1> QED BY <1>2, <1>3, <1>9, <1>10, <1>11 DEF AnswersBelongToAuth

\* Nothing the sandbox bus says after auth_passthrough belongs to it: the count
\* of responses covers the one to NEGOTIATE_UNIX_FD, and the client's own wait
\* covers the verdict (auth.rs:20-22, 52-99).
THEOREM NothingIsLate ==
  ClientsLogIn /\ VerdictsAwaited => (Spec => []AnswersBelongToAuth)
<1> SUFFICES ASSUME ClientsLogIn, VerdictsAwaited
             PROVE  Spec => []AnswersBelongToAuth
  OBVIOUS
<1>1. TypeOK /\ LineTracking /\ LoginTracking => AnswersBelongToAuth
  <2> SUFFICES ASSUME TypeOK, LineTracking, LoginTracking, AuthOver,
                      HasSaid("sandbox", "OK")
               PROVE  AnswersBelongToAuth
    BY DEF AnswersBelongToAuth
  <2> QED BY AllIsAnswered
<1> QED BY <1>1, TypeCorrect, LinesTracked, LoginTracked, PTL

\* A client that has waited for the verdict was accepted, or it had not said
\* BEGIN.
LEMMA SandboxAccepts ==
  ASSUME ClientsLogIn, WaitsAreForVerdicts, TypeOK, LineTracking,
         LoginTracking, phase = "forwarding", Waits
  PROVE  /\ HasSaid("sandbox", "OK")
         /\ \E i \in 1..Len(relayed["sandbox"]) :
              relayed["sandbox"][i] = Whole("BEGIN")
<1>1. PICK b, r : b = BeginAt(script.steps) /\ r = Len(relayed["client"])
  OBVIOUS
<1>2. /\ b \in {3, 4, 5} /\ Len(relayed["sandbox"]) = b
      /\ b <= Len(script.steps) /\ script.steps[b].word = "BEGIN"
      /\ script.steps[b].after \in Nat /\ r \in Nat
      /\ script.steps[b].after <= r
      /\ relayed["sandbox"][b] = Whole("BEGIN")
      /\ b <= Len(said["client"])
  BY <1>1, AuthEnds DEF AuthOver
<1>3. PICK v \in {1, 2}, ss \in Nat : v = Verdict /\ ss = Len(said["sandbox"])
  BY VerdictType, LineFacts, Ends
<1>4. script.steps[b].after >= v
  <2>1. b \in 1..Len(script.steps)
    BY <1>2, LineFacts
  <2>2. script.steps[b].after > 0
    BY <1>2, <2>1 DEF Waits
  <2> QED BY <1>1, <1>2, <1>3, <2>2 DEF WaitsAreForVerdicts, TypeOK, Verdict
<1>5. ~Rejected
  BY <1>1, <1>2, <1>3, <1>4 DEF LoginTracking, NotRefused
<1>6. v \in 1..ss
  <2>1. r <= ss
    BY <1>1, <1>3 DEF LineTracking, NothingLost, RelaysLines, Relays
  <2> QED BY <1>2, <1>3, <1>4, <2>1
<1>7. said["sandbox"][v] = "OK"
  BY <1>3, <1>5, <1>6 DEF LoginTracking, Verdicts
<1>8. b \in 1..Len(relayed["sandbox"])
  BY <1>2
<1> QED BY <1>2, <1>3, <1>6, <1>7, <1>8 DEF HasSaid

LEMMA HostAccepts ==
  ASSUME TypeOK, HostTracking, phase = "forwarding"
  PROVE  /\ HasSaid("host", "OK")
         /\ \E i \in 1..Len(relayed["host"]) :
              relayed["host"][i] = Whole("BEGIN")
<1>1. HostTold /\ HostUnread
  BY DEF HostTracking, Running
<1>2. HostWritten \in {4, 5} /\ HostRead \in {2, 4}
  BY DEF HostWritten, HostRead
<1>3. PICK n \in Nat, m \in Nat : n = Len(said["host"]) /\ m = Len(wire["host"])
  BY HostFacts
<1>4. 1 \in 1..n /\ said["host"][1] = "OK"
  BY <1>1, <1>2, <1>3 DEF HostUnread
<1>5. 4 \in 1..HostWritten /\ relayed["host"][4] = Whole(HostLines[4])
  BY <1>1, <1>2 DEF HostTold
<1>6. 4 \in 1..Len(relayed["host"]) /\ relayed["host"][4] = Whole("BEGIN")
  BY <1>1, <1>5, HostLinesAre DEF HostTold
<1> QED BY <1>3, <1>4, <1>6 DEF HasSaid

\* The client's messages reach no bus that has not accepted the login: the
\* sandbox bus because the client itself waits, the host bus because
\* auth_host_bus does (auth.rs:52-99, session.rs:576-606).
THEOREM BothAccept ==
  ClientsLogIn /\ WaitsAreForVerdicts => (Spec => []ForwardsWhenBothAccepted)
<1> SUFFICES ASSUME ClientsLogIn, WaitsAreForVerdicts
             PROVE  Spec => []ForwardsWhenBothAccepted
  OBVIOUS
<1>1. TypeOK /\ LineTracking /\ LoginTracking /\ HostTracking
        => ForwardsWhenBothAccepted
  <2> SUFFICES ASSUME TypeOK, LineTracking, LoginTracking, HostTracking,
                      phase = "forwarding", Waits
               PROVE  ForwardsWhenBothAccepted
    BY DEF ForwardsWhenBothAccepted
  <2>1. /\ HasSaid("sandbox", "OK")
        /\ \E i \in 1..Len(relayed["sandbox"]) :
             relayed["sandbox"][i] = Whole("BEGIN")
    BY SandboxAccepts
  <2>2. /\ HasSaid("host", "OK")
        /\ \E i \in 1..Len(relayed["host"]) :
             relayed["host"][i] = Whole("BEGIN")
    BY HostAccepts
  <2> QED BY <2>1, <2>2 DEF ForwardsWhenBothAccepted
<1> QED BY <1>1, TypeCorrect, LinesTracked, LoginTracked, HostTracked, PTL
=============================================================================
