------------------------------ MODULE Handshake -----------------------------
(***************************************************************************)
(* A session before its forwarding loop: Session::run calls                *)
(* auth_passthrough (auth.rs), which relays text lines between the client  *)
(* and the sandbox bus, then auth_host_bus and send_host_hello             *)
(* (session.rs), which log the router in on the host bus.                  *)
(*                                                                         *)
(* auth_passthrough selects between two read_auth_line futures.  When one  *)
(* completes, the other is dropped with the bytes it has already taken     *)
(* from its socket.  So a line travels in pieces: a piece is what one poll *)
(* of a future finds in the socket, and a line of one piece is one that    *)
(* is there as a whole whenever the router looks.                          *)
(*                                                                         *)
(* What a line says is reduced to its first word, all the code looks at.   *)
(* The client and the two buses are modelled from the protocol.            *)
(***************************************************************************)
EXTENDS Naturals, Sequences, SequencesExt

CONSTANTS
  Scripts,         \* what may happen: [steps, pieces], where steps is what the
                   \* client does, a sequence of [word, after], each word
                   \* sent once `after' lines have come back, and every line
                   \* is seen in that number of pieces
  AuthBufferSize   \* AUTH_BUFFER_SIZE, in pieces

End == {"client", "sandbox", "host"}
ClientWord == {"NUL", "AUTH", "AUTH_EMPTY", "DATA", "NEGOTIATE_UNIX_FD",
               "BEGIN", "MESSAGE"}
BusWord == {"OK", "REJECTED", "DATA", "AGREE_UNIX_FD", "ERROR",
            "RETURN", "NameAcquired", "SIGNAL"}
Word == ClientWord \cup BusWord \cup {"HELLO"}
Piece == [word : Word, part : Nat, of : Nat]
Line  == [word : Word, whole : BOOLEAN]

ASSUME HandshakeAssumption ==
  /\ \A s \in Scripts : /\ s.steps \in Seq([word : ClientWord, after : Nat])
                         /\ s.pieces \in Nat \ {0}
  /\ AuthBufferSize \in Nat \ {0}

VARIABLES
  \* the router: where it is and the locals of auth_passthrough
  phase,
  begin_received, pending_responses,
  partial,         \* client, sandbox -> pieces the read in progress has taken
  \* the sockets: what the router has yet to read, what it wrote
  wire,            \* end -> pieces (lines from the host bus)
  relayed,         \* end -> lines
  open,            \* ends that have not closed their socket
  \* the client and the buses
  script,          \* what this client does, and how lines arrive
  hostpass,        \* whether it is a hostpass client
  said,            \* end -> words it has sent
  heard            \* bus -> number of lines it has dealt with

outside == <<open, script, hostpass, said, heard>>
vars == <<phase, begin_received, pending_responses, partial, wire, relayed,
          outside>>

Phase == {"null", "auth", "host_ok", "host_fd", "hello", "acquired",
          "forwarding", "failed"}

Whole(word) == [word |-> word, whole |-> TRUE]
\* The pieces of a line; the null byte is one byte.
Pieces(word) ==
  LET n == IF word = "NUL" THEN 1 ELSE script.pieces
  IN  [i \in 1..n |-> [word |-> word, part |-> i, of |-> n]]
\* Mutant: what one read returns is taken for a line.
EndsLineAtOnce(piece) == piece.word # "MESSAGE"

\* A message is not a line: it does not end in \r\n.
EndsLine(piece) == piece.part = piece.of /\ piece.word # "MESSAGE"

Init ==
  /\ phase = "null"
  /\ begin_received = FALSE
  /\ pending_responses = 0
  /\ partial = [end \in {"client", "sandbox"} |-> 0]
  /\ wire = [end \in End |-> <<>>]
  /\ relayed = [end \in End |-> <<>>]
  /\ open = End
  /\ script \in Scripts
  /\ hostpass \in BOOLEAN
  /\ said = [end \in End |-> <<>>]
  /\ heard = [end \in {"sandbox", "host"} |-> 0]

-----------------------------------------------------------------------------
(* The router.                                                               *)

\* Any error leaves Session::run and drops the three sockets.
Fail ==
  /\ phase' = "failed"
  /\ UNCHANGED <<begin_received, pending_responses, partial, wire, relayed,
                 outside>>

AtEof(end) == wire[end] = <<>> /\ end \notin open
Consume(end) == wire' = [wire EXCEPT ![end] = Tail(@)]
Write(end, lines) == relayed' = [relayed EXCEPT ![end] = @ \o lines]

\* The null byte; anything else, the end of the stream or a sandbox bus that
\* is gone is an error.
ForwardNull ==
  /\ phase = "null"
  /\ wire["client"] # <<>>
  /\ Head(wire["client"]).word = "NUL"
  /\ "sandbox" \in open
  /\ phase' = "auth"
  /\ Consume("client")
  /\ Write("sandbox", <<Whole("NUL")>>)
  /\ UNCHANGED <<begin_received, pending_responses, partial, outside>>

NullFails ==
  /\ phase = "null"
  /\ \/ AtEof("client")
     \/ wire["client"] # <<>> /\ ( \/ Head(wire["client"]).word # "NUL"
                                   \/ "sandbox" \notin open )
  /\ Fail

\* The test at the head of the loop.
\* Mutant: BEGIN is the end, as in a relay that does not count responses.
AuthDoneAtBegin == begin_received

AuthDone == begin_received /\ pending_responses = 0

\* The branches of select!.
MayRead(end) ==
  /\ phase = "auth"
  /\ ~AuthDone
  /\ end = "client" => ~begin_received

\* A poll that takes a piece and then waits for more.
ReadPart(end) ==
  /\ MayRead(end)
  /\ partial[end] < AuthBufferSize
  /\ wire[end] # <<>>
  /\ ~EndsLine(Head(wire[end]))
  /\ Consume(end)
  /\ partial' = [partial EXCEPT ![end] = @ + 1]
  /\ UNCHANGED <<phase, begin_received, pending_responses, relayed, outside>>

\* "Auth line too long", or the end of the stream, also within a line.
ReadFails(end) ==
  /\ MayRead(end)
  /\ partial[end] = AuthBufferSize \/ AtEof(end)
  /\ Fail

\* A line is complete at its \r\n; it is the whole line if its first bytes
\* were not taken by a future that has been dropped.
Complete(end) ==
  /\ MayRead(end)
  /\ partial[end] < AuthBufferSize
  /\ wire[end] # <<>>
  /\ EndsLine(Head(wire[end]))
LineOf(end) ==
  LET piece == Head(wire[end])
  IN  [word |-> piece.word, whole |-> partial[end] + 1 = piece.of]

\* The prefix tests is_begin_line, is_negotiate_unix_fd, is_agree_unix_fd
\* and is_error_line.
Is(line, words) == line.whole /\ line.word \in words

\* Both branches end the select!, which drops the other future.
DropReads == partial' = [end \in {"client", "sandbox"} |-> 0]

ReadClientLine ==
  /\ Complete("client")
  /\ IF "sandbox" \notin open THEN Fail ELSE
       LET line == LineOf("client")
       IN  /\ Consume("client")
           /\ pending_responses' = IF Is(line, {"NEGOTIATE_UNIX_FD"})
                                   THEN pending_responses + 1
                                   ELSE pending_responses
           /\ Write("sandbox", <<line>>)
           /\ begin_received' = (begin_received \/ Is(line, {"BEGIN"}))
           /\ DropReads
           /\ UNCHANGED <<phase, outside>>

\* Mutant: a plain subtraction.
DecrementBelowZero(n) == n - 1

\* saturating_sub
Decrement(n) == IF n = 0 THEN 0 ELSE n - 1

\* Mutant: only AGREE_UNIX_FD counts as the response to NEGOTIATE_UNIX_FD.
AnswersNegotiateAgreeOnly(line) == Is(line, {"AGREE_UNIX_FD"})

AnswersNegotiate(line) == Is(line, {"AGREE_UNIX_FD", "ERROR"})

ReadSandboxLine ==
  /\ Complete("sandbox")
  /\ IF "client" \notin open THEN Fail ELSE
       LET line == LineOf("sandbox")
       IN  /\ Consume("sandbox")
           /\ pending_responses' = IF AnswersNegotiate(line)
                                   THEN Decrement(pending_responses)
                                   ELSE pending_responses
           /\ Write("client", <<line>>)
           /\ DropReads
           /\ UNCHANGED <<phase, begin_received, outside>>

\* auth_passthrough returns; auth_host_bus writes the null byte and AUTH.
StartHostAuth ==
  /\ phase = "auth"
  /\ AuthDone
  /\ IF "host" \notin open THEN Fail ELSE
       /\ phase' = "host_ok"
       /\ Write("host", <<Whole("NUL"), Whole("AUTH")>>)
       /\ UNCHANGED <<begin_received, pending_responses, partial, wire,
                      outside>>

\* The rest is a sequence of reads from the host bus, each followed by the
\* writes up to the next one.
HostReads(in, accepted, lines, next) ==
  /\ phase = in
  /\ wire["host"] # <<>> \/ "host" \notin open
  /\ IF \/ wire["host"] = <<>>
        \/ Head(wire["host"]) \notin accepted
        \/ lines # <<>> /\ "host" \notin open
     THEN Fail
     ELSE /\ phase' = next
          /\ Consume("host")
          /\ Write("host", lines)
          /\ UNCHANGED <<begin_received, pending_responses, partial, outside>>

\* Mutant: the first response is not looked at.
ReadHostOkAnything ==
  HostReads("host_ok", BusWord, <<Whole("NEGOTIATE_UNIX_FD")>>, "host_fd")

ReadHostOk ==
  HostReads("host_ok", {"OK"}, <<Whole("NEGOTIATE_UNIX_FD")>>, "host_fd")
\* Any line will do.  A hostpass client says Hello itself, later.
ReadHostFd ==
  IF hostpass
  THEN HostReads("host_fd", BusWord, <<Whole("BEGIN")>>, "forwarding")
  ELSE HostReads("host_fd", BusWord, <<Whole("BEGIN"), Whole("HELLO")>>,
                 "hello")
ReadHelloReply == HostReads("hello", {"RETURN"}, <<>>, "acquired")

\* Mutant: NameAcquired is left for the forwarding loop.
ReadNameAcquiredLater ==
  /\ phase = "acquired"
  /\ phase' = "forwarding"
  /\ UNCHANGED <<begin_received, pending_responses, partial, wire, relayed,
                 outside>>

\* Whatever comes second is taken for NameAcquired.
ReadNameAcquired == HostReads("acquired", BusWord, <<>>, "forwarding")

Router ==
  \/ ForwardNull \/ NullFails
  \/ \E end \in {"client", "sandbox"} : ReadPart(end) \/ ReadFails(end)
  \/ ReadClientLine \/ ReadSandboxLine
  \/ StartHostAuth \/ ReadHostOk \/ ReadHostFd
  \/ ReadHelloReply \/ ReadNameAcquired

-----------------------------------------------------------------------------
(* The client and the buses.                                                 *)

router == <<phase, begin_received, pending_responses, partial>>
Running == phase # "failed"

Say(end, words, pieces) ==
  /\ said' = [said EXCEPT ![end] = @ \o words]
  /\ wire' = [wire EXCEPT ![end] = @ \o pieces]

Refused == \E i \in 1..Len(relayed["client"]) :
             relayed["client"][i].word = "REJECTED"

\* Its next word, unless it still waits for an answer or has been refused.
ClientSends ==
  /\ Running
  /\ "client" \in open
  /\ Len(said["client"]) < Len(script.steps)
  /\ LET next == script.steps[Len(said["client"]) + 1]
     IN  /\ next.after <= Len(relayed["client"])
         /\ next.after = 0 \/ ~Refused
         /\ Say("client", <<next.word>>, Pieces(next.word))
  /\ UNCHANGED <<router, relayed, open, script, hostpass, heard>>

HasSaid(bus, word) == \E i \in 1..Len(said[bus]) : said[bus][i] = word

\* What the sandbox bus answers: a set of sequences of words.
Answers(line) ==
  IF ~line.whole THEN {<<"ERROR">>} ELSE
  CASE line.word = "AUTH" -> {<<"OK">>, <<"REJECTED">>}
    [] line.word = "AUTH_EMPTY" -> {<<"DATA">>, <<"REJECTED">>}
    [] line.word = "DATA" ->
         IF HasSaid("sandbox", "DATA") THEN {<<"OK">>, <<"REJECTED">>}
                                       ELSE {<<"ERROR">>}
    [] line.word = "NEGOTIATE_UNIX_FD" ->
         IF HasSaid("sandbox", "OK") THEN {<<"AGREE_UNIX_FD">>, <<"ERROR">>}
                                     ELSE {<<"ERROR">>}
    [] OTHER -> {<<>>}

\* A bus deals with one line at a time; BEGIN before OK makes it hang up.
SandboxAnswers ==
  /\ Running
  /\ "sandbox" \in open
  /\ heard["sandbox"] < Len(relayed["sandbox"])
  /\ heard' = [heard EXCEPT !["sandbox"] = @ + 1]
  /\ LET line == relayed["sandbox"][heard["sandbox"] + 1]
     IN  IF Is(line, {"BEGIN"}) /\ ~HasSaid("sandbox", "OK")
         THEN open' = open \ {"sandbox"} /\ UNCHANGED <<said, wire>>
         ELSE /\ UNCHANGED open
              /\ \E words \in Answers(line) :
                   Say("sandbox", words, IF words = <<>> THEN <<>>
                                         ELSE Pieces(words[1]))
  /\ UNCHANGED <<router, relayed, script, hostpass>>

HostAnswersTo(word) ==
  CASE word = "AUTH" -> {<<"OK">>, <<"REJECTED">>}
    [] word = "NEGOTIATE_UNIX_FD" -> {<<"AGREE_UNIX_FD">>, <<"ERROR">>}
    [] word = "HELLO" -> {<<"RETURN", "NameAcquired">>, <<"ERROR">>}
    [] OTHER -> {<<>>}

HostAnswers ==
  /\ Running
  /\ "host" \in open
  /\ heard["host"] < Len(relayed["host"])
  /\ heard' = [heard EXCEPT !["host"] = @ + 1]
  /\ \E words \in HostAnswersTo(relayed["host"][heard["host"] + 1].word) :
       Say("host", words, words)
  /\ UNCHANGED <<router, relayed, open, script, hostpass>>

\* Once it has a name, the connection may be sent something.
HostSignals ==
  /\ Running
  /\ "host" \in open
  /\ HasSaid("host", "NameAcquired")
  /\ ~HasSaid("host", "SIGNAL")
  /\ Say("host", <<"SIGNAL">>, <<"SIGNAL">>)
  /\ UNCHANGED <<router, relayed, open, script, hostpass, heard>>

Closes(end) ==
  /\ Running
  /\ end \in open
  /\ open' = open \ {end}
  /\ UNCHANGED <<router, wire, relayed, script, hostpass, said, heard>>

Next ==
  \/ Router
  \/ ClientSends \/ SandboxAnswers \/ HostAnswers \/ HostSignals
  \/ \E end \in End : Closes(end)

Spec == Init /\ [][Next]_vars

\* The task is polled while a socket it waits for is ready, and select! picks
\* among ready branches at random; a client goes on with its script and hangs
\* up when it is refused; the buses answer.
FairSpec ==
  /\ Spec
  /\ WF_vars(Router)
  /\ WF_vars(ClientSends) /\ WF_vars(SandboxAnswers) /\ WF_vars(HostAnswers)
  /\ WF_vars(Refused /\ Closes("client"))
=============================================================================
