------------------------- MODULE HandshakeProperties ------------------------
(* What is checked of Handshake.                                             *)
EXTENDS Handshake, Integers

\* Every variable has its type; the read in progress has taken no more than
\* the buffer of read_auth_line holds.
TypeOK ==
  /\ phase \in Phase
  /\ begin_received \in BOOLEAN
  /\ pending_responses \in Nat
  /\ partial \in [{"client", "sandbox"} -> 0..AuthBufferSize]
  /\ DOMAIN wire = End
  /\ wire["client"] \in Seq(Piece) /\ wire["sandbox"] \in Seq(Piece)
  /\ wire["host"] \in Seq(BusWord)
  /\ relayed \in [End -> Seq(Line)]
  /\ open \in SUBSET End
  /\ script \in Scripts
  /\ hostpass \in BOOLEAN
  /\ said \in [End -> Seq(Word)]
  /\ heard \in [{"sandbox", "host"} -> Nat]

\* What `to' got is what `from' said, whole lines in their order.
Relays(from, to) ==
  /\ Len(relayed[to]) <= Len(said[from])
  /\ \A i \in 1..Len(relayed[to]) : relayed[to][i] = Whole(said[from][i])

\* No line is lost, cut or reordered by the two reads under select!
\* (auth.rs:58-99), in either direction.
RelaysLines == Relays("client", "sandbox") /\ Relays("sandbox", "client")

AuthOver == phase \notin {"null", "auth", "failed"}

\* Authentication is over only after the bus has been given everything up to
\* BEGIN, and from then on nothing the sandbox bus says belongs to it: no
\* response is on its way or will be given, which the forwarding loop would
\* take for message bytes (auth.rs:20-22).
AnswersBelongToAuth ==
  AuthOver /\ HasSaid("sandbox", "OK") =>
    /\ Len(relayed["sandbox"]) > 0
    /\ Last(relayed["sandbox"]) = Whole("BEGIN")
    /\ wire["sandbox"] = <<>>
    /\ \A i \in heard["sandbox"] + 1..Len(relayed["sandbox"]) :
         Answers(relayed["sandbox"][i]) = {<<>>}

\* The forwarding loop finds every message that is meant for it: the client's
\* first message stays in the socket, although it may follow BEGIN at once,
\* and of the host bus exactly the answers to the router's own login are gone
\* (session.rs:576-636).
MessagesAreLeftForForwarding ==
  /\ Running /\ (\E i \in 1..Len(said["client"]) : said["client"][i] = "MESSAGE")
       => IsSuffix(Pieces("MESSAGE"), wire["client"])
  /\ phase = "forwarding" =>
       wire["host"] = IF HasSaid("host", "SIGNAL") THEN <<"SIGNAL">> ELSE <<>>

\* A client that waits for an answer before BEGIN.
Waits == \A i \in 1..Len(script.steps) :
           script.steps[i].word = "BEGIN" => script.steps[i].after > 0

\* Messages of such a client are forwarded only when both buses have accepted
\* the login and were told that it is over; auth_passthrough itself never
\* looks for OK.
ForwardsWhenBothAccepted ==
  phase = "forwarding" /\ Waits =>
    /\ HasSaid("sandbox", "OK") /\ HasSaid("host", "OK")
    /\ \A bus \in {"sandbox", "host"} :
         \E i \in 1..Len(relayed[bus]) : relayed[bus][i] = Whole("BEGIN")

\* The handshake ends, one way or the other, although no step of it has a
\* timeout: every response it waits for is one that is given.
HandshakeEnds == <>(phase \in {"forwarding", "failed"})

-----------------------------------------------------------------------------
(* When they hold: the clients the theorems are about.                       *)

\* A client logs in once: the null byte, AUTH with its credentials or without
\* them and then DATA, NEGOTIATE_UNIX_FD if it likes, BEGIN, and from then on
\* messages.
CredentialsAt(steps) ==
  IF Len(steps) >= 2 /\ steps[2].word = "AUTH_EMPTY" THEN 3 ELSE 2
Negotiates(steps) ==
  /\ Len(steps) > CredentialsAt(steps)
  /\ steps[CredentialsAt(steps) + 1].word = "NEGOTIATE_UNIX_FD"
BeginAt(steps) == CredentialsAt(steps) + (IF Negotiates(steps) THEN 2 ELSE 1)

IsLogin(steps) ==
  \A i \in 1..Len(steps) :
    /\ i = 1 => steps[i].word = "NUL"
    /\ i = 2 => steps[i].word \in {"AUTH", "AUTH_EMPTY"}
    /\ 2 < i /\ i <= CredentialsAt(steps) => steps[i].word = "DATA"
    /\ CredentialsAt(steps) < i /\ i < BeginAt(steps)
         => steps[i].word = "NEGOTIATE_UNIX_FD"
    /\ i = BeginAt(steps) => steps[i].word = "BEGIN"
    /\ i > BeginAt(steps) => steps[i].word = "MESSAGE"

\* How many of its first k lines get an answer: all but the null byte and
\* BEGIN.
AnswersDue(steps, k) ==
  IF k <= 1 THEN 0
  ELSE IF k < BeginAt(steps) THEN k - 1 ELSE BeginAt(steps) - 2

\* It waits for every answer before it says more.
TakesTurns(steps) ==
  \A i \in 1..Len(steps) : steps[i].after >= AnswersDue(steps, i - 1)

\* Clients log in, or do not speak D-Bus at all; and lines come in pieces only
\* from clients that wait (handshake_split_lines shows the others).
ClientsLogIn ==
  \A s \in Scripts :
    /\ \/ IsLogin(s.steps)
       \/ /\ s.steps[1].word # "NUL"
          /\ \A i \in 1..Len(s.steps) : s.steps[i].word # "MESSAGE"
    /\ s.pieces = 1 \/ TakesTurns(s.steps)

\* A client that does not negotiate descriptors waits for the verdict of the
\* bus; auth_passthrough counts no other answer.
VerdictsAwaited ==
  \A s \in Scripts : LET b == BeginAt(s.steps)
                     IN  b <= Len(s.steps) /\ ~Negotiates(s.steps)
                           => s.steps[b].after >= b - 2

\* A client that waits before BEGIN waits for the verdict, not just for the
\* challenge.
WaitsAreForVerdicts ==
  \A s \in Scripts : LET b == BeginAt(s.steps)
                     IN  b <= Len(s.steps) /\ s.steps[b].after > 0
                           => s.steps[b].after >= CredentialsAt(s.steps) - 1

-----------------------------------------------------------------------------
(* The inductive invariants behind them.                                     *)

\* A line in pieces; n of them, but for the null byte.
Size(word, n) == IF word = "NUL" THEN 1 ELSE n
PieceOf(word, i, n) == [word |-> word, part |-> i, of |-> Size(word, n)]

\* What is unread of the words an end has said, when read lines and p pieces
\* of the next one have been taken: the pieces of each further line, the k-th
\* from start[k] on, one line after the other.
Unread(words, read, p, pieces, n) ==
  LET u == Len(words) - read
  IN  /\ u \in Nat
      /\ u > 0 => p < Size(words[read + 1], n)
      /\ \E start \in [1..u + 1 -> 1 - p..Len(pieces) + 1] :
           /\ start[1] = 1 - p
           /\ start[u + 1] = Len(pieces) + 1
           /\ \A k, l \in 1..u + 1 : k < l => start[k] < start[l]
           /\ \A k \in 1..u :
                /\ start[k + 1] = start[k] + Size(words[read + k], n)
                /\ \A j \in 1..Size(words[read + k], n) :
                     start[k] + j > 1 =>
                       pieces[start[k] + j - 1] = PieceOf(words[read + k], j, n)

\* The client keeps to its script ...
KeepsToScript ==
  /\ Len(said["client"]) <= Len(script.steps)
  /\ \A i \in 1..Len(said["client"]) :
       /\ said["client"][i] = script.steps[i].word
       /\ script.steps[i].after <= Len(relayed["client"])
\* ... what one end has said is with the other one, in the read in progress
\* or in the socket ...
NothingLost ==
  /\ RelaysLines
  /\ Unread(said["client"], Len(relayed["sandbox"]), partial["client"],
            wire["client"], script.pieces)
  /\ Unread(said["sandbox"], Len(relayed["client"]), partial["sandbox"],
            wire["sandbox"], script.pieces)
\* ... the client is read up to BEGIN ...
ReadToBegin ==
  /\ Len(relayed["sandbox"]) > 0 => IsLogin(script.steps)
  /\ phase = "null" => Len(relayed["sandbox"]) = 0
  /\ phase \notin {"null", "failed"} => Len(relayed["sandbox"]) > 0
  /\ Len(relayed["sandbox"]) <= BeginAt(script.steps)
  /\ begin_received <=> Len(relayed["sandbox"]) = BeginAt(script.steps)
  /\ begin_received => partial["client"] = 0
\* ... and the bus has answered the lines it has dealt with.
LinesAnswered ==
  /\ heard["sandbox"] <= Len(relayed["sandbox"])
  /\ Len(said["sandbox"]) = AnswersDue(script.steps, heard["sandbox"])
  /\ \A i \in 1..Len(said["sandbox"]) : said["sandbox"][i] # "MESSAGE"

LineTracking == /\ KeepsToScript /\ NothingLost /\ ReadToBegin /\ LinesAnswered

\* The verdict is the answer to the credentials.
Verdict == CredentialsAt(script.steps) - 1
Rejected ==
  \E i \in 1..Len(said["sandbox"]) :
    i <= Verdict /\ said["sandbox"][i] = "REJECTED"

\* OK is said there or nowhere, and no error comes before it but to a client
\* that has been refused ...
Verdicts ==
  \A i \in 1..Len(said["sandbox"]) :
    /\ said["sandbox"][i] = "OK" => i = Verdict /\ ~Rejected
    /\ i <= Verdict => said["sandbox"][i] # "AGREE_UNIX_FD"
    /\ i <= Verdict /\ said["sandbox"][i] = "ERROR" => Rejected
    /\ i < Verdict /\ ~Rejected => said["sandbox"][i] = "DATA"
    /\ i = Verdict /\ ~Rejected => said["sandbox"][i] = "OK"
\* ... a client that waits for it before BEGIN is not refused ...
NotRefused ==
  /\ BeginAt(script.steps) <= Len(said["client"])
  /\ script.steps[BeginAt(script.steps)].after >= Verdict
  => ~Rejected
\* ... the response to NEGOTIATE_UNIX_FD is counted until it is read ...
ResponseCounted ==
  /\ Negotiates(script.steps)
  /\ Len(relayed["sandbox"]) > Verdict + 1
  /\ Len(relayed["client"]) <= Verdict
  => pending_responses > 0 \/ Rejected
\* ... and auth_passthrough is over when nothing is expected any more.
OverWhenDone == AuthOver => begin_received /\ pending_responses = 0

LoginTracking ==
  /\ Verdicts /\ NotRefused /\ ResponseCounted /\ OverWhenDone

\* The login on the host bus: how many lines the router has written and
\* words it has read by each phase, and what the host bus says in return.
HostLines == <<"NUL", "AUTH", "NEGOTIATE_UNIX_FD", "BEGIN", "HELLO">>

HostWritten ==
  CASE phase \in {"null", "auth"} -> 0
    [] phase = "host_ok" -> 2
    [] phase = "host_fd" -> 3
    [] phase = "forwarding" /\ hostpass -> 4
    [] OTHER -> 5
HostRead ==
  CASE phase = "host_fd" -> 1
    [] phase = "hello" \/ (phase = "forwarding" /\ hostpass) -> 2
    [] phase = "acquired" -> 3
    [] phase = "forwarding" /\ ~hostpass -> 4
    [] OTHER -> 0

\* What it says, word by word; an error to Hello is the last of it.
HostReplies == <<{"OK", "REJECTED"}, {"AGREE_UNIX_FD", "ERROR"},
                 {"RETURN", "ERROR"}, {"NameAcquired"}, {"SIGNAL"}>>

HostTold ==
  /\ Len(relayed["host"]) = HostWritten
  /\ \A i \in 1..HostWritten : relayed["host"][i] = Whole(HostLines[i])
  /\ heard["host"] <= HostWritten
  /\ phase \in {"hello", "acquired"} => ~hostpass
HostReplied ==
  /\ Len(said["host"]) \in CASE heard["host"] = 2 -> {1}
                             [] heard["host"] \in {3, 4} -> {2}
                             [] heard["host"] = 5 -> {3, 4, 5}
                             [] OTHER -> {0}
  /\ \A i \in 1..Len(said["host"]) : said["host"][i] \in HostReplies[i]
  /\ Len(said["host"]) > 2 =>
       (said["host"][3] = "ERROR" <=> Len(said["host"]) = 3)
HostUnread ==
  /\ Len(said["host"]) = HostRead + Len(wire["host"])
  /\ \A i \in 1..Len(wire["host"]) :
       wire["host"][i] = said["host"][HostRead + i]
  /\ HostRead > 0 => said["host"][1] = "OK"
  /\ HostRead > 2 => said["host"][3] = "RETURN"

HostTracking == Running => HostTold /\ HostReplied /\ HostUnread
=============================================================================
