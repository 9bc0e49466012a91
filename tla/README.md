# A formal model of dbus-router

`dbus-router` sits between one sandboxed D-Bus application and two message
buses, the host session bus and a private sandbox bus. To the application it
looks like one bus: it decides per message which bus gets it, puts a prefix on
the unique names each bus uses (`:1.7` becomes `:h.1.7` or `:s.1.7`) so that
names of the two buses cannot be confused, takes the prefix off again on the way
out, and merges the two buses' name listings. This directory models that as
TLA+, checks it with TLC and proves part of it with TLAPS.

Paths below are relative to the crate's `src/` directory.

## 1. Inventory

| Component | State it keeps | Operations | Interacts with | What makes it correct |
|---|---|---|---|---|
| Session loop (`session.rs`) | `pending_calls`, `incoming_calls`, `pending_merges`, `exported_services`, `sandbox_services`, `sandbox_active` | one message from the client, the host bus or the sandbox bus at a time, handled to the end | routing, rewriting, three sockets | a reply reaches its caller; a listing gets one complete answer; a hostpass client never touches, and never depends on, the sandbox bus |
| Routing (`routing.rs`, table in `dbus/daemon.rs`) | none | `route_request` | config, fake names, match rules | agrees with the rewriting on every message that carries a fake name |
| Bus-daemon bodies (`dbus/daemon.rs`) | none | rewrite names in requests, replies, `NameOwnerChanged`; merge listings | session | every name shown can be used, and means what it says |
| Header rewriting (`dbus/rewrite.rs`) | none | replace SENDER or DESTINATION inside raw bytes; parse match rules | session | the other fields and the body survive, with their alignment |
| Fake names (`fake_name.rs`) | none | to, from, bus of | all of the above | going there and back gives the same name and the right bus |
| Config (`config.rs`) | `host_routes`, `hostpass`, immutable | `should_route_to_host`, `has_hostpass` | routing | prefix matching stops at a dot |
| Handshake (`auth.rs`, `Session::run`) | outstanding responses, BEGIN seen | relay lines client to sandbox bus; authenticate on the host bus; `Hello` there | three sockets | no line is lost or taken for message bytes; it ends |
| Reading (`dbus/message.rs`), socket I/O (`dbus/socket.rs`) | byte buffer, fd queue; offset of a partial write | `fill`, `consume`, `take_fds`, `send` | kernel sockets | a message leaves with its own bytes and its own fds |
| Router (`router.rs`) | listening socket | accept, spawn a session | sessions | one session's failure does not affect another |
| `conn.rs`, `error.rs`, `lib.rs`, `dbus/format.rs`, `bin/main.rs` | none | address parsing, types, log text, start-up | | nothing stateful |

What is hard here: two buses answer in their own time and number their messages
independently, so every table keyed by a serial number is exposed to order and
to collisions; replies take a different path through the code than requests;
connections end while work is in flight; two tables, one for routing and one
for rewriting, must agree. Below that, `select!` drops futures that have read
part of a line or a message; sockets cut messages anywhere and attach
descriptors to bytes, not to messages; and a changed name moves every byte after
it. `PROJECT.json` lists each hazard at its line, with
the properties that cover it or the reason none does yet.

## 2. Modules

```
FakeName          names, fake_name.rs
  Routing         messages, route_request, the method table, host_routes
  Rewrite         header and body rewriting, on names
    Session       forward_loop with its handlers, the client and the buses
      SessionProperties      what is checked;  instantiates CallRelay
        MCSession            small instances for TLC
        SessionProofs        types, fake names, hostpass
          SessionCallProofs  the way back of replies
            SessionNameProofs    fake names in, shown names out
              SessionMergeProofs the merged listing
CallRelay         abstract: calls handed over, replies sent back

Handshake         authentication on both buses, auth.rs and Session::run
  HandshakeProperties
    MCHandshake
    HandshakeProofs   lines, the verdict, the login on the host bus

FdStream          DbusReader, read_message_from, DbusWriter over full sockets
  FdStreamProperties         instantiates MessageChannel, once per direction
    MCFdStream
    FdStreamProofs    types, bytes and descriptors, the channel
MessageChannel    abstract: whole messages with their descriptors, in order

HeaderRewrite     rewrite_message_header and body rebuilding, on bytes
  HeaderRewriteProperties
    MCHeaderRewrite
    HeaderRewriteProofs      types, the scan, the message that comes out

Induction         two lemmas on natural numbers, for SessionMergeProofs and
                  FdStreamProofs
```

Four state machines look at one program from four distances: `Handshake` is what
a session does before its loop; `Session` is the loop on whole messages and
names; `FdStream` opens up what `Session` takes for granted about sockets (a
message is read and written at once, none is lost); `HeaderRewrite` opens up
what `Rewrite` takes for granted about bytes (a rewrite changes the name and
nothing else).

**FakeName.** A name is the list of its dot-separated components and a flag for
the leading `:`. That is the string itself, split, so `starts_with(":h.")` is
"unique, first component `h`, at least one more". Text is a constant set that
contains the components the code mentions.

**Routing.** `RouteRequest` follows the order of tests in `route_request`:
hostpass, fake destination, bus-daemon method (destination *and* interface),
`host_routes`, sandbox. The table `DBUS_METHOD_SPECS` becomes four sets of
method names. A match rule is reduced to its sender, how the sender is
quoted, and its interface, which is all the code reads or changes. A message's
header is reduced to the fields the code reads.

**Rewrite.** One operator per function, saying which names change. A rewrite is
taken to succeed and to leave the rest of the message alone, which
`HeaderRewrite` is about. (The error branches of these functions, taken for malformed
messages only, forward the original bytes.)

**Session.** `forward_loop` is a single task: `select!` reads one message and
its handler runs to the end, writes included, before the next `select!`. So a
message with its whole handler is one action:

| Action | Code |
|---|---|
| `ClientSends`, `ClientReplies` | client branch of `forward_loop`, `handle_client_message`: `ForwardReplyToCaller` first, else `RouteClientMessage` (`TrackExportedService`, then `ForwardToBus`, `ForwardToBoth` or `ForwardForMerge`) |
| `BusAnswers`, `PeerCalls`, `BusSignal` | host and sandbox branches, `handle_upstream_message`: `TakeServiceCall`, else `AwaitOtherReply` / `CompleteMerge`, else `ForwardToClient` |
| `ReadClientOrHostEof`, `ReadSandboxEof` | `Ok(None)` and `Err` arms of the three branches |
| `ClientLeaves`, `BusGoesAway` | the other end of a socket closing |

A write to a closed socket fails and ends the session (`running`), as `?` does;
`send_both` writes the host bus first and does not try the second after a
failure. `sent` and `received` record what was written, together with what it
came from; they are history, and no guard of the router reads them. `answers` in
`sent` notes which call a reply of the client was meant for, which the code
cannot know: that is what lets a property say where it should have gone.

The buses and peers are not part of the repository. They are modelled from what
the router expects of them: a bus answers each call once, grants a name nobody
else holds, may refuse a listing, and delivers calls to the client's unique name
and to the names it holds; a connection does not reuse a serial. A message
counts as sent when the router reads it. A sender is free to act at any time,
so time spent in a socket buffer is the sender acting later; buffers of
limited size are a matter for `FdStream`.

**CallRelay.** What a session promises the peers that call its client: a call is
handed over at most once, its reply goes back at most once, on the bus, to the
caller and under the serial of the call, and nothing else is ever written as the
reply to a call. `SessionProperties` maps a session onto it: `pending` is the
calls handed over without a reply written, `replied` the replies as addressed
*on the wire*.

**Handshake.** Three ends of sockets, and the router's place in
`Session::run` as `phase`. A line is its first word, all that the code looks at,
and travels as one or more *pieces*: a piece is what one poll of
`read_auth_line` finds. `ReadPart` takes a piece and waits; `ReadClientLine` and
`ReadSandboxLine` complete a line, act on it and reset `partial` for *both* ends,
because the end of a `select!` drops the other branch's future with its local
buffer. A line whose first pieces are gone is relayed with `whole = FALSE` and
matches none of the prefix tests. After `AuthDone` everything is a sequence of
reads from the host bus (`HostReads`), each followed by the writes up to the
next read; `read_message` leaves on an end of the stream within a header as on
one between messages, and both are failures here. Clients follow a script, each
word sent once so many lines have come back; the sandbox bus answers as the
D-Bus specification has it, and hangs up at `BEGIN` before `OK`.

| Action | Code |
|---|---|
| `ForwardNull`, `NullFails` | the null byte, `auth.rs:24-39` |
| `ReadPart`, `ReadFails`, `ReadClientLine`, `ReadSandboxLine` | the loop with its `select!`, `auth.rs:49-99`, and `read_auth_line` |
| `StartHostAuth`, `ReadHostOk`, `ReadHostFd` | `auth_host_bus` |
| `ReadHelloReply`, `ReadNameAcquired` | `send_host_hello` |

**FdStream.** One client, one bus, one message at a time on its way through.
Bytes and descriptors are numbered per direction, so losing, repeating or
reordering one is visible. A byte of the model stands for a run of bytes that no
call separates. Sockets hold `Room` bytes, each cell with the descriptors
attached to it and a mark for the end of its kernel buffer; `Returns` is how far
one `recvmsg` reads: to the size of the router's buffer, and not beyond the
first kernel buffer with descriptors.

| Action | Code |
|---|---|
| `Receive` | one `recvmsg_once` within `fill`, for the header or the rest |
| `TakeMessage` | the end of `read_message_from`: `consume`, `take_declared_fds`; then the handler begins to send |
| `ReceiveEof` | `fill` returning `false` |
| `SendSome` | one `sendmsg_once` of `DbusWriter::send`, accepted in part or as a whole |
| `Writes`, `Reads`, `Closes` | the two peers |

While a message is being sent (`chunk`), nothing is read, as handlers write
inline; between two `Receive` steps of one direction the other may go ahead
(`Polled`: biased), which is `select!` dropping a half-done
`read_message_from`. All that survives is the `DbusReader`, and the model has
nothing else either.

**HeaderRewrite.** Real bytes. One turn of the scan loop in
`rewrite_header_field` is one action, `SkipField`, `LeaveLoop` or
`ReplaceField`; `SigByte` is applied to two positions, as the code reads the
signature byte twice. `RewriteBody` is `rebuild_message_with_string`, after the
header as in `prepare_message_for_client`. A message carries the positions of
its fields (`at`), which the router does not see: `WellFormed` states with them
what D-Bus marshalling promises, and is both the assumption on what comes in and
the property of what goes out. What comes in is also within the two limits of
`Prologue::parse` (`Fits`). A body is renamed only if the name's length stays within
it (`BodyNameFits`): otherwise `rewrite_single_name_response` returns the message as
it came.

## 3. Runs

The runs `session_*` use `MCSession`, with one peer `:1.7` on *each* bus, so that the same
unique name means two connections, one host and one sandbox service, and
`org.fcitx.*` as host route. Serials are bounded by `MaxSerial`. Deadlock
checking is off because a session ends.

| Run | Bound | Checks | Shows |
|---|---|---|---|
| `session_plain` | 3 client messages out of 9 kinds, one signal | `TypeOK`, `ShownNamesResolve`, `FakeNamesReachTheirBus` | every unique name shown leads back to the connection it names; every fake name used reaches its bus, unprefixed |
| `session_listings` | 2 messages out of 3 kinds, fair | `MergedListsAreComplete`, `ListingsAreAnswered` | a listing gets one complete answer in either order of replies and with refusals, or the session ends |
| `session_exports` | 4 messages, 3 callers | `RepliesReachTheirCaller`, `UnansweredCallsAreTracked`, `RelaysCalls` | replies reach their caller; the session implements `CallRelay` |
| `session_hostpass` | 4 messages, 2 callers | `HostpassUsesHostOnly`, `RepliesReachTheirCaller`, `HostpassOutlivesSandbox` | a hostpass client never uses the sandbox bus and survives its loss |
| `session_reply_misrouted` | 4 messages, 2 callers with equal serials | `RepliesReachTheirCaller` is **violated** | finding 1 |
| `session_owner_changes` | 2 messages, one signal | `OwnerChangesResolve` is **violated** | finding 2 |
| `session_unquoted_rule` | 2 messages | `FakeNamesReachTheirBus` is **violated** | finding 3 |
| `handshake` | 5 kinds of client; lines in up to 3 pieces for clients that wait | `TypeOK`, `RelaysLines`, `AnswersBelongToAuth`, `MessagesAreLeftForForwarding`, `ForwardsWhenBothAccepted`, `HandshakeEnds` | lines pass unchanged; nothing of the authentication is left to the forwarding loop, and no message is taken from it; the handshake ends |
| `handshake_split_lines` | a pipelining client, lines in 2 pieces | `RelaysLines` is **violated** | finding 4 |
| `fd_stream` | 6 traffics, sockets of 3 bytes, 2 descriptors per message, fair | `TypeOK`, `BytesInOrder`, `FdsInOrder`, `AcceptsTraffic`, `DeliversMessages`, `TrafficArrives` | every message arrives whole and with its descriptors, whatever is cut where |
| `fd_stream_neighbours` | two messages with 2 descriptors each | `LegalTrafficIsForwarded` is **violated** | finding 5 |
| `header_rewrite` | 15120 messages and directions: both byte orders, 0 to 2 fields before the name and 0 or 1 after it, ten kinds of field, five bodies (one of them with a length that points past its end) | `TypeOK`, `ScanKeepsItsPlace`, `ResultIsWellFormed`, `OnlyTheNameChanges`, `BodyFollowsHeader` | a rewritten message is a message, and only the names in it differ |

Why the bounds are enough for the question asked. In a session, replies are matched to
entries by serial, so two entries of a kind in flight are what it takes to
confuse them, and every run has them. Exporting a name, being called and
replying takes two client messages; four allow two exports and two replies, in
any order with three calls. Any end of a connection is possible at any point of
every run.

In the handshake, three pieces are a beginning, a middle and an end, and
`AuthBufferSize = 2` makes the longest lines too long. A client that pipelines
is checked with lines that are there as a whole: with lines in pieces it is
finding 4.

In `fd_stream`, a header is two bytes so that it can be cut; messages have up to
two more, with 0 to 3 descriptors (the limit is 2, so one is illegal); a socket
holds less than a message, a `recvmsg` returns up to three bytes, which is the end
of one message and the header of the next; the buffer is compacted beyond offset
2, which four messages in a row reach. One traffic has messages both ways, the
longer one larger than a socket. `AcceptsTraffic` excepts traffic in which two
*successive* messages with descriptors exceed the limit together, the case of
finding 5: a third cannot come in, since `recvmsg` stops after each buffer with
descriptors.

In `header_rewrite`, name lengths are on both sides of the alignment so that the
later fields stay, move by eight up and by eight down, and the last field has or
has not padding behind it. Values aligned to eight bytes and signatures of two
characters stop the scan (`Obstacle`): behind one, the name is left as it is, and
the properties say so. The header fields of the D-Bus specification are of types
`o`, `s`, `u` and `g` only, so this concerns fields that no version has.

Every property also has a mutant, a plausible slip in one mapped definition,
under which TLC finds it violated in the same run. They sit before the
definition they replace, marked `Mutant`.

**Fairness.** Three runs need it. In `session_listings`, the loop selects again after
every handler, so an EOF that is there is read in the end (`WF` of the two read
actions), and a bus that stays up answers every call it got (`WF` of
`BusAnswers`). Nothing is assumed of the client, of peers, or of connections
closing. The `select!` is biased, so this holds only while the client does not
send without end; the model's client cannot, because its serials are bounded.

In `handshake`, the router is polled when a socket it waits for is ready (`WF` of
`Router`, as a whole: nothing is assumed of the random choice of `select!`), a
client goes on with its script as answers come and hangs up when it is refused,
and the buses answer. Without the last the session waits forever, as the code
has no timeout. In `fd_stream`, the router is polled and peers write while there
is room and read what has come, each direction on its own. That peers read while they
write is an assumption the code depends on: the router stops reading a peer it
cannot write to, and with one that does the same, nothing moves.

## 4. Findings

1. **Replies can go to the wrong bus.** `incoming_calls` is keyed by the
   caller's serial alone (`session.rs:650`), but each connection numbers its
   own messages. Two service calls with one serial, one from each bus, share
   one entry: the first reply goes to the bus that called last. The comment at
   `session.rs:703` says it "goes straight back to that bus". The proof in
   section 5 says exactly when it does.
2. **`NameOwnerChanged` is rewritten in part.** `docs/gap-analysis.md:37` says
   it "Rewrites unique names in body"; `dbus/daemon.rs:461` rewrites both owners
   and not the name, so a host peer's arrival is announced under a bare name
   that leads to the sandbox bus.
3. **Unquoted match-rule senders keep their prefix.** Both parsers accept
   `sender=:h.1.7` ("Handle unquoted values", `dbus/rewrite.rs:397`), and it is
   routed by; `rewrite_match_rule_sender` replaces the quoted spelling only, so
   the rule that reaches the host bus matches nothing.

4. **A split authentication line loses its beginning.** `read_auth_line` keeps
   what it has read in a local and is dropped when the other branch of `select!`
   (`auth.rs:56`) completes. A client that sends its next line before the last
   answer, with the line in two segments, gets only the tail relayed. The comment
   at `auth.rs:104` says "Returns the complete line". The run `handshake` shows
   that it holds for clients that wait, however lines are cut.
5. **Two legal messages can exceed the limit on descriptors.** `socket.rs:280`
   adds what is queued to what comes in. While the rest of one message and the
   header of the next come in one `recvmsg`, the descriptors of both are there.
   `socket.rs:23` has the limit on "a single message".

Also seen, and not turned into runs: a client that pipelines through `BEGIN` and
is refused still reaches the forwarding loop, where the next read ends the
session (`ForwardsWhenBothAccepted` is about the others); after a scan that
gives up, `header.sender` holds the new name although the bytes have the old one
(`dbus/rewrite.rs:50`); `read_message` takes an end of the stream within the
first twelve bytes for one between messages, against the comment at
`dbus/message.rs:241`; the `org.freedesktop.DBus` host route of
`config.toml.example` has no effect on daemon methods (`routing.rs:42` decides
first); the README's sequence diagram shows a hostpass `Hello` returning `:1.y`
where `rewrite_method_return_body` makes it `:h.1.y`.

## 5. What is proved

For every value of the constants that satisfies the assumptions of the modules
(`TextAssumption`, `RoutingAssumption`, `SessionAssumption`, `HandshakeAssumption`,
`FdStreamAssumption`: types, sizes that are not 0, a client's own messages are
calls and signals; `HeaderRewriteAssumption`: messages that come in are
well-formed, and within the sizes `Prologue::parse` accepts), and where it says so of a further one about the surroundings:

| Theorem | Statement |
|---|---|
| `SessionProofs` | |
| `FakeNameRoundTrip` | a fake name tells its bus and gives the real name back |
| `TypeCorrect` | `Spec => []TypeOK` |
| `HostpassStays` | `Spec => []HostpassStaysOnHost` |
| `HostpassOnlyHost` | `Spec => []HostpassUsesHostOnly` |
| `HostpassSurvives` | `Spec => HostpassOutlivesSandbox` |
| `SessionCallProofs` | |
| `CallsStayTracked` | `CallersApart => (Spec => []CallTracking)` |
| `RepliesReach` | `CallersApart => (Spec => []RepliesReachTheirCaller)` |
| `CallsCanBeAnswered` | `CallersApart => (Spec => []UnansweredCallsAreTracked)` |
| `Relays` | `CallersApart => (Spec => RelaysCalls)`: a session implements `CallRelay` |
| `SessionNameProofs` | |
| `FakeNamesReach` | `CallersApart /\ FakeNamesInPlace => (Spec => []FakeNamesReachTheirBus)` |
| `ShownNamesLeadBack` | `BusNamesAreReal /\ RequestsAreRegular => (Spec => []ShownNamesResolve)` |
| `SessionMergeProofs` | |
| `ListingsMerged` | `SignalsAnswerNothing => (Spec => []MergedListsAreComplete)` |
| `HandshakeProofs` | |
| `TypeCorrect` | `Spec => []TypeOK` |
| `LinesArrive` | `ClientsLogIn => (Spec => []RelaysLines)` |
| `NothingIsLate` | `ClientsLogIn /\ VerdictsAwaited => (Spec => []AnswersBelongToAuth)` |
| `MessagesAreLeft` | `ClientsLogIn => (Spec => []MessagesAreLeftForForwarding)` |
| `BothAccept` | `ClientsLogIn /\ WaitsAreForVerdicts => (Spec => []ForwardsWhenBothAccepted)` |
| `FdStreamProofs` | |
| `TypeCorrect` | `Spec => []TypeOK` |
| `BytesStayInOrder` | `Spec => []BytesInOrder` |
| `FdsStayInOrder` | `Spec => []FdsInOrder` |
| `TrafficIsAccepted` | `Spec => []AcceptsTraffic` |
| `MessagesAreDelivered` | `Spec => DeliversMessages`: each direction implements `MessageChannel` |
| `HeaderRewriteProofs` | |
| `ScanPlace` | `Spec => []ScanKeepsItsPlace` |
| `TypeCorrect` | `Spec => []TypeOK` |
| `WellFormedness` | `Spec => []ResultIsWellFormed` |
| `NameOnlyChanges` | `Spec => []OnlyTheNameChanges` |
| `BodyStays` | `Spec => []BodyFollowsHeader` |

The further assumptions are not there to make a proof go through: each excludes
something in which the property is false or has no meaning, and `TheoremsApply` in
`MCSession` and `MCHandshake` has TLC confirm them for the instances of the passing
runs.

| Assumption | What it asks | What lies outside |
|---|---|---|
| `CallersApart` | a host caller shares no serial with another caller; a hostpass client has host callers only | finding 1 |
| `FakeNamesInPlace` | the client uses fake names where the code undoes them: as destination, as argument of a method in `NeedsRequestRewrite`, as quoted sender of a match rule | finding 3; the argument of `StartServiceByName` and calls without an interface, two of the hazards no property covers |
| `BusNamesAreReal` | no name on a bus starts like a fake one; signals answer nothing; a hostpass client hears nothing from the sandbox bus | buses that do not keep to the specification |
| `RequestsAreRegular` | the client requests well-known names, and gives the interface with a listing | a listing that is forwarded to both buses instead of merged |
| `SignalsAnswerNothing` | a signal has no reply serial | |
| `ClientsLogIn` | clients log in, word by word, or do not speak D-Bus; lines come in pieces only from clients that wait for each answer | finding 4 |
| `VerdictsAwaited` | a client that negotiates no descriptors waits for the verdict before `BEGIN` | the code counts no other response, so it would not wait itself |
| `WaitsAreForVerdicts` | a client that waits before `BEGIN` waits for the verdict and not only for the challenge | |

*Types* are not a formality: `CompleteMerge` and `AwaitOtherReply` store what a
bus sent, so the proof needs that a bus's listing is a list of names
(`ReplyNames`) and follows each handler's writes (`ClientStepTypes`,
`UpstreamStepTypes`).

*Hostpass.* "Nothing is written to the sandbox bus" is not inductive: a reply of
the client leaves through `incoming_calls` without being routed. The invariant
adds that no entry of `incoming_calls` names the sandbox bus, which holds
because no service is ever tracked there, which holds because `route_request`
sends every hostpass `RequestName` to the host. That a hostpass session survives
the sandbox bus follows: no write can fail on it, and the read of its EOF is
guarded.

*The way back of replies.* A reply is led by `incoming_calls` if there is an
entry, and by the fake sender the client was shown otherwise. A host call to a
tracked service is shown with its bare sender (`session.rs:652`), so for it the
entry is the only lead. `CallTracking` says that each call the client holds is
covered by one of the two; that entries only name buses of callers with that
serial; and that a call is handed over once. It is inductive under
`CallersApart`: for a non-hostpass client, a caller on the host bus shares no
serial with any other caller. The assumption is what finding 1 shows to be
needed, and the proof shows that nothing more is (sandbox callers may collide
with each other). For a hostpass client it asks instead that all callers be on
the host bus: such a client never says `Hello` to the sandbox bus, which
therefore gives nobody a name to reach it by.

*The refinement.* `Relays` needs in addition that what the abstract view calls a
reply *is* the reply to one call, under its serial (`RepliesAreOfCalls`). Then
each step of the session is a `HandOver`, a `SendBack` or a stutter of
`CallRelay`: the view of what a handler writes (`CallsHandedOver`,
`RepliesWritten`) grows by at most one element.

*Fake names.* Going in, each message is written by one of four paths
(`ForwardToBus`, `ForwardToBoth`, `ForwardForMerge`, `ForwardReplyToCaller`), and
the routing of each agrees with its rewriting; the proof goes through
`RouteRequest` case by case, once for destinations, once for arguments, once for
match rules. Coming out, whether a name in a body is shown rewritten depends on
`pending_calls`, keyed by serial, and on which bus answers. `NameTracking` says
that a call whose answer is a name is remembered under the one bus it went to
(`AnswersExpected`), and that a listing stays open until both buses have
answered (`MergesHalfDone`), so that no answer is taken for the answer to
something else.

*Merged listings.* `MergeTracking` ties `pending_merges` to what the buses have
said: an open entry has the reply of the bus it names, and no reply to it was
shown. The names themselves come out of a fold that keeps the first of each
(`MergeListNames`): `MergedNames` says that the result has exactly the names that
went in, each once. That is induction over data. The induction theorems of the
library take an operator as a parameter and cannot be used here, but a *set* of
numbers can be closed under successor (`SetInduction`): the fold is a function
recursive in the set of positions, and the lemmas show that it exists
(`FoldExists`), is unique, and keeps its invariant from 1..n to 1..n+1.

*Lines of the handshake.* `Unread` says of a socket that it holds the pieces of
the lines not yet read, in order, after the `p` pieces taken by the read in
progress; it says so with the position at which each line starts instead of a
concatenation, so that it can be proved about. `LineTracking` ties it to what was
said and relayed, and to how far the client is in its script. The heart is
`OtherReadIsEmpty`: when one branch of `select!` completes, the other future has
taken nothing, so that dropping it loses nothing. It holds because either lines come
whole, or the client waits: a piece of the client's line in the socket means that
the bus has answered everything before it, and a piece of an answer means that the
client has not gone on. Below it are the lemmas on one piece (`PieceTaken`), one
line (`LineTaken`, `LineSaid`) and the number of answers due (`AnswersDue`). That a
message is never read as a line (`MessagesAreLeft`) follows from the same
invariant, as the client is read one line at a time and not beyond `BEGIN`.

*The verdict.* `auth_passthrough` counts one kind of response, that to
`NEGOTIATE_UNIX_FD`, and takes any `ERROR` for it. `LoginTracking` adds what makes
this right: before the verdict the bus says `ERROR` only to a client it has
refused (`Verdicts`), so the response is counted until it is read
(`ResponseCounted`); and a client that waits for the verdict is not one that was
refused (`NotRefused`). When the loop ends, nothing is expected, so everything up to
BEGIN has been answered and read (`AllIsAnswered`).

*The login on the host bus* is a sequence of writes and reads, and `HostTracking`
says how many of each belong to every phase, and that what the socket holds is
what the bus has said less the words read.

*The order of bytes.* `BytesInOrder` equates the concatenation of the five places
a byte can be in, from the receiver back to the sender, with the interval of
bytes written. Together with `TypeOK` it is inductive. Each step cuts one of the
five in two and joins a part to its neighbour, so the proof rests on what
`SubSeq` and `\o` do (`Split`, `RestOfConcat`, `RestOfRest`, `Assoc`) and on one
lemma per operation: `SentBytes` and `ReceivedBytes` for the kernel,
`ConsumeUnread` for all three cases of `consume`, compaction included,
`MessageLength` for the length that is taken.

*Descriptors.* `FdsBy` says how many descriptors go out with the first `n` bytes
of a traffic, and `FdsInOrder` says of each of the five places that it has the
descriptors of exactly the bytes that are there. `FdsTracking` adds what a step needs
to keep that: the five places meet (`Positions`), what is being sent on ends
where a message ends (`EndsMessage`), and in a socket only the first byte of a
kernel buffer has descriptors (`Buffers`). The last is why a `recvmsg`, which stops
after one buffer with descriptors, finds one carrier at most (`OneCarrier`), so
that the descriptors it returns are those of all the bytes it returns
(`ReceivedFds`). `ReadPlaces`, `TakenPlaces`, `SentPlaces`, `WrittenPlaces` and
`ArrivedPlaces` follow the five operations at the level of positions; the
`...Places` lemmas after them tie these to the actions. The header is recognised by
its first byte, and `NextUnread` gets from `BytesInOrder` which byte that is.

*What is refused.* A read that brings too many descriptors joins those of a message
that is still incomplete in the buffer with those of one carrier behind it
(`Unfinished`, `NextCarrier`), so the two together exceed the limit (`Overflow`);
and a message that is complete has its descriptors in the queue (`TakeRefused`).
That the buffer holds an incomplete message when `fill` reads is what
`Needed` asks.

*The channel.* A write that ends a message is a `Put` (`PutOne`), a read at the
far end delivers the messages that end in it, any number of them
(`ReadsDelivers`), and every other step is a stutter. What arrived is cut into
messages by the bytes; that their descriptors are there is `FdsInOrder` at the end of a
message (`ArrivedMessages`). How many messages have ended is a cardinality, tied by
`EndedIs` to the one position that separates them.

*The place of the scan.* `Scanning`, the inductive invariant, adds that the bytes
are those of the message as long as the scan lasts and that `pos` is a natural
number. A step needs that the type the code goes by is the one the field has.
The code reads the type twice, the second time from `pos - 2` after `pos` has
been aligned (`SecondLook`): either alignment did not move it, and the same byte
is read again, or it did, and the byte read is the signature's closing zero or
padding, which is no type, so the loop is left. `BasicSkipped` and `Skipped`
then give one length for each type, and `WellFormed` has the next field start
there.

*The message that comes out.* `Rewriting`, the inductive invariant, says three
things the properties do not. During the scan (`Looking`) there is a name to
rewrite, and the fields passed are neither it nor an obstacle (`Passed`); so the
field the scan stops at is the one in `Found` (`FoundTarget`), and when it gives up
there is none (`NoneFound`). From then on the bytes are a message whose fields are
those that came, but for the name (`HeaderKept`); this has the type of the field
besides, as `RewriteBody` has to leave its value where it is. And the body is the
old one until `RewriteBody`.

That `ReplaceField` leads there is a statement about bytes: the new message is
pieces of the old one behind each other (`LayoutParts`, `BodyParts`), each copied to
another place (`Copied`). A field copied by a multiple of eight keeps everything
that its reading depends on: code, signature, padding, the alignment of its value
and its length (`FieldMoves`). Hence the fields before the name are the old ones,
those after it too at their new places (`FieldKept`), and the one with the name has
another value (`FieldRestrung`), which makes the whole a message again
(`RelaidFormed`). What remains is arithmetic. `NewArrayLen` counts padding after
the old and the new name only if a field follows, and `TargetSpaced` shows that it
is, in either case, the place where the new fields end (`Spaced`), that the fields
behind the name move by a multiple of eight, and that the length fits its four
bytes. For this last the messages have to be of a size the code accepts: a name in
one of 4 GiB could not grow. `BodyKeeps` does for another body what `HeaderRelaid`
does for another name.

Only model-checked: liveness (`ListingsAreAnswered`, `HandshakeEnds`,
`TrafficArrives`), which cannot be proved with this prover. The safety properties
of the passing runs are all proved.

## 6. Not modelled

- Message flags (`NO_REPLY_EXPECTED`), calls without an interface, serial reuse
  after 2^32 messages.
- Malformed messages, beyond a stream that is no message header (`HeaderOk`)
  and a message without its descriptors; struct-valued header fields and arrays
  whose elements need padding, which `rewrite_header_field` skips by length only.
- The bodies of listings, match rules and `NameOwnerChanged` as bytes, and
  `build_method_return`: zvariant writes them.
- Two buses at once in `FdStream`, and a client that never stops sending: the
  biased `select!` then never reaches the buses.
- The accept loop (`router.rs`): sessions share the immutable configuration only,
  and the loop keeps a list of tasks and nothing else. Start-up races for the
  socket path are outside what the router supports.
- TOML loading, glob matching of executable paths, address parsing, log
  formatting and start-up keep no state.

## 7. Plan

The state machines planned at the outset are there, and every safety property that
a passing run checks is proved, the two refinements included. What is left, in
order:

1. `Session` again: `NO_REPLY_EXPECTED`, calls without an interface, duplicate
   replies of `forward_to_both`, against an abstract single bus.
2. `FdStream` with two buses, for what the biased choice does to the second.
