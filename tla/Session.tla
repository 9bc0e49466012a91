------------------------------ MODULE Session -------------------------------
(***************************************************************************)
(* One client session of the router after authentication: the forwarding   *)
(* loop of session.rs (forward_loop and everything it calls), with the     *)
(* client and the two buses around it.                                     *)
(*                                                                         *)
(* forward_loop is one task: select! picks one readable socket, reads one  *)
(* message and runs its handler to the end, writes included, before it     *)
(* selects again.  So one message and its whole handler are one action.    *)
(* A message counts as sent when the router reads it: sockets keep order   *)
(* and what a sender does is free, so a delay on the way is the sender     *)
(* acting later.  Which of the ready sockets comes first is left open.     *)
(***************************************************************************)
EXTENDS Routing, Rewrite

CONSTANTS
  MaxSerial,       \* bound: the client numbers its messages 1..MaxSerial
  ClientRequests,  \* what the client may send of its own accord, serial 0
  ClientName,      \* [Bus -> Name]: its unique name on each bus
  Directory,       \* [Bus -> Seq([name, owner])]: the names others hold there
  Callers,         \* set of [bus, name, serials]: who may call the client
  BusSignals       \* [Bus -> set of signals the bus may deliver]

Serials == 1..MaxSerial

ASSUME SessionAssumption ==
  /\ MaxSerial \in Nat
  /\ ClientRequests \subseteq Message
  /\ \A m \in ClientRequests : m.type \in {"call", "signal"}
  /\ ClientName \in [Bus -> Name]
  /\ Directory \in [Bus -> Seq([name : Name, owner : Name])]
  /\ Callers \subseteq [bus : Bus, name : Name, serials : SUBSET Serials]
  /\ \A bus \in Bus : /\ BusSignals[bus] \subseteq Message
                       /\ \A m \in BusSignals[bus] : m.type = "signal"

VARIABLES
  \* struct Session and the locals of forward_loop
  pending_calls,      \* serial -> [bus, member], bus NoBus: no entry
  incoming_calls,     \* serial -> bus, NoBus: no entry
  pending_merges,     \* serial -> [open, bus, names], open FALSE: no entry,
                      \* bus NoBus: no first response yet
  exported_services, sandbox_services,
  sandbox_active,
  running,            \* FALSE once forward_loop has returned
  \* what was written on the sockets
  sent,               \* bus -> set of [orig, wire, answers]: the client's
                      \* message, what the bus got, the call it answers
  received,           \* set of [from, raw, shown]: what a bus sent, what the
                      \* client got; from = "router": a merged answer
  \* the client and the buses
  next_serial, client_up,
  up,                 \* bus -> its end of the connection is open
  answered,           \* bus -> the replies it has given
  owned               \* bus -> well-known names the client holds there

tables   == <<pending_calls, incoming_calls, pending_merges>>
services == <<exported_services, sandbox_services>>
outside  == <<next_serial, client_up, up, answered, owned>>
vars     == <<tables, services, sandbox_active, running, sent, received,
              outside>>

NoCall  == [bus |-> NoBus, member |-> ""]
NoMerge == [open |-> FALSE, bus |-> NoBus, names |-> <<>>]

Init ==
  /\ pending_calls = [s \in Serials |-> NoCall]
  /\ incoming_calls = [s \in Serials |-> NoBus]
  /\ pending_merges = [s \in Serials |-> NoMerge]
  /\ exported_services = {} /\ sandbox_services = {}
  /\ sandbox_active = TRUE /\ running = TRUE
  /\ sent = [b \in Bus |-> {}] /\ received = {}
  /\ next_serial = 1 /\ client_up = TRUE
  /\ up = [b \in Bus |-> TRUE]
  /\ answered = [b \in Bus |-> {}]
  /\ owned = [b \in Bus |-> {}]

-----------------------------------------------------------------------------
\* Upstreams::send and send_both.  The host bus is written first; a write to
\* a closed socket fails, later ones are not tried and the session ends.
WriteUpstream(buses, orig, wire, answers) ==
  LET reached == {b \in buses : up[b] /\ ("host" \in buses => up["host"])}
  IN  /\ sent' = [b \in Bus |->
           IF b \in reached
           THEN sent[b] \cup {[orig |-> orig, wire |-> wire,
                               answers |-> answers]}
           ELSE sent[b]]
      /\ running' = (reached = buses)

\* DbusWriter::send to the client.
WriteClient(from, raw, shown) ==
  /\ received' = IF client_up
                 THEN received \cup {[from |-> from, raw |-> raw,
                                      shown |-> shown]}
                 ELSE received
  /\ running' = client_up

-----------------------------------------------------------------------------
(* handle_client_message.  answers is a history value: {call} when msg      *)
(* replies to the delivered call, {} otherwise.                             *)

\* Mutant: error replies are not looked up.
ReturnAnswersIncomingCall(msg) ==
  /\ msg.type = "return"
  /\ msg.reply_serial \in Serials
  /\ incoming_calls[msg.reply_serial] # NoBus

AnswersIncomingCall(msg) ==
  /\ msg.type \in {"return", "error"}
  /\ msg.reply_serial \in Serials
  /\ incoming_calls[msg.reply_serial] # NoBus

ForwardReplyToCaller(msg, answers) ==
  /\ AnswersIncomingCall(msg)
  /\ incoming_calls' = [incoming_calls EXCEPT ![msg.reply_serial] = NoBus]
  /\ WriteUpstream({incoming_calls[msg.reply_serial]}, msg,
                   DestToUpstream(msg), answers)
  /\ UNCHANGED <<pending_calls, pending_merges, services>>

IsRequestName(msg) ==
  msg.dest = DBusName /\ msg.iface = DBusName /\ msg.member = "RequestName"

TrackExportedService(msg, decision) ==
  LET requested(bus) ==
        IF IsRequestName(msg) /\ msg.body # <<>> /\ decision = Single(bus)
        THEN {msg.body[1]} ELSE {}
  IN  /\ exported_services' = exported_services \cup requested("host")
      /\ sandbox_services' = sandbox_services \cup requested("sandbox")

\* Mutant: the call is not remembered.
RecordNoCall(msg, bus) == UNCHANGED pending_calls

RecordCall(msg, bus) ==
  pending_calls' = [pending_calls EXCEPT
                      ![msg.serial] = [bus |-> bus, member |-> msg.member]]

ForwardToBus(msg, bus, answers) ==
  /\ RecordCall(msg, bus)
  /\ WriteUpstream({bus}, msg, RewriteRequestBody(DestToUpstream(msg)),
                   answers)
  /\ UNCHANGED pending_merges

\* Mutant: the entry names no single bus.
ForwardToBothAsNeither(msg) ==
  /\ RecordCall(msg, "both")
  /\ WriteUpstream(Bus, msg, msg, {})
  /\ UNCHANGED pending_merges

ForwardToBoth(msg) ==
  /\ RecordCall(msg, "sandbox")
  /\ WriteUpstream(Bus, msg, IF msg.member \in MatchMethods
                             THEN RewriteMatchRuleBody(msg) ELSE msg, {})
  /\ UNCHANGED pending_merges

ForwardForMerge(msg) ==
  /\ pending_merges' = [pending_merges EXCEPT
                          ![msg.serial] = [NoMerge EXCEPT !.open = TRUE]]
  /\ WriteUpstream(Bus, msg, msg, {})
  /\ UNCHANGED pending_calls

RouteClientMessage(msg, answers) ==
  LET decision == RouteRequest(msg)
  IN  /\ ~AnswersIncomingCall(msg)
      /\ TrackExportedService(msg, decision)
      /\ \/ \E bus \in Bus : /\ decision = Single(bus)
                             /\ ForwardToBus(msg, bus, answers)
         \/ decision = Both  /\ ForwardToBoth(msg)
         \/ decision = Merge /\ ForwardForMerge(msg)
      /\ UNCHANGED incoming_calls

HandleClientMessage(msg, answers) ==
  /\ running /\ client_up
  /\ next_serial \in Serials
  /\ next_serial' = next_serial + 1
  /\ \/ ForwardReplyToCaller(msg, answers)
     \/ RouteClientMessage(msg, answers)
  /\ UNCHANGED <<sandbox_active, received, client_up, up, answered, owned>>

ClientSends ==
  \E request \in ClientRequests :
    HandleClientMessage([request EXCEPT !.serial = next_serial], {})

\* The calls the client has been handed and has not replied to.
CallsTaken   == {r \in received : r.raw.type = "call"}
CallsReplied == UNION {e.answers : e \in UNION {sent[b] : b \in Bus}}

ReplyTo(call, type) ==
  [NoMessage EXCEPT !.type = type, !.serial = next_serial,
                    !.reply_serial = call.shown.serial,
                    !.dest = call.shown.sender]

ClientReplies ==
  \E call \in CallsTaken \ CallsReplied, type \in {"return", "error"} :
    HandleClientMessage(ReplyTo(call, type), {call})

-----------------------------------------------------------------------------
(* handle_upstream_message for a message read from bus.                     *)

IsIncomingServiceCall(msg, bus) ==
  /\ msg.type = "call"
  /\ msg.dest \in (IF bus = "host" THEN exported_services
                                   ELSE sandbox_services)

\* Mutant: the serial of the call is not noted.
TakeServiceCallUntracked(msg, bus) ==
  /\ IsIncomingServiceCall(msg, bus)
  /\ WriteClient(bus, msg,
                 IF bus = "sandbox" THEN SenderToClient(msg, bus) ELSE msg)
  /\ UNCHANGED <<incoming_calls, pending_merges>>

TakeServiceCall(msg, bus) ==
  /\ IsIncomingServiceCall(msg, bus)
  /\ incoming_calls' = [incoming_calls EXCEPT ![msg.serial] = bus]
  /\ WriteClient(bus, msg,
                 IF bus = "sandbox" THEN SenderToClient(msg, bus) ELSE msg)
  /\ UNCHANGED pending_merges

\* Mutant: an error does not count as the reply of a bus.
IsMergeReturn(msg) ==
  /\ msg.type = "return" /\ msg.reply_serial \in Serials
  /\ pending_merges[msg.reply_serial].open

IsMergeReply(msg) ==
  msg.reply_serial \in Serials /\ pending_merges[msg.reply_serial].open

\* parse_string_array: an error reply reads as the empty list.
NamesIn(msg) == IF msg.type = "return" THEN msg.body ELSE <<>>

\* Mutant: the first reply is taken for the host's, whoever sent it.
AwaitOtherReplyAsHost(msg, bus) ==
  /\ ~IsIncomingServiceCall(msg, bus)
  /\ IsMergeReply(msg)
  /\ pending_merges[msg.reply_serial].bus = NoBus
  /\ pending_merges' =
       [pending_merges EXCEPT
          ![msg.reply_serial] = [open |-> TRUE, bus |-> "host",
                                 names |-> NamesIn(msg)]]
  /\ UNCHANGED <<incoming_calls, received, running>>

AwaitOtherReply(msg, bus) ==
  /\ ~IsIncomingServiceCall(msg, bus)
  /\ IsMergeReply(msg)
  /\ pending_merges[msg.reply_serial].bus = NoBus
  /\ pending_merges' =
       [pending_merges EXCEPT
          ![msg.reply_serial] = [open |-> TRUE, bus |-> bus,
                                 names |-> NamesIn(msg)]]
  /\ UNCHANGED <<incoming_calls, received, running>>

CompleteMerge(msg, bus) ==
  LET first    == pending_merges[msg.reply_serial]
      fromHost == first.bus = "host"
      merged   == MergeListNames(IF fromHost THEN first.names ELSE NamesIn(msg),
                                 IF fromHost THEN NamesIn(msg) ELSE first.names)
  IN  /\ ~IsIncomingServiceCall(msg, bus)
      /\ IsMergeReply(msg)
      /\ first.bus # NoBus
      /\ pending_merges' = [pending_merges EXCEPT
                              ![msg.reply_serial] = NoMerge]
      /\ WriteClient("router", msg,
                     [NoMessage EXCEPT !.type = "return",
                                       !.reply_serial = msg.reply_serial,
                                       !.body = merged])
      /\ UNCHANGED incoming_calls

ForwardToClient(msg, bus) ==
  /\ ~IsIncomingServiceCall(msg, bus)
  /\ ~IsMergeReply(msg)
  /\ WriteClient(bus, msg,
       PrepareMessageForClient(msg, bus,
         IF msg.reply_serial \in Serials THEN pending_calls[msg.reply_serial]
                                         ELSE NoCall))
  /\ UNCHANGED <<incoming_calls, pending_merges>>

HandleUpstreamMessage(msg, bus) ==
  /\ running /\ up[bus]
  /\ bus = "sandbox" => sandbox_active
  /\ \/ TakeServiceCall(msg, bus)
     \/ AwaitOtherReply(msg, bus)
     \/ CompleteMerge(msg, bus)
     \/ ForwardToClient(msg, bus)
  /\ UNCHANGED <<pending_calls, services, sandbox_active, sent, next_serial,
                 client_up, up>>
-----------------------------------------------------------------------------
(* The buses.  Not under src: a bus daemon answers each call once, grants a  *)
(* name nobody else holds, and hands the client the calls made to its unique *)
(* name and to the names it holds.                                           *)

OwnerOf(bus, name) ==
  LET entries == {i \in DOMAIN Directory[bus] : Directory[bus][i].name = name}
  IN  IF name \in owned[bus] THEN ClientName[bus]
      ELSE IF entries # {} THEN Directory[bus][CHOOSE i \in entries : TRUE].owner
      ELSE NoName

ListedNames(bus) ==
  [i \in DOMAIN Directory[bus] |-> Directory[bus][i].name]

Reply(bus, call, type, sender, body) ==
  [NoMessage EXCEPT !.type = type, !.reply_serial = call.serial,
                    !.sender = sender, !.dest = ClientName[bus],
                    !.body = body]

\* The replies bus may give: a lookup of a name nobody holds is an error, a
\* listing may be refused by the policy of the bus.
Replies(bus, call) ==
  LET fromDaemon(body) == Reply(bus, call, "return", DBusName, body)
      error            == Reply(bus, call, "error", DBusName, <<>>)
      target           == IF call.body = <<>> THEN NoName ELSE call.body[1]
  IN  IF call.dest = DBusName
      THEN CASE call.member = "Hello" -> {fromDaemon(<<ClientName[bus]>>)}
             [] call.member \in MergedMethods ->
                  {fromDaemon(ListedNames(bus)), error}
             [] call.member \in {"GetNameOwner", "ListQueuedOwners"} ->
                  {IF OwnerOf(bus, target) = NoName THEN error
                   ELSE fromDaemon(<<OwnerOf(bus, target)>>)}
             [] OTHER -> {fromDaemon(<<>>)}
      ELSE {IF OwnerOf(bus, call.dest) = NoName THEN error
            ELSE Reply(bus, call, "return", OwnerOf(bus, call.dest), <<>>)}

OwnedAfter(bus, call) ==
  IF call.dest # DBusName \/ call.body = <<>> THEN owned[bus]
  ELSE CASE call.member = "RequestName" /\ OwnerOf(bus, call.body[1]) = NoName ->
              owned[bus] \cup {call.body[1]}
         [] call.member = "ReleaseName" -> owned[bus] \ {call.body[1]}
         [] OTHER -> owned[bus]

BusAnswers(bus, serial) ==
  \E call \in {e.wire : e \in sent[bus]} :
    /\ call.type = "call" /\ call.serial = serial
    /\ \A reply \in answered[bus] : reply.reply_serial # serial
    /\ \E reply \in Replies(bus, call) :
         /\ HandleUpstreamMessage(reply, bus)
         /\ answered' = [answered EXCEPT ![bus] = @ \cup {reply}]
    /\ owned' = [owned EXCEPT ![bus] = OwnedAfter(bus, call)]

\* A connection never uses a serial twice; two connections may use the same.
PeerCalls(bus) ==
  \E caller \in Callers : \E serial \in caller.serials,
                          name \in owned[bus] \cup {ClientName[bus]} :
    /\ caller.bus = bus
    /\ \A r \in CallsTaken : ~( /\ r.from = bus
                               /\ r.raw.sender = caller.name
                               /\ r.raw.serial = serial)
    /\ HandleUpstreamMessage([NoMessage EXCEPT !.serial = serial,
                                               !.sender = caller.name,
                                               !.dest = name], bus)
    /\ UNCHANGED <<answered, owned>>

BusSignal(bus) ==
  \E signal \in BusSignals[bus] :
    /\ \A r \in received : ~(r.from = bus /\ r.raw = signal)
    /\ HandleUpstreamMessage(signal, bus)
    /\ UNCHANGED <<answered, owned>>

-----------------------------------------------------------------------------
(* Disconnections while the session runs (once it is over nobody notices),   *)
(* and the branches of forward_loop that read an EOF.                        *)

ClientLeaves ==
  /\ running /\ client_up /\ client_up' = FALSE
  /\ UNCHANGED <<tables, services, sandbox_active, running, sent, received,
                 next_serial, up, answered, owned>>

BusGoesAway(bus) ==
  /\ running /\ up[bus] /\ up' = [up EXCEPT ![bus] = FALSE]
  /\ UNCHANGED <<tables, services, sandbox_active, running, sent, received,
                 next_serial, client_up, answered, owned>>

ReadClientOrHostEof ==
  /\ running /\ (~client_up \/ ~up["host"])
  /\ running' = FALSE
  /\ UNCHANGED <<tables, services, sandbox_active, sent, received, outside>>

\* Mutant: every session ends with the sandbox bus.
ReadSandboxEofEnds ==
  /\ running /\ sandbox_active /\ ~up["sandbox"]
  /\ running' = FALSE
  /\ UNCHANGED <<tables, services, sandbox_active, sent, received, outside>>

ReadSandboxEof ==
  /\ running /\ sandbox_active /\ ~up["sandbox"]
  /\ IF IsHostpass
     THEN sandbox_active' = FALSE /\ UNCHANGED running
     ELSE running' = FALSE /\ UNCHANGED sandbox_active
  /\ UNCHANGED <<tables, services, sent, received, outside>>

Next ==
  \/ ClientSends
  \/ ClientReplies
  \/ \E bus \in Bus : \/ \E serial \in Serials : BusAnswers(bus, serial)
                      \/ PeerCalls(bus)
                      \/ BusSignal(bus)
                      \/ BusGoesAway(bus)
  \/ ClientLeaves
  \/ ReadClientOrHostEof
  \/ ReadSandboxEof

Spec == Init /\ [][Next]_vars

\* The loop selects again after every handler, so an EOF is read in the end;
\* a bus that stays up answers every call.
Fairness ==
  /\ WF_vars(ReadClientOrHostEof)
  /\ WF_vars(ReadSandboxEof)
  /\ \A bus \in Bus, serial \in Serials : WF_vars(BusAnswers(bus, serial))

FairSpec == Spec /\ Fairness
=============================================================================
