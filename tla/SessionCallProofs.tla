------------------------- MODULE SessionCallProofs --------------------------
(***************************************************************************)
(* Replies to incoming calls reach their caller: the inductive invariant   *)
(* CallTracking of SessionProperties, step by step.                        *)
(***************************************************************************)
EXTENDS SessionProofs

-----------------------------------------------------------------------------
(* The history of replies.                                                   *)

\* A call counts as replied to when an entry of sent answers it.
LEMMA RepliedCalls ==
  \A call : call \in CallsReplied <=>
              \E bus \in Bus : \E e \in sent[bus] : call \in e.answers
BY DEF CallsReplied

\* A write adds the calls it answers to the replied ones, all of them when it
\* succeeds, and keeps RepliesReachTheirCaller if it is addressed right.
LEMMA WriteKeepsReplies ==
  ASSUME NEW bus \in Bus, NEW buses \in SUBSET Bus, bus \in buses,
         NEW orig, NEW wire, NEW answers,
         WriteUpstream(buses, orig, wire, answers)
  PROVE  /\ CallsReplied \subseteq CallsReplied'
         /\ running' => answers \subseteq CallsReplied'
         /\ RepliesReachTheirCaller
              /\ (\A call \in answers, b \in buses :
                    call.from = b /\ wire.dest = call.raw.sender)
              => RepliesReachTheirCaller'
<1> DEFINE entry == [orig |-> orig, wire |-> wire, answers |-> answers]
<1>1. \A call : call \in CallsReplied' <=>
                  \E b \in Bus : \E e \in sent'[b] : call \in e.answers
  BY DEF CallsReplied
<1>2. \A b \in Bus : sent[b] \subseteq sent'[b]
  BY DEF WriteUpstream
<1>3. running' => entry \in sent'[bus]
  BY DEF WriteUpstream
<1>4. \A b \in Bus : \A e \in sent'[b] :
        e \in sent[b] \/ (e = entry /\ b \in buses)
  BY DEF WriteUpstream
<1>5. entry.answers = answers /\ entry.wire = wire
  OBVIOUS
<1> HIDE DEF entry
<1>6. CallsReplied \subseteq CallsReplied'
  BY <1>1, <1>2, RepliedCalls
<1>7. running' => answers \subseteq CallsReplied'
  BY <1>1, <1>3, <1>5
<1>8. ASSUME RepliesReachTheirCaller,
             \A call \in answers, b \in buses :
               call.from = b /\ wire.dest = call.raw.sender
      PROVE  RepliesReachTheirCaller'
  BY <1>4, <1>5, <1>8 DEF RepliesReachTheirCaller
<1> QED BY <1>6, <1>7, <1>8

-----------------------------------------------------------------------------
(* What a bus sends.                                                         *)

\* A message that is no call leaves the calls of the client alone.
LEMMA OtherMessages ==
  ASSUME NEW bus \in Bus, NEW msg, msg.type # "call",
         HandleUpstreamMessage(msg, bus)
  PROVE  UNCHANGED <<incoming_calls, sent>> /\ CallsTaken' = CallsTaken
<1>1. ~TakeServiceCall(msg, bus)
  BY DEF TakeServiceCall, IsIncomingServiceCall
<1>2. UNCHANGED <<incoming_calls, sent>>
  BY <1>1 DEF HandleUpstreamMessage, AwaitOtherReply, CompleteMerge,
              ForwardToClient
<1>3. \E from, shown :
        received' \in {received,
                       received \cup {[from |-> from, raw |-> msg,
                                       shown |-> shown]}}
  BY <1>1 DEF HandleUpstreamMessage, AwaitOtherReply, CompleteMerge,
              ForwardToClient, WriteClient
<1> QED BY <1>2, <1>3 DEF CallsTaken

\* Replies and signals are no calls.
LEMMA AnswersAreNoCalls ==
  ASSUME NEW bus \in Bus,
         \/ \E serial \in Serials : BusAnswers(bus, serial)
         \/ BusSignal(bus)
  PROVE  /\ UNCHANGED <<incoming_calls, sent>> /\ CallsTaken' = CallsTaken
         /\ running
<1>1. \E msg : msg.type # "call" /\ HandleUpstreamMessage(msg, bus)
  <2>1. ASSUME NEW serial \in Serials, BusAnswers(bus, serial)
        PROVE  \E msg : msg.type # "call" /\ HandleUpstreamMessage(msg, bus)
    <3>1. PICK call, reply : /\ reply \in Replies(bus, call)
                             /\ HandleUpstreamMessage(reply, bus)
      BY <2>1 DEF BusAnswers
    <3>2. \A type, sender, body :
            Reply(bus, call, type, sender, body).type = type
      BY DEF Reply, NoMessage
    <3>3. reply.type # "call"
      BY <3>1, <3>2 DEF Replies
    <3> QED BY <3>1, <3>3
  <2>2. ASSUME BusSignal(bus)
        PROVE  \E msg : msg.type # "call" /\ HandleUpstreamMessage(msg, bus)
    <3>1. PICK signal \in BusSignals[bus] : HandleUpstreamMessage(signal, bus)
      BY <2>2 DEF BusSignal
    <3>2. signal.type # "call"
      BY SessionAssumption
    <3> QED BY <3>1, <3>2
  <2> QED BY <2>1, <2>2
<1> QED BY <1>1, OtherMessages DEF HandleUpstreamMessage

\* A call either goes through the service branch, which notes its serial, or
\* reaches the client with its sender made fake.
LEMMA CallMessages ==
  ASSUME NEW bus \in Bus, NEW msg, msg.type = "call", msg.reply_serial = 0,
         HandleUpstreamMessage(msg, bus)
  PROVE  \E shown :
           /\ \/ /\ incoming_calls' =
                      [incoming_calls EXCEPT ![msg.serial] = bus]
                 /\ shown = IF bus = "sandbox" THEN SenderToClient(msg, bus)
                                               ELSE msg
              \/ /\ UNCHANGED incoming_calls
                 /\ shown = SenderToClient(msg, bus)
           /\ WriteClient(bus, msg, shown)
<1>1. ~IsMergeReply(msg)
  BY SessionAssumption DEF IsMergeReply, Serials
<1>2. CASE TakeServiceCall(msg, bus)
  BY <1>2 DEF TakeServiceCall
<1>3. CASE ForwardToClient(msg, bus)
  <2>1. \A call : PrepareMessageForClient(msg, bus, call)
                    = SenderToClient(msg, bus)
    BY DEF PrepareMessageForClient
  <2> QED BY <1>3, <2>1 DEF ForwardToClient
<1> QED
  BY <1>1, <1>2, <1>3 DEF HandleUpstreamMessage, AwaitOtherReply, CompleteMerge

-----------------------------------------------------------------------------
(* A peer calls.                                                             *)

\* How the sender of a call is shown: faked, it tells the bus; kept, not.
LEMMA ShownSender ==
  ASSUME CallersApart, NEW caller \in Callers
  PROVE  /\ GetBusFromFakeName(ToFakeName(caller.name, caller.bus)) = caller.bus
         /\ RealName(ToFakeName(caller.name, caller.bus)) = caller.name
         /\ GetBusFromFakeName(caller.name) = NoBus
         /\ RealName(caller.name) = caller.name
<1>1. caller.name \in Name /\ caller.bus \in Bus
  BY SessionAssumption
<1>2. /\ IsUniqueName(caller.name) /\ caller.name.path # <<>>
      /\ ~IsFakeUniqueName(caller.name)
  BY DEF CallersApart
<1>3. GetBusFromFakeName(caller.name) = NoBus /\ RealName(caller.name) = caller.name
  BY <1>2 DEF IsFakeUniqueName, RealName
<1> QED BY <1>1, <1>2, <1>3, FakeNameRoundTrip

LEMMA PeerCallStep ==
  ASSUME CallersApart, TypeOK, CallTracking, NEW bus \in Bus, PeerCalls(bus)
  PROVE  CallTracking'
<1> USE DEF CallTracking
<1>1. PICK caller, serial, name :
        /\ caller \in Callers
        /\ caller.bus = bus /\ serial \in caller.serials
        /\ \A r \in CallsTaken : ~( /\ r.from = bus
                                   /\ r.raw.sender = caller.name
                                   /\ r.raw.serial = serial)
        /\ HandleUpstreamMessage([NoMessage EXCEPT !.serial = serial,
                                                   !.sender = caller.name,
                                                   !.dest = name], bus)
  BY DEF PeerCalls
<1> DEFINE msg == [NoMessage EXCEPT !.serial = serial, !.sender = caller.name,
                                    !.dest = name]
<1>2. /\ msg.type = "call" /\ msg.reply_serial = 0
      /\ msg.serial = serial /\ msg.sender = caller.name
      /\ SenderToClient(msg, bus).serial = serial
      /\ SenderToClient(msg, bus).sender = ToFakeName(caller.name, bus)
  BY DEF NoMessage, SenderToClient
<1>3. HandleUpstreamMessage(msg, bus)
  BY <1>1
<1> HIDE DEF msg
<1>4. PICK shown :
        /\ \/ /\ incoming_calls' = [incoming_calls EXCEPT ![serial] = bus]
              /\ shown = IF bus = "sandbox" THEN SenderToClient(msg, bus)
                                            ELSE msg
           \/ /\ UNCHANGED incoming_calls
              /\ shown = SenderToClient(msg, bus)
        /\ WriteClient(bus, msg, shown)
  BY <1>2, <1>3, CallMessages
<1> DEFINE entry == [from |-> bus, raw |-> msg, shown |-> shown]
<1>5. CallsTaken' \in {CallsTaken, CallsTaken \cup {entry}}
  BY <1>2, <1>4 DEF WriteClient, CallsTaken
<1>6. /\ serial \in Serials
      /\ running /\ UNCHANGED sent /\ CallsReplied' = CallsReplied
  <2>1. serial \in Serials
    BY <1>1, SessionAssumption
  <2>2. running /\ UNCHANGED sent
    BY <1>3 DEF HandleUpstreamMessage
  <2> QED BY <2>1, <2>2 DEF CallsReplied
<1>7. /\ entry.from = bus /\ entry.raw.serial = serial
      /\ entry.raw.sender = caller.name /\ entry.shown.serial = serial
      /\ entry.shown = shown
  BY <1>2, <1>4
<1>8. /\ RealName(shown.sender) = caller.name
      /\ \/ GetBusFromFakeName(shown.sender) = bus
         \/ /\ bus = "host" /\ GetBusFromFakeName(shown.sender) = NoBus
            /\ incoming_calls' = [incoming_calls EXCEPT ![serial] = bus]
  BY <1>1, <1>2, <1>4, ShownSender DEF Bus
<1> HIDE DEF entry
<1>9. CallsLeadBack'
  <2>1. /\ \E c \in Callers : /\ c.bus = entry.from /\ c.name = entry.raw.sender
                             /\ entry.raw.serial \in c.serials
        /\ entry.shown.serial = entry.raw.serial
        /\ RealName(entry.shown.sender) = entry.raw.sender
        /\ \/ GetBusFromFakeName(entry.shown.sender) = entry.from
           \/ entry.from = "host" /\ GetBusFromFakeName(entry.shown.sender) = NoBus
    BY <1>1, <1>7, <1>8
  <2> QED BY <1>5, <2>1 DEF CallsLeadBack
<1>10. CallsTakenOnce'
  BY <1>1, <1>5, <1>7 DEF CallsTakenOnce
<1>11. IncomingFromCallers'
  BY <1>1, <1>4, <1>6 DEF IncomingFromCallers, TypeOK
<1>12. HostCallsTracked'
  <2> SUFFICES ASSUME ~IsHostpass, NEW r \in CallsTaken', r \notin CallsReplied,
                      GetBusFromFakeName(r.shown.sender) = NoBus
               PROVE  incoming_calls'[r.raw.serial] = "host"
    BY <1>6 DEF HostCallsTracked
  <2>1. CASE r = entry
    BY <1>6, <1>7, <1>8, <2>1, BusesDiffer DEF TypeOK
  <2>2. CASE r \in CallsTaken
    <3>1. incoming_calls[r.raw.serial] = "host"
      BY <1>6, <2>2 DEF HostCallsTracked
    <3>2. PICK c \in Callers : c.bus = r.from /\ r.raw.serial \in c.serials
      BY <2>2 DEF CallsLeadBack
    <3>3. c.bus = "host" /\ c.bus \in Bus
      BY <2>2, <3>2, SessionAssumption, BusesDiffer DEF CallsLeadBack
    <3>4. r.raw.serial = serial => bus = "host"
      BY <1>1, <3>2, <3>3 DEF CallersApart
    <3>5. r.raw.serial \in Serials
      BY <3>2, SessionAssumption
    <3> QED BY <1>4, <1>6, <3>1, <3>4, <3>5 DEF TypeOK
  <2> QED BY <1>5, <2>1, <2>2
<1>13. RepliesReachTheirCaller'
  BY <1>6 DEF RepliesReachTheirCaller
<1> QED BY <1>9, <1>10, <1>11, <1>12, <1>13

-----------------------------------------------------------------------------
(* The client sends.                                                         *)

\* The client's own messages answer nothing: incoming_calls stays.
LEMMA RequestStep ==
  ASSUME CallersApart, TypeOK, CallTracking, ClientSends
  PROVE  CallTracking'
<1> USE DEF CallTracking
<1>1. PICK request \in ClientRequests :
        HandleClientMessage([request EXCEPT !.serial = next_serial], {})
  BY DEF ClientSends
<1> DEFINE msg == [request EXCEPT !.serial = next_serial]
<1>2. msg.type \in {"call", "signal"}
  BY SessionAssumption DEF Message
<1> HIDE DEF msg
<1>3. RouteClientMessage(msg, {}) /\ running /\ UNCHANGED received
  BY <1>1, <1>2 DEF HandleClientMessage, ForwardReplyToCaller,
                    AnswersIncomingCall, msg
<1>4. UNCHANGED incoming_calls /\ CallsTaken' = CallsTaken
  BY <1>3 DEF RouteClientMessage, CallsTaken
<1>5. PICK buses, bus, wire :
        buses \in SUBSET Bus /\ bus \in buses /\ WriteUpstream(buses, msg, wire, {})
  BY <1>3 DEF RouteClientMessage, ForwardToBus, ForwardToBoth, ForwardForMerge,
              Bus
<1>6. CallsReplied \subseteq CallsReplied' /\ RepliesReachTheirCaller'
  BY <1>5, WriteKeepsReplies
<1>7. HostCallsTracked'
  BY <1>3, <1>4, <1>6 DEF HostCallsTracked
<1>8. CallsLeadBack' /\ CallsTakenOnce' /\ IncomingFromCallers'
  BY <1>4 DEF CallsLeadBack, CallsTakenOnce, IncomingFromCallers
<1> QED BY <1>6, <1>7, <1>8

\* The heart of the matter: where a reply goes.  With an entry, the entry is
\* of a caller on the bus of the call; without one, the shown sender is fake
\* and tells the bus, or the client is hostpass.
LEMMA ReplyGoesBack ==
  ASSUME CallersApart, TypeOK, CallTracking,
         NEW call \in CallsTaken, call \notin CallsReplied,
         NEW type \in {"return", "error"},
         HandleClientMessage(ReplyTo(call, type), {call})
  PROVE  /\ call.from \in Bus
         /\ \E wire : /\ WriteUpstream({call.from}, ReplyTo(call, type), wire,
                                       {call})
                      /\ wire.dest = call.raw.sender
                      /\ wire.reply_serial = call.raw.serial
<1> USE DEF CallTracking
<1> DEFINE msg == ReplyTo(call, type)
<1>1. /\ msg.reply_serial = call.raw.serial /\ msg.dest = call.shown.sender
      /\ msg.type = type /\ msg.serial = next_serial
      /\ DestToUpstream(msg).dest = call.raw.sender
      /\ DestToUpstream(msg).reply_serial = call.raw.serial
  BY DEF ReplyTo, NoMessage, DestToUpstream, CallsLeadBack
<1>2. PICK caller \in Callers : /\ caller.bus = call.from
                               /\ caller.name = call.raw.sender
                               /\ call.raw.serial \in caller.serials
  BY DEF CallsLeadBack
<1>3. call.from \in Bus /\ call.raw.serial \in Serials
  BY <1>2, SessionAssumption
<1>4. running
  BY DEF HandleClientMessage
<1> HIDE DEF msg
<1>5. CASE ForwardReplyToCaller(msg, {call})
  <2>1. /\ incoming_calls[call.raw.serial] # NoBus
        /\ WriteUpstream({incoming_calls[call.raw.serial]}, msg,
                         DestToUpstream(msg), {call})
    BY <1>1, <1>5 DEF ForwardReplyToCaller, AnswersIncomingCall
  <2>2. PICK c \in Callers : /\ c.bus = incoming_calls[call.raw.serial]
                            /\ call.raw.serial \in c.serials
    BY <1>3, <2>1 DEF IncomingFromCallers
  <2>3. c.bus = caller.bus
    <3>1. CASE IsHostpass
      BY <3>1 DEF CallersApart
    <3>2. CASE ~IsHostpass
      <4>1. c # caller => c.bus # "host" /\ caller.bus # "host"
        BY <1>2, <2>2, <3>2 DEF CallersApart
      <4>2. c.bus \in Bus /\ caller.bus \in Bus
        BY SessionAssumption
      <4> QED BY <4>1, <4>2 DEF Bus
    <3> QED BY <3>1, <3>2
  <2> QED BY <1>1, <1>2, <1>3, <2>1, <2>2, <2>3 DEF msg
<1>6. CASE RouteClientMessage(msg, {call})
  <2>1. RouteRequest(msg) = Single(call.from)
    <3>1. CASE IsHostpass
      BY <1>2, <3>1 DEF RouteRequest, CallersApart
    <3>2. CASE ~IsHostpass
      <4>1. incoming_calls[call.raw.serial] = NoBus
        BY <1>1, <1>3, <1>6 DEF RouteClientMessage, AnswersIncomingCall
      <4>2. GetBusFromFakeName(call.shown.sender) # NoBus
        BY <1>4, <3>2, <4>1, BusesDiffer DEF HostCallsTracked, Bus
      <4>3. GetBusFromFakeName(call.shown.sender) = call.from
        BY <4>2 DEF CallsLeadBack
      <4> QED BY <1>1, <3>2, <4>2, <4>3 DEF RouteRequest, IsFakeUniqueName
    <3> QED BY <3>1, <3>2
  <2>2. ForwardToBus(msg, call.from, {call})
    BY <1>3, <1>6, <2>1, DecisionsDiffer DEF RouteClientMessage
  <2>3. RewriteRequestBody(DestToUpstream(msg)) = DestToUpstream(msg)
    <3>1. caller.name.unique /\ ~DBusName.unique
      BY DEF CallersApart, IsUniqueName, DBusName, WellKnownName
    <3> QED BY <1>1, <1>2, <3>1 DEF RewriteRequestBody
  <2> QED BY <1>1, <1>3, <2>2, <2>3 DEF ForwardToBus, msg
<1> QED BY <1>5, <1>6 DEF HandleClientMessage, msg

LEMMA ReplyStep ==
  ASSUME CallersApart, TypeOK, CallTracking, ClientReplies
  PROVE  CallTracking'
<1> USE DEF CallTracking
<1>1. PICK call \in CallsTaken, type \in {"return", "error"} :
        /\ call \notin CallsReplied
        /\ HandleClientMessage(ReplyTo(call, type), {call})
  BY DEF ClientReplies
<1> DEFINE msg == ReplyTo(call, type)
<1>2. PICK wire : /\ WriteUpstream({call.from}, msg, wire, {call})
                  /\ wire.dest = call.raw.sender /\ call.from \in Bus
  BY <1>1, ReplyGoesBack
<1>3. /\ CallsReplied \subseteq CallsReplied'
      /\ running' => call \in CallsReplied'
      /\ RepliesReachTheirCaller'
  BY <1>2, WriteKeepsReplies
<1>4. /\ running /\ UNCHANGED received
      /\ \/ UNCHANGED incoming_calls
         \/ incoming_calls' = [incoming_calls EXCEPT ![call.raw.serial] = NoBus]
  BY <1>1 DEF HandleClientMessage, ForwardReplyToCaller, RouteClientMessage,
              ReplyTo, CallsLeadBack, NoMessage
<1>5. CallsTaken' = CallsTaken
  BY <1>4 DEF CallsTaken
<1>6. CallsLeadBack' /\ CallsTakenOnce'
  BY <1>5 DEF CallsLeadBack, CallsTakenOnce
<1>7. IncomingFromCallers'
  BY <1>4 DEF IncomingFromCallers, TypeOK
<1>8. HostCallsTracked'
  \* Another unanswered host call could only lose its entry to this reply by
  \* sharing the serial, hence the caller, hence being the same call.
  <2> SUFFICES ASSUME running', ~IsHostpass, NEW r \in CallsTaken,
                      r \notin CallsReplied', r \notin CallsReplied,
                      GetBusFromFakeName(r.shown.sender) = NoBus
               PROVE  incoming_calls'[r.raw.serial] = "host"
    BY <1>3, <1>5 DEF HostCallsTracked
  <2>1. incoming_calls[r.raw.serial] = "host" /\ r # call
    BY <1>3, <1>4 DEF HostCallsTracked
  <2>2. PICK c \in Callers : /\ c.bus = r.from /\ c.name = r.raw.sender
                            /\ r.raw.serial \in c.serials
    BY DEF CallsLeadBack
  <2>3. PICK d \in Callers : /\ d.bus = call.from /\ d.name = call.raw.sender
                            /\ call.raw.serial \in d.serials
    BY DEF CallsLeadBack
  <2>4. c.bus = "host"
    <3>1. c.bus \in Bus
      BY SessionAssumption
    <3> QED BY <2>2, <3>1, BusesDiffer DEF CallsLeadBack
  <2>5. r.raw.serial # call.raw.serial
    <3>1. CASE c = d
      BY <1>1, <2>1, <2>2, <2>3, <3>1 DEF CallsTakenOnce
    <3>2. CASE c # d
      BY <2>2, <2>3, <2>4, <3>2 DEF CallersApart
    <3> QED BY <3>1, <3>2
  <2> QED BY <1>4, <2>1, <2>5, <2>2, SessionAssumption DEF TypeOK
<1> QED BY <1>3, <1>6, <1>7, <1>8

-----------------------------------------------------------------------------
(* The theorems.                                                             *)

\* As long as callers on the host bus share no serial with other callers, the
\* tables of a session always lead the reply of a call back to its caller.
\* CallTracking is inductive relative to the types; the parts about the shown
\* sender and about incoming_calls are needed together, because each covers
\* the calls the other does not.
THEOREM CallsStayTracked == CallersApart => (Spec => []CallTracking)
<1> SUFFICES ASSUME CallersApart PROVE Spec => []CallTracking
  OBVIOUS
<1>1. Init => CallTracking
  BY DEF Init, CallTracking, CallsLeadBack, CallsTakenOnce, CallsTaken,
         IncomingFromCallers, HostCallsTracked, RepliesReachTheirCaller
<1>2. TypeOK /\ CallTracking /\ [Next]_vars => CallTracking'
  <2> SUFFICES ASSUME TypeOK, CallTracking, [Next]_vars PROVE CallTracking'
    OBVIOUS
  <2>1. ASSUME UNCHANGED <<incoming_calls, sent>>, CallsTaken' = CallsTaken,
               running' => running
        PROVE  CallTracking'
    <3>1. CallsReplied' = CallsReplied
      BY <2>1 DEF CallsReplied
    <3> QED
      BY <2>1, <3>1
      DEF CallTracking, CallsLeadBack, CallsTakenOnce, IncomingFromCallers,
          HostCallsTracked, RepliesReachTheirCaller
  <2>3. ASSUME NEW bus \in Bus, NEW serial \in Serials, BusAnswers(bus, serial)
        PROVE  CallTracking'
    BY <2>1, <2>3, AnswersAreNoCalls
  <2>4. ASSUME NEW bus \in Bus, BusSignal(bus) PROVE CallTracking'
    BY <2>1, <2>4, AnswersAreNoCalls
  <2>5. CASE \/ ClientLeaves \/ ReadClientOrHostEof \/ ReadSandboxEof
             \/ UNCHANGED vars \/ \E bus \in Bus : BusGoesAway(bus)
    BY <2>1, <2>5
    DEF ClientLeaves, ReadClientOrHostEof, ReadSandboxEof, BusGoesAway, vars,
        tables, CallsTaken
  <2> QED
    BY <2>3, <2>4, <2>5, RequestStep, ReplyStep, PeerCallStep DEF Next
<1> QED BY <1>1, <1>2, TypeCorrect, PTL DEF Spec

\* The comment on forward_reply_to_caller, under the condition it needs: a
\* reply goes to the bus its call came from, under the caller's real name.
THEOREM RepliesReach == CallersApart => (Spec => []RepliesReachTheirCaller)
<1>1. CallTracking => RepliesReachTheirCaller
  BY DEF CallTracking
<1> QED BY <1>1, CallsStayTracked, PTL

\* A call not replied to yet can still be: its bus is in incoming_calls or in
\* the name its caller is shown under.
THEOREM CallsCanBeAnswered == CallersApart => (Spec => []UnansweredCallsAreTracked)
<1> SUFFICES ASSUME CallersApart PROVE Spec => []UnansweredCallsAreTracked
  OBVIOUS
<1>1. CallTracking /\ TypeOK => UnansweredCallsAreTracked
  <2> SUFFICES ASSUME CallTracking, TypeOK, running,
                      NEW call \in CallsTaken, call \notin CallsReplied
               PROVE  IF incoming_calls[call.raw.serial] = NoBus
                      THEN \/ GetBusFromFakeName(call.shown.sender) = call.from
                           \/ IsHostpass /\ call.from = "host"
                      ELSE incoming_calls[call.raw.serial] = call.from
    BY DEF UnansweredCallsAreTracked
  <2>1. PICK c \in Callers : /\ c.bus = call.from
                            /\ call.raw.serial \in c.serials
    BY DEF CallTracking, CallsLeadBack
  <2>2. call.from \in Bus /\ call.raw.serial \in Serials
    BY <2>1, SessionAssumption
  <2>3. CASE incoming_calls[call.raw.serial] = NoBus
    BY <2>3, BusesDiffer
    DEF CallTracking, CallsLeadBack, HostCallsTracked, Bus
  <2>4. CASE incoming_calls[call.raw.serial] # NoBus
    <3>1. PICK d \in Callers : /\ d.bus = incoming_calls[call.raw.serial]
                              /\ call.raw.serial \in d.serials
      BY <2>2, <2>4 DEF CallTracking, IncomingFromCallers
    <3>2. d.bus = c.bus
      <4>1. d.bus \in Bus /\ c.bus \in Bus
        BY SessionAssumption
      <4>2. CASE IsHostpass
        BY <4>2 DEF CallersApart
      <4>3. CASE ~IsHostpass
        <5>1. c # d => c.bus # "host" /\ d.bus # "host"
          BY <2>1, <3>1, <4>3 DEF CallersApart
        <5> QED BY <4>1, <5>1 DEF Bus
      <4> QED BY <4>2, <4>3
    <3> QED BY <2>1, <2>4, <3>1, <3>2
  <2> QED BY <2>3, <2>4
<1> QED BY <1>1, CallsStayTracked, TypeCorrect, PTL

-----------------------------------------------------------------------------
(* The refinement of CallRelay.                                              *)

\* A call as CallRelay sees it.
IdOf(r) == CallId(r.from, r.raw.sender, r.raw.serial)

LEMMA SameId ==
  ASSUME NEW r, NEW q
  PROVE  IdOf(r) = IdOf(q) <=> /\ r.from = q.from
                               /\ r.raw.sender = q.raw.sender
                               /\ r.raw.serial = q.raw.serial
BY DEF IdOf, CallId

\* The state of CallRelay, in terms of the calls taken and replied to.
RelayView == /\ CallsHandedOver = {IdOf(r) : r \in CallsTaken}
             /\ RepliesWritten = {IdOf(r) : r \in CallsReplied}
             /\ CallsReplied \subseteq CallsTaken

LEMMA RelayState == RepliesAreOfCalls => RelayView
<1> SUFFICES ASSUME RepliesAreOfCalls PROVE RelayView
  OBVIOUS
<1>1. CallsHandedOver = {IdOf(r) : r \in CallsTaken}
  BY DEF CallsHandedOver, IdOf
<1>2. \A id : id \in RepliesWritten <=>
        \E bus \in Bus : \E e \in sent[bus] :
          /\ e.answers # {}
          /\ id = CallId(bus, e.wire.dest, e.wire.reply_serial)
  BY DEF RepliesWritten
<1>3. ASSUME NEW bus \in Bus, NEW e \in sent[bus], e.answers # {}
      PROVE  \E call \in CallsTaken :
               /\ e.answers = {call}
               /\ CallId(bus, e.wire.dest, e.wire.reply_serial) = IdOf(call)
  BY <1>3 DEF RepliesAreOfCalls, IdOf
<1>4. RepliesWritten = {IdOf(r) : r \in CallsReplied}
  <2>1. ASSUME NEW id \in RepliesWritten
        PROVE  \E r \in CallsReplied : id = IdOf(r)
    BY <1>2, <1>3, RepliedCalls
  <2>2. ASSUME NEW r \in CallsReplied PROVE IdOf(r) \in RepliesWritten
    BY <1>2, <1>3, RepliedCalls
  <2> QED BY <2>1, <2>2
<1>5. CallsReplied \subseteq CallsTaken
  BY <1>3, RepliedCalls
<1> QED BY <1>1, <1>4, <1>5 DEF RelayView

LEMMA NextRelayState == RepliesAreOfCalls' => RelayView'
BY RelayState, PTL

\* A write to one bus happens or does not; it adds no reply but its own.
LEMMA WriteKeepsAnswers ==
  ASSUME RepliesAreOfCalls, CallsTaken' = CallsTaken,
         NEW buses \in SUBSET Bus, NEW orig, NEW wire, NEW answers,
         WriteUpstream(buses, orig, wire, answers),
         answers # {} => \E call \in CallsTaken, bus \in Bus :
           /\ buses = {bus} /\ answers = {call} /\ call.from = bus
           /\ wire.dest = call.raw.sender
           /\ wire.reply_serial = call.raw.serial
  PROVE  /\ RepliesAreOfCalls'
         /\ CallsReplied' \in {CallsReplied, CallsReplied \cup answers}
<1> DEFINE entry == [orig |-> orig, wire |-> wire, answers |-> answers]
<1>1. PICK reached \in SUBSET buses :
        sent' = [b \in Bus |-> IF b \in reached THEN sent[b] \cup {entry}
                                                ELSE sent[b]]
  BY DEF WriteUpstream
<1>2. entry.answers = answers /\ entry.wire = wire
  OBVIOUS
<1> HIDE DEF entry
<1>3. RepliesAreOfCalls'
  <2> SUFFICES ASSUME NEW b \in Bus, NEW e \in sent'[b], e.answers # {}
               PROVE  \E call \in CallsTaken :
                        /\ e.answers = {call} /\ call.from = b
                        /\ e.wire.dest = call.raw.sender
                        /\ e.wire.reply_serial = call.raw.serial
    BY DEF RepliesAreOfCalls
  <2>1. CASE e \in sent[b]
    BY <2>1 DEF RepliesAreOfCalls
  <2>2. CASE e = entry /\ b \in buses
    BY <1>2, <2>2
  <2> QED BY <1>1, <2>1, <2>2
<1>4. \A call : call \in CallsReplied' <=>
        \E b \in Bus : \E e \in sent'[b] : call \in e.answers
  BY DEF CallsReplied
<1>5. ASSUME reached = {} PROVE CallsReplied' = CallsReplied
  <2>1. \A call : call \in CallsReplied' <=> call \in CallsReplied
    BY <1>1, <1>4, <1>5, RepliedCalls
  <2> QED BY <2>1
<1>6. ASSUME reached # {} PROVE CallsReplied' = CallsReplied \cup answers
  <2>1. \A call : call \in CallsReplied' <=>
                    call \in CallsReplied \/ call \in answers
    BY <1>1, <1>2, <1>4, <1>6, RepliedCalls
  <2> QED BY <2>1
<1> QED BY <1>3, <1>5, <1>6

\* A request of the client is no reply.
LEMMA RequestIsNoReply ==
  ASSUME RepliesAreOfCalls, ClientSends
  PROVE  /\ RepliesAreOfCalls'
         /\ UNCHANGED <<CallsHandedOver, RepliesWritten>>
<1>1. PICK request \in ClientRequests :
        HandleClientMessage([request EXCEPT !.serial = next_serial], {})
  BY DEF ClientSends
<1> DEFINE msg == [request EXCEPT !.serial = next_serial]
<1> HIDE DEF msg
<1>2. HandleClientMessage(msg, {})
  BY <1>1 DEF msg
<1>3. CallsTaken' = CallsTaken
  BY <1>2 DEF HandleClientMessage, CallsTaken
<1>4. PICK buses, wire : /\ buses \in SUBSET Bus
                         /\ WriteUpstream(buses, msg, wire, {})
  <2>1. msg.type \notin {"return", "error"}
    BY SessionAssumption DEF Message, msg
  <2>2. RouteClientMessage(msg, {})
    BY <1>2, <2>1
    DEF HandleClientMessage, ForwardReplyToCaller, AnswersIncomingCall
  <2> QED
    BY <2>2 DEF RouteClientMessage, ForwardToBus, ForwardToBoth,
                ForwardForMerge
<1>5. RepliesAreOfCalls' /\ CallsReplied' = CallsReplied
  BY <1>3, <1>4, WriteKeepsAnswers
<1>6. CallsHandedOver' = CallsHandedOver
  BY <1>3 DEF CallsHandedOver
<1>7. RepliesWritten' = RepliesWritten
  BY <1>5, RelayState, NextRelayState DEF RelayView
<1> QED BY <1>5, <1>6, <1>7

\* A reply of the client gives the call back, or is lost with the bus.
LEMMA ReplySendsBack ==
  ASSUME CallersApart, TypeOK, CallTracking, RepliesAreOfCalls, ClientReplies
  PROVE  /\ RepliesAreOfCalls'
         /\ \/ UNCHANGED <<CallsHandedOver, RepliesWritten>>
            \/ \E id \in CallsHandedOver \ RepliesWritten :
                 /\ CallsHandedOver' = CallsHandedOver
                 /\ RepliesWritten' = RepliesWritten \cup {id}
<1>1. PICK call \in CallsTaken, type \in {"return", "error"} :
        /\ call \notin CallsReplied
        /\ HandleClientMessage(ReplyTo(call, type), {call})
  BY DEF ClientReplies
<1>2. PICK wire :
        /\ call.from \in Bus
        /\ WriteUpstream({call.from}, ReplyTo(call, type), wire, {call})
        /\ wire.dest = call.raw.sender
        /\ wire.reply_serial = call.raw.serial
  BY <1>1, ReplyGoesBack
<1>3. CallsTaken' = CallsTaken
  BY <1>1 DEF HandleClientMessage, CallsTaken
<1>4. /\ RepliesAreOfCalls'
      /\ CallsReplied' \in {CallsReplied, CallsReplied \cup {call}}
  BY <1>2, <1>3, WriteKeepsAnswers
<1>5. RelayView /\ RelayView'
  BY <1>4, RelayState, NextRelayState
<1>6. CallsHandedOver' = CallsHandedOver
  BY <1>3 DEF CallsHandedOver
<1>7. IdOf(call) \in CallsHandedOver \ RepliesWritten
  <2>1. \A r \in CallsReplied : IdOf(r) # IdOf(call)
    BY <1>1, <1>5, SameId DEF RelayView, CallTracking, CallsTakenOnce
  <2> QED BY <1>5, <2>1 DEF RelayView
<1>8. RepliesWritten' \in {RepliesWritten, RepliesWritten \cup {IdOf(call)}}
  BY <1>4, <1>5 DEF RelayView
<1> QED BY <1>4, <1>6, <1>7, <1>8

\* A call of a peer is one that was not handed over before.
LEMMA PeerCallHandsOver ==
  ASSUME CallersApart, RepliesAreOfCalls, NEW bus \in Bus, PeerCalls(bus)
  PROVE  /\ RepliesAreOfCalls'
         /\ UNCHANGED RepliesWritten
         /\ \/ UNCHANGED CallsHandedOver
            \/ \E c \in Callers : \E s \in c.serials :
                 /\ CallId(c.bus, c.name, s) \notin CallsHandedOver
                 /\ CallsHandedOver' =
                      CallsHandedOver \cup {CallId(c.bus, c.name, s)}
<1>1. PICK caller, serial, name :
        /\ caller \in Callers
        /\ caller.bus = bus /\ serial \in caller.serials
        /\ \A r \in CallsTaken : ~( /\ r.from = bus
                                   /\ r.raw.sender = caller.name
                                   /\ r.raw.serial = serial)
        /\ HandleUpstreamMessage([NoMessage EXCEPT !.serial = serial,
                                                   !.sender = caller.name,
                                                   !.dest = name], bus)
  BY DEF PeerCalls
<1> DEFINE msg == [NoMessage EXCEPT !.serial = serial, !.sender = caller.name,
                                    !.dest = name]
<1>2. /\ msg.type = "call" /\ msg.reply_serial = 0
      /\ msg.serial = serial /\ msg.sender = caller.name
  BY DEF NoMessage
<1>3. HandleUpstreamMessage(msg, bus)
  BY <1>1
<1> HIDE DEF msg
<1>4. UNCHANGED sent
  BY <1>3 DEF HandleUpstreamMessage
<1>5. PICK shown : WriteClient(bus, msg, shown)
  BY <1>2, <1>3, CallMessages
<1> DEFINE entry == [from |-> bus, raw |-> msg, shown |-> shown]
           id == CallId(caller.bus, caller.name, serial)
<1>6. IdOf(entry) = id
  BY <1>1, <1>2 DEF IdOf
<1>7. CallsTaken' \in {CallsTaken, CallsTaken \cup {entry}}
  BY <1>2, <1>5 DEF WriteClient, CallsTaken
<1>8. RepliesAreOfCalls'
  BY <1>4, <1>7 DEF RepliesAreOfCalls
<1>9. RelayView /\ RelayView'
  BY <1>8, RelayState, NextRelayState
<1>10. UNCHANGED RepliesWritten
  BY <1>4 DEF RepliesWritten
<1>11. id \notin CallsHandedOver
  <2>1. \A r \in CallsTaken : ~( /\ r.from = entry.from
                                /\ r.raw.sender = entry.raw.sender
                                /\ r.raw.serial = entry.raw.serial)
    BY <1>1, <1>2
  <2>2. \A r \in CallsTaken : IdOf(r) # IdOf(entry)
    BY <2>1, SameId
  <2> QED BY <1>6, <1>9, <2>2 DEF RelayView
<1>12. CallsHandedOver' \in {CallsHandedOver, CallsHandedOver \cup {id}}
  <2> HIDE DEF entry, id
  <2> QED BY <1>6, <1>7, <1>9 DEF RelayView
<1> QED BY <1>1, <1>8, <1>10, <1>11, <1>12

\* Everything else leaves the view of CallRelay alone.
LEMMA OtherStepsKeepRelay ==
  ASSUME RepliesAreOfCalls, UNCHANGED sent, CallsTaken' = CallsTaken
  PROVE  RepliesAreOfCalls' /\ UNCHANGED <<CallsHandedOver, RepliesWritten>>
BY DEF RepliesAreOfCalls, CallsHandedOver, RepliesWritten

\* Seen from the peers on the buses, a session implements CallRelay, under the
\* condition finding 1 shows to be needed: a call is handed over once, its
\* reply is written at most once, to its bus and caller and under its serial,
\* and what is written as a reply is the reply to a call.
THEOREM Relays == CallersApart => (Spec => RelaysCalls)
<1> SUFFICES ASSUME CallersApart PROVE Spec => RelaysCalls
  OBVIOUS
<1> DEFINE pending == CallsHandedOver \ RepliesWritten
           replied == RepliesWritten
           Step == [Relay!Next]_<<pending, replied>>
<1>1. Init => RepliesAreOfCalls /\ Relay!Init
  BY DEF Init, RepliesAreOfCalls, Relay!Init, CallsHandedOver, RepliesWritten,
         CallsTaken
<1>2. TypeOK /\ CallTracking /\ RepliesAreOfCalls /\ [Next]_vars
        => RepliesAreOfCalls' /\ Step
  <2> SUFFICES ASSUME TypeOK, CallTracking, RepliesAreOfCalls, [Next]_vars
               PROVE  RepliesAreOfCalls' /\ Step
    OBVIOUS
  <2>1. ASSUME UNCHANGED <<CallsHandedOver, RepliesWritten>> PROVE Step
    BY <2>1
  <2>2. CASE ClientSends
    BY <2>1, <2>2, RequestIsNoReply
  <2>3. CASE ClientReplies
    <3>1. ASSUME NEW id \in CallsHandedOver \ RepliesWritten,
                 CallsHandedOver' = CallsHandedOver,
                 RepliesWritten' = RepliesWritten \cup {id}
          PROVE  Relay!SendBack(id)
      BY <3>1 DEF Relay!SendBack
    <3>2. CallsHandedOver \subseteq
            UNION {{CallId(c.bus, c.name, s) : s \in c.serials} : c \in Callers}
      BY DEF CallsHandedOver, CallTracking, CallsLeadBack
    <3> QED BY <2>1, <2>3, <3>1, <3>2, ReplySendsBack DEF Relay!Next
  <2>4. ASSUME NEW bus \in Bus, PeerCalls(bus)
        PROVE  RepliesAreOfCalls' /\ Step
    <3>1. RepliesWritten \subseteq CallsHandedOver
      BY RelayState DEF RelayView
    <3>2. ASSUME NEW id, id \notin CallsHandedOver,
                 CallsHandedOver' = CallsHandedOver \cup {id},
                 RepliesWritten' = RepliesWritten
          PROVE  Relay!HandOver(id)
      BY <3>1, <3>2 DEF Relay!HandOver
    <3> QED BY <2>1, <2>4, <3>2, PeerCallHandsOver DEF Relay!Next
  <2>5. ASSUME UNCHANGED sent, CallsTaken' = CallsTaken
        PROVE  RepliesAreOfCalls' /\ Step
    BY <2>1, <2>5, OtherStepsKeepRelay
  <2>6. ASSUME NEW bus \in Bus,
               \/ \E serial \in Serials : BusAnswers(bus, serial)
               \/ BusSignal(bus)
        PROVE  UNCHANGED sent /\ CallsTaken' = CallsTaken
    BY <2>6, AnswersAreNoCalls
  <2>7. CASE \/ ClientLeaves \/ ReadClientOrHostEof \/ ReadSandboxEof
             \/ UNCHANGED vars \/ \E bus \in Bus : BusGoesAway(bus)
    BY <2>5, <2>7
    DEF ClientLeaves, ReadClientOrHostEof, ReadSandboxEof, BusGoesAway, vars,
        CallsTaken
  <2> QED BY <2>2, <2>3, <2>4, <2>5, <2>6, <2>7 DEF Next
<1> QED
  BY <1>1, <1>2, TypeCorrect, CallsStayTracked, PTL
  DEF Spec, RelaysCalls, Relay!Spec
=============================================================================
