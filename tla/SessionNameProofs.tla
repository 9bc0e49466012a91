-------------------------- MODULE SessionNameProofs --------------------------
(***************************************************************************)
(* Names in both directions: a fake name the client uses reaches the bus   *)
(* it stands for, and a unique name the client is shown leads back to the  *)
(* connection it names.                                                    *)
(***************************************************************************)
EXTENDS SessionCallProofs

-----------------------------------------------------------------------------
(* What the client sends.                                                    *)

LEMMA NotFake ==
  /\ ~IsFakeUniqueName(DBusName) /\ RealName(DBusName) = DBusName
  /\ \A name : ~IsUniqueName(name) => ~IsFakeUniqueName(name)
  /\ \A name : IsFakeUniqueName(name) =>
       /\ GetBusFromFakeName(name) \in Bus
       /\ RealName(name) = FromFakeName(name)
  /\ \A name : IsUniqueName(RealName(name)) <=> IsUniqueName(name)
<1>1. \A name : ~IsUniqueName(name) => GetBusFromFakeName(name) = NoBus
  BY DEF GetBusFromFakeName
<1>2. ~IsUniqueName(DBusName)
  BY DEF DBusName, WellKnownName, IsUniqueName
<1>3. \A name : GetBusFromFakeName(name) \in Bus \cup {NoBus}
  BY DEF GetBusFromFakeName, Bus
<1>4. \A name : IsUniqueName(RealName(name)) <=> IsUniqueName(name)
  BY <1>1 DEF RealName, IsFakeUniqueName, FromFakeName, UniqueName,
              IsUniqueName
<1> QED BY <1>1, <1>2, <1>3, <1>4 DEF IsFakeUniqueName, RealName

\* A message as it goes to one bus.
IsSentAs(msg, wire) ==
  /\ wire.type = msg.type /\ wire.serial = msg.serial
  /\ wire.member = msg.member /\ wire.dest = RealName(msg.dest)
  /\ /\ 1 \in DOMAIN msg.body /\ msg.dest = DBusName
     /\ msg.member \in NeedsRequestRewrite
     => wire.body[1] = RealName(msg.body[1])
  /\ /\ 1 \in DOMAIN msg.rules /\ msg.dest = DBusName
     /\ msg.member \in MatchMethods /\ msg.rules[1].quoted
     => wire.rules[1].sender = RealName(msg.rules[1].sender)

LEMMA WireMessage ==
  ASSUME NEW msg \in Message
  PROVE  IsSentAs(msg, RewriteRequestBody(DestToUpstream(msg)))
<1> DEFINE up1  == DestToUpstream(msg)
           wire == RewriteRequestBody(up1)
<1> SUFFICES IsSentAs(msg, wire)
  OBVIOUS
<1>1. /\ msg.body \in Seq(Name) /\ msg.rules \in Seq(MatchRule)
      /\ DOMAIN msg = {"type", "serial", "reply_serial", "sender", "dest",
                       "iface", "member", "body", "rules"}
  BY DEF Message
<1>2. /\ up1 = [msg EXCEPT !.dest = RealName(msg.dest)]
      /\ up1.type = msg.type /\ up1.serial = msg.serial
      /\ up1.member = msg.member /\ up1.dest = RealName(msg.dest)
      /\ up1.body = msg.body /\ up1.rules = msg.rules
      /\ DOMAIN up1 = DOMAIN msg
  BY <1>1 DEF DestToUpstream
<1> HIDE DEF up1
<1>3. msg.dest = DBusName => up1.dest = DBusName
  BY <1>2, NotFake
<1>4. NeedsRequestRewrite \cap MatchMethods = {}
      /\ MatchMethods = {"AddMatch", "RemoveMatch"}
  BY DEF NeedsRequestRewrite, MatchMethods
<1>5. CASE up1.dest = DBusName /\ up1.member \in NeedsRequestRewrite
  <2>1. wire = IF up1.body # <<>>
               THEN [up1 EXCEPT !.body[1] = RealName(up1.body[1])] ELSE up1
    BY <1>5 DEF RewriteRequestBody, RewriteUniqueNameRequest
  <2>2. CASE up1.body = <<>>
    <3>1. DOMAIN msg.body = {}
      BY <1>2, <2>2
    <3> QED BY <1>2, <1>4, <1>5, <2>1, <2>2, <3>1 DEF IsSentAs
  <2>3. CASE up1.body # <<>>
    <3>1. 1 \in DOMAIN msg.body
      BY <1>1, <1>2, <2>3
    <3>2. /\ wire.type = up1.type /\ wire.serial = up1.serial
          /\ wire.member = up1.member /\ wire.dest = up1.dest
          /\ wire.body = [up1.body EXCEPT ![1] = RealName(up1.body[1])]
      BY <1>1, <1>2, <2>1, <2>3
    <3>3. wire.body[1] = RealName(msg.body[1])
      BY <1>2, <3>1, <3>2
    <3> QED BY <1>2, <1>4, <1>5, <3>2, <3>3 DEF IsSentAs
  <2> QED BY <2>2, <2>3
<1>6. CASE up1.dest = DBusName /\ up1.member \in MatchMethods
  <2>1. wire = IF up1.rules # <<>> /\ up1.rules[1].quoted
               THEN [up1 EXCEPT !.rules[1].sender =
                                   RealName(up1.rules[1].sender)]
               ELSE up1
    BY <1>4, <1>6 DEF RewriteRequestBody, RewriteMatchRuleBody
  <2>2. /\ wire.type = up1.type /\ wire.serial = up1.serial
        /\ wire.member = up1.member /\ wire.dest = up1.dest
        /\ wire.body = up1.body
    BY <1>1, <1>2, <2>1
  <2>3. ASSUME 1 \in DOMAIN msg.rules, msg.rules[1].quoted
        PROVE  wire.rules[1].sender = RealName(msg.rules[1].sender)
    <3>1. msg.rules # <<>> /\ msg.rules[1] \in MatchRule
      BY <1>1, <2>3, ElementOfSeq
    <3>2. wire.rules = [msg.rules EXCEPT
                          ![1] = [msg.rules[1] EXCEPT
                                    !.sender = RealName(msg.rules[1].sender)]]
      <4>1. up1.rules # <<>> /\ up1.rules[1].quoted
        BY <1>2, <2>3, <3>1
      <4>2. wire = [up1 EXCEPT !.rules[1].sender = RealName(up1.rules[1].sender)]
        BY <2>1, <4>1
      <4>3. wire.rules = [up1.rules EXCEPT ![1] = [up1.rules[1] EXCEPT
                                    !.sender = RealName(up1.rules[1].sender)]]
        BY <1>1, <1>2, <4>2
      <4> QED BY <1>2, <4>3
    <3> QED BY <2>3, <3>1, <3>2 DEF MatchRule
  <2> QED BY <1>2, <1>4, <1>6, <2>2, <2>3 DEF IsSentAs
<1>7. CASE ~( /\ up1.dest = DBusName
              /\ up1.member \in NeedsRequestRewrite \cup MatchMethods)
  <2>1. wire = up1
    BY <1>4, <1>7 DEF RewriteRequestBody
  <2> QED BY <1>2, <1>3, <1>7, <2>1 DEF IsSentAs
<1> QED BY <1>5, <1>6, <1>7

\* What the client sends of its own accord.
LEMMA RequestMessage ==
  ASSUME NEW request \in ClientRequests, next_serial \in Serials
  PROVE  LET msg == [request EXCEPT !.serial = next_serial]
         IN  /\ msg \in Message
             /\ msg.type = request.type /\ msg.dest = request.dest
             /\ msg.iface = request.iface /\ msg.member = request.member
             /\ msg.body = request.body /\ msg.rules = request.rules
             /\ msg.serial = next_serial
<1>1. request \in Message /\ next_serial \in Nat
  BY SessionAssumption DEF Serials
<1> QED BY <1>1 DEF Message

\* The names of a message that may be fake.
NamesUsed(msg) == {msg.dest} \cup {msg.body[i] : i \in DOMAIN msg.body}
                    \cup {msg.rules[i].sender : i \in DOMAIN msg.rules}

\* A fake name decides where the message goes, wherever it stands.
LEMMA FakeNameDecides ==
  ASSUME FakeNamesInPlace, NEW request \in ClientRequests,
         next_serial \in Serials,
         NEW name \in NamesUsed(request), IsFakeUniqueName(name)
  PROVE  RouteRequest([request EXCEPT !.serial = next_serial])
           = Single(GetBusFromFakeName(name))
<1> DEFINE msg == [request EXCEPT !.serial = next_serial]
<1>1. /\ msg \in Message
      /\ msg.dest = request.dest
      /\ msg.iface = request.iface /\ msg.member = request.member
      /\ msg.body = request.body /\ msg.rules = request.rules
  BY RequestMessage
<1> HIDE DEF msg
<1>2. GetBusFromFakeName(name) \in Bus
  BY NotFake
<1>3. CASE IsHostpass
  <2>1. GetBusFromFakeName(name) # "sandbox"
    BY <1>3 DEF FakeNamesInPlace, NamesUsed
  <2> QED BY <1>2, <1>3, <2>1 DEF RouteRequest, Bus, msg
<1>4. CASE ~IsHostpass /\ name = request.dest
  BY <1>1, <1>4 DEF RouteRequest, msg
<1>5. ASSUME ~IsHostpass, NEW i \in DOMAIN request.body, name = request.body[i]
      PROVE  RouteRequest(msg) = Single(GetBusFromFakeName(name))
  <2>1. /\ i = 1 /\ msg.dest = DBusName /\ msg.iface = DBusName
        /\ msg.member \in NeedsRequestRewrite
    BY <1>1, <1>5 DEF FakeNamesInPlace
  <2>2. msg.body # <<>> /\ name = msg.body[1]
    BY <1>1, <1>5, <2>1
  <2>3. /\ msg.member \in FakeArgMethods
        /\ msg.member \notin MergedMethods \cup MatchMethods
    BY <2>1 DEF NeedsRequestRewrite, FakeArgMethods, MergedMethods,
                MatchMethods
  <2>4. RouteDBusMethod(msg) = RouteByName(msg.member, name)
    BY <2>2, <2>3 DEF RouteDBusMethod
  <2> QED
    BY <1>5, <2>1, <2>3, <2>4, NotFake DEF RouteRequest, RouteByName
<1>6. ASSUME ~IsHostpass, NEW i \in DOMAIN request.rules,
             name = request.rules[i].sender
      PROVE  RouteRequest(msg) = Single(GetBusFromFakeName(name))
  <2>1. /\ i = 1 /\ msg.dest = DBusName /\ msg.iface = DBusName
        /\ msg.member \in MatchMethods
    BY <1>1, <1>6 DEF FakeNamesInPlace
  <2>2. msg.rules # <<>> /\ name = msg.rules[1].sender
    BY <1>1, <1>6, <2>1
  <2>3. msg.member \notin MergedMethods \cup ConfigMethods \cup FakeArgMethods
    BY <2>1 DEF ConfigMethods, FakeArgMethods, MergedMethods, MatchMethods
  <2>4. RouteDBusMethod(msg) = RouteMatchRule(msg.rules[1])
    BY <2>1, <2>2, <2>3 DEF RouteDBusMethod
  <2> QED BY <1>6, <2>1, <2>2, <2>4, NotFake DEF RouteRequest, RouteMatchRule
<1> QED BY <1>3, <1>4, <1>5, <1>6 DEF NamesUsed, msg

\* One entry of sent is right.
FakesTranslated(e, bus) ==
  /\ Translated(e.orig.dest, e.wire.dest, bus)
  /\ \A i \in DOMAIN e.orig.body :
       Translated(e.orig.body[i], e.wire.body[i], bus)
  /\ \A i \in DOMAIN e.orig.rules :
       Translated(e.orig.rules[i].sender, e.wire.rules[i].sender, bus)

\* A request to one bus: whatever decides its way is undone on it.
LEMMA RequestTranslated ==
  ASSUME FakeNamesInPlace, NEW request \in ClientRequests,
         next_serial \in Serials, NEW bus \in Bus, NEW e,
         e.orig = [request EXCEPT !.serial = next_serial],
         e.wire = RewriteRequestBody(DestToUpstream(e.orig)),
         RouteRequest(e.orig) = Single(bus)
  PROVE  FakesTranslated(e, bus)
<1> DEFINE msg == e.orig
<1>1. /\ msg \in Message
      /\ msg.dest = request.dest /\ msg.body = request.body
      /\ msg.rules = request.rules /\ msg.member = request.member
  BY RequestMessage
<1>2. ASSUME NEW name \in NamesUsed(request), IsFakeUniqueName(name)
      PROVE  /\ GetBusFromFakeName(name) = bus
             /\ RealName(name) = FromFakeName(name)
  BY <1>2, FakeNameDecides, NotFake, DecisionsDiffer
<1>3. Translated(msg.dest, e.wire.dest, bus)
  BY <1>1, <1>2, WireMessage DEF Translated, NamesUsed, IsSentAs
<1>4. ASSUME NEW i \in DOMAIN msg.body
      PROVE  Translated(msg.body[i], e.wire.body[i], bus)
  <2> SUFFICES ASSUME IsFakeUniqueName(msg.body[i])
               PROVE  /\ GetBusFromFakeName(msg.body[i]) = bus
                      /\ e.wire.body[i] = FromFakeName(msg.body[i])
    BY DEF Translated
  <2>1. /\ i = 1 /\ msg.dest = DBusName
        /\ msg.member \in NeedsRequestRewrite
    BY <1>1 DEF FakeNamesInPlace
  <2>2. e.wire.body[1] = RealName(msg.body[1])
    BY <1>1, <2>1, WireMessage DEF IsSentAs
  <2> QED BY <1>1, <1>2, <2>1, <2>2 DEF NamesUsed
<1>5. ASSUME NEW i \in DOMAIN msg.rules
      PROVE  Translated(msg.rules[i].sender, e.wire.rules[i].sender, bus)
  <2> SUFFICES ASSUME IsFakeUniqueName(msg.rules[i].sender)
               PROVE  /\ GetBusFromFakeName(msg.rules[i].sender) = bus
                      /\ e.wire.rules[i].sender = FromFakeName(msg.rules[i].sender)
    BY DEF Translated
  <2>1. /\ i = 1 /\ msg.dest = DBusName
        /\ msg.member \in MatchMethods /\ msg.rules[1].quoted
    BY <1>1 DEF FakeNamesInPlace
  <2>2. e.wire.rules[1].sender = RealName(msg.rules[1].sender)
    BY <1>1, <2>1, WireMessage DEF IsSentAs
  <2> QED BY <1>1, <1>2, <2>1, <2>2 DEF NamesUsed
<1> QED BY <1>3, <1>4, <1>5 DEF FakesTranslated

\* A message that goes to both buses holds no fake name.
LEMMA SharedHasNoFakes ==
  ASSUME FakeNamesInPlace, NEW request \in ClientRequests,
         next_serial \in Serials, NEW bus \in Bus, NEW e,
         e.orig = [request EXCEPT !.serial = next_serial],
         RouteRequest(e.orig) \in {Both, Merge}
  PROVE  FakesTranslated(e, bus)
<1>1. \A name \in NamesUsed(request) : ~IsFakeUniqueName(name)
  BY FakeNameDecides, NotFake, DecisionsDiffer
<1> QED BY <1>1, RequestMessage DEF FakesTranslated, Translated, NamesUsed

LEMMA FakesAfterWrite ==
  ASSUME FakeNamesReachTheirBus, NEW buses \in SUBSET Bus, NEW orig, NEW wire,
         NEW answers, WriteUpstream(buses, orig, wire, answers),
         \A bus \in buses :
           FakesTranslated([orig |-> orig, wire |-> wire, answers |-> answers],
                           bus)
  PROVE  FakeNamesReachTheirBus'
<1> DEFINE entry == [orig |-> orig, wire |-> wire, answers |-> answers]
<1>1. \A bus \in Bus : \A e \in sent'[bus] :
        e \in sent[bus] \/ (e = entry /\ bus \in buses)
  BY DEF WriteUpstream
<1> HIDE DEF entry
<1>2. \A bus \in Bus : \A e \in sent'[bus] : FakesTranslated(e, bus)
  BY <1>1 DEF FakeNamesReachTheirBus, FakesTranslated, entry
<1> QED BY <1>2 DEF FakeNamesReachTheirBus, FakesTranslated

LEMMA RequestKeepsFakes ==
  ASSUME FakeNamesInPlace, FakeNamesReachTheirBus, ClientSends
  PROVE  FakeNamesReachTheirBus'
<1>1. PICK request \in ClientRequests :
        HandleClientMessage([request EXCEPT !.serial = next_serial], {})
  BY DEF ClientSends
<1> DEFINE msg == [request EXCEPT !.serial = next_serial]
<1>2. HandleClientMessage(msg, {})
  BY <1>1
<1>3. next_serial \in Serials
  BY <1>1 DEF HandleClientMessage
<1>4. msg.type \notin {"return", "error"}
  BY <1>3, RequestMessage, SessionAssumption
<1> HIDE DEF msg
<1>5. RouteClientMessage(msg, {})
  BY <1>2, <1>4
  DEF HandleClientMessage, ForwardReplyToCaller, AnswersIncomingCall
<1> DEFINE entry(wire) == [orig |-> msg, wire |-> wire, answers |-> {}]
<1>6. \A wire : entry(wire).orig = msg /\ entry(wire).wire = wire
  OBVIOUS
<1>7. ASSUME NEW bus \in Bus, RouteRequest(msg) = Single(bus),
             ForwardToBus(msg, bus, {})
      PROVE  FakeNamesReachTheirBus'
  <2> DEFINE wire == RewriteRequestBody(DestToUpstream(msg))
  <2>1. FakesTranslated(entry(wire), bus)
    <3> HIDE DEF entry
    <3> QED BY <1>3, <1>6, <1>7, RequestTranslated DEF msg
  <2> QED BY <1>7, <2>1, FakesAfterWrite DEF ForwardToBus
<1>8. ASSUME RouteRequest(msg) \in {Both, Merge},
             NEW wire, WriteUpstream(Bus, msg, wire, {})
      PROVE  FakeNamesReachTheirBus'
  <2>1. \A bus \in Bus : FakesTranslated(entry(wire), bus)
    <3> HIDE DEF entry
    <3> QED BY <1>3, <1>6, <1>8, SharedHasNoFakes DEF msg
  <2> QED BY <1>8, <2>1, FakesAfterWrite
<1> QED
  BY <1>5, <1>7, <1>8 DEF RouteClientMessage, ForwardToBoth, ForwardForMerge

LEMMA ReplyKeepsFakes ==
  ASSUME CallersApart, TypeOK, CallTracking, FakeNamesReachTheirBus,
         ClientReplies
  PROVE  FakeNamesReachTheirBus'
<1>1. PICK call \in CallsTaken, type \in {"return", "error"} :
        /\ call \notin CallsReplied
        /\ HandleClientMessage(ReplyTo(call, type), {call})
  BY DEF ClientReplies
<1> DEFINE msg == ReplyTo(call, type)
<1>2. PICK wire : /\ WriteUpstream({call.from}, msg, wire, {call})
                  /\ wire.dest = call.raw.sender /\ call.from \in Bus
  BY <1>1, ReplyGoesBack
<1>3. msg.dest = call.shown.sender /\ msg.body = <<>> /\ msg.rules = <<>>
  BY DEF ReplyTo, NoMessage
<1>4. /\ RealName(call.shown.sender) = call.raw.sender
      /\ GetBusFromFakeName(call.shown.sender) \in {call.from, NoBus}
  BY <1>1 DEF CallTracking, CallsLeadBack
<1> HIDE DEF msg
<1> DEFINE entry == [orig |-> msg, wire |-> wire, answers |-> {call}]
<1>5. FakesTranslated(entry, call.from)
  <2>1. entry.orig = msg /\ entry.wire = wire
    OBVIOUS
  <2>2. DOMAIN msg.body = {} /\ DOMAIN msg.rules = {}
    BY <1>3
  <2> HIDE DEF entry
  <2> QED
    BY <1>2, <1>3, <1>4, <2>1, <2>2
    DEF FakesTranslated, Translated, RealName, IsFakeUniqueName
<1> QED BY <1>2, <1>5, FakesAfterWrite

\* A fake name the client uses as a destination, as the argument of a method
\* or in a match rule reaches the bus it stands for, and only that bus, with
\* the prefix gone; so do the names of callers in the client's replies.
THEOREM FakeNamesReach ==
  CallersApart /\ FakeNamesInPlace => (Spec => []FakeNamesReachTheirBus)
<1> SUFFICES ASSUME CallersApart, FakeNamesInPlace
             PROVE  Spec => []FakeNamesReachTheirBus
  OBVIOUS
<1>1. Init => FakeNamesReachTheirBus
  BY DEF Init, FakeNamesReachTheirBus
<1>2. TypeOK /\ CallTracking /\ FakeNamesReachTheirBus /\ [Next]_vars
        => FakeNamesReachTheirBus'
  <2> SUFFICES ASSUME TypeOK, CallTracking, FakeNamesReachTheirBus, [Next]_vars
               PROVE  FakeNamesReachTheirBus'
    OBVIOUS
  <2>1. CASE UNCHANGED sent
    BY <2>1 DEF FakeNamesReachTheirBus
  <2>2. ASSUME NEW bus \in Bus,
               \/ \E serial \in Serials : BusAnswers(bus, serial)
               \/ PeerCalls(bus) \/ BusSignal(bus) \/ BusGoesAway(bus)
        PROVE  UNCHANGED sent
    BY <2>2 DEF BusAnswers, PeerCalls, BusSignal, BusGoesAway,
                HandleUpstreamMessage
  <2>3. CASE \/ ClientLeaves \/ ReadClientOrHostEof \/ ReadSandboxEof
             \/ UNCHANGED vars
    BY <2>1, <2>3
    DEF ClientLeaves, ReadClientOrHostEof, ReadSandboxEof, vars
  <2> QED
    BY <2>1, <2>2, <2>3, RequestKeepsFakes, ReplyKeepsFakes DEF Next
<1> QED BY <1>1, <1>2, TypeCorrect, CallsStayTracked, PTL DEF Spec

-----------------------------------------------------------------------------
(* What the client is shown: names.                                          *)

LEMMA ShownNameLeadsBack ==
  ASSUME NEW name \in Name, RealUnique(name), NEW bus \in Bus,
         IsHostpass => bus = "host", IsUniqueName(name)
  PROVE  /\ LeadsTo(ToFakeName(name, bus), bus, name)
         /\ IsHostpass => LeadsTo(name, bus, name)
<1> DEFINE fake == ToFakeName(name, bus)
<1>1. GetBusFromFakeName(fake) = bus /\ RealName(fake) = name
  BY FakeNameRoundTrip DEF RealUnique
<1>2. IsFakeUniqueName(fake)
  BY <1>1, BusesDiffer DEF IsFakeUniqueName
<1>3. \A n : [NoMessage EXCEPT !.dest = n].dest = n
  BY DEF NoMessage
<1>4. ASSUME IsHostpass, NEW n
      PROVE  RouteRequest([NoMessage EXCEPT !.dest = n]) = Single(bus)
  BY <1>4 DEF RouteRequest
<1>5. RouteRequest([NoMessage EXCEPT !.dest = fake]) = Single(bus)
  <2> HIDE DEF fake
  <2> QED BY <1>1, <1>2, <1>3, <1>4 DEF RouteRequest
<1>6. RealName(name) = name
  BY DEF RealUnique, RealName
<1> QED BY <1>1, <1>4, <1>5, <1>6 DEF LeadsTo

\* The names a bus puts into a reply are real.
RealMessage(msg) ==
  /\ msg \in Message /\ RealUnique(msg.sender)
  /\ \A i \in DOMAIN msg.body : RealUnique(msg.body[i])

LEMMA RealNamesOnBus ==
  ASSUME BusNamesAreReal, NEW bus \in Bus
  PROVE  /\ RealUnique(NoName) /\ RealUnique(DBusName)
         /\ ClientName[bus] \in Name /\ RealUnique(ClientName[bus])
         /\ \A name : /\ OwnerOf(bus, name) \in Name
                      /\ RealUnique(OwnerOf(bus, name))
         /\ ListedNames(bus) \in Seq(Name)
         /\ \A i \in DOMAIN ListedNames(bus) : RealUnique(ListedNames(bus)[i])
<1>1. RealUnique(NoName) /\ RealUnique(DBusName)
  BY DEF RealUnique, NoName, DBusName, WellKnownName, IsUniqueName
<1>2. ClientName[bus] \in Name /\ RealUnique(ClientName[bus]) /\ NoName \in Name
  BY SessionAssumption, EmptyValues DEF BusNamesAreReal
<1>3. \A i \in DOMAIN Directory[bus] : /\ RealUnique(Directory[bus][i].name)
                                      /\ RealUnique(Directory[bus][i].owner)
  BY DEF BusNamesAreReal
<1>4. ASSUME NEW name
      PROVE  OwnerOf(bus, name) \in Name /\ RealUnique(OwnerOf(bus, name))
  BY <1>1, <1>2, <1>3, DirectoryEntries DEF OwnerOf
<1>5. ListedNames(bus) \in Seq(Name)
  <2>1. ListedNames(bus) \in [1..Len(Directory[bus]) -> Name]
    BY DirectoryEntries DEF ListedNames
  <2> QED BY <2>1, DirectoryEntries, SeqDef
<1>6. \A i \in DOMAIN ListedNames(bus) : RealUnique(ListedNames(bus)[i])
  BY <1>3 DEF ListedNames
<1> QED BY <1>1, <1>2, <1>4, <1>5, <1>6

IsReply(reply, call, type, body) ==
  /\ RealMessage(reply) /\ reply.reply_serial = call.serial
  /\ reply.type = type /\ reply.body = body /\ reply.member = ""

LEMMA ReplyFields ==
  ASSUME NEW bus \in Bus, NEW call, call.serial \in Serials,
         NEW type \in {"return", "error"}, NEW sender \in Name,
         NEW body \in Seq(Name),
         RealUnique(sender), \A i \in DOMAIN body : RealUnique(body[i]),
         NEW reply, reply = Reply(bus, call, type, sender, body)
  PROVE  IsReply(reply, call, type, body)
<1>1. call.serial \in Nat /\ ClientName[bus] \in Name
  BY SessionAssumption DEF Serials
<1>2. <<>> \in Seq(MatchRule)
  OBVIOUS
<1>3. /\ reply \in Message
      /\ reply.type = type /\ reply.reply_serial = call.serial
      /\ reply.sender = sender /\ reply.body = body
      /\ reply.member = ""
  BY <1>1, <1>2, EmptyValues DEF Reply, NoMessage, Message
<1> QED BY <1>3, Zenon DEF RealMessage, IsReply

\* What a bus answers, and when its answer holds names.
AnswersWithNames(reply, call) ==
  /\ RealMessage(reply) /\ reply.reply_serial = call.serial
  /\ reply.type \in {"return", "error"} /\ reply.member = ""
  /\ reply.body # <<>> =>
       /\ reply.type = "return" /\ call.dest = DBusName
       /\ call.member \in NeedsResponseRewrite \cup MergedMethods

LEMMA ReplyContents ==
  ASSUME BusNamesAreReal, NEW bus \in Bus, NEW call, call.serial \in Serials,
         NEW reply \in Replies(bus, call)
  PROVE  AnswersWithNames(reply, call)
<1> DEFINE Named(type, sender, body) ==
             reply = Reply(bus, call, type, sender, body)
<1>1. ASSUME NEW type \in {"return", "error"}, NEW sender \in Name,
             NEW body \in Seq(Name), Named(type, sender, body),
             RealUnique(sender), \A i \in DOMAIN body : RealUnique(body[i])
      PROVE  IsReply(reply, call, type, body)
  BY <1>1, ReplyFields
<1> HIDE DEF Named
<1>2. <<>> \in Seq(Name) /\ (\A i \in DOMAIN <<>> : FALSE) /\ DBusName \in Name
  <2>1. <<>> \in Seq(Name) /\ \A i \in DOMAIN <<>> : FALSE
    OBVIOUS
  <2> QED BY <2>1, EmptyValues
<1>3. ASSUME NEW type \in {"return", "error"}, NEW sender \in Name,
             RealUnique(sender), Named(type, sender, <<>>)
      PROVE  IsReply(reply, call, type, <<>>)
  BY <1>1, <1>2, <1>3
<1>4. ASSUME NEW name \in Name, RealUnique(name),
             Named("return", DBusName, <<name>>)
      PROVE  IsReply(reply, call, "return", <<name>>)
  <2>1. <<name>> \in Seq(Name) /\ \A i \in DOMAIN <<name>> : <<name>>[i] = name
    OBVIOUS
  <2>2. DBusName \in Name /\ RealUnique(DBusName)
    BY EmptyValues, RealNamesOnBus
  <2> QED BY <1>1, <1>4, <2>1, <2>2
<1>5. CASE call.dest # DBusName
  <2>1. \/ Named("error", DBusName, <<>>)
        \/ Named("return", OwnerOf(bus, call.dest), <<>>)
    BY <1>5 DEF Replies, Named
  <2> QED BY <1>2, <1>3, <2>1, RealNamesOnBus DEF IsReply, AnswersWithNames
<1>6. CASE call.dest = DBusName /\ call.member = "Hello"
  <2>1. Named("return", DBusName, <<ClientName[bus]>>)
    BY <1>6 DEF Replies, MergedMethods, Named
  <2> QED BY <1>4, <1>6, <2>1, RealNamesOnBus DEF NeedsResponseRewrite, IsReply, AnswersWithNames
<1>7. CASE call.dest = DBusName /\ call.member \in MergedMethods
  <2>1. \/ Named("return", DBusName, ListedNames(bus))
        \/ Named("error", DBusName, <<>>)
    BY <1>7 DEF Replies, MergedMethods, Named
  <2>2. CASE Named("error", DBusName, <<>>)
    BY <1>2, <1>3, <2>2, RealNamesOnBus DEF IsReply, AnswersWithNames
  <2>3. CASE Named("return", DBusName, ListedNames(bus))
    <3>1. /\ ListedNames(bus) \in Seq(Name) /\ DBusName \in Name
          /\ RealUnique(DBusName)
          /\ \A i \in DOMAIN ListedNames(bus) : RealUnique(ListedNames(bus)[i])
      BY <1>2, RealNamesOnBus
    <3>2. IsReply(reply, call, "return", ListedNames(bus))
      BY <1>1, <2>3, <3>1
    <3> QED BY <1>7, <3>2 DEF IsReply, AnswersWithNames
  <2> QED BY <2>1, <2>2, <2>3
<1>8. CASE /\ call.dest = DBusName
           /\ call.member \in {"GetNameOwner", "ListQueuedOwners"}
  <2>1. PICK target : \/ Named("return", DBusName, <<OwnerOf(bus, target)>>)
                      \/ Named("error", DBusName, <<>>)
    BY <1>8 DEF Replies, MergedMethods, Named
  <2> QED
    BY <1>2, <1>3, <1>4, <1>8, <2>1, RealNamesOnBus DEF NeedsResponseRewrite, IsReply, AnswersWithNames
<1>9. CASE /\ call.dest = DBusName
           /\ call.member \notin {"Hello", "GetNameOwner", "ListQueuedOwners"}
                                   \cup MergedMethods
  <2>1. Named("return", DBusName, <<>>)
    BY <1>9 DEF Replies, Named
  <2> QED BY <1>2, <1>3, <2>1, RealNamesOnBus DEF IsReply, AnswersWithNames
<1> QED BY <1>5, <1>6, <1>7, <1>8, <1>9

\* What a message from a bus adds to received.
LEMMA NewlyReceived ==
  ASSUME NEW bus \in Bus, NEW msg, HandleUpstreamMessage(msg, bus),
         NEW r \in received', r \notin received, r.from \in Bus
  PROVE  /\ r.from = bus /\ r.raw = msg
         /\ \/ /\ IsIncomingServiceCall(msg, bus)
               /\ r.shown = IF bus = "sandbox" THEN SenderToClient(msg, bus)
                                               ELSE msg
            \/ /\ ~IsMergeReply(msg)
               /\ \/ msg.type # "return"
                     /\ \E call : r.shown = PrepareMessageForClient(msg, bus, call)
                  \/ msg.type = "return"
                     /\ r.shown = RewriteMethodReturnBody(
                          SenderToClient(msg, bus), bus,
                          IF msg.reply_serial \in Serials
                          THEN pending_calls[msg.reply_serial] ELSE NoCall)
<1>1. "router" \notin Bus
  BY DEF Bus
<1>2. ~AwaitOtherReply(msg, bus)
  BY DEF AwaitOtherReply
<1>3. ~CompleteMerge(msg, bus)
  BY <1>1 DEF CompleteMerge, WriteClient
<1>4. CASE TakeServiceCall(msg, bus)
  BY <1>4 DEF TakeServiceCall, WriteClient
<1>5. CASE ForwardToClient(msg, bus)
  <2> DEFINE call == IF msg.reply_serial \in Serials
                     THEN pending_calls[msg.reply_serial] ELSE NoCall
  <2>1. /\ r.from = bus /\ r.raw = msg /\ ~IsMergeReply(msg)
        /\ r.shown = PrepareMessageForClient(msg, bus, call)
    BY <1>5 DEF ForwardToClient, WriteClient
  <2>2. msg.type = "return" =>
          r.shown = RewriteMethodReturnBody(SenderToClient(msg, bus), bus, call)
    BY <2>1 DEF PrepareMessageForClient
  <2> QED BY <2>1, <2>2
<1> QED BY <1>2, <1>3, <1>4, <1>5 DEF HandleUpstreamMessage

\* What the rewriting towards the client makes of the names.
LEMMA ShownFields ==
  ASSUME NEW bus \in Bus, NEW msg \in Message, NEW call
  PROVE  LET shown == PrepareMessageForClient(msg, bus, call)
         IN  /\ SenderToClient(msg, bus).sender = ToFakeName(msg.sender, bus)
             /\ shown.sender = ToFakeName(msg.sender, bus)
             /\ msg.type = "return" /\ call.bus = bus
                  /\ call.member \in NeedsResponseRewrite
                => \A i \in DOMAIN msg.body :
                     shown.body[i] = ToFakeName(msg.body[i], bus)
             /\ msg.type = "return" /\ call.member \notin NeedsResponseRewrite
                => shown.body = msg.body
             /\ msg.type = "signal" /\ msg.member = "NameOwnerChanged"
                  /\ Len(msg.body) = 3
                => \A i \in DOMAIN msg.body : i > 1 =>
                     shown.body[i] = ToFakeName(msg.body[i], bus)
<1> DEFINE first == SenderToClient(msg, bus)
           shown == PrepareMessageForClient(msg, bus, call)
<1>1. /\ msg.body \in Seq(Name) /\ msg.rules \in Seq(MatchRule)
      /\ DOMAIN msg = {"type", "serial", "reply_serial", "sender", "dest",
                       "iface", "member", "body", "rules"}
  BY DEF Message
<1>2. /\ first = [msg EXCEPT !.sender = ToFakeName(msg.sender, bus)]
      /\ first.sender = ToFakeName(msg.sender, bus)
      /\ first.body = msg.body /\ DOMAIN first = DOMAIN msg
  BY <1>1 DEF SenderToClient
<1>3. shown = CASE msg.type = "return" -> RewriteMethodReturnBody(first, bus, call)
                [] msg.type = "signal" /\ msg.member \in SignalNeedsRewrite ->
                     RewriteNameOwnerChanged(first, bus)
                [] OTHER -> first
  BY DEF PrepareMessageForClient
<1> HIDE DEF first, shown
<1>4. /\ RewriteNames(first, bus).sender = first.sender
      /\ \A i \in DOMAIN msg.body :
           RewriteNames(first, bus).body[i] = ToFakeName(msg.body[i], bus)
  BY <1>1, <1>2 DEF RewriteNames
<1>5. RewriteNameOwnerChanged(first, bus).sender = first.sender
  BY <1>1, <1>2 DEF RewriteNameOwnerChanged
<1>6. ASSUME Len(msg.body) = 3, NEW i \in DOMAIN msg.body, i > 1
      PROVE  RewriteNameOwnerChanged(first, bus).body[i]
               = ToFakeName(msg.body[i], bus)
  <2>1. i \in {2, 3} /\ DOMAIN msg.body = 1..3
    BY <1>1, <1>6
  <2> DEFINE both == [msg.body EXCEPT ![2] = ToFakeName(msg.body[2], bus),
                                      ![3] = ToFakeName(msg.body[3], bus)]
  <2>2. RewriteNameOwnerChanged(first, bus) = [first EXCEPT !.body = both]
    BY <1>1, <1>2, <1>6, <2>1 DEF RewriteNameOwnerChanged
  <2>3. RewriteNameOwnerChanged(first, bus).body = both
    BY <1>1, <1>2, <2>2
  <2>4. both[2] = ToFakeName(msg.body[2], bus)
        /\ both[3] = ToFakeName(msg.body[3], bus)
    BY <2>1
  <2> QED BY <2>1, <2>3, <2>4
<1>7. CASE msg.type = "return"
  <2>1. shown = RewriteMethodReturnBody(first, bus, call)
    BY <1>3, <1>7
  <2>2. shown = IF call.bus = bus /\ call.member \in NeedsResponseRewrite
                THEN RewriteNames(first, bus) ELSE first
    BY <2>1 DEF RewriteMethodReturnBody
  <2> QED BY <1>2, <1>4, <1>7, <2>2 DEF first, shown
<1>8. CASE msg.type = "signal"
  <2>1. shown = IF msg.member \in SignalNeedsRewrite
                THEN RewriteNameOwnerChanged(first, bus) ELSE first
    BY <1>3, <1>8
  <2> QED
    BY <1>2, <1>5, <1>6, <1>8, <2>1 DEF first, shown, SignalNeedsRewrite
<1>9. CASE msg.type \notin {"return", "signal"}
  <2>1. shown = first
    BY <1>3, <1>9
  <2> QED BY <1>2, <1>9, <2>1 DEF first, shown
<1> QED BY <1>7, <1>8, <1>9

LEMMA AnswerRewritten ==
  ASSUME NEW bus \in Bus, NEW msg \in Message, NEW call, msg.type = "return",
         call.bus = bus, call.member \in NeedsResponseRewrite,
         NEW i \in DOMAIN msg.body
  PROVE  PrepareMessageForClient(msg, bus, call).body[i]
           = ToFakeName(msg.body[i], bus)
BY ShownFields

\* One entry of received is right.
NamesShown(r) ==
  /\ KeepsSender(r) \/ Resolves(r, r.shown.sender, r.raw.sender)
  /\ \A i \in DOMAIN r.raw.body :
       \/ r.raw.type = "return"
       \/ r.raw.member = "NameOwnerChanged" /\ i > 1
       => Resolves(r, r.shown.body[i], r.raw.body[i])

LEMMA SenderResolves ==
  ASSUME NEW bus \in Bus, NEW msg, RealMessage(msg),
         HandleUpstreamMessage(msg, bus), IsHostpass => bus = "host",
         \A name \in exported_services : ~IsUniqueName(name),
         NEW r \in received', r \notin received, r.from \in Bus
  PROVE  KeepsSender(r) \/ Resolves(r, r.shown.sender, r.raw.sender)
<1>1. r.from = bus /\ r.raw = msg /\ msg \in Message
  BY NewlyReceived DEF RealMessage
<1>2. \/ r.shown.sender = ToFakeName(msg.sender, bus)
      \/ IsIncomingServiceCall(msg, bus) /\ bus = "host"
  <2>1. CASE IsIncomingServiceCall(msg, bus) /\ bus = "sandbox"
             /\ r.shown = SenderToClient(msg, bus)
    BY <1>1, <2>1, ShownFields
  <2>2. ASSUME NEW call, r.shown = PrepareMessageForClient(msg, bus, call)
        PROVE  r.shown.sender = ToFakeName(msg.sender, bus)
    BY <1>1, <2>2, ShownFields
  <2>3. ASSUME msg.type = "return", NEW call,
               r.shown = RewriteMethodReturnBody(SenderToClient(msg, bus), bus, call)
        PROVE  r.shown.sender = ToFakeName(msg.sender, bus)
    <3>1. r.shown = PrepareMessageForClient(msg, bus, call)
      BY <2>3 DEF PrepareMessageForClient
    <3> QED BY <2>2, <3>1
  <2> QED BY <2>1, <2>2, <2>3, NewlyReceived DEF Bus
<1>3. CASE IsIncomingServiceCall(msg, bus) /\ bus = "host"
  BY <1>1, <1>3 DEF IsIncomingServiceCall, KeepsSender
<1>4. CASE r.shown.sender = ToFakeName(msg.sender, bus)
  <2>1. msg.sender \in Name /\ RealUnique(msg.sender)
    BY <1>1 DEF RealMessage, Message
  <2> QED BY <1>1, <1>4, <2>1, ShownNameLeadsBack DEF Resolves
<1> QED BY <1>2, <1>3, <1>4

-----------------------------------------------------------------------------
(* What the client is shown: the answers that hold names.                    *)

\* What AnswersExpected says of one call.
Expected(call, bus) ==
  call.type = "call" =>
    /\ call.serial \in 1..(next_serial - 1)
    /\ call.dest = DBusName /\ call.member \in NeedsResponseRewrite =>
         pending_calls[call.serial] = [bus |-> bus, member |-> call.member]
    /\ call.dest = DBusName /\ call.member \in MergedMethods /\ ~IsHostpass =>
         \/ pending_merges[call.serial].open
         \/ \E reply \in answered[bus] : reply.reply_serial = call.serial

ExpectedOnWire == \A bus \in Bus : \A e \in sent[bus] : Expected(e.wire, bus)

LEMMA AnswersExpectedCalls == AnswersExpected <=> ExpectedOnWire
<1>1. AnswersExpected <=> \A bus \in Bus : \A call \in {e.wire : e \in sent[bus]} :
                            Expected(call, bus)
  BY Zenon DEF AnswersExpected, Expected
<1> QED BY <1>1 DEF ExpectedOnWire

\* Which decision a call to the bus can lead to.
LEMMA SharedDecisions ==
  ASSUME NEW msg
  PROVE  /\ RouteRequest(msg) = Both => msg.member \in MatchMethods
         /\ RouteRequest(msg) = Merge => msg.member \in MergedMethods
         /\ /\ ~IsHostpass /\ msg.dest = DBusName /\ msg.iface = DBusName
            /\ msg.member \in MergedMethods
            => RouteRequest(msg) = Merge
<1>1. \A bus : Single(bus) # Both /\ Single(bus) # Merge
  <2>1. \A bus : Single(bus).kind = "single"
    BY DEF Single
  <2>2. Both.kind = "both" /\ Merge.kind = "merge"
    BY DEF Both, Merge
  <2> QED BY <2>1, <2>2
<1>2. Both # Merge
  <2>1. Both.kind = "both" /\ Merge.kind = "merge"
    BY DEF Both, Merge
  <2> QED BY <2>1
<1>3. \A member, name : \E bus : RouteByName(member, name) = Single(bus)
  BY DEF RouteByName
<1>4. \A rule : RouteMatchRule(rule) # Merge
  BY <1>1, <1>2 DEF RouteMatchRule
<1>5. MergedMethods \cap MatchMethods = {}
      /\ (MergedMethods \cup MatchMethods)
           \cap (ConfigMethods \cup FakeArgMethods) = {}
  BY DEF MergedMethods, MatchMethods, ConfigMethods, FakeArgMethods
<1>6. /\ RouteDBusMethod(msg) = Both => msg.member \in MatchMethods
      /\ RouteDBusMethod(msg) = Merge => msg.member \in MergedMethods
      /\ msg.member \in MergedMethods => RouteDBusMethod(msg) = Merge
  BY <1>1, <1>2, <1>3, <1>4, <1>5 DEF RouteDBusMethod
<1> QED BY <1>1, <1>6, NotFake DEF RouteRequest

\* A client message is written and what it may bring back is noted.
LEMMA ExpectedAfterWrite ==
  ASSUME TypeOK, AnswersExpected, next_serial \in Serials,
         NEW buses \in SUBSET Bus, NEW orig, NEW wire, NEW answers,
         WriteUpstream(buses, orig, wire, answers),
         next_serial' = next_serial + 1, answered' = answered,
         \A s : s # next_serial => /\ pending_calls'[s] = pending_calls[s]
                                   /\ pending_merges'[s] = pending_merges[s],
         \A bus \in buses : Expected(wire, bus)'
  PROVE  AnswersExpected'
<1> DEFINE entry == [orig |-> orig, wire |-> wire, answers |-> answers]
<1>1. \A bus \in Bus : \A e \in sent'[bus] :
        e \in sent[bus] \/ (e = entry /\ bus \in buses)
  BY DEF WriteUpstream
<1>2. entry.wire = wire
  OBVIOUS
<1>3. next_serial \in Nat
  BY SessionAssumption DEF Serials
<1> HIDE DEF entry
<1>4. ASSUME NEW bus \in Bus, NEW e \in sent[bus] PROVE Expected(e.wire, bus)'
  <2>1. Expected(e.wire, bus)
    BY <1>4, AnswersExpectedCalls DEF ExpectedOnWire
  <2>2. e.wire.type = "call" =>
          /\ pending_calls'[e.wire.serial] = pending_calls[e.wire.serial]
          /\ pending_merges'[e.wire.serial] = pending_merges[e.wire.serial]
          /\ e.wire.serial \in 1..(next_serial' - 1)
    <3>1. e.wire.type = "call" => e.wire.serial \in 1..(next_serial - 1)
      BY <2>1 DEF Expected
    <3>2. e.wire.type = "call" => e.wire.serial # next_serial
      BY <1>3, <3>1
    <3> QED BY <1>3, <3>1, <3>2
  <2> QED BY <2>1, <2>2 DEF Expected
<1>5. ExpectedOnWire'
  BY <1>1, <1>2, <1>4 DEF ExpectedOnWire
<1> QED BY <1>5, AnswersExpectedCalls, PTL

LEMMA RequestKeepsTracking ==
  ASSUME TypeOK, RequestsAreRegular, NameTracking, ClientSends
  PROVE  NameTracking'
<1>1. PICK request, msg, wire :
        /\ request \in ClientRequests
        /\ msg = [request EXCEPT !.serial = next_serial]
        /\ wire = RewriteRequestBody(DestToUpstream(msg))
        /\ HandleClientMessage(msg, {})
  BY DEF ClientSends
<1>2. /\ next_serial \in Serials /\ next_serial' = next_serial + 1
      /\ UNCHANGED answered
  BY <1>1 DEF HandleClientMessage
<1>3. /\ msg \in Message /\ msg.serial = next_serial
      /\ msg.dest = request.dest /\ msg.iface = request.iface
      /\ msg.member = request.member /\ msg.body = request.body
      /\ msg.type \in {"call", "signal"}
  BY <1>1, <1>2, RequestMessage, SessionAssumption
<1>4. IsSentAs(msg, wire)
  BY <1>1, <1>3, WireMessage
<1>5. msg.dest = DBusName /\ msg.member \in MergedMethods => msg.iface = DBusName
  BY <1>1, <1>3 DEF RequestsAreRegular
<1>6. IsRequestName(msg) /\ msg.body # <<>> => ~IsUniqueName(msg.body[1])
  BY <1>1, <1>3 DEF RequestsAreRegular, IsRequestName
<1>7. HandleClientMessage(msg, {})
  BY <1>1
<1>8. next_serial \in 1..(next_serial' - 1)
  BY <1>2, SessionAssumption DEF Serials
<1>9. /\ NeedsResponseRewrite \cap (MatchMethods \cup MergedMethods) = {}
      /\ MatchMethods \cap MergedMethods = {}
  BY DEF NeedsResponseRewrite, MatchMethods, MergedMethods
<1>10. RouteClientMessage(msg, {})
  BY <1>3, <1>7 DEF HandleClientMessage, ForwardReplyToCaller, AnswersIncomingCall
<1>11. \A name \in exported_services' : ~IsUniqueName(name)
  BY <1>6, <1>10 DEF RouteClientMessage, TrackExportedService, NameTracking
<1>12. ASSUME NEW bus \in Bus, RouteRequest(msg) = Single(bus),
              ForwardToBus(msg, bus, {})
       PROVE  AnswersExpected' /\ MergesHalfDone'
  <2>1. /\ pending_calls' = [pending_calls EXCEPT
              ![next_serial] = [bus |-> bus, member |-> msg.member]]
        /\ UNCHANGED pending_merges
        /\ WriteUpstream({bus}, msg, wire, {})
    BY <1>3, <1>1, <1>12 DEF ForwardToBus, RecordCall
  <2>2. pending_calls'[next_serial] = [bus |-> bus, member |-> msg.member]
    BY <1>2, <2>1 DEF TypeOK
  <2>3. ASSUME ~IsHostpass, wire.dest = DBusName, wire.member \in MergedMethods
        PROVE  FALSE
    <3>1. msg.dest = DBusName
      BY <1>4, <2>3, NotFake DEF IsSentAs, RealName, FromFakeName, UniqueName,
                                 DBusName, WellKnownName
    <3>2. RouteRequest(msg) = Merge
      BY <1>4, <1>5, <2>3, <3>1, SharedDecisions DEF IsSentAs
    <3> QED BY <1>12, <3>2, DecisionsDiffer
  <2>4. Expected(wire, bus)'
    BY <1>3, <1>4, <1>8, <2>2, <2>3 DEF Expected, IsSentAs
  <2>5. AnswersExpected'
    BY <1>2, <2>1, <2>4, ExpectedAfterWrite DEF NameTracking
  <2> QED BY <1>2, <2>1, <2>5 DEF NameTracking, MergesHalfDone
<1>13. ASSUME RouteRequest(msg) = Both, ForwardToBoth(msg)
       PROVE  AnswersExpected' /\ MergesHalfDone'
  <2>1. PICK w : /\ w \in {msg, RewriteMatchRuleBody(msg)}
                 /\ WriteUpstream(Bus, msg, w, {})
    BY <1>13 DEF ForwardToBoth
  <2>2. /\ w.type = msg.type /\ w.serial = next_serial /\ w.member = msg.member
    BY <1>3, <2>1 DEF RewriteMatchRuleBody, Message
  <2>3. /\ UNCHANGED pending_merges
        /\ \A s : s # next_serial => pending_calls'[s] = pending_calls[s]
    BY <1>3, <1>13 DEF ForwardToBoth, RecordCall, TypeOK
  <2>4. \A bus \in Bus : Expected(w, bus)'
    BY <1>8, <1>9, <1>13, <2>2, SharedDecisions DEF Expected
  <2>5. AnswersExpected'
    BY <1>2, <2>1, <2>3, <2>4, ExpectedAfterWrite DEF NameTracking
  <2> QED BY <1>2, <2>3, <2>5 DEF NameTracking, MergesHalfDone
<1>14. ASSUME RouteRequest(msg) = Merge, ForwardForMerge(msg)
       PROVE  AnswersExpected' /\ MergesHalfDone'
  <2>1. /\ WriteUpstream(Bus, msg, msg, {}) /\ UNCHANGED pending_calls
        /\ \A s : s # next_serial => pending_merges'[s] = pending_merges[s]
        /\ pending_merges'[next_serial].open
        /\ pending_merges'[next_serial].bus = NoBus
    BY <1>2, <1>3, <1>14 DEF ForwardForMerge, TypeOK, NoMerge
  <2>2. \A bus \in Bus : Expected(msg, bus)'
    BY <1>3, <1>8, <1>9, <1>14, <2>1, SharedDecisions DEF Expected
  <2>3. AnswersExpected'
    BY <1>2, <2>1, <2>2, ExpectedAfterWrite DEF NameTracking
  <2>4. MergesHalfDone'
    BY <1>2, <2>1 DEF NameTracking, MergesHalfDone
  <2> QED BY <2>3, <2>4
<1>15. AnswersExpected' /\ MergesHalfDone'
  BY <1>10, <1>12, <1>13, <1>14 DEF RouteClientMessage
<1> QED BY <1>2, <1>11, <1>15 DEF NameTracking

\* A reply is not answered, and looks nothing like a request of a name.
LEMMA ReplyKeepsTracking ==
  ASSUME TypeOK, NameTracking, ClientReplies
  PROVE  NameTracking'
<1>1. PICK call, type, msg, wire :
        /\ call \in CallsTaken /\ type \in {"return", "error"}
        /\ msg = ReplyTo(call, type) /\ wire = DestToUpstream(msg)
        /\ HandleClientMessage(msg, {call})
  BY DEF ClientReplies
<1>2. /\ next_serial \in Serials /\ next_serial' = next_serial + 1
      /\ UNCHANGED answered
  BY <1>1 DEF HandleClientMessage
<1>3. /\ msg.type \in {"return", "error"} /\ msg.serial = next_serial
      /\ msg.iface = NoName /\ msg.body = <<>> /\ msg.rules = <<>>
      /\ wire.type = msg.type /\ wire.body = <<>> /\ wire.rules = <<>>
  BY <1>1 DEF ReplyTo, NoMessage, DestToUpstream
<1>4. NoName # DBusName
  <2>1. <<>> # <<"org", "freedesktop", "DBus">>
    OBVIOUS
  <2> QED BY <2>1 DEF NoName, DBusName, WellKnownName
<1>5. HandleClientMessage(msg, {call})
  BY <1>1
<1>6. RewriteRequestBody(wire) = wire
  BY <1>3 DEF RewriteRequestBody, RewriteUniqueNameRequest, RewriteMatchRuleBody
<1>7. \E bus : RouteRequest(msg) = Single(bus)
  BY <1>3, <1>4 DEF RouteRequest
<1>8. RouteRequest(msg) \notin {Both, Merge}
  <2>1. \A bus : Single(bus).kind = "single"
    BY DEF Single
  <2>2. Both.kind = "both" /\ Merge.kind = "merge"
    BY DEF Both, Merge
  <2> QED BY <1>7, <2>1, <2>2
<1>9. /\ UNCHANGED <<pending_merges, exported_services>>
      /\ \A s : s # next_serial => pending_calls'[s] = pending_calls[s]
      /\ \E buses \in SUBSET Bus :
           WriteUpstream(buses, msg, wire, {call})
  <2>1. CASE ForwardReplyToCaller(msg, {call})
    <3>1. incoming_calls[msg.reply_serial] \in Bus
      BY <2>1 DEF ForwardReplyToCaller, AnswersIncomingCall, TypeOK
    <3> QED BY <1>1, <2>1, <3>1 DEF ForwardReplyToCaller, services
  <2>2. CASE RouteClientMessage(msg, {call})
    <3>1. PICK bus \in Bus : ForwardToBus(msg, bus, {call})
      BY <1>8, <2>2 DEF RouteClientMessage
    <3>2. exported_services' = exported_services
      BY <1>3, <1>4, <2>2 DEF RouteClientMessage, TrackExportedService,
                              IsRequestName
    <3> QED BY <1>1, <1>3, <1>6, <3>1, <3>2 DEF ForwardToBus, RecordCall, TypeOK
  <2> QED BY <1>5, <2>1, <2>2 DEF HandleClientMessage
<1>10. \A bus : Expected(wire, bus)'
  BY <1>3 DEF Expected
<1>11. AnswersExpected'
  BY <1>2, <1>9, <1>10, ExpectedAfterWrite DEF NameTracking
<1>12. MergesHalfDone'
  BY <1>2, <1>9 DEF NameTracking, MergesHalfDone
<1> QED BY <1>2, <1>9, <1>11, <1>12 DEF NameTracking

\* What tells the state apart for NameTracking, but for the merges.
LEMMA TrackingKept ==
  ASSUME NameTracking,
         UNCHANGED <<pending_calls, exported_services, sent, next_serial>>,
         \A bus \in Bus : answered[bus] \subseteq answered'[bus],
         \A bus \in Bus : \A s : pending_merges[s].open =>
           \/ pending_merges'[s].open
           \/ \E reply \in answered'[bus] : reply.reply_serial = s,
         MergesHalfDone', DOMAIN answered' = Bus
  PROVE  NameTracking'
<1>1. ASSUME NEW bus \in Bus, NEW e \in sent[bus] PROVE Expected(e.wire, bus)'
  <2>1. Expected(e.wire, bus)
    BY AnswersExpectedCalls DEF NameTracking, ExpectedOnWire
  <2> QED BY <2>1 DEF Expected
<1>2. AnswersExpected'
  <2>1. ExpectedOnWire'
    BY <1>1 DEF ExpectedOnWire
  <2> QED BY <2>1, AnswersExpectedCalls, PTL
<1> QED BY <1>2 DEF NameTracking

\* A message that answers nothing.
LEMMA OtherMessageKeepsTracking ==
  ASSUME NameTracking, NEW bus \in Bus, NEW msg, msg.reply_serial = 0,
         HandleUpstreamMessage(msg, bus), UNCHANGED answered
  PROVE  NameTracking'
<1>1. ~IsMergeReply(msg)
  BY SessionAssumption DEF IsMergeReply, Serials
<1>2. UNCHANGED <<pending_merges, pending_calls, exported_services, sent,
                  next_serial>>
  BY <1>1 DEF HandleUpstreamMessage, TakeServiceCall, AwaitOtherReply,
              CompleteMerge, ForwardToClient, services
<1>3. MergesHalfDone'
  BY <1>2 DEF NameTracking, MergesHalfDone
<1>4. DOMAIN answered' = Bus
  BY DEF NameTracking
<1> QED BY <1>2, <1>3, <1>4, TrackingKept

\* The first reply to a listing leaves it open under the bus that gave it; the
\* second closes it when both buses have answered.
LEMMA AnswerKeepsTracking ==
  ASSUME TypeOK, NameTracking, NEW bus \in Bus, NEW serial \in Serials,
         NEW msg, msg.reply_serial = serial, HandleUpstreamMessage(msg, bus),
         \A reply \in answered[bus] : reply.reply_serial # serial,
         answered' = [answered EXCEPT ![bus] = @ \cup {msg}]
  PROVE  NameTracking'
<1>1. UNCHANGED <<pending_calls, exported_services, sent, next_serial>>
  BY DEF HandleUpstreamMessage, services
<1>2. /\ \A b \in Bus : answered[b] \subseteq answered'[b]
      /\ msg \in answered'[bus]
      /\ DOMAIN answered = Bus /\ DOMAIN answered' = Bus
  BY DEF NameTracking
<1>3. CASE UNCHANGED pending_merges
  <2>1. MergesHalfDone'
    BY <1>2, <1>3 DEF NameTracking, MergesHalfDone, TypeOK
  <2> QED BY <1>1, <1>2, <1>3, <2>1, TrackingKept
<1>4. CASE AwaitOtherReply(msg, bus)
  <2>1. pending_merges' = [pending_merges EXCEPT
                             ![serial] = [open |-> TRUE, bus |-> bus,
                                          names |-> NamesIn(msg)]]
    BY <1>4 DEF AwaitOtherReply
  <2>2. /\ pending_merges'[serial].open /\ pending_merges'[serial].bus = bus
        /\ \A s : s # serial => pending_merges'[s] = pending_merges[s]
    BY <2>1 DEF TypeOK
  <2>3. MergesHalfDone'
    BY <1>2, <2>2 DEF NameTracking, MergesHalfDone, TypeOK
  <2> QED BY <1>1, <1>2, <2>2, <2>3, TrackingKept
<1>5. CASE CompleteMerge(msg, bus)
  <2>1. /\ pending_merges[serial].open /\ pending_merges[serial].bus # NoBus
        /\ pending_merges' = [pending_merges EXCEPT ![serial] = NoMerge]
    BY <1>5 DEF CompleteMerge, IsMergeReply
  <2>2. /\ ~pending_merges'[serial].open
        /\ \A s : s # serial => pending_merges'[s] = pending_merges[s]
    BY <2>1 DEF TypeOK, NoMerge
  <2>3. pending_merges[serial].bus \in Bus \ {bus}
    BY <2>1 DEF NameTracking, MergesHalfDone, TypeOK
  <2>4. \A b \in Bus : \E reply \in answered'[b] : reply.reply_serial = serial
    <3>1. \E reply \in answered'[pending_merges[serial].bus] :
            reply.reply_serial = serial
      BY <1>2, <2>1, <2>3 DEF NameTracking, MergesHalfDone
    <3> QED BY <1>2, <2>3, <3>1 DEF Bus
  <2>5. MergesHalfDone'
    <3> SUFFICES ASSUME NEW s \in Serials, pending_merges'[s].open,
                        pending_merges'[s].bus # NoBus
                 PROVE  \E reply \in answered'[pending_merges'[s].bus] :
                          reply.reply_serial = s
      BY DEF MergesHalfDone
    <3>1. s # serial /\ pending_merges'[s] = pending_merges[s]
      BY <2>2
    <3>2. pending_merges[s].bus \in Bus
      BY <3>1 DEF TypeOK
    <3> QED BY <1>2, <3>1, <3>2 DEF NameTracking, MergesHalfDone
  <2> QED BY <1>1, <1>2, <2>2, <2>4, <2>5, TrackingKept
<1> QED
  BY <1>3, <1>4, <1>5 DEF HandleUpstreamMessage, TakeServiceCall,
                          ForwardToClient

-----------------------------------------------------------------------------
(* What the client is shown: the steps of the buses.                         *)

\* NameTracking and NamesShown of what is new: what each step of a bus owes.
StepShows == /\ NameTracking'
             /\ \A r \in received' : r \notin received /\ r.from \in Bus =>
                  NamesShown(r)

LEMMA SignalShows ==
  ASSUME TypeOK, BusNamesAreReal, NameTracking, NEW bus \in Bus, BusSignal(bus)
  PROVE  StepShows
<1>1. PICK msg \in BusSignals[bus] : HandleUpstreamMessage(msg, bus)
  BY DEF BusSignal
<1>2. UNCHANGED answered
  BY DEF BusSignal
<1>3. /\ msg \in Message /\ msg.type = "signal" /\ msg.reply_serial = 0
      /\ msg.member = "NameOwnerChanged" => Len(msg.body) = 3
      /\ IsHostpass => bus = "host"
  BY SessionAssumption DEF BusNamesAreReal, SignalsAnswerNothing, Bus
<1>4. RealMessage(msg)
  BY <1>3 DEF BusNamesAreReal, RealMessage
<1>5. NameTracking'
  BY <1>1, <1>2, <1>3, OtherMessageKeepsTracking
<1>6. ASSUME NEW r \in received', r \notin received, r.from \in Bus
      PROVE  NamesShown(r)
  <2>1. KeepsSender(r) \/ Resolves(r, r.shown.sender, r.raw.sender)
    BY <1>1, <1>3, <1>4, <1>6, SenderResolves DEF NameTracking
  <2>2. /\ r.from = bus /\ r.raw = msg
        /\ \E call : r.shown = PrepareMessageForClient(msg, bus, call)
    BY <1>1, <1>3, <1>6, NewlyReceived DEF IsIncomingServiceCall
  <2>3. ASSUME NEW i \in DOMAIN msg.body, msg.member = "NameOwnerChanged", i > 1
        PROVE  Resolves(r, r.shown.body[i], msg.body[i])
    <3>1. r.shown.body[i] = ToFakeName(msg.body[i], bus)
      BY <1>3, <2>2, <2>3, ShownFields
    <3>2. msg.body[i] \in Name /\ RealUnique(msg.body[i])
      BY <1>3, <1>4, <2>3 DEF RealMessage, Message
    <3> QED BY <1>3, <2>2, <3>1, <3>2, ShownNameLeadsBack DEF Resolves
  <2> QED BY <1>3, <2>1, <2>2, <2>3 DEF NamesShown
<1> QED BY <1>5, <1>6 DEF StepShows

LEMMA PeerCallShows ==
  ASSUME TypeOK, BusNamesAreReal, NameTracking, NEW bus \in Bus, PeerCalls(bus)
  PROVE  StepShows
<1>1. PICK caller, serial, name, msg :
        /\ caller \in Callers
        /\ caller.bus = bus
        /\ msg = [NoMessage EXCEPT !.serial = serial, !.sender = caller.name,
                                   !.dest = name]
        /\ HandleUpstreamMessage(msg, bus)
  BY DEF PeerCalls
<1>2. UNCHANGED answered
  BY DEF PeerCalls
<1>3. /\ msg.sender = caller.name /\ msg.type = "call" /\ msg.body = <<>>
      /\ msg.reply_serial = 0
  BY <1>1 DEF NoMessage
<1>4. /\ caller.name \in Name /\ RealUnique(caller.name)
      /\ IsHostpass => bus = "host"
  BY <1>1, SessionAssumption DEF BusNamesAreReal
<1>5. NameTracking'
  BY <1>1, <1>2, <1>3, OtherMessageKeepsTracking
<1>6. ASSUME NEW r \in received', r \notin received, r.from \in Bus
      PROVE  NamesShown(r)
  <2>1. r.from = bus /\ r.raw = msg
    BY <1>1, <1>6, NewlyReceived
  <2>2. KeepsSender(r) \/ Resolves(r, r.shown.sender, r.raw.sender)
    <3>1. PICK shown : /\ WriteClient(bus, msg, shown)
                       /\ \/ shown = SenderToClient(msg, bus)
                          \/ shown = msg /\ bus = "host"
                             /\ IsIncomingServiceCall(msg, bus)
      <4>1. ~IsMergeReply(msg)
        BY <1>3, SessionAssumption DEF IsMergeReply, Serials
      <4>2. \A call : PrepareMessageForClient(msg, bus, call)
                        = SenderToClient(msg, bus)
        BY <1>3 DEF PrepareMessageForClient
      <4> QED
        BY <1>1, <4>1, <4>2 DEF HandleUpstreamMessage, TakeServiceCall,
             AwaitOtherReply, CompleteMerge, ForwardToClient, Bus
    <3>2. r.shown = shown
      BY <1>6, <3>1 DEF WriteClient
    <3>3. CASE shown = SenderToClient(msg, bus)
      <4>1. shown.sender = ToFakeName(caller.name, bus)
        BY <1>1, <3>3 DEF SenderToClient, NoMessage
      <4> QED
        BY <1>3, <1>4, <2>1, <3>2, <4>1, ShownNameLeadsBack DEF Resolves
    <3>4. CASE bus = "host" /\ IsIncomingServiceCall(msg, bus)
      BY <2>1, <3>4 DEF IsIncomingServiceCall, KeepsSender, NameTracking
    <3> QED BY <3>1, <3>3, <3>4
  <2>3. DOMAIN msg.body = {}
    BY <1>3
  <2> QED BY <2>1, <2>2, <2>3 DEF NamesShown
<1> QED BY <1>5, <1>6 DEF StepShows

\* A reply that holds names answers a call in AnswersExpected: Hello and the
\* lookups of an owner are rewritten for the bus they came from; a listing is
\* open, so it is not forwarded at all, but to a hostpass client.
LEMMA ReplyShows ==
  ASSUME TypeOK, HostpassStaysOnHost, BusNamesAreReal, NameTracking,
         NEW bus \in Bus, NEW serial \in Serials, BusAnswers(bus, serial)
  PROVE  StepShows
<1>1. PICK e, call, msg :
        /\ e \in sent[bus]
        /\ call = e.wire /\ call.type = "call" /\ call.serial = serial
        /\ \A reply \in answered[bus] : reply.reply_serial # serial
        /\ msg \in Replies(bus, call)
        /\ HandleUpstreamMessage(msg, bus)
        /\ answered' = [answered EXCEPT ![bus] = @ \cup {msg}]
  BY DEF BusAnswers
<1>2. /\ RealMessage(msg) /\ msg.reply_serial = serial
      /\ msg.type \in {"return", "error"} /\ msg.member = ""
      /\ msg.body # <<>> =>
           /\ msg.type = "return" /\ call.dest = DBusName
           /\ call.member \in NeedsResponseRewrite \cup MergedMethods
  <2>1. call.serial \in Serials
    BY <1>1
  <2>2. AnswersWithNames(msg, call)
    BY <1>1, <2>1, ReplyContents
  <2> QED BY <1>1, <2>2 DEF AnswersWithNames
<1>3. IsHostpass => bus = "host"
  BY <1>1 DEF HostpassStaysOnHost, Bus
<1>4. NameTracking'
  BY <1>1, <1>2, AnswerKeepsTracking
<1>5. Expected(call, bus)
  BY <1>1, AnswersExpectedCalls DEF NameTracking, ExpectedOnWire
<1>6. ASSUME NEW r \in received', r \notin received, r.from \in Bus
      PROVE  NamesShown(r)
  <2>1. KeepsSender(r) \/ Resolves(r, r.shown.sender, r.raw.sender)
    BY <1>1, <1>2, <1>3, <1>6, SenderResolves DEF NameTracking
  <2>2. r.from = bus /\ r.raw = msg
    BY <1>1, <1>6, NewlyReceived
  <2>3. ASSUME NEW i \in DOMAIN msg.body
        PROVE  Resolves(r, r.shown.body[i], msg.body[i])
    <3>1. /\ msg \in Message /\ msg.body \in Seq(Name)
          /\ msg.body[i] \in Name /\ RealUnique(msg.body[i])
      <4>1. msg \in Message /\ RealUnique(msg.body[i])
        BY <1>2, <2>3 DEF RealMessage
      <4>2. msg.body \in Seq(Name)
        BY <4>1 DEF Message
      <4> QED BY <2>3, <4>1, <4>2, ElementOfSeq
    <3>2. msg.body # <<>>
      BY <2>3, <3>1
    <3>3. ~IsMergeReply(msg) /\ r.shown =
            PrepareMessageForClient(msg, bus, pending_calls[serial])
      <4>1. ~IsIncomingServiceCall(msg, bus)
        BY <1>2 DEF IsIncomingServiceCall
      <4>2. msg.type = "return"
        BY <1>2, <3>2
      <4>3. ~IsMergeReply(msg) /\ r.shown =
              RewriteMethodReturnBody(SenderToClient(msg, bus), bus,
                IF msg.reply_serial \in Serials
                THEN pending_calls[msg.reply_serial] ELSE NoCall)
        BY <1>1, <1>6, <4>1, <4>2, NewlyReceived
      <4> QED BY <1>2, <4>2, <4>3 DEF PrepareMessageForClient
    <3>4. CASE call.member \in NeedsResponseRewrite
      <4>1. pending_calls[serial] = [bus |-> bus, member |-> call.member]
        BY <1>1, <1>2, <1>5, <3>2, <3>4 DEF Expected
      <4>2. r.shown.body[i] = ToFakeName(msg.body[i], bus)
        <5>1. PICK known : known = pending_calls[serial]
          OBVIOUS
        <5>2. known.bus = bus /\ known.member \in NeedsResponseRewrite
          BY <3>4, <4>1, <5>1
        <5>3. msg.type = "return" /\ msg \in Message /\ i \in DOMAIN msg.body
          BY <1>2, <2>3, <3>1, <3>2
        <5>4. PrepareMessageForClient(msg, bus, known).body[i]
                = ToFakeName(msg.body[i], bus)
          BY <5>2, <5>3, AnswerRewritten
        <5> QED BY <3>3, <5>1, <5>4
      <4> QED BY <1>3, <2>2, <3>1, <4>2, ShownNameLeadsBack DEF Resolves
    <3>5. CASE call.member \in MergedMethods
      <4>1. ~pending_merges[serial].open
        BY <1>2, <3>3 DEF IsMergeReply
      <4>2. IsHostpass
        BY <1>1, <1>2, <1>5, <3>2, <3>5, <4>1 DEF Expected
      <4>3. r.shown.body[i] \in {msg.body[i], ToFakeName(msg.body[i], bus)}
        <5>1. PICK known : known = pending_calls[serial]
          OBVIOUS
        <5>2. CASE known.bus = bus /\ known.member \in NeedsResponseRewrite
          <6>1. msg.type = "return" /\ msg \in Message /\ i \in DOMAIN msg.body
            BY <1>2, <2>3, <3>1, <3>2
          <6>2. PrepareMessageForClient(msg, bus, known).body[i]
                  = ToFakeName(msg.body[i], bus)
            BY <5>2, <6>1, AnswerRewritten
          <6> QED BY <3>3, <5>1, <6>2
        <5>3. CASE ~(known.bus = bus /\ known.member \in NeedsResponseRewrite)
          <6>1. r.shown = SenderToClient(msg, bus)
            BY <1>2, <3>2, <3>3, <5>1, <5>3
            DEF PrepareMessageForClient, RewriteMethodReturnBody
          <6> QED BY <3>1, <6>1 DEF SenderToClient, Message
        <5> QED BY <5>2, <5>3
      <4> QED
        BY <1>3, <2>2, <3>1, <4>2, <4>3, ShownNameLeadsBack DEF Resolves
    <3> QED BY <1>2, <3>2, <3>4, <3>5
  <2> QED BY <2>1, <2>2, <2>3 DEF NamesShown
<1> QED BY <1>4, <1>6 DEF StepShows

\* Every unique name the client is shown as a sender, as the answer to Hello
\* or to the lookup of an owner, or as an owner in NameOwnerChanged leads back
\* to the connection it names, whatever order the buses reply in.
THEOREM ShownNamesLeadBack ==
  BusNamesAreReal /\ RequestsAreRegular => (Spec => []ShownNamesResolve)
<1> SUFFICES ASSUME BusNamesAreReal, RequestsAreRegular
             PROVE  Spec => []ShownNamesResolve
  OBVIOUS
<1>1. Init => NameTracking /\ ShownNamesResolve
  BY DEF Init, NameTracking, AnswersExpected, MergesHalfDone, NoMerge,
         ShownNamesResolve
<1>2. TypeOK /\ HostpassStaysOnHost /\ NameTracking /\ ShownNamesResolve
        /\ [Next]_vars => NameTracking' /\ ShownNamesResolve'
  <2> SUFFICES ASSUME TypeOK, HostpassStaysOnHost, NameTracking,
                      ShownNamesResolve, [Next]_vars
               PROVE  NameTracking' /\ ShownNamesResolve'
    OBVIOUS
  <2>1. ASSUME StepShows PROVE NameTracking' /\ ShownNamesResolve'
    BY <2>1 DEF StepShows, ShownNamesResolve, NamesShown
  <2>2. CASE /\ UNCHANGED <<pending_calls, pending_merges, exported_services,
                            sent, received, next_serial, answered>>
    BY <2>2 DEF NameTracking, AnswersExpected, MergesHalfDone,
                ShownNamesResolve
  <2>3. ASSUME NameTracking', UNCHANGED received
        PROVE  NameTracking' /\ ShownNamesResolve'
    BY <2>3 DEF ShownNamesResolve
  <2>4. CASE ClientSends \/ ClientReplies
    <3>1. UNCHANGED received
      BY <2>4 DEF ClientSends, ClientReplies, HandleClientMessage
    <3> QED BY <2>3, <2>4, <3>1, RequestKeepsTracking, ReplyKeepsTracking
  <2>5. ASSUME NEW bus \in Bus,
               \/ \E serial \in Serials : BusAnswers(bus, serial)
               \/ PeerCalls(bus)
               \/ BusSignal(bus)
        PROVE  NameTracking' /\ ShownNamesResolve'
    BY <2>1, <2>5, ReplyShows, PeerCallShows, SignalShows
  <2>6. ASSUME NEW bus \in Bus, BusGoesAway(bus)
        PROVE  NameTracking' /\ ShownNamesResolve'
    BY <2>2, <2>6 DEF BusGoesAway, tables, services
  <2>7. CASE \/ ClientLeaves \/ ReadClientOrHostEof \/ ReadSandboxEof
             \/ UNCHANGED vars
    BY <2>2, <2>7 DEF ClientLeaves, ReadClientOrHostEof, ReadSandboxEof, vars,
                      tables, services, outside
  <2> QED BY <2>4, <2>5, <2>6, <2>7 DEF Next
<1> QED BY <1>1, <1>2, TypeCorrect, HostpassStays, PTL DEF Spec
=============================================================================
