--------------------------- MODULE SessionProofs ----------------------------
(***************************************************************************)
(* Theorems about one session, for every routing configuration, client,    *)
(* set of callers and directory of names.                                  *)
(***************************************************************************)
EXTENDS SessionProperties, SequenceTheorems, TLAPS

-----------------------------------------------------------------------------
(* Fake names.                                                               *)

LEMMA BusesDiffer == "host" # "sandbox" /\ NoBus \notin Bus
BY DEF Bus, NoBus

\* Adding the prefix of a bus gives a name that tells the bus and from which
\* the real name can be recovered, whatever the real name looks like.
THEOREM FakeNameRoundTrip ==
  ASSUME NEW name \in Name, NEW bus \in Bus,
         IsUniqueName(name), name.path # <<>>
  PROVE  /\ GetBusFromFakeName(ToFakeName(name, bus)) = bus
         /\ RealName(ToFakeName(name, bus)) = name
<1> DEFINE fake == <<FakePrefix(bus)>> \o name.path
<1>1. name.path \in Seq(Text)
  BY DEF Name
<1>2. FakePrefix(bus) \in Text
  BY TextAssumption DEF FakePrefix
<1>3. Len(name.path) \in Nat /\ Len(name.path) >= 1
  BY <1>1, EmptySeq
<1>4. /\ fake \in Seq(Text) /\ Len(fake) = Len(name.path) + 1
      /\ fake[1] = FakePrefix(bus)
      /\ \A i \in 1..Len(name.path) : fake[i + 1] = name.path[i]
  BY <1>1, <1>2, <1>3
<1>5. Head(fake) = FakePrefix(bus) /\ Tail(fake) = name.path
  BY <1>1, <1>2, <1>3, <1>4
<1>6. ToFakeName(name, bus) = UniqueName(fake)
  BY DEF ToFakeName
<1>7. GetBusFromFakeName(UniqueName(fake)) = bus
  BY <1>3, <1>4, <1>5
  DEF GetBusFromFakeName, IsUniqueName, UniqueName, FakePrefix, Bus
<1>8. FromFakeName(UniqueName(fake)) = name
  <2>1. FromFakeName(UniqueName(fake)) = UniqueName(name.path)
    BY <1>5 DEF FromFakeName, UniqueName
  <2>2. UniqueName(name.path) = name
    BY DEF UniqueName, Name, IsUniqueName
  <2> QED BY <2>1, <2>2
<1> QED
  BY <1>6, <1>7, <1>8, BusesDiffer DEF RealName, IsFakeUniqueName

-----------------------------------------------------------------------------
(* Types.                                                                    *)

LEMMA EmptyValues ==
  /\ NoName \in Name /\ DBusName \in Name /\ "" \in Text
  /\ NoMessage.member = "" /\ NoMessage.body = <<>>
<1>1. <<>> \in Seq(Text) /\ <<"org", "freedesktop", "DBus">> \in Seq(Text)
  <2>1. "org" \in Text /\ "freedesktop" \in Text /\ "DBus" \in Text
    BY TextAssumption
  <2> QED BY <2>1
<1>2. NoName \in Name /\ DBusName \in Name
  BY <1>1 DEF NoName, DBusName, WellKnownName, Name
<1>3. "" \in Text
  BY TextAssumption
<1>4. NoMessage.member = "" /\ NoMessage.body = <<>>
  BY DEF NoMessage
<1> QED BY <1>2, <1>3, <1>4

MergeEntry == [open : BOOLEAN, bus : Bus \cup {NoBus}, names : Seq(Name)]

LEMMA MergeEntries ==
  /\ NoMerge \in MergeEntry
  /\ [NoMerge EXCEPT !.open = TRUE] \in MergeEntry
  /\ \A bus \in Bus, names \in Seq(Name) :
       [open |-> TRUE, bus |-> bus, names |-> names] \in MergeEntry
<1>1. <<>> \in Seq(Name)
  OBVIOUS
<1> QED BY <1>1 DEF MergeEntry, NoMerge

LEMMA ClientStepTypes ==
  ASSUME TypeOK, NEW msg, NEW answers, msg.member \in Text,
         HandleClientMessage(msg, answers)
  PROVE  TypeOK'
<1>1. /\ UNCHANGED <<sandbox_active, client_up, up>>
      /\ next_serial' \in 1..(MaxSerial + 1)
  BY SessionAssumption DEF HandleClientMessage, TypeOK, Serials
<1>2. /\ running' \in BOOLEAN
      /\ incoming_calls' \in [Serials -> Bus \cup {NoBus}]
  BY DEF HandleClientMessage, TypeOK, ForwardReplyToCaller,
         RouteClientMessage, ForwardToBus, ForwardToBoth, ForwardForMerge,
         WriteUpstream
<1>3. pending_calls' \in [Serials -> [bus : Bus \cup {NoBus}, member : Text]]
  <2>1. CASE ForwardReplyToCaller(msg, answers)
    BY <2>1 DEF ForwardReplyToCaller, TypeOK
  <2>2. ASSUME NEW bus \in Bus, RecordCall(msg, bus)
        PROVE  pending_calls' \in
                 [Serials -> [bus : Bus \cup {NoBus}, member : Text]]
    BY <2>2 DEF RecordCall, TypeOK
  <2>3. CASE RouteClientMessage(msg, answers)
    BY <2>2, <2>3 DEF RouteClientMessage, ForwardToBus, ForwardToBoth,
                      ForwardForMerge, TypeOK, Bus
  <2> QED BY <2>1, <2>3 DEF HandleClientMessage
<1>4. pending_merges' \in [Serials -> MergeEntry]
  <2>1. CASE ForwardForMerge(msg)
    BY <2>1, MergeEntries DEF ForwardForMerge, TypeOK, MergeEntry
  <2>2. CASE UNCHANGED pending_merges
    BY <2>2 DEF TypeOK, MergeEntry
  <2> QED
    BY <2>1, <2>2 DEF HandleClientMessage, ForwardReplyToCaller,
                      RouteClientMessage, ForwardToBus, ForwardToBoth
<1> QED BY <1>1, <1>2, <1>3, <1>4 DEF TypeOK, MergeEntry

LEMMA UpstreamStepTypes ==
  ASSUME TypeOK, NEW bus \in Bus, NEW msg, NamesIn(msg) \in Seq(Name),
         HandleUpstreamMessage(msg, bus)
  PROVE  TypeOK'
<1>1. UNCHANGED <<pending_calls, sandbox_active, next_serial, client_up, up>>
  BY DEF HandleUpstreamMessage
<1>2. running' \in BOOLEAN
  BY DEF HandleUpstreamMessage, TypeOK, TakeServiceCall, AwaitOtherReply,
         CompleteMerge, ForwardToClient, WriteClient
<1>3. incoming_calls' \in [Serials -> Bus \cup {NoBus}]
  BY DEF HandleUpstreamMessage, TypeOK, TakeServiceCall, AwaitOtherReply,
         CompleteMerge, ForwardToClient
<1>4. pending_merges' \in [Serials -> MergeEntry]
  <2>1. CASE AwaitOtherReply(msg, bus)
    BY <2>1, MergeEntries DEF AwaitOtherReply, TypeOK, MergeEntry
  <2>2. CASE CompleteMerge(msg, bus)
    BY <2>2, MergeEntries DEF CompleteMerge, TypeOK, MergeEntry
  <2>3. CASE UNCHANGED pending_merges
    BY <2>3 DEF TypeOK, MergeEntry
  <2> QED
    BY <2>1, <2>2, <2>3
    DEF HandleUpstreamMessage, TakeServiceCall, ForwardToClient
<1> QED BY <1>1, <1>2, <1>3, <1>4 DEF TypeOK, MergeEntry

LEMMA DirectoryEntries ==
  ASSUME NEW bus \in Bus
  PROVE  /\ Len(Directory[bus]) \in Nat
         /\ DOMAIN Directory[bus] = 1..Len(Directory[bus])
         /\ \A i \in DOMAIN Directory[bus] : /\ Directory[bus][i].name \in Name
                                            /\ Directory[bus][i].owner \in Name
<1> DEFINE Entry == [name : Name, owner : Name]
<1>1. Directory[bus] \in Seq(Entry)
  BY SessionAssumption
<1> HIDE DEF Entry
<1>2. /\ Len(Directory[bus]) \in Nat
      /\ DOMAIN Directory[bus] = 1..Len(Directory[bus])
  BY <1>1, LenProperties
<1>3. \A i \in 1..Len(Directory[bus]) : Directory[bus][i] \in Entry
  BY <1>1, ElementOfSeq
<1> QED BY <1>2, <1>3 DEF Entry

\* What a bus lists or looks up is made of names.
LEMMA ReplyNames ==
  ASSUME NEW bus \in Bus, NEW call, NEW reply \in Replies(bus, call)
  PROVE  NamesIn(reply) \in Seq(Name)
<1>1. ListedNames(bus) \in Seq(Name)
  <2> DEFINE entries == Directory[bus]
  <2>1. ListedNames(bus) \in [1..Len(entries) -> Name]
    BY DirectoryEntries DEF ListedNames
  <2> QED BY <2>1, DirectoryEntries, SeqDef
<1>2. ASSUME NEW name PROVE OwnerOf(bus, name) \in Name
  <2>1. ClientName[bus] \in Name /\ NoName \in Name
    BY SessionAssumption, EmptyValues
  <2> QED BY <2>1, DirectoryEntries DEF OwnerOf
<1>3. ASSUME NEW type, NEW sender, NEW body \in Seq(Name)
      PROVE  NamesIn(Reply(bus, call, type, sender, body)) \in Seq(Name)
  BY DEF NamesIn, Reply, NoMessage
<1>4. \E type, sender : \E body \in Seq(Name) :
        reply = Reply(bus, call, type, sender, body)
  <2>1. <<>> \in Seq(Name)
    OBVIOUS
  <2>2. \A name : <<OwnerOf(bus, name)>> \in Seq(Name)
    BY <1>2
  <2>3. <<ClientName[bus]>> \in Seq(Name)
    BY SessionAssumption
  <2> QED BY <1>1, <2>1, <2>2, <2>3 DEF Replies
<1> QED BY <1>3, <1>4

THEOREM TypeCorrect == Spec => []TypeOK
<1>1. Init => TypeOK
  <2> SUFFICES ASSUME Init PROVE TypeOK
    OBVIOUS
  <2>1. pending_merges \in [Serials -> MergeEntry]
    BY MergeEntries DEF Init
  <2>2. pending_calls \in [Serials -> [bus : Bus \cup {NoBus}, member : Text]]
    BY EmptyValues DEF Init, NoCall
  <2>3. next_serial \in 1..(MaxSerial + 1)
    BY SessionAssumption DEF Init
  <2> QED BY <2>1, <2>2, <2>3 DEF Init, TypeOK, MergeEntry
<1>2. TypeOK /\ [Next]_vars => TypeOK'
  <2> SUFFICES ASSUME TypeOK, [Next]_vars PROVE TypeOK'
    OBVIOUS
  <2>1. CASE ClientSends
    <3>1. PICK m \in ClientRequests :
            HandleClientMessage([m EXCEPT !.serial = next_serial], {})
      BY <2>1 DEF ClientSends
    <3>2. [m EXCEPT !.serial = next_serial].member \in Text
      BY SessionAssumption DEF Message
    <3> QED BY <3>1, <3>2, ClientStepTypes
  <2>2. CASE ClientReplies
    <3>1. PICK call, type : HandleClientMessage(ReplyTo(call, type), {call})
      BY <2>2 DEF ClientReplies
    <3>2. ReplyTo(call, type).member \in Text
      BY EmptyValues DEF ReplyTo, NoMessage
    <3> QED BY <3>1, <3>2, ClientStepTypes
  <2>3. ASSUME NEW bus \in Bus, NEW serial \in Serials, BusAnswers(bus, serial)
        PROVE  TypeOK'
    <3>1. PICK call, reply : /\ reply \in Replies(bus, call)
                                 /\ HandleUpstreamMessage(reply, bus)
      BY <2>3 DEF BusAnswers
    <3> QED BY <3>1, ReplyNames, UpstreamStepTypes
  <2>4. ASSUME NEW bus \in Bus, PeerCalls(bus) PROVE TypeOK'
    <3>1. PICK msg : msg.body = <<>> /\ HandleUpstreamMessage(msg, bus)
      BY <2>4, EmptyValues DEF PeerCalls, NoMessage
    <3>2. NamesIn(msg) \in Seq(Name)
      BY <3>1 DEF NamesIn
    <3> QED BY <3>1, <3>2, UpstreamStepTypes
  <2>5. ASSUME NEW bus \in Bus, BusSignal(bus) PROVE TypeOK'
    <3>1. PICK signal \in BusSignals[bus] : HandleUpstreamMessage(signal, bus)
      BY <2>5 DEF BusSignal
    <3>2. NamesIn(signal) \in Seq(Name)
      BY SessionAssumption DEF NamesIn, Message
    <3> QED BY <3>1, <3>2, UpstreamStepTypes
  <2>6. CASE ClientLeaves
    BY <2>6 DEF ClientLeaves, TypeOK, tables
  <2>7. ASSUME NEW bus \in Bus, BusGoesAway(bus) PROVE TypeOK'
    BY <2>7 DEF BusGoesAway, TypeOK, tables
  <2>8. CASE ReadClientOrHostEof
    BY <2>8 DEF ReadClientOrHostEof, TypeOK, tables, outside
  <2>9. CASE ReadSandboxEof
    BY <2>9 DEF ReadSandboxEof, TypeOK, tables, outside
  <2>10. CASE UNCHANGED vars
    BY <2>10 DEF vars, TypeOK, tables, outside
  <2> QED
    BY <2>1, <2>2, <2>3, <2>4, <2>5, <2>6, <2>7, <2>8, <2>9, <2>10 DEF Next
<1> QED BY <1>1, <1>2, PTL DEF Spec

-----------------------------------------------------------------------------
(* Hostpass clients.                                                         *)

\* The three kinds of routing decision are told apart.
LEMMA DecisionsDiffer ==
  /\ \A a, b \in Bus : Single(a) = Single(b) => a = b
  /\ \A a \in Bus : Single(a) # Both /\ Single(a) # Merge
<1>1. \A a : Single(a).kind = "single" /\ Single(a).bus = a
  BY DEF Single
<1>2. Both.kind = "both" /\ Merge.kind = "merge"
  BY DEF Both, Merge
<1>3. "single" # "both" /\ "single" # "merge"
  OBVIOUS
<1> QED BY <1>1, <1>2, <1>3

\* The write of a hostpass client's message, whichever handler made it.
LEMMA HostpassClientWrite ==
  ASSUME IsHostpass, TypeOK, HostpassStaysOnHost, NEW msg, NEW answers,
         HandleClientMessage(msg, answers)
  PROVE  \E wire : WriteUpstream({"host"}, msg, wire, answers)
<1>1. CASE ForwardReplyToCaller(msg, answers)
  <2>1. /\ msg.reply_serial \in Serials
        /\ incoming_calls[msg.reply_serial] = "host"
    BY <1>1 DEF ForwardReplyToCaller, AnswersIncomingCall, TypeOK,
                HostpassStaysOnHost, Bus
  <2> QED BY <1>1, <2>1 DEF ForwardReplyToCaller
<1>2. CASE RouteClientMessage(msg, answers)
  <2>1. RouteRequest(msg) = Single("host") /\ "host" \in Bus
    BY DEF RouteRequest, Bus
  <2>2. ForwardToBus(msg, "host", answers)
    BY <1>2, <2>1, DecisionsDiffer DEF RouteClientMessage
  <2> QED BY <2>2 DEF ForwardToBus
<1> QED BY <1>1, <1>2 DEF HandleClientMessage

LEMMA HostpassClientStep ==
  ASSUME IsHostpass, TypeOK, HostpassStaysOnHost, NEW msg, NEW answers,
         HandleClientMessage(msg, answers)
  PROVE  HostpassStaysOnHost'
<1>1. sent'["sandbox"] = {}
  BY HostpassClientWrite DEF WriteUpstream, HostpassStaysOnHost, Bus
<1>2. sandbox_services' = {}
  <2>1. RouteRequest(msg) = Single("host") /\ Single("host") # Single("sandbox")
    BY DecisionsDiffer DEF RouteRequest, Bus
  <2> QED
    BY <2>1 DEF HandleClientMessage, ForwardReplyToCaller, services,
                RouteClientMessage, TrackExportedService, HostpassStaysOnHost
<1>3. \A s \in Serials : incoming_calls'[s] # "sandbox"
  BY DEF HandleClientMessage, ForwardReplyToCaller, RouteClientMessage,
         HostpassStaysOnHost, TypeOK, NoBus
<1> QED BY <1>1, <1>2, <1>3 DEF HostpassStaysOnHost

LEMMA HostpassUpstreamStep ==
  ASSUME IsHostpass, TypeOK, HostpassStaysOnHost, NEW bus \in Bus, NEW msg,
         HandleUpstreamMessage(msg, bus)
  PROVE  HostpassStaysOnHost'
<1>1. UNCHANGED <<sent, services>>
  BY DEF HandleUpstreamMessage
<1>2. CASE TakeServiceCall(msg, bus)
  <2>1. bus = "host"
    BY <1>2 DEF TakeServiceCall, IsIncomingServiceCall, HostpassStaysOnHost, Bus
  <2>2. \A s \in Serials : incoming_calls'[s] # "sandbox"
    BY <1>2, <2>1 DEF TakeServiceCall, TypeOK, HostpassStaysOnHost
  <2> QED BY <1>1, <2>2 DEF HostpassStaysOnHost, services
<1>3. CASE UNCHANGED incoming_calls
  BY <1>1, <1>3 DEF HostpassStaysOnHost, services
<1> QED
  BY <1>2, <1>3 DEF HandleUpstreamMessage, AwaitOtherReply, CompleteMerge,
                    ForwardToClient

\* Nothing a hostpass client sends, its replies included, is ever written to
\* the sandbox bus.  HostpassStaysOnHost is the inductive invariant: a reply
\* leaves through incoming_calls without being routed, so the table must
\* never name the sandbox bus, and it would if a name had been tracked there.
THEOREM HostpassStays == Spec => []HostpassStaysOnHost
<1>1. Init => HostpassStaysOnHost
  BY DEF Init, HostpassStaysOnHost, NoBus, Bus
<1>2. TypeOK /\ HostpassStaysOnHost /\ [Next]_vars => HostpassStaysOnHost'
  <2> SUFFICES ASSUME TypeOK, HostpassStaysOnHost, [Next]_vars, IsHostpass
               PROVE  HostpassStaysOnHost'
    BY DEF HostpassStaysOnHost
  <2>1. ASSUME NEW msg, NEW answers, HandleClientMessage(msg, answers)
        PROVE  HostpassStaysOnHost'
    BY <2>1, HostpassClientStep
  <2>2. ASSUME NEW bus \in Bus, NEW msg, HandleUpstreamMessage(msg, bus)
        PROVE  HostpassStaysOnHost'
    BY <2>2, HostpassUpstreamStep
  <2>3. CASE UNCHANGED <<sent, services, incoming_calls>>
    BY <2>3 DEF HostpassStaysOnHost, services
  <2>4. CASE ClientSends \/ ClientReplies
    BY <2>1, <2>4 DEF ClientSends, ClientReplies
  <2>5. ASSUME NEW bus \in Bus,
               \/ \E serial \in Serials : BusAnswers(bus, serial)
               \/ PeerCalls(bus)
               \/ BusSignal(bus)
        PROVE  HostpassStaysOnHost'
    BY <2>2, <2>5 DEF BusAnswers, PeerCalls, BusSignal
  <2>6. ASSUME NEW bus \in Bus, BusGoesAway(bus) PROVE HostpassStaysOnHost'
    BY <2>3, <2>6 DEF BusGoesAway, tables
  <2>7. CASE ClientLeaves \/ ReadClientOrHostEof \/ ReadSandboxEof
    BY <2>3, <2>7
    DEF ClientLeaves, ReadClientOrHostEof, ReadSandboxEof, tables
  <2>8. CASE UNCHANGED vars
    BY <2>3, <2>8 DEF vars, tables
  <2> QED BY <2>4, <2>5, <2>6, <2>7, <2>8 DEF Next
<1> QED BY <1>1, <1>2, TypeCorrect, PTL DEF Spec

\* The documented half of it: hostpass clients only ever use the host bus.
THEOREM HostpassOnlyHost == Spec => []HostpassUsesHostOnly
<1>1. HostpassStaysOnHost => HostpassUsesHostOnly
  BY DEF HostpassStaysOnHost, HostpassUsesHostOnly
<1> QED BY <1>1, HostpassStays, PTL

\* A hostpass session ends only when its client or the host bus has gone: the
\* loss of the sandbox bus is survived at whatever point it comes, because no
\* write of the session can fail on it.
THEOREM HostpassSurvives == Spec => HostpassOutlivesSandbox
<1> DEFINE Outlives ==
      IsHostpass /\ running /\ ~running' => ~client_up \/ ~up["host"]
<1>1. TypeOK /\ HostpassStaysOnHost /\ [Next]_vars => [Outlives]_vars
  <2> SUFFICES ASSUME TypeOK, HostpassStaysOnHost, Next,
                      IsHostpass, running, ~running'
               PROVE  ~client_up \/ ~up["host"]
    BY DEF vars
  <2>1. ASSUME NEW msg, NEW answers, HandleClientMessage(msg, answers)
        PROVE  ~up["host"]
    BY <2>1, HostpassClientWrite DEF WriteUpstream
  <2>2. ASSUME NEW bus, NEW msg, HandleUpstreamMessage(msg, bus)
        PROVE  ~client_up
    BY <2>2 DEF HandleUpstreamMessage, TakeServiceCall, AwaitOtherReply,
                CompleteMerge, ForwardToClient, WriteClient
  <2>3. CASE ClientSends \/ ClientReplies
    BY <2>1, <2>3 DEF ClientSends, ClientReplies
  <2>4. ASSUME NEW bus \in Bus,
               \/ \E serial \in Serials : BusAnswers(bus, serial)
               \/ PeerCalls(bus)
               \/ BusSignal(bus)
        PROVE  ~client_up
    BY <2>2, <2>4 DEF BusAnswers, PeerCalls, BusSignal
  <2>5. ASSUME NEW bus \in Bus, BusGoesAway(bus) PROVE FALSE
    BY <2>5 DEF BusGoesAway
  <2>6. CASE ClientLeaves
    BY <2>6 DEF ClientLeaves
  <2>7. CASE ReadClientOrHostEof
    BY <2>7 DEF ReadClientOrHostEof
  <2>8. CASE ReadSandboxEof
    BY <2>8 DEF ReadSandboxEof
  <2> QED BY <2>3, <2>4, <2>5, <2>6, <2>7, <2>8 DEF Next
<1> QED
  BY <1>1, TypeCorrect, HostpassStays, PTL DEF Spec, HostpassOutlivesSandbox
=============================================================================
