------------------------- MODULE SessionProperties --------------------------
(***************************************************************************)
(* What a client session must get right, as properties of module Session.  *)
(***************************************************************************)
EXTENDS Session

\* Every table of the session holds entries of the shape session.rs gives it:
\* a serial maps to at most one bus, call or merge.
TypeOK ==
  /\ pending_calls \in [Serials -> [bus : Bus \cup {NoBus}, member : Text]]
  /\ incoming_calls \in [Serials -> Bus \cup {NoBus}]
  /\ pending_merges \in [Serials -> [open : BOOLEAN, bus : Bus \cup {NoBus},
                                      names : Seq(Name)]]
  /\ sandbox_active \in BOOLEAN /\ running \in BOOLEAN
  /\ client_up \in BOOLEAN /\ up \in [Bus -> BOOLEAN]
  /\ next_serial \in 1..(MaxSerial + 1)

-----------------------------------------------------------------------------
(* Hostpass clients.                                                         *)

\* "Hostpass clients only ever use the host bus" (forward_loop): nothing a
\* hostpass client sends is ever written to the sandbox bus, its replies
\* included, which leave through incoming_calls and not through the routing.
HostpassUsesHostOnly == IsHostpass => sent["sandbox"] = {}

\* What keeps it so: a hostpass session never comes to hold anything that
\* would send a later reply to the sandbox bus.
HostpassStaysOnHost ==
  IsHostpass =>
    /\ sent["sandbox"] = {}
    /\ sandbox_services = {}
    /\ \A s \in Serials : incoming_calls[s] # "sandbox"

\* "... so they outlive the sandbox bus going away": a hostpass session ends
\* only when the client or the host bus has gone.
HostpassOutlivesSandbox ==
  [][IsHostpass /\ running /\ ~running' => ~client_up \/ ~up["host"]]_vars

-----------------------------------------------------------------------------
(* Calls from the buses into the client.                                     *)

\* "A MethodReturn/Error answering a call that came IN from a bus goes
\* straight back to that bus, with the fake unique name in its destination
\* undone" (forward_reply_to_caller): whatever the client replies to a call it
\* was handed is written to the bus of the call, addressed to the caller.
RepliesReachTheirCaller ==
  \A bus \in Bus : \A e \in sent[bus] : \A call \in e.answers :
    call.from = bus /\ e.wire.dest = call.raw.sender

\* The reply can find its way for as long as it is owed: the client sees the
\* caller of an unanswered call under a name that leads back to the bus of the
\* call, or incoming_calls still says which bus that is.
UnansweredCallsAreTracked ==
  running => \A call \in CallsTaken \ CallsReplied :
    IF incoming_calls[call.raw.serial] = NoBus
    THEN \/ GetBusFromFakeName(call.shown.sender) = call.from
         \/ IsHostpass /\ call.from = "host"
    ELSE incoming_calls[call.raw.serial] = call.from

\* When replies find their way.  Callers are real unique names, one record
\* each.  For a hostpass client, all of them are on the host bus; for any
\* other, a host caller shares no serial with another caller, on either bus.
CallersApart ==
  /\ \A c \in Callers : /\ IsUniqueName(c.name) /\ c.name.path # <<>>
                        /\ ~IsFakeUniqueName(c.name)
  /\ \A c, d \in Callers : c.bus = d.bus /\ c.name = d.name => c = d
  /\ IF IsHostpass THEN \A c \in Callers : c.bus = "host"
     ELSE \A c, d \in Callers : c # d /\ c.bus = "host" =>
                                 c.serials \cap d.serials = {}

\* The inductive invariant behind it.  What the client holds of a call leads
\* back to its caller, but for a host call to a tracked service its bus ...
CallsLeadBack ==
  \A r \in CallsTaken :
    /\ \E c \in Callers : /\ c.bus = r.from /\ c.name = r.raw.sender
                          /\ r.raw.serial \in c.serials
    /\ r.shown.serial = r.raw.serial
    /\ RealName(r.shown.sender) = r.raw.sender
    /\ \/ GetBusFromFakeName(r.shown.sender) = r.from
       \/ r.from = "host" /\ GetBusFromFakeName(r.shown.sender) = NoBus
\* ... a call is handed over once ...
CallsTakenOnce ==
  \A r, q \in CallsTaken :
    /\ r.from = q.from /\ r.raw.sender = q.raw.sender
    /\ r.raw.serial = q.raw.serial
    => r = q
\* ... incoming_calls only knows serials of callers on the bus it names ...
IncomingFromCallers ==
  \A s \in Serials : incoming_calls[s] # NoBus =>
    \E c \in Callers : c.bus = incoming_calls[s] /\ s \in c.serials
\* ... and has the bus of each call whose sender does not tell it.
HostCallsTracked ==
  running /\ ~IsHostpass =>
    \A r \in CallsTaken \ CallsReplied :
      GetBusFromFakeName(r.shown.sender) = NoBus =>
        incoming_calls[r.raw.serial] = "host"

CallTracking == /\ CallsLeadBack /\ CallsTakenOnce
                /\ IncomingFromCallers /\ HostCallsTracked
                /\ RepliesReachTheirCaller

\* The same as a refinement: seen from the buses, the session implements
\* CallRelay, with a reply told by the address that was written on it.
CallId(bus, caller, serial) ==
  [bus |-> bus, caller |-> caller, serial |-> serial]

RepliesWritten ==
  UNION {{CallId(bus, e.wire.dest, e.wire.reply_serial) :
            e \in {x \in sent[bus] : x.answers # {}}} : bus \in Bus}
CallsHandedOver ==
  {CallId(r.from, r.raw.sender, r.raw.serial) : r \in CallsTaken}

Relay ==
  INSTANCE CallRelay WITH
    Calls   <- UNION {{CallId(c.bus, c.name, s) : s \in c.serials} :
                         c \in Callers},
    pending <- CallsHandedOver \ RepliesWritten,
    replied <- RepliesWritten

RelaysCalls == Relay!Spec

\* What the refinement needs on top of CallTracking: a reply written to a bus
\* is the reply to one call the client holds, under the serial of that call.
RepliesAreOfCalls ==
  \A bus \in Bus : \A e \in sent[bus] : e.answers # {} =>
    \E call \in CallsTaken : /\ e.answers = {call}
                             /\ call.from = bus
                             /\ e.wire.dest = call.raw.sender
                             /\ e.wire.reply_serial = call.raw.serial

-----------------------------------------------------------------------------
(* Merged listings.                                                          *)

NamesOf(seq) == {seq[i] : i \in DOMAIN seq}

\* ListNames and ListActivatableNames get one answer, no sooner than both
\* buses have replied, and it holds exactly the names both replied with, each
\* once and each unique name under the prefix of its own bus, in whatever
\* order the replies came (process_merge_response).
MergedListsAreComplete ==
  \A r \in received : r.from = "router" =>
    LET s == r.shown.reply_serial
        repliesOf(bus) == {a \in answered[bus] : a.reply_serial = s}
        namesFrom(bus) == UNION {NamesOf(a.body) : a \in repliesOf(bus)}
    IN  /\ \A q \in received : q.shown.reply_serial = s => q = r
        /\ \A bus \in Bus : repliesOf(bus) # {}
        /\ NamesOf(r.shown.body) =
             UNION {{ToFakeName(n, bus) : n \in namesFrom(bus)} : bus \in Bus}
        /\ IsInjective(r.shown.body)

\* What the buses may send for that: a signal answers no call.
SignalsAnswerNothing ==
  \A bus \in Bus : \A m \in BusSignals[bus] : m.reply_serial = 0

\* The inductive invariant behind it.  A bus answers a call once, after it was
\* made ...
AnsweredOnce ==
  /\ DOMAIN answered = Bus
  /\ \A bus \in Bus :
       /\ \A e \in sent[bus] : e.wire.type = "call" =>
            e.wire.serial \in 1..(next_serial - 1)
       /\ \A a \in answered[bus] :
            /\ a.reply_serial \in 1..(next_serial - 1)
            /\ a.body \in Seq(Name) /\ NamesIn(a) = a.body
            /\ \A b \in answered[bus] : b.reply_serial = a.reply_serial => b = a
\* ... what the client is shown answers a message it has sent, or nothing ...
ShownAnswersSent ==
  \A r \in received : r.shown.reply_serial \in 0..(next_serial - 1)
\* ... and as long as a listing is open, the client has seen no answer and
\* pending_merges has what there is: the reply of the bus it names, or none.
OpenMerges ==
  \A s \in Serials : pending_merges[s].open =>
    LET first == pending_merges[s]
    IN  /\ \A r \in received : r.shown.reply_serial # s
        /\ \A bus \in Bus : \A a \in answered[bus] : a.reply_serial = s =>
             first.bus = bus /\ first.names = a.body
        /\ first.bus # NoBus =>
             \E a \in answered[first.bus] : a.reply_serial = s

MergeTracking == /\ AnsweredOnce /\ ShownAnswersSent /\ OpenMerges
                 /\ MergedListsAreComplete

\* A listing is never left half done: once asked for, the client gets the
\* merged answer or the session ends.
ListingsAreAnswered ==
  \A s \in Serials :
    pending_merges[s].open ~>
      \/ ~running \/ ~client_up
      \/ \E r \in received : r.from = "router" /\ r.shown.reply_serial = s

-----------------------------------------------------------------------------
(* Names.                                                                    *)

\* Where a message the client addresses to name would go, and to whom.
LeadsTo(name, bus, real) ==
  /\ RouteRequest([NoMessage EXCEPT !.dest = name]) = Single(bus)
  /\ RealName(name) = real

\* A unique name a bus sent, as the client was shown it.
Resolves(r, shown, raw) == IsUniqueName(raw) => LeadsTo(shown, r.from, raw)

\* A host peer's call to a service of the client keeps the caller's own name.
KeepsSender(r) == /\ r.raw.type = "call" /\ r.from = "host"
                  /\ ~IsUniqueName(r.raw.dest)

\* The unique names the client is shown as the sender of a message, as the
\* answer to Hello, GetNameOwner or ListQueuedOwners, and as the owners in
\* NameOwnerChanged lead back to the connection they name on the bus it is
\* on; a reply is never rewritten as the answer to another call, whatever
\* order the buses reply in.
ShownNamesResolve ==
  \A r \in received : r.from \in Bus =>
    /\ KeepsSender(r) \/ Resolves(r, r.shown.sender, r.raw.sender)
    /\ \A i \in DOMAIN r.raw.body :
         \/ r.raw.type = "return"
         \/ r.raw.member = "NameOwnerChanged" /\ i > 1
         => Resolves(r, r.shown.body[i], r.raw.body[i])

\* When the names the client is shown lead back.  Names on a bus are real:
\* none starts like a fake one.  A signal answers nothing, NameOwnerChanged has
\* its three arguments, and a hostpass client, which never says Hello to the
\* sandbox bus, hears nothing from it.
RealUnique(name) ==
  IsUniqueName(name) => name.path # <<>> /\ ~IsFakeUniqueName(name)

BusNamesAreReal ==
  /\ \A c \in Callers : RealUnique(c.name) /\ (IsHostpass => c.bus = "host")
  /\ IsHostpass => BusSignals["sandbox"] = {}
  /\ SignalsAnswerNothing
  /\ \A bus \in Bus :
       /\ RealUnique(ClientName[bus])
       /\ \A i \in DOMAIN Directory[bus] :
            RealUnique(Directory[bus][i].name) /\ RealUnique(Directory[bus][i].owner)
       /\ \A m \in BusSignals[bus] :
            /\ RealUnique(m.sender)
            /\ \A i \in DOMAIN m.body : RealUnique(m.body[i])
            /\ m.member = "NameOwnerChanged" => Len(m.body) = 3

\* The client asks for well-known names only, and says the interface when it
\* asks for a listing: route_dbus_method merges no listing without it.
RequestsAreRegular ==
  \A m \in ClientRequests :
    /\ IsRequestName(m) /\ m.body # <<>> => ~IsUniqueName(m.body[1])
    /\ m.dest = DBusName /\ m.member \in MergedMethods => m.iface = DBusName

\* The inductive invariant behind it.  A call to the bus whose answer is a
\* name is remembered under the one bus it went to, and a listing stays open
\* until both buses have answered it, so neither answer is ever forwarded.
AnswersExpected ==
  \A bus \in Bus : \A call \in {e.wire : e \in sent[bus]} :
    call.type = "call" =>
      /\ call.serial \in 1..(next_serial - 1)
      /\ call.dest = DBusName /\ call.member \in NeedsResponseRewrite =>
           pending_calls[call.serial] = [bus |-> bus, member |-> call.member]
      /\ call.dest = DBusName /\ call.member \in MergedMethods /\ ~IsHostpass =>
           \/ pending_merges[call.serial].open
           \/ \E reply \in answered[bus] : reply.reply_serial = call.serial
MergesHalfDone ==
  \A s \in Serials : pending_merges[s].open /\ pending_merges[s].bus # NoBus =>
    \E reply \in answered[pending_merges[s].bus] : reply.reply_serial = s

NameTracking == /\ \A name \in exported_services : ~IsUniqueName(name)
                /\ DOMAIN answered = Bus
                /\ AnswersExpected /\ MergesHalfDone

\* NameOwnerChanged "Rewrites unique names in body" (docs/gap-analysis.md):
\* all three of its names lead where they came from.
OwnerChangesResolve ==
  \A r \in received : r.raw.member = "NameOwnerChanged" =>
    \A i \in DOMAIN r.raw.body : Resolves(r, r.shown.body[i], r.raw.body[i])

\* A fake name the client uses, in the destination, in the first argument of
\* a bus method or as the sender of a match rule, reaches the bus it stands
\* for and no other, with the prefix gone.
Translated(orig, wire, bus) ==
  IsFakeUniqueName(orig) => /\ GetBusFromFakeName(orig) = bus
                            /\ wire = FromFakeName(orig)

FakeNamesReachTheirBus ==
  \A bus \in Bus : \A e \in sent[bus] :
    /\ Translated(e.orig.dest, e.wire.dest, bus)
    /\ \A i \in DOMAIN e.orig.body :
         Translated(e.orig.body[i], e.wire.body[i], bus)
    /\ \A i \in DOMAIN e.orig.rules :
         Translated(e.orig.rules[i].sender, e.wire.rules[i].sender, bus)

\* When they do.  The client uses fake names where the code undoes them:
\* as the destination, as the argument of a method in NeedsRequestRewrite, as
\* the quoted sender of a match rule; and a hostpass client, which is never
\* shown a name of the sandbox bus, uses none.
FakeNamesInPlace ==
  \A m \in ClientRequests :
    /\ \A i \in DOMAIN m.body : IsFakeUniqueName(m.body[i]) =>
         /\ i = 1 /\ m.dest = DBusName /\ m.iface = DBusName
         /\ m.member \in NeedsRequestRewrite
    /\ \A i \in DOMAIN m.rules : IsFakeUniqueName(m.rules[i].sender) =>
         /\ i = 1 /\ m.dest = DBusName /\ m.iface = DBusName
         /\ m.member \in MatchMethods /\ m.rules[1].quoted
    /\ IsHostpass =>
         /\ GetBusFromFakeName(m.dest) # "sandbox"
         /\ \A i \in DOMAIN m.body : GetBusFromFakeName(m.body[i]) # "sandbox"
         /\ \A i \in DOMAIN m.rules :
              GetBusFromFakeName(m.rules[i].sender) # "sandbox"
=============================================================================
