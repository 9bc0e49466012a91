------------------------------ MODULE Routing -------------------------------
(***************************************************************************)
(* Which bus a client's message goes to: routing.rs, the method table of   *)
(* dbus/daemon.rs and the host_routes of config.rs.                        *)
(*                                                                         *)
(* A message is a record                                                   *)
(*   type          "call", "return", "error" or "signal"                   *)
(*   serial        its serial number                                       *)
(*   reply_serial  the serial it answers, 0 when it answers none           *)
(*   sender, dest, iface   header fields, NoName when absent               *)
(*   member        "" when absent                                          *)
(*   body          the strings of the body, in order                       *)
(*   rules         <<r>> when the body is the match rule r, <<>> otherwise *)
(* and a match rule is [sender, quoted, iface], quoted telling             *)
(* sender='x' from sender=x.                                               *)
(***************************************************************************)
EXTENDS FakeName

CONSTANTS HostRoutes,   \* config.host_routes: set of [path, wildcard]
          IsHostpass    \* config.has_hostpass(the client's executable)

ASSUME RoutingAssumption ==
  /\ HostRoutes \subseteq [path : Seq(Text), wildcard : BOOLEAN]
  /\ IsHostpass \in BOOLEAN

MatchRule == [sender : Name, quoted : BOOLEAN, iface : Name]

Message ==
  [type : {"call", "return", "error", "signal"}, serial : Nat,
   reply_serial : Nat, sender : Name, dest : Name, iface : Name,
   member : Text, body : Seq(Name), rules : Seq(MatchRule)]

NoMessage == [type |-> "call", serial |-> 0, reply_serial |-> 0,
              sender |-> NoName, dest |-> NoName, iface |-> NoName,
              member |-> "", body |-> <<>>, rules |-> <<>>]

-----------------------------------------------------------------------------
\* config.rs: "org.foo.*" matches org.foo and everything below it.
Matches(rule, name) ==
  IF rule.wildcard
  THEN /\ Len(rule.path) <= Len(name.path)
       /\ SubSeq(name.path, 1, Len(rule.path)) = rule.path
  ELSE rule.path = name.path

ShouldRouteToHost(name) ==
  \E rule \in HostRoutes : ~IsUniqueName(name) /\ Matches(rule, name)

-----------------------------------------------------------------------------
\* Option<RouteDecision>.
Single(bus) == [kind |-> "single", bus |-> bus]
Both        == [kind |-> "both",   bus |-> NoBus]
Merge       == [kind |-> "merge",  bus |-> NoBus]

MergedMethods  == {"ListNames", "ListActivatableNames"}
MatchMethods   == {"AddMatch", "RemoveMatch"}
\* ByName methods whose argument is looked up in host_routes ...
ConfigMethods  == {"RequestName", "ReleaseName", "GetNameOwner",
                   "NameHasOwner", "StartServiceByName"}
\* ... and those whose argument may be a fake unique name.
FakeArgMethods == {"GetNameOwner", "NameHasOwner", "StartServiceByName",
                   "GetConnectionCredentials", "GetConnectionUnixUser",
                   "GetConnectionUnixProcessID",
                   "GetConnectionSELinuxSecurityContext",
                   "GetAdtAuditSessionData"}

ExtractServiceFromInterface(iface) == WellKnownName(SubSeq(iface.path, 1, 3))

RouteMatchRule(rule) ==
  IF IsFakeUniqueName(rule.sender)
  THEN Single(GetBusFromFakeName(rule.sender))
  ELSE IF \/ ShouldRouteToHost(rule.sender)
          \/ /\ Len(rule.iface.path) >= 3
             /\ ShouldRouteToHost(ExtractServiceFromInterface(rule.iface))
  THEN Single("host")
  ELSE Both

\* Mutant: the fake prefix is not looked at.
RouteByNameConfigOnly(member, name) ==
  IF member \in ConfigMethods /\ ShouldRouteToHost(name)
  THEN Single("host")
  ELSE Single("sandbox")

RouteByName(member, name) ==
  IF member \in FakeArgMethods /\ IsFakeUniqueName(name)
  THEN Single(GetBusFromFakeName(name))
  ELSE IF member \in ConfigMethods /\ ShouldRouteToHost(name)
  THEN Single("host")
  ELSE Single("sandbox")

RouteDBusMethod(msg) ==
  CASE msg.member \in MergedMethods -> Merge
    [] msg.member \in MatchMethods /\ msg.rules # <<>> ->
         RouteMatchRule(msg.rules[1])
    [] msg.member \in ConfigMethods \cup FakeArgMethods /\ msg.body # <<>> ->
         RouteByName(msg.member, msg.body[1])
    [] OTHER -> Single("sandbox")

\* Mutant: the bus daemon's methods are special before hostpass is looked at.
RouteRequestDaemonFirst(msg) ==
  IF msg.dest = DBusName /\ msg.iface = DBusName THEN RouteDBusMethod(msg)
  ELSE IF IsHostpass \/ ShouldRouteToHost(msg.dest) THEN Single("host")
  ELSE Single("sandbox")

RouteRequest(msg) ==
  IF IsHostpass THEN Single("host")
  ELSE IF IsFakeUniqueName(msg.dest)
  THEN Single(GetBusFromFakeName(msg.dest))
  ELSE IF msg.dest = DBusName /\ msg.iface = DBusName
  THEN RouteDBusMethod(msg)
  ELSE IF ShouldRouteToHost(msg.dest)
  THEN Single("host")
  ELSE Single("sandbox")
=============================================================================
