----------------------------- MODULE MCSession ------------------------------
(* Small desktops for TLC: one host service and one sandbox service, peers   *)
(* with the same unique names on both buses, and the traffic of each run.    *)
EXTENDS SessionProperties

U(n) == UniqueName(<<"1", n>>)
HostPeer    == U("7")       \* ":1.7" lives on both buses
SandboxPeer == U("7")
OtherPeer   == U("8")
Fake(n, bus) == ToFakeName(n, bus)

Fcitx == WellKnownName(<<"org", "fcitx", "Fcitx5">>)
Local == WellKnownName(<<"org", "example", "Local">>)
HostSvc  == WellKnownName(<<"org", "fcitx", "Mine">>)
LocalSvc == WellKnownName(<<"org", "example", "Mine">>)

MCText == STRING
MCHostRoutes == {[path |-> <<"org", "fcitx">>, wildcard |-> TRUE]}
NoHostRoutes == {}

MCClientName == [host |-> U("9"), sandbox |-> U("5")]
MCDirectory ==
  [host    |-> << [name |-> DBusName, owner |-> DBusName],
                  [name |-> Fcitx, owner |-> HostPeer],
                  [name |-> HostPeer, owner |-> HostPeer] >>,
   sandbox |-> << [name |-> DBusName, owner |-> DBusName],
                  [name |-> Local, owner |-> SandboxPeer],
                  [name |-> SandboxPeer, owner |-> SandboxPeer] >>]

Call(dest, iface, member, body) ==
  [NoMessage EXCEPT !.dest = dest, !.iface = iface, !.member = member,
                    !.body = body]
Daemon(member, body) == Call(DBusName, DBusName, member, body)
RuleCall(member, sender, quoted, iface) ==
  [Daemon(member, <<>>) EXCEPT
     !.rules = <<[sender |-> sender, quoted |-> quoted, iface |-> iface]>>]

-----------------------------------------------------------------------------
\* A client that only calls out.
PlainRequests ==
  { Daemon("Hello", <<>>),
    Daemon("GetNameOwner", <<Fcitx>>),
    Daemon("GetNameOwner", <<Fake(HostPeer, "host")>>),
    Daemon("GetConnectionCredentials", <<Fake(SandboxPeer, "sandbox")>>),
    Daemon("ListQueuedOwners", <<Local>>),
    RuleCall("AddMatch", NoName, TRUE, NoName),
    RuleCall("AddMatch", Fake(HostPeer, "host"), TRUE, NoName),
    Call(Fake(HostPeer, "host"), NoName, "Ping", <<>>),
    Call(Local, NoName, "Ping", <<>>) }

OwnerChanged(owner) ==
  [NoMessage EXCEPT !.type = "signal", !.sender = DBusName,
                    !.member = "NameOwnerChanged",
                    !.body = <<owner, NoName, owner>>]
ListingRequests ==
  { Daemon("ListNames", <<>>), Daemon("ListActivatableNames", <<>>),
    Daemon("GetNameOwner", <<Local>>) }

PlainSignals == [host |-> {OwnerChanged(OtherPeer)}, sandbox |-> {}]
NoSignals    == [host |-> {}, sandbox |-> {}]
NoCallers    == {}

\* A client that offers services; the numbering of the two sandbox callers
\* overlaps, that of the host caller does not.
ExportRequests ==
  { Daemon("RequestName", <<HostSvc>>),
    Daemon("RequestName", <<LocalSvc>>) }
ApartCallers ==
  { [bus |-> "host",    name |-> HostPeer,    serials |-> {1}],
    [bus |-> "sandbox", name |-> SandboxPeer, serials |-> {2}],
    [bus |-> "sandbox", name |-> OtherPeer,   serials |-> {2}] }
\* Every connection numbers from 1, as real ones do.
CollidingCallers ==
  { [bus |-> "host",    name |-> HostPeer,    serials |-> {1}],
    [bus |-> "sandbox", name |-> OtherPeer, serials |-> {1}] }

\* A hostpass client.
HostpassRequests ==
  { Daemon("RequestName", <<LocalSvc>>),
    Daemon("ReleaseName", <<LocalSvc>>),
    Daemon("ListNames", <<>>) }
HostCallers ==
  { [bus |-> "host", name |-> HostPeer,  serials |-> {1}],
    [bus |-> "host", name |-> OtherPeer, serials |-> {1}] }

\* A client that watches one host peer, with the two spellings of the rule.
WatchRequests ==
  { RuleCall("AddMatch", Fake(HostPeer, "host"), quoted, NoName) :
      quoted \in BOOLEAN } \cup
  { Daemon("GetNameOwner", <<Fcitx>>), Daemon("ListNames", <<>>) }

-----------------------------------------------------------------------------
\* The theorems are about these desktops, but for the two that show why they
\* ask for what they ask for.
ASSUME TheoremsApply ==
  /\ Callers # CollidingCallers => CallersApart
  /\ ClientRequests # WatchRequests => FakeNamesInPlace
  /\ BusNamesAreReal /\ RequestsAreRegular
=============================================================================
