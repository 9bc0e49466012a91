------------------------------ MODULE FakeName ------------------------------
(***************************************************************************)
(* Bus names and the router's "fake" unique names (src/fake_name.rs).      *)
(*                                                                         *)
(* A bus name is the list of its dot-separated components, with a flag     *)
(* that tells a unique name (leading ':') from a well-known one:           *)
(*   ":1.45"           [unique |-> TRUE,  path |-> <<"1", "45">>]          *)
(*   ":h.1.45"         [unique |-> TRUE,  path |-> <<"h", "1", "45">>]     *)
(*   "org.fcitx.Fcitx5" [unique |-> FALSE, path |-> <<"org", ...>>]        *)
(* The representation is the string itself, split; a prefix ":h." is the   *)
(* component "h" followed by at least one more.                            *)
(***************************************************************************)
EXTENDS Naturals, Sequences

CONSTANT Text          \* the strings names and members are made of

ASSUME TextAssumption ==
  {"h", "s", "", "org", "freedesktop", "DBus"} \subseteq Text

Bus   == {"host", "sandbox"}
NoBus == "none"                      \* None of an Option<Bus>

Name == [unique : BOOLEAN, path : Seq(Text)]

\* The empty string: also stands for an absent header field, which can never
\* be empty on the wire.
NoName == [unique |-> FALSE, path |-> <<>>]

UniqueName(path)    == [unique |-> TRUE,  path |-> path]
WellKnownName(path) == [unique |-> FALSE, path |-> path]

DBusName == WellKnownName(<<"org", "freedesktop", "DBus">>)

IsUniqueName(name) == name.unique

FakePrefix(bus) == IF bus = "host" THEN "h" ELSE "s"

GetBusFromFakeName(name) ==
  IF ~IsUniqueName(name) \/ Len(name.path) < 2 THEN NoBus
  ELSE IF Head(name.path) = FakePrefix("host") THEN "host"
  ELSE IF Head(name.path) = FakePrefix("sandbox") THEN "sandbox"
  ELSE NoBus

IsFakeUniqueName(name) == GetBusFromFakeName(name) # NoBus

ToFakeName(name, bus) ==
  IF IsUniqueName(name)
  THEN UniqueName(<<FakePrefix(bus)>> \o name.path)
  ELSE name

\* The name half of from_fake_name, for a name that is fake.
FromFakeName(name) == UniqueName(Tail(name.path))

\* What every caller of from_fake_name does with the result: the real name
\* when there is one, the name as it came otherwise.
RealName(name) == IF IsFakeUniqueName(name) THEN FromFakeName(name) ELSE name
=============================================================================
