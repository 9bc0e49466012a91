------------------------------ MODULE Rewrite -------------------------------
(***************************************************************************)
(* How the router rewrites the names inside a message on its way through:  *)
(* the header fields (rewrite_message_header of dbus/rewrite.rs) and the   *)
(* bodies of bus-daemon traffic (dbus/daemon.rs and the helpers at the top *)
(* of session.rs).  Messages are the records of module Routing; what is    *)
(* abstracted is the byte layout, not which names change and how.          *)
(***************************************************************************)
EXTENDS FakeName, SequencesExt

NeedsResponseRewrite == {"Hello", "GetNameOwner", "ListQueuedOwners"}
NeedsRequestRewrite  == {"GetConnectionCredentials", "GetConnectionUnixUser",
                         "GetConnectionUnixProcessID",
                         "GetConnectionSELinuxSecurityContext",
                         "GetAdtAuditSessionData", "NameHasOwner",
                         "GetNameOwner"}
SignalNeedsRewrite   == {"NameOwnerChanged"}

-----------------------------------------------------------------------------
\* rewrite_message_header, one operator per direction.
SenderToClient(msg, bus) == [msg EXCEPT !.sender = ToFakeName(@, bus)]
\* Mutant: the destination keeps its fake prefix.
DestKept(msg)            == msg
DestToUpstream(msg)      == [msg EXCEPT !.dest = RealName(@)]

-----------------------------------------------------------------------------
\* parse_match_rule_sender reads a quoted or a bare sender, but
\* rewrite_match_rule_sender replaces the quoted spelling only.
RewriteMatchRuleBody(msg) ==
  IF msg.rules # <<>> /\ msg.rules[1].quoted
  THEN [msg EXCEPT !.rules[1].sender = RealName(@)]
  ELSE msg

RewriteUniqueNameRequest(msg) ==
  IF msg.body # <<>> THEN [msg EXCEPT !.body[1] = RealName(@)] ELSE msg

RewriteRequestBody(msg) ==
  IF msg.dest # DBusName THEN msg
  ELSE IF msg.member \in NeedsRequestRewrite
  THEN RewriteUniqueNameRequest(msg)
  ELSE IF msg.member \in {"AddMatch", "RemoveMatch"}
  THEN RewriteMatchRuleBody(msg)
  ELSE msg

-----------------------------------------------------------------------------
\* Hello and GetNameOwner answer with one name, ListQueuedOwners with a list.
RewriteNames(msg, bus) ==
  [msg EXCEPT !.body = [i \in DOMAIN @ |-> ToFakeName(@[i], bus)]]

\* NameOwnerChanged(name, old_owner, new_owner): the owners only.
RewriteNameOwnerChanged(msg, bus) ==
  IF Len(msg.body) = 3
  THEN [msg EXCEPT !.body[2] = ToFakeName(@, bus),
                   !.body[3] = ToFakeName(@, bus)]
  ELSE msg

\* call is the entry of pending_calls for msg.reply_serial, its bus NoBus
\* when there is none.
RewriteMethodReturnBody(msg, bus, call) ==
  IF call.bus = bus /\ call.member \in NeedsResponseRewrite
  THEN RewriteNames(msg, bus)
  ELSE msg

PrepareMessageForClient(msg, bus, call) ==
  LET shown == SenderToClient(msg, bus)
  IN  CASE msg.type = "return" -> RewriteMethodReturnBody(shown, bus, call)
        [] msg.type = "signal" /\ msg.member \in SignalNeedsRewrite ->
             RewriteNameOwnerChanged(shown, bus)
        [] OTHER -> shown

-----------------------------------------------------------------------------
\* merge_list_names: sandbox names first, then host names, without repeats.
MergeListNames(hostNames, sandboxNames) ==
  LET fake(names, bus) == [i \in DOMAIN names |-> ToFakeName(names[i], bus)]
  IN  FoldLeft(LAMBDA seen, name :
                 IF Contains(seen, name) THEN seen ELSE Append(seen, name),
               <<>>,
               fake(sandboxNames, "sandbox") \o fake(hostNames, "host"))
=============================================================================
