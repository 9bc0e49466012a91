----------------------------- MODULE CallRelay ------------------------------
(***************************************************************************)
(* What a session promises to the peers that call its client: a call is    *)
(* handed to the client at most once, and its reply goes to the caller, on *)
(* the caller's bus, under the caller's serial, and at most once.  Nothing *)
(* else is ever written to a bus as the reply to a call.                   *)
(***************************************************************************)
CONSTANT Calls         \* every [bus, caller, serial] there can be

VARIABLES pending,     \* calls the client holds
          replied      \* calls whose reply was written to a bus

Init == pending = {} /\ replied = {}

HandOver(call) ==
  /\ call \notin pending \cup replied
  /\ pending' = pending \cup {call}
  /\ UNCHANGED replied

SendBack(call) ==
  /\ call \in pending
  /\ pending' = pending \ {call}
  /\ replied' = replied \cup {call}

Next == \E call \in Calls : HandOver(call) \/ SendBack(call)

Spec == Init /\ [][Next]_<<pending, replied>>
=============================================================================
