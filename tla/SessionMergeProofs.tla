------------------------- MODULE SessionMergeProofs -------------------------
(***************************************************************************)
(* Merged listings: what merge_list_names makes of two lists, for lists of *)
(* any length, and that the client gets it once, when both buses replied.  *)
(***************************************************************************)
EXTENDS SessionNameProofs, Induction

-----------------------------------------------------------------------------
(* merge_list_names.                                                         *)

\* It keeps the first of each name ...
Dedupe(q) ==
  FoldLeft(LAMBDA seen, name :
             IF Contains(seen, name) THEN seen ELSE Append(seen, name), <<>>, q)

\* One step of it, and what the fold gives for a set of positions from what it
\* gives without the last one.
KeepNew(seen, name) == IF Contains(seen, name) THEN seen ELSE Append(seen, name)
FoldStep(q, g, s) ==
   IF s = {} THEN <<>> ELSE KeepNew(g[s \ {Max(s)}], q[Max(s)])

\* ... as the fold of the definition computes it ...
LEMMA Unfold ==
  ASSUME NEW q
  PROVE  Dedupe(q) =
           (CHOOSE g : g = [s \in SUBSET DOMAIN q |-> FoldStep(q, g, s)])
             [DOMAIN q]
BY DEF Dedupe, FoldLeft, MapThenFoldSet, FoldStep, KeepNew

\* ... the recursion of a fold over 1..n is well founded ...
LEMMA FoldExists ==
  ASSUME NEW q, NEW n \in Nat
  PROVE  \E g : g = [s \in SUBSET (1..n) |-> FoldStep(q, g, s)]
<1> DEFINE Good == {m \in Nat : \E g : g = [s \in SUBSET (1..m) |-> FoldStep(q, g, s)]}
<1>1. 0 \in Good
  <2> DEFINE g == [s \in SUBSET (1..0) |-> <<>>]
  <2>1. g = [s \in SUBSET (1..0) |-> FoldStep(q, g, s)]
    BY DEF FoldStep
  <2> QED BY <2>1
<1>2. ASSUME NEW m \in Nat, m \in Good PROVE m + 1 \in Good
  <2>1. PICK g : g = [s \in SUBSET (1..m) |-> FoldStep(q, g, s)]
    BY <1>2
  <2> DEFINE h == [s \in SUBSET (1..(m+1)) |-> FoldStep(q, g, s)]
  <2>2. ASSUME NEW s \in SUBSET (1..(m+1)), s # {}
        PROVE  s \ {Max(s)} \in SUBSET (1..m)
    <3>1. m+1 \in Nat /\ s \subseteq 1..(m+1)
      OBVIOUS
    <3>2. Max(s) \in 1..(m+1) /\ s \ {Max(s)} \subseteq 1..(Max(s) - 1)
      BY <2>2, <3>1, LastPosition
    <3> QED BY <3>2
  <2>3. \A s \in SUBSET (1..m) : h[s] = g[s]
    <3>1. \A s \in SUBSET (1..m) : s \in SUBSET (1..(m+1))
      OBVIOUS
    <3> HIDE DEF FoldStep
    <3> QED BY <2>1, <3>1
  <2>4. \A s \in SUBSET (1..(m+1)) : FoldStep(q, g, s) = FoldStep(q, h, s)
    <3> HIDE DEF h
    <3> QED BY <2>2, <2>3 DEF FoldStep
  <2>5. h = [s \in SUBSET (1..(m+1)) |-> FoldStep(q, h, s)]
    <3>1. h = [s \in SUBSET (1..(m+1)) |-> FoldStep(q, g, s)]
      OBVIOUS
    <3> HIDE DEF h
    <3> QED BY <2>4, <3>1
  <2>6. \E k : k = [s \in SUBSET (1..(m+1)) |-> FoldStep(q, k, s)]
    <3> HIDE DEF h
    <3> QED BY <2>5
  <2> QED BY <2>6
<1> HIDE DEF Good
<1>3. n \in Good
  BY <1>1, <1>2, SetInduction
<1> QED BY <1>3 DEF Good


\* ... one step adds its name and repeats none ...
LEMMA KeepNewKeeps ==
  ASSUME NEW T, NEW seen \in Seq(T), IsInjective(seen), NEW name \in T
  PROVE  LET kept == KeepNew(seen, name)
         IN  /\ kept \in Seq(T) /\ IsInjective(kept)
             /\ NamesOf(kept) = NamesOf(seen) \cup {name}
<1>1. CASE Contains(seen, name)
  <2>1. name \in NamesOf(seen)
    BY <1>1 DEF Contains, NamesOf
  <2> QED BY <1>1, <2>1 DEF KeepNew
<1>2. CASE ~Contains(seen, name)
  <2> DEFINE kept == Append(seen, name)
  <2>1. KeepNew(seen, name) = kept
    BY <1>2 DEF KeepNew
  <2>2. /\ kept \in Seq(T) /\ Len(kept) = Len(seen) + 1 /\ Len(seen) \in Nat
        /\ DOMAIN kept = 1..(Len(seen) + 1) /\ DOMAIN seen = 1..Len(seen)
        /\ kept[Len(seen) + 1] = name
        /\ \A i \in 1..Len(seen) : kept[i] = seen[i]
    BY AppendProperties, LenProperties
  <2>3. \A i \in 1..Len(seen) : seen[i] # name
    BY <1>2 DEF Contains
  <2> HIDE DEF kept
  <2>4. IsInjective(kept)
    <3> SUFFICES ASSUME NEW a \in DOMAIN kept, NEW b \in DOMAIN kept,
                        kept[a] = kept[b]
                 PROVE  a = b
      BY DEF IsInjective
    <3>1. CASE a \in 1..Len(seen) /\ b \in 1..Len(seen)
      BY <2>2, <3>1 DEF IsInjective
    <3>2. CASE a \notin 1..Len(seen) \/ b \notin 1..Len(seen)
      BY <2>2, <2>3, <3>2
    <3> QED BY <3>1, <3>2
  <2>5. NamesOf(kept) = NamesOf(seen) \cup {name}
    <3>1. \A x \in NamesOf(kept) : x \in NamesOf(seen) \cup {name}
      BY <2>2 DEF NamesOf
    <3>2. \A x \in NamesOf(seen) \cup {name} : x \in NamesOf(kept)
      BY <2>2 DEF NamesOf
    <3> QED BY <3>1, <3>2
  <2> QED BY <2>1, <2>2, <2>4, <2>5
<1> QED BY <1>1, <1>2

\* ... so the result has the names of q, each once, whatever the length of q.
LEMMA Deduped ==
  ASSUME NEW T, NEW q \in Seq(T)
  PROVE  /\ Dedupe(q) \in Seq(T) /\ IsInjective(Dedupe(q))
         /\ NamesOf(Dedupe(q)) = NamesOf(q)
<1> DEFINE n == Len(q)
<1>1. n \in Nat /\ DOMAIN q = 1..n
  BY LenProperties
<1> DEFINE fold == CHOOSE g : g = [s \in SUBSET (1..n) |-> FoldStep(q, g, s)]
<1>2. /\ Dedupe(q) = fold[1..n]
      /\ fold = [s \in SUBSET (1..n) |-> FoldStep(q, fold, s)]
  <2>1. Dedupe(q) = fold[1..n]
    BY <1>1, Unfold
  <2> HIDE DEF n
  <2>2. \E g : g = [s \in SUBSET (1..n) |-> FoldStep(q, g, s)]
    BY <1>1, FoldExists
  <2> QED BY <2>1, <2>2
<1> HIDE DEF fold, n
<1>3. fold[1..0] = <<>>
  <2>1. 1..0 = {} /\ {} \in SUBSET (1..n)
    OBVIOUS
  <2> QED BY <1>2, <2>1 DEF FoldStep
<1>4. ASSUME NEW m \in Nat, m < n
      PROVE  fold[1..(m+1)] = KeepNew(fold[1..m], q[m+1])
  <2>1. Max(1..(m+1)) = m + 1
    <3>1. m+1 \in 1..(m+1) /\ m+1 \in Nat
      OBVIOUS
    <3>2. Max(1..(m+1)) \in 1..(m+1) /\ m + 1 <= Max(1..(m+1))
      BY <3>1, LastPosition
    <3> QED BY <3>2
  <2>2. 1..(m+1) # {} /\ (1..(m+1)) \ {m+1} = 1..m
    OBVIOUS
  <2>3. 1..(m+1) \in SUBSET (1..n)
    BY <1>1, <1>4
  <2>4. fold[1..(m+1)] = FoldStep(q, fold, 1..(m+1))
    BY <1>2, <2>3
  <2> QED BY <2>1, <2>2, <2>4 DEF FoldStep
<1> DEFINE Right(m) == /\ fold[1..m] \in Seq(T) /\ IsInjective(fold[1..m])
                       /\ NamesOf(fold[1..m]) = {q[i] : i \in 1..m}
           Good == {m \in Nat : m <= n => Right(m)}
<1>5. 0 \in Good
  <2>1. <<>> \in Seq(T) /\ IsInjective(<<>>) /\ NamesOf(<<>>) = {}
    BY DEF IsInjective, NamesOf
  <2>2. {q[i] : i \in 1..0} = {}
    OBVIOUS
  <2>3. Right(0)
    BY <1>3, <2>1, <2>2
  <2> HIDE DEF Right
  <2> QED BY <2>3
<1>6. ASSUME NEW m \in Nat, m \in Good PROVE m + 1 \in Good
  <2> SUFFICES ASSUME m + 1 <= n PROVE Right(m + 1)
    OBVIOUS
  <2>1. m < n /\ Right(m)
    BY <1>1, <1>6
  <2>2. q[m + 1] \in T
    BY <1>1, <2>1, ElementOfSeq
  <2>3. {q[i] : i \in 1..(m+1)} = {q[i] : i \in 1..m} \cup {q[m+1]}
    OBVIOUS
  <2> DEFINE seen == fold[1..m]
             kept == KeepNew(seen, q[m + 1])
  <2>4. /\ seen \in Seq(T) /\ IsInjective(seen)
        /\ NamesOf(seen) = {q[i] : i \in 1..m}
    BY <2>1
  <2>5. fold[1..(m + 1)] = kept
    BY <1>4, <2>1
  <2> HIDE DEF seen
  <2>6. /\ kept \in Seq(T) /\ IsInjective(kept)
        /\ NamesOf(kept) = NamesOf(seen) \cup {q[m + 1]}
    <3>1. PICK name \in T : name = q[m + 1]
      BY <2>2
    <3>2. /\ KeepNew(seen, name) \in Seq(T) /\ IsInjective(KeepNew(seen, name))
          /\ NamesOf(KeepNew(seen, name)) = NamesOf(seen) \cup {name}
      BY <2>4, KeepNewKeeps
    <3> QED BY <3>1, <3>2
  <2> QED BY <2>3, <2>4, <2>5, <2>6
<1>7. Right(n)
  <2>1. n \in Good
    <3> HIDE DEF Good
    <3> QED BY <1>1, <1>5, <1>6, SetInduction
  <2> QED BY <1>1, <2>1
<1>8. {q[i] : i \in 1..n} = NamesOf(q)
  BY <1>1 DEF NamesOf
<1> QED BY <1>2, <1>7, <1>8

LEMMA FunctionIsSeq ==
  ASSUME NEW S, NEW n \in Nat, NEW f \in [1..n -> S]
  PROVE  f \in Seq(S) /\ Len(f) = n
<1>1. f \in Seq(S)
  BY SeqDef
<1>2. Len(f) \in Nat /\ DOMAIN f = 1..Len(f)
  BY <1>1, LenProperties
<1> QED BY <1>1, <1>2

\* The merged list holds the names of both lists, each under the prefix of its
\* bus, and repeats none.
LEMMA MergedNames ==
  ASSUME NEW host \in Seq(Name), NEW sandbox \in Seq(Name)
  PROVE  /\ IsInjective(MergeListNames(host, sandbox))
         /\ NamesOf(MergeListNames(host, sandbox)) =
              {ToFakeName(n, "host") : n \in NamesOf(host)} \cup
              {ToFakeName(n, "sandbox") : n \in NamesOf(sandbox)}
<1> DEFINE Shown == {ToFakeName(n, bus) : n \in Name, bus \in Bus}
           fakeH == [i \in DOMAIN host |-> ToFakeName(host[i], "host")]
           fakeS == [i \in DOMAIN sandbox |-> ToFakeName(sandbox[i], "sandbox")]
<1>1. /\ Len(host) \in Nat /\ DOMAIN host = 1..Len(host)
      /\ Len(sandbox) \in Nat /\ DOMAIN sandbox = 1..Len(sandbox)
      /\ \A i \in DOMAIN host : host[i] \in Name
      /\ \A i \in DOMAIN sandbox : sandbox[i] \in Name
  BY LenProperties, ElementOfSeq
<1>2. /\ fakeH \in Seq(Shown) /\ Len(fakeH) = Len(host)
      /\ fakeS \in Seq(Shown) /\ Len(fakeS) = Len(sandbox)
  <2>1. fakeH \in [1..Len(host) -> Shown] /\ fakeS \in [1..Len(sandbox) -> Shown]
    BY <1>1 DEF Bus
  <2> HIDE DEF fakeH, fakeS, Shown
  <2> QED BY <1>1, <2>1, FunctionIsSeq
<1>3. MergeListNames(host, sandbox) = Dedupe(fakeS \o fakeH)
  BY DEF MergeListNames, Dedupe
<1>4. /\ \A i \in 1..Len(host) : fakeH[i] = ToFakeName(host[i], "host")
      /\ \A i \in 1..Len(sandbox) : fakeS[i] = ToFakeName(sandbox[i], "sandbox")
  BY <1>1
<1> HIDE DEF fakeH, fakeS, Shown
<1> DEFINE both == fakeS \o fakeH
<1>5. /\ both \in Seq(Shown) /\ DOMAIN both = 1..(Len(sandbox) + Len(host))
      /\ \A i \in 1..Len(sandbox) : both[i] = fakeS[i]
      /\ \A i \in 1..Len(host) : both[Len(sandbox) + i] = fakeH[i]
  <2>1. /\ both \in Seq(Shown) /\ Len(both) = Len(fakeS) + Len(fakeH)
        /\ \A i \in 1..(Len(fakeS) + Len(fakeH)) :
             both[i] = IF i <= Len(fakeS) THEN fakeS[i] ELSE fakeH[i - Len(fakeS)]
    BY <1>2, ConcatProperties
  <2> HIDE DEF both
  <2>2. DOMAIN both = 1..(Len(sandbox) + Len(host))
    BY <1>2, <2>1, LenProperties
  <2>3. ASSUME NEW i \in 1..Len(sandbox) PROVE both[i] = fakeS[i]
    BY <1>1, <1>2, <2>1
  <2>4. ASSUME NEW i \in 1..Len(host) PROVE both[Len(sandbox) + i] = fakeH[i]
    <3>1. /\ Len(sandbox) + i \in 1..(Len(sandbox) + Len(host))
          /\ ~(Len(sandbox) + i <= Len(sandbox))
          /\ (Len(sandbox) + i) - Len(sandbox) = i
      BY <1>1
    <3> QED BY <1>2, <2>1, <3>1
  <2> QED BY <2>1, <2>2, <2>3, <2>4
<1> HIDE DEF both
<1>6. NamesOf(both) = {ToFakeName(n, "host") : n \in NamesOf(host)} \cup
                      {ToFakeName(n, "sandbox") : n \in NamesOf(sandbox)}
  <2>1. ASSUME NEW i \in DOMAIN both
        PROVE  both[i] \in {ToFakeName(n, "host") : n \in NamesOf(host)} \cup
                           {ToFakeName(n, "sandbox") : n \in NamesOf(sandbox)}
    <3>1. CASE i \in 1..Len(sandbox)
      BY <1>1, <1>4, <1>5, <3>1 DEF NamesOf
    <3>2. CASE i \notin 1..Len(sandbox)
      <4>1. PICK k \in 1..Len(host) : i = Len(sandbox) + k
        <5>1. i - Len(sandbox) \in 1..Len(host)
          BY <1>1, <1>5, <3>2
        <5> QED BY <1>1, <1>5, <5>1
      <4>2. both[i] = ToFakeName(host[k], "host")
        BY <1>4, <1>5, <4>1
      <4>3. k \in DOMAIN host
        BY <1>1
      <4>4. host[k] \in NamesOf(host)
        BY <4>3 DEF NamesOf
      <4> QED BY <4>2, <4>4
    <3> QED BY <3>1, <3>2
  <2>2. \A n \in NamesOf(host) : ToFakeName(n, "host") \in NamesOf(both)
    <3> SUFFICES ASSUME NEW k \in 1..Len(host)
                 PROVE  ToFakeName(host[k], "host") \in NamesOf(both)
      BY <1>1 DEF NamesOf
    <3>1. Len(sandbox) + k \in DOMAIN both
      BY <1>1, <1>5
    <3> QED BY <1>4, <1>5, <3>1 DEF NamesOf
  <2>3. \A n \in NamesOf(sandbox) : ToFakeName(n, "sandbox") \in NamesOf(both)
    <3> SUFFICES ASSUME NEW k \in 1..Len(sandbox)
                 PROVE  ToFakeName(sandbox[k], "sandbox") \in NamesOf(both)
      BY <1>1 DEF NamesOf
    <3>1. k \in DOMAIN both
      BY <1>1, <1>5
    <3> QED BY <1>4, <1>5, <3>1 DEF NamesOf
  <2> QED BY <2>1, <2>2, <2>3 DEF NamesOf
<1> QED BY <1>3, <1>5, <1>6, Deduped DEF both

-----------------------------------------------------------------------------
(* The client sends.                                                         *)

\* Whatever the client sends takes the next serial, and opens a listing under
\* that serial or none.
LEMMA ClientWrites ==
  ASSUME TypeOK, ClientSends \/ ClientReplies
  PROVE  /\ next_serial \in Serials /\ next_serial' = next_serial + 1
         /\ UNCHANGED <<received, answered>>
         /\ \E buses \in SUBSET Bus : \E orig, wire, answers :
              /\ WriteUpstream(buses, orig, wire, answers)
              /\ wire.type = "call" => wire.serial = next_serial
         /\ pending_merges' \in
              {pending_merges,
               [pending_merges EXCEPT
                  ![next_serial] = [NoMerge EXCEPT !.open = TRUE]]}
<1>1. PICK msg, answers :
        /\ HandleClientMessage(msg, answers) /\ msg.serial = next_serial
        /\ \/ msg \in Message /\ msg.type \in {"call", "signal"}
           \/ /\ msg.type \in {"return", "error"}
              /\ msg.body = <<>> /\ msg.rules = <<>>
              /\ DOMAIN msg = DOMAIN NoMessage
  <2>1. CASE ClientSends
    <3>1. PICK request, msg :
            /\ request \in ClientRequests
            /\ msg = [request EXCEPT !.serial = next_serial]
            /\ HandleClientMessage(msg, {})
      BY <2>1 DEF ClientSends
    <3>2. next_serial \in Serials
      BY <3>1 DEF HandleClientMessage
    <3>3. msg \in Message /\ msg.serial = next_serial /\ msg.type = request.type
      BY <3>1, <3>2, RequestMessage
    <3>4. msg.type \in {"call", "signal"}
      BY <3>1, <3>3, SessionAssumption
    <3> QED BY <3>1, <3>3, <3>4
  <2>2. CASE ClientReplies
    <3>1. PICK call, type, msg :
            /\ call \in CallsTaken /\ type \in {"return", "error"}
            /\ msg = ReplyTo(call, type) /\ HandleClientMessage(msg, {call})
      BY <2>2 DEF ClientReplies
    <3>2. /\ msg.type = type /\ msg.serial = next_serial
          /\ msg.body = <<>> /\ msg.rules = <<>>
          /\ DOMAIN msg = DOMAIN NoMessage
      BY <3>1 DEF ReplyTo, NoMessage
    <3> QED BY <3>1, <3>2
  <2> QED BY <2>1, <2>2
<1>2. /\ next_serial \in Serials /\ next_serial' = next_serial + 1
      /\ UNCHANGED <<received, answered>>
  BY <1>1 DEF HandleClientMessage
<1> DEFINE Kept(wire) == /\ wire.type = "call" => wire.serial = next_serial
<1>3. Kept(msg) /\ Kept(RewriteRequestBody(DestToUpstream(msg)))
        /\ Kept(RewriteMatchRuleBody(msg)) /\ Kept(DestToUpstream(msg))
  <2>1. CASE msg \in Message
    <3>1. IsSentAs(msg, RewriteRequestBody(DestToUpstream(msg)))
      BY <2>1, WireMessage
    <3>2. /\ RewriteMatchRuleBody(msg).serial = msg.serial
          /\ DestToUpstream(msg).serial = msg.serial
      BY <2>1 DEF RewriteMatchRuleBody, DestToUpstream, Message
    <3> QED BY <1>1, <3>1, <3>2 DEF IsSentAs
  <2>2. CASE /\ msg.type \in {"return", "error"}
             /\ msg.body = <<>> /\ msg.rules = <<>>
             /\ DOMAIN msg = DOMAIN NoMessage
    <3>1. /\ DestToUpstream(msg).type = msg.type
          /\ DestToUpstream(msg).body = <<>> /\ DestToUpstream(msg).rules = <<>>
      BY <2>2 DEF DestToUpstream, NoMessage
    <3>2. RewriteRequestBody(DestToUpstream(msg)) = DestToUpstream(msg)
      BY <3>1 DEF RewriteRequestBody, RewriteUniqueNameRequest,
                  RewriteMatchRuleBody
    <3> QED BY <2>2, <3>1, <3>2 DEF RewriteMatchRuleBody
  <2> QED BY <1>1, <2>1, <2>2
<1> HIDE DEF Kept
<1>4. CASE ForwardReplyToCaller(msg, answers)
  <2>1. {incoming_calls[msg.reply_serial]} \in SUBSET Bus
    BY <1>4 DEF ForwardReplyToCaller, AnswersIncomingCall, TypeOK
  <2>2. /\ WriteUpstream({incoming_calls[msg.reply_serial]}, msg,
                         DestToUpstream(msg), answers)
        /\ UNCHANGED pending_merges
    BY <1>4 DEF ForwardReplyToCaller
  <2> QED BY <1>2, <1>3, <2>1, <2>2 DEF Kept
<1>5. CASE RouteClientMessage(msg, answers)
  <2>1. ASSUME NEW bus \in Bus, ForwardToBus(msg, bus, answers)
        PROVE  /\ UNCHANGED pending_merges
               /\ \E buses \in SUBSET Bus : \E orig, wire, a :
                    WriteUpstream(buses, orig, wire, a) /\ Kept(wire)
    BY <1>3, <2>1 DEF ForwardToBus
  <2>2. ASSUME ForwardToBoth(msg)
        PROVE  /\ UNCHANGED pending_merges
               /\ \E buses \in SUBSET Bus : \E orig, wire, a :
                    WriteUpstream(buses, orig, wire, a) /\ Kept(wire)
    BY <1>3, <2>2 DEF ForwardToBoth
  <2>3. ASSUME ForwardForMerge(msg)
        PROVE  /\ pending_merges' =
                    [pending_merges EXCEPT
                       ![next_serial] = [NoMerge EXCEPT !.open = TRUE]]
               /\ \E buses \in SUBSET Bus : \E orig, wire, a :
                    WriteUpstream(buses, orig, wire, a) /\ Kept(wire)
    BY <1>1, <1>3, <2>3 DEF ForwardForMerge
  <2> QED
    BY <1>2, <1>5, <2>1, <2>2, <2>3 DEF RouteClientMessage, Kept
<1> QED BY <1>1, <1>4, <1>5 DEF HandleClientMessage

\* What MergedListsAreComplete says of one merged answer.
ListComplete(r) ==
  LET s == r.shown.reply_serial
      repliesOf(bus) == {a \in answered[bus] : a.reply_serial = s}
      namesFrom(bus) == UNION {NamesOf(a.body) : a \in repliesOf(bus)}
  IN  /\ \A q \in received : q.shown.reply_serial = s => q = r
      /\ \A bus \in Bus : repliesOf(bus) # {}
      /\ NamesOf(r.shown.body) =
           UNION {{ToFakeName(n, bus) : n \in namesFrom(bus)} : bus \in Bus}
      /\ IsInjective(r.shown.body)

\* A merged answer stays complete while nothing answers the same serial.
LEMMA MergedListKept ==
  ASSUME NEW r, ListComplete(r),
         \A q \in received' :
           q.shown.reply_serial = r.shown.reply_serial => q \in received,
         \A bus \in Bus : \A a : a.reply_serial = r.shown.reply_serial =>
           (a \in answered'[bus] <=> a \in answered[bus])
  PROVE  ListComplete(r)'
<1> DEFINE s == r.shown.reply_serial
           before(bus) == {a \in answered[bus] : a.reply_serial = s}
           after(bus) == {a \in answered'[bus] : a.reply_serial = s}
<1>1. \A bus \in Bus : after(bus) = before(bus)
  OBVIOUS
<1>2. UNION {{ToFakeName(n, bus) :
                n \in UNION {NamesOf(a.body) : a \in before(bus)}} : bus \in Bus} =
      UNION {{ToFakeName(n, bus) :
                n \in UNION {NamesOf(a.body) : a \in after(bus)}} : bus \in Bus}
  <2> HIDE DEF before, after
  <2> QED BY <1>1
<1> QED BY <1>1, <1>2 DEF ListComplete

LEMMA ClientKeepsMerges ==
  ASSUME TypeOK, MergeTracking, ClientSends \/ ClientReplies
  PROVE  MergeTracking'
<1>1. /\ next_serial \in Serials /\ next_serial' = next_serial + 1
      /\ UNCHANGED <<received, answered>>
      /\ pending_merges' \in
              {pending_merges,
               [pending_merges EXCEPT
                  ![next_serial] = [NoMerge EXCEPT !.open = TRUE]]}
  BY ClientWrites
<1>2. PICK buses, orig, wire, answers :
        /\ buses \in SUBSET Bus
        /\ WriteUpstream(buses, orig, wire, answers)
        /\ wire.type = "call" => wire.serial = next_serial
  BY ClientWrites
<1>3. next_serial \in Nat /\ next_serial >= 1
  BY <1>1, SessionAssumption DEF Serials
<1>4. MergedListsAreComplete'
  BY <1>1 DEF MergeTracking, MergedListsAreComplete
<1>5. ShownAnswersSent'
  BY <1>1, <1>3 DEF MergeTracking, ShownAnswersSent
<1>6. AnsweredOnce'
  <2> DEFINE entry == [orig |-> orig, wire |-> wire, answers |-> answers]
  <2>1. \A bus \in Bus : \A e \in sent'[bus] : e \in sent[bus] \/ e = entry
    BY <1>2 DEF WriteUpstream
  <2>2. entry.wire = wire
    OBVIOUS
  <2> HIDE DEF entry
  <2>3. \A bus \in Bus : \A e \in sent'[bus] : e.wire.type = "call" =>
          e.wire.serial \in 1..(next_serial' - 1)
    BY <1>1, <1>2, <1>3, <2>1, <2>2 DEF MergeTracking, AnsweredOnce
  <2>4. \A bus \in Bus : \A a \in answered[bus] :
          a.reply_serial \in 1..(next_serial' - 1)
    BY <1>1, <1>3 DEF MergeTracking, AnsweredOnce
  <2> QED BY <1>1, <2>3, <2>4 DEF MergeTracking, AnsweredOnce
<1>7. OpenMerges'
  <2> SUFFICES ASSUME NEW s \in Serials, pending_merges'[s].open
               PROVE  /\ \A r \in received : r.shown.reply_serial # s
                      /\ \A bus \in Bus : \A a \in answered[bus] :
                           a.reply_serial = s =>
                             /\ pending_merges'[s].bus = bus
                             /\ pending_merges'[s].names = a.body
                      /\ pending_merges'[s].bus # NoBus =>
                           \E a \in answered[pending_merges'[s].bus] :
                             a.reply_serial = s
    BY ZenonT(40), <1>1, Zenon DEF OpenMerges
  <2>1. CASE pending_merges'[s] = pending_merges[s]
    BY <2>1 DEF MergeTracking, OpenMerges
  <2>2. CASE s = next_serial /\ pending_merges'[s] = [NoMerge EXCEPT !.open = TRUE]
    <3>1. pending_merges'[s].bus = NoBus
      BY <2>2 DEF NoMerge
    <3>2. \A r \in received : r.shown.reply_serial # s
      BY <1>3, <2>2 DEF MergeTracking, ShownAnswersSent
    <3>3. \A bus \in Bus : \A a \in answered[bus] : a.reply_serial # s
      BY <1>3, <2>2 DEF MergeTracking, AnsweredOnce
    <3> QED BY <3>1, <3>2, <3>3
  <2> QED BY <1>1, <2>1, <2>2 DEF TypeOK
<1> QED BY <1>4, <1>5, <1>6, <1>7 DEF MergeTracking

-----------------------------------------------------------------------------
(* The buses send.                                                           *)

\* What a message from a bus adds to received answers what the message
\* answers, and only the completion of a listing comes from the router.
LEMMA ShownAnswers ==
  ASSUME NEW bus \in Bus, NEW msg, "reply_serial" \in DOMAIN msg,
         HandleUpstreamMessage(msg, bus),
         NEW r \in received', r \notin received
  PROVE  /\ r.shown.reply_serial = msg.reply_serial
         /\ r.from \in Bus \/ CompleteMerge(msg, bus)
<1> DEFINE first == SenderToClient(msg, bus)
<1>1. /\ first.reply_serial = msg.reply_serial
      /\ DOMAIN first = DOMAIN msg
  BY DEF SenderToClient
<1> HIDE DEF first
<1>2. /\ RewriteNames(first, bus).reply_serial = msg.reply_serial
      /\ RewriteNameOwnerChanged(first, bus).reply_serial = msg.reply_serial
  BY <1>1 DEF RewriteNames, RewriteNameOwnerChanged
<1>3. \A call : PrepareMessageForClient(msg, bus, call)
                  \in {first, RewriteNames(first, bus),
                       RewriteNameOwnerChanged(first, bus)}
  BY DEF PrepareMessageForClient, RewriteMethodReturnBody, first
<1>4. \A call : PrepareMessageForClient(msg, bus, call).reply_serial
                  = msg.reply_serial
  BY <1>1, <1>2, <1>3
<1>5. CASE TakeServiceCall(msg, bus)
  BY <1>1, <1>5 DEF TakeServiceCall, WriteClient, first
<1>6. CASE AwaitOtherReply(msg, bus)
  BY <1>6 DEF AwaitOtherReply
<1>7. CASE CompleteMerge(msg, bus)
  <2>1. PICK merged, shown :
          /\ shown = [NoMessage EXCEPT !.type = "return",
                                       !.reply_serial = msg.reply_serial,
                                       !.body = merged]
          /\ WriteClient("router", msg, shown)
    BY <1>7 DEF CompleteMerge
  <2>2. shown.reply_serial = msg.reply_serial
    BY <2>1 DEF NoMessage
  <2>3. r.shown = shown
    BY <2>1 DEF WriteClient
  <2> QED BY <1>7, <2>2, <2>3
<1>8. CASE ForwardToClient(msg, bus)
  BY <1>4, <1>8 DEF ForwardToClient, WriteClient
<1> QED BY <1>5, <1>6, <1>7, <1>8 DEF HandleUpstreamMessage

\* A message that answers nothing.
LEMMA QuietKeepsMerges ==
  ASSUME TypeOK, MergeTracking, NEW bus \in Bus, NEW msg, "reply_serial" \in DOMAIN msg,
         msg.reply_serial = 0, HandleUpstreamMessage(msg, bus),
         UNCHANGED answered
  PROVE  MergeTracking'
<1>1. ~IsMergeReply(msg)
  BY SessionAssumption DEF IsMergeReply, Serials
<1>2. UNCHANGED <<pending_merges, sent, next_serial>>
  BY <1>1 DEF HandleUpstreamMessage, TakeServiceCall, AwaitOtherReply,
              CompleteMerge, ForwardToClient
<1>3. /\ \A r \in received' : r \in received \/ r.shown.reply_serial = 0
      /\ \A r \in received' : r.from = "router" => r \in received
  BY <1>1, ShownAnswers DEF CompleteMerge, Bus
<1>4. AnsweredOnce'
  BY <1>2 DEF MergeTracking, AnsweredOnce
<1>5. ShownAnswersSent'
  <2>1. 0 \in 0..(next_serial - 1)
    BY SessionAssumption DEF TypeOK
  <2>2. \A r \in received' : r.shown.reply_serial \in 0..(next_serial - 1)
    BY <1>3, <2>1 DEF MergeTracking, ShownAnswersSent
  <2> QED BY <1>2, <2>2 DEF ShownAnswersSent
<1>6. OpenMerges'
  BY <1>2, <1>3, SessionAssumption DEF MergeTracking, OpenMerges, Serials
<1>7. ASSUME NEW r \in received', r.from = "router" PROVE ListComplete(r)'
  <2>1. r \in received /\ ListComplete(r)
    BY <1>3, <1>7 DEF MergeTracking, MergedListsAreComplete, ListComplete
  <2>2. r.shown.reply_serial # 0
    <3>1. PICK a \in answered["host"] : a.reply_serial = r.shown.reply_serial
      BY <2>1 DEF ListComplete, Bus
    <3> QED BY <3>1 DEF MergeTracking, AnsweredOnce, Bus
  <2> QED BY <1>3, <2>1, <2>2, MergedListKept
<1>8. MergedListsAreComplete'
  BY <1>7 DEF MergedListsAreComplete, ListComplete
<1> QED BY <1>4, <1>5, <1>6, <1>8 DEF MergeTracking

\* What a bus replies: the names of a listing are its body, and an error has
\* none.
AnswerTo(reply, call) ==
  /\ "reply_serial" \in DOMAIN reply /\ reply.reply_serial = call.serial
  /\ reply.type # "call"
  /\ reply.body \in Seq(Name) /\ NamesIn(reply) = reply.body

LEMMA AnswersHoldNames ==
  ASSUME NEW bus \in Bus, NEW call, NEW reply \in Replies(bus, call)
  PROVE  AnswerTo(reply, call)
<1>1. ListedNames(bus) \in Seq(Name)
  <2> DEFINE entries == Directory[bus]
  <2>1. ListedNames(bus) \in [1..Len(entries) -> Name]
    BY DirectoryEntries DEF ListedNames
  <2> QED BY <2>1, DirectoryEntries, SeqDef
<1>2. ASSUME NEW name PROVE OwnerOf(bus, name) \in Name
  <2>1. ClientName[bus] \in Name /\ NoName \in Name
    BY SessionAssumption, EmptyValues
  <2> QED BY <2>1, DirectoryEntries DEF OwnerOf
<1>3. <<>> \in Seq(Name)
  OBVIOUS
<1>4. \E sender : \E type \in {"return", "error"}, body \in Seq(Name) :
        /\ reply = Reply(bus, call, type, sender, body)
        /\ type = "error" => body = <<>>
  <2>1. \A name : <<OwnerOf(bus, name)>> \in Seq(Name)
    BY <1>2
  <2>2. <<ClientName[bus]>> \in Seq(Name)
    BY SessionAssumption
  <2> QED BY <1>1, <1>3, <2>1, <2>2 DEF Replies
<1>5. PICK sender, type, body :
        /\ type \in {"return", "error"} /\ body \in Seq(Name)
        /\ reply = Reply(bus, call, type, sender, body)
        /\ type = "error" => body = <<>>
  BY <1>4
<1>6. /\ reply.reply_serial = call.serial /\ reply.type = type
      /\ reply.body = body /\ "reply_serial" \in DOMAIN reply
  BY <1>5 DEF Reply, NoMessage
<1> QED BY <1>5, <1>6 DEF NamesIn, AnswerTo

\* What OpenMerges says of one serial.
OpenMerge(s) ==
  pending_merges[s].open =>
    /\ \A r \in received : r.shown.reply_serial # s
    /\ \A bus \in Bus : \A a \in answered[bus] : a.reply_serial = s =>
         /\ pending_merges[s].bus = bus /\ pending_merges[s].names = a.body
    /\ pending_merges[s].bus # NoBus =>
         \E a \in answered[pending_merges[s].bus] : a.reply_serial = s

EachOpenMerge == \A s \in Serials : OpenMerge(s)

LEMMA OpenMergeEach == OpenMerges <=> EachOpenMerge
BY Zenon DEF OpenMerges, OpenMerge, EachOpenMerge

\* The answer of a bus to a call.
LEMMA AnswerKeepsMerges ==
  ASSUME TypeOK, MergeTracking, NEW bus \in Bus, NEW serial \in Serials,
         BusAnswers(bus, serial)
  PROVE  MergeTracking'
<1>1. PICK e, msg :
        /\ e \in sent[bus]
        /\ e.wire.type = "call" /\ e.wire.serial = serial
        /\ \A reply \in answered[bus] : reply.reply_serial # serial
        /\ msg \in Replies(bus, e.wire)
        /\ HandleUpstreamMessage(msg, bus)
        /\ answered' = [answered EXCEPT ![bus] = @ \cup {msg}]
  BY DEF BusAnswers
<1>2. /\ "reply_serial" \in DOMAIN msg /\ msg.reply_serial = serial
      /\ msg.type # "call"
      /\ msg.body \in Seq(Name) /\ NamesIn(msg) = msg.body
  BY <1>1, AnswersHoldNames DEF AnswerTo
<1>3. /\ serial \in 1..(next_serial - 1)
      /\ UNCHANGED <<sent, next_serial>>
  BY <1>1 DEF MergeTracking, AnsweredOnce, HandleUpstreamMessage
<1>4. /\ answered'[bus] = answered[bus] \cup {msg}
      /\ \A b \in Bus \ {bus} : answered'[b] = answered[b]
      /\ DOMAIN answered' = Bus
  BY <1>1 DEF MergeTracking, AnsweredOnce
<1>5. AnsweredOnce'
  BY <1>1, <1>2, <1>3, <1>4 DEF MergeTracking, AnsweredOnce
<1>6. \A r \in received' : r \in received \/ r.shown.reply_serial = serial
  BY <1>1, <1>2, ShownAnswers
<1>7. ShownAnswersSent'
  BY <1>3, <1>6 DEF MergeTracking, ShownAnswersSent
<1>8. \A r \in received : r.from = "router" =>
        ListComplete(r) /\ r.shown.reply_serial # serial
  BY <1>1 DEF MergeTracking, MergedListsAreComplete, ListComplete
<1>9. ASSUME NEW r \in received, r.from = "router" PROVE ListComplete(r)'
  BY <1>2, <1>4, <1>6, <1>8, <1>9, MergedListKept
<1>10. ASSUME \A s \in Serials \ {serial} : pending_merges'[s] = pending_merges[s],
              OpenMerge(serial)'
       PROVE  OpenMerges'
  <2>1. ASSUME NEW s \in Serials \ {serial} PROVE OpenMerge(s)'
    <3>1. OpenMerge(s)
      BY OpenMergeEach DEF MergeTracking, EachOpenMerge
    <3>2. pending_merges[s].open => \A r \in received' : r.shown.reply_serial # s
      BY <1>6, <3>1 DEF OpenMerge
    <3>3. \A b \in Bus : answered[b] \subseteq answered'[b] /\
            \A a \in answered'[b] : a.reply_serial = s => a \in answered[b]
      BY <1>2, <1>4
    <3>4. pending_merges[s].bus \in Bus \cup {NoBus}
      BY DEF TypeOK
    <3>5. pending_merges'[s] = pending_merges[s]
      BY <1>10
    <3> QED BY <3>1, <3>2, <3>3, <3>4, <3>5 DEF OpenMerge
  <2>2. EachOpenMerge'
    BY <1>10, <2>1 DEF EachOpenMerge
  <2> QED BY <2>2, OpenMergeEach, PTL
<1>11. CASE AwaitOtherReply(msg, bus)
  <2>1. /\ pending_merges[serial].open /\ pending_merges[serial].bus = NoBus
        /\ pending_merges' = [pending_merges EXCEPT
                                ![serial] = [open |-> TRUE, bus |-> bus,
                                             names |-> msg.body]]
        /\ UNCHANGED received
    BY <1>2, <1>11 DEF AwaitOtherReply, IsMergeReply
  <2>2. /\ \A s \in Serials \ {serial} : pending_merges'[s] = pending_merges[s]
        /\ pending_merges'[serial].bus = bus
        /\ pending_merges'[serial].names = msg.body
    BY <2>1 DEF TypeOK
  <2>3. \A b \in Bus : \A a \in answered[b] : a.reply_serial # serial
    BY <2>1, BusesDiffer DEF MergeTracking, OpenMerges
  <2>4. \A b \in Bus : \A a \in answered'[b] : a.reply_serial = serial =>
          b = bus /\ a = msg
    BY <1>4, <2>3
  <2>5. \A r \in received' : r.shown.reply_serial # serial
    BY <2>1 DEF MergeTracking, OpenMerges
  <2>6. OpenMerges'
    BY <1>2, <1>4, <1>10, <2>2, <2>4, <2>5 DEF OpenMerge
  <2>7. MergedListsAreComplete'
    BY <1>9, <2>1 DEF MergedListsAreComplete, ListComplete
  <2> QED BY <1>5, <1>7, <2>6, <2>7 DEF MergeTracking
<1>12. CASE ForwardToClient(msg, bus)
  <2>1. ~pending_merges[serial].open /\ UNCHANGED pending_merges
    BY <1>2, <1>12 DEF ForwardToClient, IsMergeReply
  <2>2. OpenMerges'
    BY <1>10, <2>1 DEF OpenMerge
  <2>3. \A r \in received' : r.from = "router" => r \in received
    BY <1>12 DEF ForwardToClient, WriteClient, Bus
  <2>4. MergedListsAreComplete'
    BY <1>9, <2>3 DEF MergedListsAreComplete, ListComplete
  <2> QED BY <1>5, <1>7, <2>2, <2>4 DEF MergeTracking
<1>13. CASE CompleteMerge(msg, bus)
  <2> DEFINE first == pending_merges[serial]
  <2>1. /\ first.open /\ first.bus # NoBus
        /\ pending_merges' = [pending_merges EXCEPT ![serial] = NoMerge]
    BY <1>2, <1>13 DEF CompleteMerge, IsMergeReply
  <2>2. /\ \A s \in Serials \ {serial} : pending_merges'[s] = pending_merges[s]
        /\ ~pending_merges'[serial].open
    BY <2>1 DEF TypeOK, NoMerge
  <2>3. OpenMerges'
    BY <1>10, <2>2 DEF OpenMerge
  <2>4. PICK other, a : /\ other \in Bus /\ a \in answered[other]
                        /\ other # bus /\ a.reply_serial = serial
                        /\ first.bus = other /\ first.names = a.body
                        /\ a.body \in Seq(Name)
    <3>1. first.bus \in Bus
      BY <2>1 DEF TypeOK
    <3>2. PICK a \in answered[first.bus] : a.reply_serial = serial
      BY <2>1, <3>1 DEF MergeTracking, OpenMerges
    <3>3. first.bus # bus /\ first.names = a.body /\ a.body \in Seq(Name)
      BY <1>1, <2>1, <3>1, <3>2 DEF MergeTracking, OpenMerges, AnsweredOnce
    <3> QED BY <3>1, <3>2, <3>3
  <2>5. /\ {x \in answered'[bus] : x.reply_serial = serial} = {msg}
        /\ {x \in answered'[other] : x.reply_serial = serial} = {a}
    <3>1. {x \in answered'[bus] : x.reply_serial = serial} = {msg}
      BY <1>1, <1>2, <1>4
    <3>2. {x \in answered'[other] : x.reply_serial = serial} = {a}
      BY <1>4, <2>4 DEF MergeTracking, AnsweredOnce
    <3> QED BY <3>1, <3>2
  <2>6. ASSUME NEW r \in received', r \notin received
        PROVE  ListComplete(r)'
    <3>1. r.shown.reply_serial = serial
      BY <1>6, <2>6
    <3>2. \A q \in received' : q.shown.reply_serial = serial => q = r
      <4>1. \A q \in received : q.shown.reply_serial # serial
        BY <2>1 DEF MergeTracking, OpenMerges
      <4>2. \A q \in received' : q \in received \/ q = r
        BY <1>13, <2>6 DEF CompleteMerge, WriteClient
      <4> QED BY <4>1, <4>2
    <3>3. PICK host \in Seq(Name), sandbox \in Seq(Name) :
            /\ host = IF bus = "host" THEN msg.body ELSE a.body
            /\ sandbox = IF bus = "host" THEN a.body ELSE msg.body
      BY <1>2, <2>4
    <3>4. r.shown.body = MergeListNames(host, sandbox)
      <4>1. PICK merged, shown :
              /\ merged = MergeListNames(
                   IF first.bus = "host" THEN first.names ELSE NamesIn(msg),
                   IF first.bus = "host" THEN NamesIn(msg) ELSE first.names)
              /\ shown = [NoMessage EXCEPT !.type = "return",
                                           !.reply_serial = msg.reply_serial,
                                           !.body = merged]
              /\ WriteClient("router", msg, shown)
        BY <1>2, <1>13 DEF CompleteMerge
      <4>2. r.shown = shown
        BY <2>6, <4>1 DEF WriteClient
      <4>3. shown.body = merged
        BY <4>1 DEF NoMessage
      <4>4. first.bus = "host" <=> bus # "host"
        BY <2>4 DEF Bus
      <4>5. merged = MergeListNames(host, sandbox)
        BY <1>2, <2>4, <3>3, <4>1, <4>4
      <4> QED BY <4>2, <4>3, <4>5
    <3>5. /\ IsInjective(r.shown.body)
          /\ NamesOf(r.shown.body) =
              {ToFakeName(n, "host") : n \in NamesOf(host)} \cup
              {ToFakeName(n, "sandbox") : n \in NamesOf(sandbox)}
      BY <3>4, MergedNames
    <3> DEFINE repliesOf(b) == {x \in answered'[b] : x.reply_serial = serial}
               namesFrom(b) == UNION {NamesOf(x.body) : x \in repliesOf(b)}
    <3>6. \A b \in Bus : repliesOf(b) # {}
      BY <2>4, <2>5 DEF Bus
    <3>7. namesFrom("host") = NamesOf(host) /\ namesFrom("sandbox") = NamesOf(sandbox)
      BY <2>4, <2>5, <3>3, BusesDiffer DEF Bus
    <3> HIDE DEF namesFrom
    <3>8. UNION {{ToFakeName(n, b) : n \in namesFrom(b)} : b \in Bus} =
              {ToFakeName(n, "host") : n \in NamesOf(host)} \cup
              {ToFakeName(n, "sandbox") : n \in NamesOf(sandbox)}
      BY <3>7 DEF Bus
    <3> QED BY SMTT(30), <3>1, <3>2, <3>5, <3>6, <3>8
        DEF ListComplete, namesFrom
  <2>7. MergedListsAreComplete'
    BY <1>9, <2>6 DEF MergedListsAreComplete, ListComplete
  <2> QED BY <1>5, <1>7, <2>3, <2>7 DEF MergeTracking
<1>14. ~TakeServiceCall(msg, bus)
  BY <1>2 DEF TakeServiceCall, IsIncomingServiceCall
<1> QED BY <1>1, <1>11, <1>12, <1>13, <1>14 DEF HandleUpstreamMessage

\* The merged answer to a listing comes once, after both buses have replied,
\* and holds exactly the names they replied with, each under its own bus, for
\* any client, any directories and any order of the replies.
THEOREM ListingsMerged ==
  SignalsAnswerNothing => (Spec => []MergedListsAreComplete)
<1> SUFFICES ASSUME SignalsAnswerNothing
             PROVE  Spec => []MergedListsAreComplete
  OBVIOUS
<1>1. Init => MergeTracking
  BY DEF Init, MergeTracking, AnsweredOnce, ShownAnswersSent, OpenMerges,
         MergedListsAreComplete, NoMerge
<1>2. TypeOK /\ MergeTracking /\ [Next]_vars => MergeTracking'
  <2> SUFFICES ASSUME TypeOK, MergeTracking, [Next]_vars PROVE MergeTracking'
    OBVIOUS
  <2>1. CASE UNCHANGED <<pending_merges, sent, received, next_serial, answered>>
    <3>1. AnsweredOnce' /\ ShownAnswersSent'
      BY <2>1 DEF MergeTracking, AnsweredOnce, ShownAnswersSent
    <3>2. OpenMerges'
      BY <2>1 DEF MergeTracking, OpenMerges
    <3>3. ASSUME NEW r \in received', r.from = "router" PROVE ListComplete(r)'
      <4>1. r \in received /\ ListComplete(r)
        BY <2>1, <3>3 DEF MergeTracking, MergedListsAreComplete, ListComplete
      <4> QED BY <2>1, <4>1, MergedListKept
    <3>4. MergedListsAreComplete'
      BY <3>3 DEF MergedListsAreComplete, ListComplete
    <3> QED BY <3>1, <3>2, <3>4 DEF MergeTracking
  <2>2. ASSUME NEW bus \in Bus, BusSignal(bus) PROVE MergeTracking'
    <3>1. PICK msg \in BusSignals[bus] : HandleUpstreamMessage(msg, bus)
      BY <2>2 DEF BusSignal
    <3>2. msg.reply_serial = 0 /\ "reply_serial" \in DOMAIN msg
      BY SessionAssumption DEF SignalsAnswerNothing, Message
    <3> QED BY <2>2, <3>1, <3>2, QuietKeepsMerges DEF BusSignal
  <2>3. ASSUME NEW bus \in Bus, PeerCalls(bus) PROVE MergeTracking'
    <3>1. PICK serial, sender, dest, msg :
            /\ msg = [NoMessage EXCEPT !.serial = serial, !.sender = sender,
                                       !.dest = dest]
            /\ HandleUpstreamMessage(msg, bus)
      BY <2>3 DEF PeerCalls
    <3>2. msg.reply_serial = 0 /\ "reply_serial" \in DOMAIN msg
      BY <3>1 DEF NoMessage
    <3> QED BY <2>3, <3>1, <3>2, QuietKeepsMerges DEF PeerCalls
  <2>4. ASSUME NEW bus \in Bus, BusGoesAway(bus) PROVE MergeTracking'
    BY <2>1, <2>4 DEF BusGoesAway, tables
  <2>5. CASE \/ ClientLeaves \/ ReadClientOrHostEof \/ ReadSandboxEof
             \/ UNCHANGED vars
    BY <2>1, <2>5 DEF ClientLeaves, ReadClientOrHostEof, ReadSandboxEof, vars,
                      tables, outside
  <2> QED
    BY <2>2, <2>3, <2>4, <2>5, ClientKeepsMerges, AnswerKeepsMerges DEF Next
<1>3. MergeTracking => MergedListsAreComplete
  BY DEF MergeTracking
<1> QED BY <1>1, <1>2, <1>3, TypeCorrect, PTL DEF Spec
=============================================================================
