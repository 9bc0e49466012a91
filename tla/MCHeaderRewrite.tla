--------------------------- MODULE MCHeaderRewrite ---------------------------
(* Messages of up to three fields, written as the senders' libraries write   *)
(* them, for TLC.                                                            *)
EXTENDS HeaderRewriteProperties

Field(code, sig, value) == [code |-> code, sig |-> sig, value |-> value]

\* Values as functions of the endianness.
U32(e, n) == ToU32(e, n)
Str(e, bytes) == U32(e, Len(bytes)) \o bytes \o <<0>>
Text(n) == [i \in 1..n |-> 48 + i]
UniqueName(n) == <<Char.colon>> \o Text(n - 1)
HostName(n) == <<Char.colon, Char.h, Char.dot>> \o Text(n - 3)

Marshal(e, body, fields) ==
  LET add(acc, f) ==
        LET at == AlignUp(Len(acc.bytes), 8)
            head == acc.bytes \o Zeros(at - Len(acc.bytes)) \o
                      <<f.code, Len(f.sig)>> \o f.sig \o <<0>>
            value == AlignUp(Len(head), AlignOf(f.sig[1]))
        IN  [bytes |-> head \o Zeros(value - Len(head)) \o f.value,
             at    |-> Append(acc.at, 16 + at)]
      done == FoldLeft(add, [bytes |-> <<>>, at |-> <<>>], fields)
      end  == 16 + Len(done.bytes)
  IN  [endian |-> e,
       at     |-> done.at,
       raw    |-> <<IF e = "little" THEN 108 ELSE 66, 1, 0, 1>> \o
                  U32(e, Len(body)) \o U32(e, 5) \o U32(e, Len(done.bytes)) \o
                  done.bytes \o Zeros(Padding(end)) \o body]

Others(e) ==
  {Field(1, <<Char.o>>, Str(e, Text(n))) : n \in {1, 4}} \cup
  {Field(8, <<Char.g>>, <<2>> \o Text(2) \o <<0>>),
   Field(9, <<Char.u>>, U32(e, 1)),
   Field(10, <<Char.t>>, Text(8)),
   Field(11, <<Char.a, Char.y>>, U32(e, 3) \o Text(3)),
   Field(12, <<Char.q>>, Text(2)),
   Field(13, <<Char.y>>, Text(1)),
   Field(15, <<Char.v>>, <<1, Char.s, 0, 0>> \o Str(e, Text(2))),
   Field(16, <<Char.v>>, <<1, Char.t, 0>> \o Zeros(1) \o Text(8))}
Before(e) == {<<>>} \cup {<<f>> : f \in Others(e)} \cup
             {<<f, Field(5, <<Char.u>>, U32(e, 7))>> : f \in Others(e)}
After(e) == {<<>>} \cup
            {<<f>> : f \in {Field(3, <<Char.s>>, Str(e, Text(n))) : n \in {2, 3}}
                           \cup {Field(14, <<Char.t>>, Text(8))}}
Names(e) == {Field(7, <<Char.s>>, Str(e, UniqueName(n))) : n \in {2, 5, 7, 8}}
       \cup {Field(6, <<Char.s>>, Str(e, HostName(n))) : n \in {4, 7, 9, 10}}
       \cup {Field(7, <<Char.s>>, Str(e, Text(3)))}
Bodies(e) == {<<>>, Str(e, UniqueName(3)), Str(e, HostName(7)), Str(e, Text(6)),
              U32(e, 100)}

MCMessages ==
  {Marshal(e, body, before \o <<name>> \o after) :
     <<e, body, before, name, after>> \in
       UNION {{e} \X Bodies(e) \X Before(e) \X Names(e) \X After(e) :
                e \in {"little", "big"}}}
=============================================================================
