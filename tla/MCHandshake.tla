----------------------------- MODULE MCHandshake ----------------------------
(* Clients as they are found: libdbus and GDBus wait for each answer, sd-bus *)
(* sends everything at once.                                                 *)
EXTENDS HandshakeProperties

Step(word, after) == [word |-> word, after |-> after]

PoliteClient == <<Step("NUL", 0), Step("AUTH", 0),
                  Step("NEGOTIATE_UNIX_FD", 1), Step("BEGIN", 2),
                  Step("MESSAGE", 2)>>
ClientWithoutFds == <<Step("NUL", 0), Step("AUTH", 0), Step("BEGIN", 1),
                      Step("MESSAGE", 1)>>
ChallengedClient == <<Step("NUL", 0), Step("AUTH_EMPTY", 0), Step("DATA", 1),
                      Step("NEGOTIATE_UNIX_FD", 2), Step("BEGIN", 2),
                      Step("MESSAGE", 2)>>
PipeliningClient == <<Step("NUL", 0), Step("AUTH_EMPTY", 0), Step("DATA", 0),
                      Step("NEGOTIATE_UNIX_FD", 0), Step("BEGIN", 0),
                      Step("MESSAGE", 0)>>
NoDBusClient == <<Step("AUTH", 0)>>

Behaviour(steps, pieces) == [steps |-> steps, pieces |-> pieces]

\* Lines in pieces do no harm while only one side has something to say.  With
\* a client that does not wait, every line has to be there as a whole.
MCScripts ==
  {Behaviour(steps, pieces) : steps \in {PoliteClient, ClientWithoutFds},
                              pieces \in 1..3} \cup
  {Behaviour(steps, 1) : steps \in {ChallengedClient, PipeliningClient,
                                    NoDBusClient}}
OnlyPipelining == {Behaviour(PipeliningClient, 2)}

\* The theorems are about the clients of MCScripts.
ASSUME TheoremsApply ==
  Scripts = MCScripts =>
    ClientsLogIn /\ VerdictsAwaited /\ WaitsAreForVerdicts
=============================================================================
