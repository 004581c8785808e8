-------------------------- MODULE MCContainerSpec --------------------------
(***************************************************************************)
(* Two variables, the name of one the beginning of the other's; integers   *)
(* of 8 bits, megabytes of 4 bytes, a CPU period of 20 in fifths.          *)
(***************************************************************************)
EXTENDS ContainerSpec

A == <<"A">>
AB == <<"A", "B">>

SomeKeys == {A, AB}

Literal(text) == [named |-> FALSE, text |-> text]
Named(key) == [named |-> TRUE, text |-> key]

\* The third has braces that a value can complete.
SomeCommands ==
  {<<>>,
   <<Literal(<<"r", "A">>), Named(A), Named(AB), Named(A)>>,
   <<Named(A), Literal(<<"A", "B", "}", "}">>)>>}

\* Two of them have braces: they open a name, or are one.
SomeValues == {<<>>, <<"x", "A">>, <<"{", "{">>, <<"{", "{", "A", "}", "}">>}

Entry(port, proto, ip) == [port |-> port, proto |-> proto, ip |-> ip]

SomePorts ==
  {<<>>,
   <<Entry(1, "tcp", ""), Entry(1, "udp", "")>>,
   <<Entry(1, "tcp", "10.0.0.1"), Entry(1, "sctp", ""), Entry(2, "udp", "")>>}

\* Around zero, below and above the largest product, and the extremes.
SomeInts == {-128, -1, 0, 1, 6, 31, 32, 33, 64, 127}

=============================================================================
