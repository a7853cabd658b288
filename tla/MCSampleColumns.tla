--------------------------- MODULE MCSampleColumns ---------------------------
(* SampleColumns on a small instance.                                       *)
EXTENDS SampleColumns

Line(m, ix) == [mod |-> m, ix |-> ix, ok |-> TRUE]
A == Line("A", <<"a1", "a2">>)
B == Line("B", <<"b1">>)
C == Line("C", <<"c1", "c2">>)

\* Good files, one module twice, one index twice, a line cut short.
Files ==
  {<<A, B, C>>, <<B, C>>, <<A, A>>, <<A, Line("B", <<"a2">>)>>, <<A, [B EXCEPT !.ok = FALSE]>>}

\* Every list of up to three names, one of them unknown.
AnyOrder == UNION {[1..k -> {"A", "B", "C", "X"}] : k \in 1..3}

Plugin(h) == [kind |-> "NORMAL", hdrs |-> h]
Script == [kind |-> "SCRIPT", hdrs |-> {}]
Illegal == [kind |-> "ILLEGAL", hdrs |-> {}]
Nodes2 ==
  {[A |-> Plugin({"a1"}), B |-> Script, C |-> Script],
   [A |-> Script, B |-> Plugin({"b1"}), C |-> Plugin({"c2", "c1"})],
   [A |-> Illegal, C |-> Script]}

Keys == [A |-> <<"a1", "a2">>, B |-> <<"b1">>, C |-> <<"c1", "c2">>]
\* All its keys, a wrong one, one too few, no value at all.
PrintedLines(m) == {Keys[m], [Keys[m] EXCEPT ![1] = "z"], <<Keys[m][1]>>, BadLine}
=============================================================================
