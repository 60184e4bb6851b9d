----------------------------- MODULE MCFrontEnd -----------------------------
(* FrontEnd with short lines, small arrays and a few environments.         *)
EXTENDS FrontEnd

W1 == {<<x>> : x \in Letters}
W2 == {<<x, y>> : x \in Letters, y \in Letters}
W3 == {<<x, y, z>> : x \in Letters, y \in Letters, z \in Letters}
MCNames == W1 \cup W2 \cup W3

A == <<"a">>
B == <<"b">>
AA == <<"a", "a">>
AB == <<"a", "b">>
BA == <<"b", "a">>
BB == <<"b", "b">>
AAA == <<"a", "a", "a">>
ABB == <<"a", "b", "b">>

\* The builtins.
MCBuiltins == <<BB, BA, ABB>>

\* Names that collide in the first slot, in the step, and in both.
MCFNV1a == [n \in MCNames |->
    CASE n = A -> 4 [] n = AA -> 25 [] n = AB -> 46 [] n = BB -> 4
      [] n = B -> 10 [] n = AAA -> 13 [] n = BA -> 7 [] OTHER -> 2]

X(n) == [name |-> n, runnable |-> TRUE]
Plain(n) == [name |-> n, runnable |-> FALSE]
Dir(entries) == [opens |-> TRUE, reads |-> TRUE, entries |-> entries]
Missing == [opens |-> FALSE, reads |-> FALSE, entries |-> <<>>]
Unreadable == [opens |-> TRUE, reads |-> FALSE, entries |-> <<X(AB)>>]
Empty == EMPTY

Usual == << <<Dir(<<X(A), Plain(BB), X(AA)>>),
              Dir(<<X(B), X(A), X(AAA), X(<<"b", "a", "b">>)>>)>> >>
None == << >>

MCEnvs ==
    { Usual, None,
      << <<Missing, Dir(<<X(A)>>)>> >>,
      << <<Dir(<<X(A)>>), Unreadable, Dir(<<X(BB)>>)>>, <<Dir(<<X(B)>>)>> >>,
      << <<Dir(<<X(A)>>), Empty, Dir(<<X(AA)>>)>>, <<Dir(<<X(A), X(AB)>>)>> >>,
      << <<Empty>>, <<Dir(<<X(AAA), X(AA), X(A)>>)>> >>,
      << <<Dir(<<X(A), X(BA), X(AA)>>)>> >>,
      << <<Empty>>, <<Dir(<<X(BB)>>)>> >>,
      << <<Dir(<<X(A), X(AA), X(AB), X(B), X(AAA), X(<<"b", "a", "b">>),
                X(<<"b", "b", "a">>), X(<<"a", "b", "a">>), X(<<"a", "a", "b">>)>>)>> >>,
      << <<Dir(<<X(A), X(AA), X(AB), X(B), X(AAA)>>), Dir(<<X(AA), Plain(A)>>)>>,
         <<Dir(<<X(AAA)>>)>> >> }

MCLeftovers == {{}, {0}, {1, 4}, {3, 5, 6}, 0..20}

\* Every short text, with one letter.
Texts == UNION {[1..k -> {"a", " ", ";", "&", "|", ">", "<"}] : k \in 1..4}

\* Every sequence of four tokens of these kinds that fits a line.
Pieces == {<<"a", "b">>, <<"b", " ">>, <<";">>, <<"&", "&">>, <<"|">>, <<">">>}
Sentences == {l \in {FlattenSeq(s) : s \in [1..4 -> Pieces]} : Len(l) <= MaxLine}

Special ==
    { <<"a", " ", "a", "b", " ", "b", " ", "a", " ", "b">>,
      <<"a", "|", "b", "|", "a", "b", "|", "a", "|", "b">>,
      <<"a", "a", "b", "b", ";", "a">>, <<"a", "a", "a", "a", "a", "a", "b">>,
      <<";", ";", ";", ";", ";", ";", ";", ";", ";", ";">>,
      <<"a", ";", "a", "a", ";", "b", ";", "a", "b", ";">>,
      <<"a", ">", "b", ">", ">", "a", "<", "b", "|", "a">> }

MCTyped == [e \in MCEnvs |-> IF e = Usual THEN Texts \cup Sentences \cup Special
                             ELSE Special]

=============================================================================
