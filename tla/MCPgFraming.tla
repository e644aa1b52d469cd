---------------------------- MODULE MCPgFraming ----------------------------
(***************************************************************************)
(* The messages that PgFraming is checked with: one or two of each layout, *)
(* and for each layout the ways in which its bytes can fail to add up.     *)
(***************************************************************************)
EXTENDS PgFraming

Word(n) == <<0, 0, 0, n>>
Size(f) == Len(FlattenSeq(f))
Message(x, f, ok) ==
    [content |-> [t |-> x, fs |-> f], len |-> Word(4 + Size(f)), ok |-> ok]
Good(x, f) == Message(x, f, TRUE)
Ill(x, f) == Message(x, f, FALSE)
Sized(m, n) == [m EXCEPT !.len = Word(n), !.ok = FALSE]

A == 97
Text == <<A, 0>>
Empty == <<0>>

(* Rows and their descriptions. *)
Desc == << <<Empty, Word(1), <<0, 1>>, Word(23), <<0, 4>>, Word(0), <<0, 0>>>>,
           <<Text, Word(0), <<0, 0>>, Word(25), <<255, 255>>, Word(0), <<0, 1>>>> >>
T(n) == Good("T", <<<<0, n>>>> \o FlattenSeq(SubSeq(Desc, 1, n)))
NullCell == <<Null, <<>>>>
Cell(v) == <<Word(Len(v)), v>>
D(vs) == Good("D", <<<<0, Len(vs)>>>> \o FlattenSeq(vs))

Z == Good("Z", <<<<73>>>>)
C == Good("C", <<Text>>)
R(n) == Good("R", <<Word(n)>>)
Sqlstate == <<52, 50, 80, 48, 49, 0>>
E == Good("E", <<<<83>>, Text, <<67>>, Sqlstate, <<0>>>>)
N == Good("N", <<<<77>>, Empty, <<0>>>>)
S == Good("S", <<Text, Empty>>)
K == Good("K", <<Word(7), Word(9)>>)
MD5 == Good("R", <<Word(5), <<1, 2, 3, 4>>>>)
Mechanism == Good("R", <<Word(10), Text>>)

GoodStreams ==
    { <<T(2), D(<<NullCell, Cell(<<A>>)>>), D(<<Cell(<<>>), NullCell>>), C, Z>>,
      <<T(1), D(<<Cell(<<0, A>>)>>), T(0), D(<<>>), Z>>,
      <<R(0), S, K, Z>>, <<N, MD5>>, <<Mechanism, E>>,
      <<Good("1", <<>>), Good("2", <<>>), Good("n", <<>>), Good("I", <<>>)>> }

(* A length that is one off, too short to hold itself, or not the one its  *)
(* type has; a byte too many; a value that the client does not take.  The  *)
(* list of SASL mechanisms ends in a second NUL, which the client refuses. *)
IllFormed ==
    { Sized(Good("1", <<>>), 3), Sized(Z, 6), Sized(K, 8),
      Ill("Z", <<<<65>>>>), Ill("C", <<<<A>>>>), Ill("C", <<Text, <<A>>>>),
      Ill("S", <<Text, <<A>>>>), Ill("S", <<Text, Text, Empty>>),
      Ill("E", <<<<67>>, Text, <<0>>>>), Ill("E", <<<<0>>, <<A>>>>), Ill("E", <<>>),
      Ill("N", <<<<77>>, Text>>),
      Ill("R", <<Word(4)>>), Ill("R", <<<<0, 0>>>>), Ill("R", <<Word(0), <<0>>>>),
      Ill("R", <<Word(5), <<1, 2, 3>>>>), Ill("R", <<Word(10), Text, <<0>>>>),
      Ill("T", <<<<0, 1>>>>), Ill("T", <<<<0, 2>>>> \o Desc[1]),
      Ill("T", <<<<0, 1>>>> \o Desc[1] \o <<<<0>>>>) }
IllRows ==
    { Ill("D", <<<<0, 1>>, Word(0)>>), Ill("D", <<<<0, 3>>, Null, Null, Null>>),
      Ill("D", <<<<0, 2>>, Null, <<>>>>), Ill("D", <<<<0, 2>>, Null, <<>>, Word(2), <<A>>>>),
      Ill("D", <<<<0, 2>>, Null, <<>>, Null, <<>>, <<A>>>>) }

MCStreams ==
    GoodStreams \cup {<<Z, m, Z>> : m \in IllFormed} \cup {<<T(2), m, Z>> : m \in IllRows}
=============================================================================
