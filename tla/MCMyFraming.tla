---------------------------- MODULE MCMyFraming ----------------------------
(***************************************************************************)
(* The packets that MyFraming is checked with: each layout, with every     *)
(* kind of length-encoded integer, and the ways in which its bytes can     *)
(* fail to add up.                                                         *)
(***************************************************************************)
EXTENDS MyFraming

Size(f) == Len(FlattenSeq(f))
Packet(x, f, ok) == [content |-> [t |-> x, fs |-> f], len |-> <<Size(f), 0, 0>>, ok |-> ok]
Good(x, f) == Packet(x, f, TRUE)
Ill(x, f) == Packet(x, f, FALSE)

A == 97
Bytes8 == <<1, 2, 3, 4, 5, 6, 7, 8>>

OKBody(rows, id, info) == <<<<0>>, rows, id, <<2, 0>>, <<0, 0>>, info>>
OK == Good("OK", OKBody(<<1>>, <<0>>, <<>>))
OKInfo == Good("OK", OKBody(<<252, 251, 0>>, <<254, 7, 0, 0, 0, 0, 0, 0, 0>>, <<A, A>>))
EOF == Good("EOF", <<<<254>>, <<0>>, <<0>>, <<2, 0>>, <<0, 0>>, <<>>>>)
ErrBody(marker, text) == <<<<255>>, <<21, 4>>, marker, <<52, 50, 48, 48, 48>>, text>>
ERR == Good("ERR", ErrBody(<<35>>, <<A>>))

(* data_len bytes of scramble; flags 8 announce a plugin name.  Servers    *)
(* announce it in flags_2 and the client looks at flags_1; here, as with   *)
(* the servers the client works with, the two bits agree. *)
Reserved == <<0, 0, 0, 0, 0, 0, 0, 0, 0, 0>>
Scramble(n) == [i \in 1..n |-> 1]
HSBody(version, flags, data_len, n) ==
    <<version, <<A, 0>>, <<1, 0, 0, 0>>, Bytes8, <<0>>, <<flags, 0>>, <<45>>, <<2, 0>>,
      <<flags, 0>>, <<data_len>>, Reserved, Scramble(n)>>
HS == Good("HS", HSBody(<<10>>, 8, 21, 13) \o <<<<A, 0>>>>)

COUNT(b) == Good("COUNT", <<b>>)
DefBody(catalog, n) ==
    <<<<3>>, catalog, <<0>>, <<>>, <<0>>, <<>>, <<0>>, <<>>, <<1>>, <<A>>, <<0>>, <<>>,
      <<n>>, <<33, 0>>, <<4, 0, 0, 0>>, <<8>>, <<0, 0>>, <<0>>, <<0, 0>>>>
Column == Good("DEF", DefBody(Def, 12))
NullCell == <<Null, <<>>>>
Cell(n, b) == <<n, b>>
ROW(cs) == Good("ROW", FlattenSeq(cs))

GoodStreams ==
    { <<HS, OK, OKInfo, ERR>>,
      <<Good("HS", HSBody(<<10>>, 0, 22, 14)), ERR>>,
      <<HS, OK, COUNT(<<1>>), Column, ROW(<<Cell(<<2>>, <<A, 0>>)>>), ROW(<<NullCell>>), EOF>>,
      <<HS, OK, COUNT(<<252, 2, 0>>), Column, Column, ROW(<<NullCell, Cell(<<0>>, <<>>)>>),
        ROW(<<Cell(<<253, 1, 0, 0>>, <<A>>), NullCell>>), ERR, OK>>,
      <<HS, OK, COUNT(<<1>>), Column, EOF, COUNT(<<1>>), Column, ROW(<<Cell(<<0>>, <<>>)>>), EOF>> }

(* A version other than 10, no room for a scramble, a plugin name that is  *)
(* not announced or is and is missing; a packet without its last byte, one *)
(* with a byte too many, one without any; a marker or integer that is not  *)
(* taken.  A zero length shows only when more bytes follow. *)
IllGreetings ==
    { Ill("HS", HSBody(<<9>>, 0, 21, 13)), Ill("HS", HSBody(<<10>>, 0, 8, 13)),
      Ill("HS", HSBody(<<10>>, 0, 21, 13) \o <<<<A, 0>>>>), Ill("HS", HSBody(<<10>>, 8, 21, 13)),
      Ill("HS", HSBody(<<10>>, 0, 21, 12)), Ill("HS", <<<<10>>, <<A>>>>) }
IllAnswers ==
    { Ill("ERR", ErrBody(<<36>>, <<A>>)), Ill("ERR", <<<<255>>, <<21, 4>>>>),
      Ill("OK", <<<<0>>, <<251>>, <<0>>, <<2, 0>>, <<0, 0>>>>), Ill("OK", <<<<0>>, <<252, 1>>>>),
      Ill("OK", <<<<0>>, <<0>>, <<0>>, <<2, 0>>, <<0>>>>),
      Ill("COUNT", <<<<251>>>>), Ill("COUNT", <<<<1>>, <<0>>>>), Ill("COUNT", <<<<252, 1>>>>),
      Ill("COUNT", <<>>) }
IllData ==
    { Ill("DEF", DefBody(<<A, A, A>>, 12)), Ill("DEF", DefBody(Def, 13)),
      Ill("DEF", DefBody(Def, 12) \o <<<<0>>>>), Ill("DEF", SubSeq(DefBody(Def, 12), 1, 18)) }
IllRows ==
    { Ill("ROW", NullCell), Ill("ROW", NullCell \o NullCell \o NullCell),
      Ill("ROW", NullCell \o Cell(<<3>>, <<A, A>>)), Ill("ROW", NullCell \o <<<<255>>>>) }

MCStreams ==
    GoodStreams \cup {<<m, ERR>> : m \in IllGreetings} \cup {<<HS, Ill("OK", <<<<1>>>>)>>}
    \cup {<<HS, OK, m, Column>> : m \in IllAnswers}
    \cup {<<HS, OK, COUNT(<<1>>), m, EOF>> : m \in IllData}
    \cup {<<HS, OK, COUNT(<<252, 0, 0>>), Ill("ROW", NullCell), EOF>>}
    \cup {<<HS, OK, COUNT(<<2>>), Column, Column, m, EOF>> : m \in IllRows}
=============================================================================
