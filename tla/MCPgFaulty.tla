---- MODULE MCPgFaulty ----
(* A server that, once the connection is open, sends any short sequence of *)
(* messages: out of order, with bodies of the wrong shape or the wrong     *)
(* number of columns, with or without ReadyForQuery.                       *)
EXTENDS PgSession

CONSTANT MaxReply   \* bound: messages in one reply

Alphabet == {Msg("T", 1), Msg("T", 2), Msg("D", 2), Msg("D", -1), Msg("E", 0)}
            \cup {Msg(t, 0) : t \in {"2", "n", "I", "C", "Z", "K"}}
FaultyReplies(kind) ==
    CASE kind = "connect" -> {<<Msg("R", CleartextPassword)>>}
      [] kind = "password" -> {<<Msg("R", CleartextPassword)>>, <<Msg("K", 0)>>,
                               <<Msg("R", TrustOrFinished), Msg("Z", 0)>>}
      [] OTHER -> UNION {[1..n -> Alphabet] : n \in 1..MaxReply}
====
