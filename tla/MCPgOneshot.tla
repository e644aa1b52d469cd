---------------------------- MODULE MCPgOneshot ----------------------------
(* Sessions that begin with a connection and mix oneshot executions with   *)
(* the other operations: every answer to a oneshot execution, and one      *)
(* answer to the others for each way they end.                             *)
EXTENDS PgMixed, PgServer

OtherReplies(kind) ==
    CASE kind = "connect" -> {<<Msg("R", CleartextPassword)>>}
      [] kind = "password" -> {<<Msg("R", TrustOrFinished), M("K"), M("Z")>>}
      [] kind = "simple" -> {<<Msg("T", 1), M("C"), M("Z")>>, <<E1, M("Z")>>}
      [] kind = "parse" -> {<<M("1"), M("Z")>>}
      [] kind = "execute" -> {<<M("2"), M("n"), M("C"), M("Z")>>}
MixedReplies(kind) ==
    IF kind = "oneshot" THEN OneshotAnswers \cup {<<M("1"), M("S"), M("2"), M("n"), M("I"), M("Z")>>}
    ELSE OtherReplies(kind)
=============================================================================
