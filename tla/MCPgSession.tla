---- MODULE MCPgSession ----
(* A conforming server of the four operations that are one chain of        *)
(* handlers (MCPgOneshot has the fifth).  FewReplies keeps one answer of   *)
(* each shape that ends an operation differently, so that longer sessions  *)
(* can be explored.                                                        *)
EXTENDS PgServer

FewReplies(kind) ==
    CASE kind = "connect" -> {<<Msg("R", CleartextPassword)>>}
      [] kind = "password" -> {<<Msg("R", TrustOrFinished), M("K"), M("Z")>>,
                               <<M("N"), Msg("R", TrustOrFinished), M("K"), M("Z")>>}
      [] kind = "simple" -> {<<Msg("T", 1), M("C"), M("Z")>>, <<E1, M("Z")>>}
      [] kind = "parse" -> {<<M("1"), M("Z")>>, <<E1, M("Z")>>}
      [] kind = "execute" -> {<<M("2"), Msg("T", 2), M("C"), M("Z")>>, <<E1, M("Z")>>,
                              <<M("2"), M("n"), M("C"), M("Z")>>}
      [] kind = "oneshot" -> {}
====
