---- MODULE MCMySession ----
EXTENDS MyServer

(* As the theorem about these runs' QueryReportsOwnAnswer asks. *)
ASSUME EndsAssumption == NoEndWraps

(* A zeroed scramble is never the right one. *)
MCReplies(kind) ==
    CASE kind = "greeting" -> Greetings
      [] kind = "response" -> Responses
      [] kind = "zeroed" -> {<<Err>>}
      [] kind = "query" -> SingleAnswers \cup CallAnswers
MCSingle(kind) ==
    CASE kind = "greeting" -> Greetings
      [] kind = "response" -> Responses
      [] kind = "zeroed" -> {<<Err>>}
      [] kind = "query" -> SingleAnswers
NativeOnly == {<<P("HS", 1)>>}
====
