----------------------------- MODULE PgProtocol -----------------------------
(***************************************************************************)
(* The message vocabulary of the PostgreSQL client and the dispatch tables *)
(* of its operations (postgresql/detail/*.ipp).                            *)
(*                                                                         *)
(* A message is a record: its type byte t, and the one number n of its     *)
(* body the client acts on:                                                *)
(*   'R' authentication method, 'E' error code (0 when the body has no 'C' *)
(*   field), 'T' and 'D' number of columns; 0 for the other types.         *)
(* Everything else in a body is read and dropped, or handed to the caller  *)
(* as it is, and is abstracted away.                                       *)
(*                                                                         *)
(* do_parse looks at the type byte of the next message without consuming   *)
(* it and either selects a parser, possibly moving its stage, or gives up  *)
(* with malformed_message.  An Arc is one accepting branch of that ladder: *)
(* in stage `at', type `t' is accepted and the stage becomes `to' at once, *)
(* before the body is parsed.  No arc means malformed_message.             *)
(***************************************************************************)
EXTENDS Naturals, Integers, Sequences

Arc(at, t, to) == [at |-> at, t |-> t, to |-> to]
AnyStage(S, T) == {Arc(x, t, x) : x \in S, t \in T}

-----------------------------------------------------------------------------
(* Operations of connection<Stream>. *)
Kinds == {"connect", "simple", "parse", "execute", "oneshot"}

(* connect.ipp: __M_state index 1, 2 and 3.  The jump table of             *)
(* message_parser<Messages...> adds 'E', 'S' and 'N' to the listed types.  *)
ConnectStages == {"read_s1", "wait_success", "till_ready"}
ConnectArcs ==
    AnyStage({"read_s1", "wait_success"}, {"R", "E", "S", "N"})
    \cup AnyStage({"till_ready"}, {"Z", "K", "E", "S", "N"})

(* simple_query.ipp: __CurrRespType. *)
SimpleStages == {"Unknown", "WithDataNoDef", "WithDataWithDef", "Empty"}
SimpleArcs ==
    {Arc("WithDataWithDef", "D", "WithDataWithDef"),
     Arc("Unknown", "T", "WithDataNoDef"),
     Arc("Unknown", "I", "Empty")}
    \cup AnyStage(SimpleStages, {"C", "Z", "E", "N", "S"})

(* parse_query.ipp: Stage. *)
ParseStages == {"WaitForParseComplete", "WaitForReadyForQuery"}
ParseArcs ==
    {Arc("WaitForParseComplete", "1", "WaitForParseComplete"),
     Arc("WaitForReadyForQuery", "Z", "WaitForReadyForQuery")}
    \cup AnyStage(ParseStages, {"E", "N"})

(* execute.ipp: the anonymous enum of `expect'. *)
ExecuteStages ==
    {"BindComplete", "RowDescOrNoData", "DataRow", "EmptyQueryResponse",
     "ReadyForQuery"}
ExecuteArcs ==
    {Arc("BindComplete", "2", "RowDescOrNoData"),
     Arc("RowDescOrNoData", "T", "DataRow"),
     Arc("DataRow", "D", "DataRow"),
     Arc("DataRow", "C", "ReadyForQuery"),
     Arc("RowDescOrNoData", "n", "EmptyQueryResponse"),
     Arc("EmptyQueryResponse", "I", "ReadyForQuery"),
     Arc("ReadyForQuery", "Z", "ReadyForQuery")}
    \cup {Arc(x, "E", "ReadyForQuery") : x \in ExecuteStages}
    \cup AnyStage(ExecuteStages, {"N"})

(* oneshot.ipp: the same ladder behind one more stage. *)
OneshotStages == ExecuteStages \cup {"ParseComplete"}
OneshotArcs ==
    {Arc("ParseComplete", "1", "BindComplete"),
     Arc("ParseComplete", "E", "ReadyForQuery"),
     Arc("ParseComplete", "N", "ParseComplete")}
    \cup ExecuteArcs

Stages == ConnectStages \cup SimpleStages \cup ParseStages \cup OneshotStages

Arcs == [connect |-> ConnectArcs, simple |-> SimpleArcs, parse |-> ParseArcs,
         execute |-> ExecuteArcs, oneshot |-> OneshotArcs]

(* Member initialisers: where each operation object starts. *)
InitStage == [connect |-> "read_s1", simple |-> "Unknown",
              parse |-> "WaitForParseComplete", execute |-> "BindComplete",
              oneshot |-> "ParseComplete"]

(* What an operation does once the whole body of a message is parsed, as   *)
(* the set of types it does each thing for:                                *)
(*   desc     start a result set          row     append a row to it       *)
(*   push     move it to the results      auth    answer the server        *)
(*   ready    complete                    fail    complete with the error  *)
(*   keep     remember the error          dismiss nothing                  *)
NoEffect == [desc |-> {}, row |-> {}, push |-> {}, auth |-> {},
             ready |-> {}, fail |-> {}, keep |-> {}, dismiss |-> {}]
ConnectEffects ==
    [NoEffect EXCEPT !.auth = {"R"}, !.ready = {"Z"}, !.fail = {"E"},
                     !.dismiss = {"K", "S", "N"}]
SimpleEffects ==
    [NoEffect EXCEPT !.desc = {"T"}, !.row = {"D"}, !.push = {"C"}, !.ready = {"Z"},
                     !.fail = {"E"}, !.dismiss = {"I", "N", "S"}]
ParseEffects ==
    [NoEffect EXCEPT !.ready = {"Z"}, !.fail = {"E"}, !.dismiss = {"1", "N"}]
ExecuteEffects_ReportsAtOnce ==
    [NoEffect EXCEPT !.desc = {"T"}, !.row = {"D"}, !.push = {"C"}, !.ready = {"Z"},
                     !.fail = {"E"}, !.dismiss = {"2", "n", "I", "N"}]
ExecuteEffects ==
    [NoEffect EXCEPT !.desc = {"T"}, !.row = {"D"}, !.push = {"C"}, !.ready = {"Z"},
                     !.keep = {"E"}, !.dismiss = {"2", "n", "I", "N"}]
OneshotEffects ==
    [NoEffect EXCEPT !.desc = {"T"}, !.row = {"D"}, !.push = {"C"}, !.ready = {"Z"},
                     !.keep = {"E"}, !.dismiss = {"1", "2", "n", "I", "N"}]
Effects == [connect |-> ConnectEffects, simple |-> SimpleEffects, parse |-> ParseEffects,
            execute |-> ExecuteEffects, oneshot |-> OneshotEffects]

(* The stage after a whole body of type t was parsed, where it changes. *)
BodyStage(k, x, t) ==
    IF k = "simple" /\ t = "T" THEN "WithDataWithDef"
    ELSE IF k = "simple" /\ t = "C" THEN "Unknown"
    ELSE IF k = "parse" /\ t = "1" THEN "WaitForReadyForQuery"
    ELSE IF k = "connect" /\ t = "R" THEN "till_ready"
    ELSE IF k = "connect" /\ t \in {"S", "N"} /\ x = "wait_success" THEN "read_s1"
    ELSE x

-----------------------------------------------------------------------------
(* AuthenticationMethod values the client tells apart. *)
TrustOrFinished == 0
CleartextPassword == 3
MD5Password == 5
SASL == 10

(* Completion codes: 0 is success and positive codes are the server's; the *)
(* client's own are malformed_message, sqlclient_unable_to_establish_      *)
(* sqlconnection and any error of the stream.                              *)
Ok == 0
Malformed == -1
Unable == -2
Transport == -3

(* std::optional<result_set>.  A set is its number of columns, the request *)
(* its description answers, and its rows. *)
NoSet == [cols |-> -1, rq |-> 0, rows |-> <<>>]
Types == {"R", "S", "K", "Z", "E", "N", "1", "2", "T", "D", "C", "n", "I"}
Msg(t, n) == [t |-> t, n |-> n]
Messages == [t : Types, n : Nat]
=============================================================================
