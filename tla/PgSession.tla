------------------------------ MODULE PgSession ------------------------------
(***************************************************************************)
(* One postgresql::connection<Stream>, the operation running on it and the *)
(* server it talks to (postgresql/connection.hpp, detail/connect.ipp,      *)
(* simple_query.ipp, parse_query.ipp, execute.ipp).  The parse loop is the *)
(* one of oneshot.ipp too; what is different there is in PgOneshot.        *)
(*                                                                         *)
(* The client is one thread of completion handlers.  io says what it is    *)
(* waiting for; while io = "parsing" a handler is on the stack and each    *)
(* turn of its `while (begin <= end)' loop is one step.  Nothing but the   *)
(* server moves between two turns, and the server only touches `inbox' and *)
(* the end of `stream'.                                                    *)
(*                                                                         *)
(* stream holds every message the server has sent and the client has not   *)
(* consumed; the read buffer [__M_buf_begin, __M_buf_end) is its first     *)
(* `have' messages and, if `frag', the first bytes of the next one.  What  *)
(* an operation leaves in it is what the next operation starts with.       *)
(* A message is cut into at most two pieces by reads: a parser given a     *)
(* piece that does not end its message only keeps its own place in it.     *)
(***************************************************************************)
EXTENDS PgProtocol, FiniteSets

CONSTANTS
    MaxOps,      \* bound: operations the application starts
    Replies(_)   \* external: what the server may send back to a request

RawMessages == [t : Types, n : Int]

ASSUME BoundAssumption == MaxOps \in Nat
ASSUME ReplyAssumption ==
    \A k \in Kinds \cup {"password"} :
      Replies(k) \subseteq {r \in Seq(RawMessages) : r # <<>>}

(* External: a server that answers every request whole.  ReadyForQuery and *)
(* a request for a password come last, if at all, errors have a code, and  *)
(* only the start-up phase goes on after a request for a password.         *)
WholeAnswers ==
    \A k \in Kinds \cup {"password"} : \A r \in Replies(k) :
      /\ \A i \in 1..Len(r) :
           /\ r[i].t = "E" => r[i].n # Ok
           /\ i < Len(r) => r[i].t # "Z" /\ (r[i].t = "R" => r[i].n = TrustOrFinished)
      /\ r[Len(r)].t = "R" => /\ k \in {"connect", "password"}
                              /\ \A i \in 1..Len(r) : r[i].t = "R" => r[i].n # TrustOrFinished

VARIABLES
    conn,     \* application's view: "new", "open", "early" (connect reported
              \* success before ReadyForQuery), "dropped" (to be destroyed)
    io,       \* "idle", "sending", "reading", "parsing"
    op,       \* kind of the operation object
    ops,      \* operations started so far; also the current request's number
    expect,   \* its stage (expect, stage, __M_curr_type, index of __M_state)
    parsers,  \* type of the message being parsed, or "none" (variant index 0)
    err,      \* execute's err
    curr,     \* __M_curr
    result,   \* result / __M_result
    outcome,  \* error code of the last completion
    have,     \* complete messages in the read buffer
    frag,     \* does the read buffer end in an incomplete message?
    stream,   \* sent by the server, not consumed
    inbox,    \* requests the server has not answered
    up,       \* is the server there?
    missed,   \* history: operations that ended before an answer's ReadyForQuery
    told,     \* history: did one report an error that tells the application so?
    endZ,     \* history: request whose ReadyForQuery ended the last operation
    answer    \* history: the server's answer to the current request

opVars == <<op, ops, expect, parsers, err, curr, result>>
endVars == <<conn, outcome, missed, told, endZ>>
bufVars == <<have, frag>>
netVars == <<stream, inbox, up, answer>>
vars == <<opVars, endVars, bufVars, netVars, io>>

-----------------------------------------------------------------------------
Rows == [n : Nat, rq : Nat]
ResultSets == [cols : Int, rq : Nat, rows : Seq(Rows)]
Tagged == [t : Types, n : Int, rq : Nat]
Requests == [kind : Kinds \cup {"password"}, rq : Nat]
Tag(r, q) == [i \in 1..Len(r) |-> [t |-> r[i].t, n |-> r[i].n, rq |-> q]]

(* connection.hpp: a fresh connection has an empty buffer. *)
Init ==
    /\ conn = "new" /\ io = "idle" /\ op = "connect" /\ ops = 0
    /\ expect = "read_s1" /\ parsers = "none" /\ err = Ok
    /\ curr = NoSet /\ result = <<>> /\ outcome = Ok
    /\ have = 0 /\ frag = FALSE
    /\ stream = <<>> /\ inbox = <<>> /\ up = TRUE
    /\ missed = 0 /\ told = FALSE /\ endZ = 0 /\ answer = <<>>

(* A request reaches the server unless the server is gone. *)
Request(kind, q) ==
    inbox' = IF up THEN Append(inbox, [kind |-> kind, rq |-> q]) ELSE inbox

(* A fresh operation object.  The application connects first and runs one  *)
(* operation at a time.                                                    *)
Fresh(k) ==
    /\ io = "idle" /\ ops < MaxOps
    /\ op' = k /\ ops' = ops + 1
    /\ expect' = InitStage[k] /\ parsers' = "none" /\ err' = Ok
    /\ curr' = NoSet /\ result' = <<>>
    /\ outcome' = Ok /\ endZ' = 0
    /\ answer' = <<>>
    /\ UNCHANGED <<conn, missed, told, bufVars, stream, up>>

(* Its first handler writes the request. *)
Start(k) == Fresh(k) /\ io' = "sending" /\ Request(k, ops + 1)

AsyncConnect == conn = "new" /\ Start("connect")
AsyncSimpleQuery == conn \in {"open", "early"} /\ Start("simple")
AsyncParse == conn \in {"open", "early"} /\ Start("parse")
AsyncExecute == conn \in {"open", "early"} /\ Start("execute")

(* What an operation does to the connection when its reader is done: q is  *)
(* the request of the ReadyForQuery just consumed, 0 if the operation ends *)
(* on anything else, which leaves an answer unread.  `lost' says the       *)
(* stream may not be at a message boundary any more.                       *)
Closes(e, q, lost) ==
    /\ endZ' = q
    /\ missed' = IF q = 0 THEN missed + 1 ELSE missed
    /\ conn' = IF lost \/ (op = "connect" /\ e # Ok) THEN "dropped"
               ELSE IF op = "connect" THEN IF q = 0 THEN "early" ELSE "open"
               ELSE conn

(* What the application can know of that: an operation that reports the    *)
(* client's own error, or an error of the server from anything but execute *)
(* and oneshot, has left an answer unread.                                 *)
Tells(e) == e < Ok \/ (op \notin {"execute", "oneshot"} /\ e # Ok)

(* cntl.complete(e) *)
Complete(e, q, lost) ==
    /\ io' = "idle" /\ outcome' = e /\ told' = (told \/ Tells(e))
    /\ Closes(e, q, lost)

(* ev_send*: the write finished; the handler parses what is left in the    *)
(* buffer before it reads.  (connect's first write reads at once: its      *)
(* buffer is empty.)                                                       *)
SendDone_DropsBuffer ==
    /\ io = "sending" /\ io' = "reading"
    /\ stream' = SubSeq(stream, have + 1, Len(stream))
    /\ have' = 0 /\ frag' = FALSE
    /\ UNCHANGED <<opVars, endVars, inbox, up, answer>>
SendDone ==
    /\ io = "sending" /\ io' = "parsing"
    /\ UNCHANGED <<opVars, endVars, bufVars, netVars>>

SendFail ==
    /\ io = "sending"
    /\ Complete(Transport, 0, TRUE)
    /\ UNCHANGED <<opVars, bufVars, netVars>>

-----------------------------------------------------------------------------
(* Case 0 of do_parse: the type of the next message selects its parser.    *)
Peek ==
    /\ io = "parsing" /\ parsers = "none" /\ (have > 0 \/ frag)
    /\ \E a \in Arcs[op] :
         /\ a.at = expect /\ a.t = Head(stream).t
         /\ expect' = a.to /\ parsers' = a.t
         /\ curr' = IF op = "simple" /\ a.t = "T"
                    THEN [cols |-> 0, rq |-> Head(stream).rq, rows |-> <<>>]
                    ELSE IF op = "simple" /\ a.t = "I" THEN NoSet ELSE curr
    /\ UNCHANGED <<op, ops, err, result, endVars, bufVars, netVars, io>>

(* No branch for this type in this stage: malformed_message.  The message  *)
(* stays in the buffer (connect's parser has eaten its type byte, but a    *)
(* failed connect is never used again).                                    *)
PeekMalformed_Skips ==
    /\ io = "parsing" /\ parsers = "none" /\ have > 0
    /\ ~ \E a \in Arcs[op] : a.at = expect /\ a.t = Head(stream).t
    /\ stream' = Tail(stream) /\ have' = have - 1
    /\ UNCHANGED <<opVars, endVars, frag, inbox, up, answer, io>>
NotExpected ==
    /\ io = "parsing" /\ parsers = "none" /\ (have > 0 \/ frag)
    /\ ~ \E a \in Arcs[op] : a.at = expect /\ a.t = Head(stream).t
PeekMalformed ==
    /\ NotExpected
    /\ Complete(Malformed, 0, FALSE)
    /\ UNCHANGED <<opVars, bufVars, netVars>>

(* Out of input, with or without a message begun: perform_read / do_read.  *)
OutOfInput ==
    /\ io = "parsing" /\ have = 0
    /\ parsers = "none" => ~frag
    /\ io' = "reading" /\ frag' = FALSE
    /\ UNCHANGED <<opVars, endVars, have, stream, up, answer>>
NeedMore == OutOfInput /\ UNCHANGED inbox

(* ev_read*: a read fills the buffer with any part of what was sent.       *)
ReadDone ==
    /\ io = "reading" /\ stream # <<>>
    /\ \E h \in 0..Len(stream), f \in BOOLEAN :
         /\ f => h < Len(stream)
         /\ h > 0 \/ (f /\ parsers = "none")
         /\ have' = h /\ frag' = f
    /\ io' = "parsing"
    /\ UNCHANGED <<opVars, endVars, netVars>>

ReadFail ==
    /\ io = "reading"
    /\ Complete(Transport, 0, TRUE)
    /\ UNCHANGED <<opVars, bufVars, netVars>>

-----------------------------------------------------------------------------
(* A body its parser accepts: data_row insists on the announced number of  *)
(* columns, authentication cannot read a SASL mechanism list, and n = -1   *)
(* stands for a body of the wrong shape.                                   *)
BodyOK_AnyColumns(m) == m.n >= 0 /\ (parsers = "R" => m.n # SASL)
BodyOK(m) ==
    /\ m.n >= 0
    /\ parsers = "D" => m.n = curr.cols
    /\ parsers = "R" => m.n # SASL

Parsed_NoAdvance(e) ==
    /\ io = "parsing" /\ parsers \in Effects[op][e] /\ have > 0 /\ BodyOK(Head(stream))
    /\ stream' = Tail(stream) /\ have' = have
    /\ UNCHANGED <<frag, inbox, up, answer, op, ops>>
Parsed(e) ==
    /\ io = "parsing" /\ parsers \in Effects[op][e] /\ have > 0 /\ BodyOK(Head(stream))
    /\ stream' = Tail(stream) /\ have' = have - 1
    /\ UNCHANGED <<frag, inbox, up, answer, op, ops>>

Continue ==
    /\ parsers' = "none" /\ expect' = BodyStage(op, expect, parsers)
    /\ UNCHANGED <<endVars, io>>

(* basic_parser or message_parser reports a malformed body. *)
Refused ==
    /\ io = "parsing" /\ parsers # "none" /\ (have > 0 \/ frag)
    /\ ~BodyOK(Head(stream))
BodyMalformed ==
    /\ Refused
    /\ Complete(Malformed, 0, TRUE)
    /\ UNCHANGED <<opVars, bufVars, netVars>>

Dismissed ==
    /\ Parsed("dismiss")
    /\ Continue
    /\ UNCHANGED <<err, curr, result>>

RowDescription ==
    /\ Parsed("desc")
    /\ Continue
    /\ curr' = [cols |-> Head(stream).n, rq |-> Head(stream).rq, rows |-> <<>>]
    /\ UNCHANGED <<err, result>>

DataRow ==
    /\ Parsed("row")
    /\ Continue
    /\ curr' = [curr EXCEPT !.rows =
                  Append(@, [n |-> Head(stream).n, rq |-> Head(stream).rq])]
    /\ UNCHANGED <<err, result>>

CommandComplete ==
    /\ Parsed("push")
    /\ Continue
    /\ result' = Append(result, curr) /\ curr' = NoSet
    /\ UNCHANGED err

(* execute keeps the error and goes on until ReadyForQuery. *)
ErrorKept_DeliversHalf ==
    /\ Parsed("keep")
    /\ Continue
    /\ err' = Head(stream).n
    /\ result' = IF curr = NoSet THEN result ELSE Append(result, curr)
    /\ UNCHANGED curr
ErrorKept ==
    /\ Parsed("keep")
    /\ Continue
    /\ err' = Head(stream).n
    /\ UNCHANGED <<curr, result>>

(* The other operations report it and leave ReadyForQuery in the stream. *)
ErrorReported_ClearsBuffer ==
    /\ io = "parsing" /\ parsers \in Effects[op]["fail"] /\ have > 0 /\ BodyOK(Head(stream))
    /\ stream' = SubSeq(stream, have + 1, Len(stream)) /\ have' = 0 /\ frag' = FALSE
    /\ Complete(Head(stream).n, 0, FALSE)
    /\ UNCHANGED <<opVars, inbox, up, answer>>
ErrorReported ==
    /\ Parsed("fail")
    /\ Complete(Head(stream).n, 0, FALSE)
    /\ UNCHANGED <<expect, parsers, err, curr, result>>

ReadyForQuery ==
    /\ Parsed("ready")
    /\ Complete(err, Head(stream).rq, FALSE)
    /\ UNCHANGED <<expect, parsers, err, curr, result>>

(* The AuthenticationMethod switches of do_read_s1_v2 and                  *)
(* do_wait_for_auth_success. *)
AuthFinal ==
    /\ Parsed("auth") /\ Head(stream).n = TrustOrFinished
    /\ IF expect = "read_s1"
       THEN Complete(Ok, 0, FALSE) /\ UNCHANGED <<expect, parsers>>
       ELSE Continue
    /\ UNCHANGED <<err, curr, result>>

AuthCleartext ==
    /\ io = "parsing" /\ parsers = "R" /\ have > 0 /\ expect = "read_s1"
    /\ Head(stream).n = CleartextPassword
    /\ stream' = Tail(stream) /\ have' = have - 1
    /\ Request("password", ops)
    /\ parsers' = "none" /\ expect' = "wait_success" /\ io' = "sending"
    /\ UNCHANGED <<frag, up, answer, op, ops, err, curr, result, endVars>>

AuthRefused ==
    /\ Parsed("auth") /\ Head(stream).n # TrustOrFinished
    /\ \/ expect = "read_s1" /\ Head(stream).n # CleartextPassword
          /\ Complete(Unable, 0, FALSE)
       \/ expect # "read_s1" /\ Complete(Malformed, 0, FALSE)
    /\ UNCHANGED <<expect, parsers, err, curr, result>>

Body ==
    \/ Dismissed
    \/ RowDescription \/ DataRow \/ CommandComplete
    \/ ErrorKept \/ ErrorReported \/ ReadyForQuery
    \/ AuthFinal \/ AuthCleartext \/ AuthRefused

-----------------------------------------------------------------------------
(* External: the server answers its requests in order.  After an answer    *)
(* that ends neither in ReadyForQuery nor in an authentication request it  *)
(* hangs up.                                                               *)
Reply ==
    /\ up /\ inbox # <<>>
    /\ \E r \in Replies(Head(inbox).kind) :
         /\ stream' = stream \o Tag(r, Head(inbox).rq)
         /\ answer' = IF Head(inbox).rq = ops THEN r ELSE answer
         /\ up' = (r[Len(r)].t \in {"Z", "R"})
         /\ inbox' = IF up' THEN Tail(inbox) ELSE <<>>
    /\ UNCHANGED <<opVars, endVars, bufVars, io>>

(* External: the server dies; what was not received yet may be lost.       *)
Die ==
    /\ up /\ up' = FALSE /\ inbox' = <<>>
    /\ \E k \in have..Len(stream) :
         /\ frag => k > have
         /\ stream' = SubSeq(stream, 1, k)
    /\ UNCHANGED <<opVars, endVars, bufVars, io, answer>>

Client == SendDone \/ Peek \/ PeekMalformed \/ NeedMore \/ Body \/ BodyMalformed
Next ==
    \/ AsyncConnect \/ AsyncSimpleQuery \/ AsyncParse \/ AsyncExecute
    \/ Client
    \/ SendFail \/ ReadDone \/ ReadFail
    \/ Reply \/ Die

(* Handlers run when they are ready, the kernel finishes writes and reads, *)
(* and the server answers or its end of file is reported.                  *)
Eof == ~up /\ stream = <<>> /\ ReadFail
Fairness == WF_vars(Client) /\ WF_vars(ReadDone) /\ WF_vars(Eof) /\ WF_vars(Reply)

Spec == Init /\ [][Next]_vars /\ Fairness

-----------------------------------------------------------------------------
(* The type invariant.  It also says where the buffer ends in the stream   *)
(* and that a half-read message is the next one of the stream.             *)
TypeOK ==
    /\ conn \in {"new", "open", "early", "dropped"}
    /\ io \in {"idle", "sending", "reading", "parsing"}
    /\ op \in Kinds /\ ops \in 0..MaxOps
    /\ expect \in Stages /\ parsers \in Types \cup {"none"}
    /\ err \in Int /\ outcome \in Int
    /\ curr \in ResultSets /\ result \in Seq(ResultSets)
    /\ have \in 0..Len(stream) /\ frag \in BOOLEAN /\ (frag => have < Len(stream))
    /\ stream \in Seq(Tagged) /\ inbox \in Seq(Requests) /\ up \in BOOLEAN
    /\ missed \in Nat /\ told \in BOOLEAN /\ endZ \in Nat
    /\ answer \in Seq(RawMessages)

Described(s) ==
    /\ s.rows # <<>> => s.cols >= 0
    /\ \A i \in 1..Len(s.rows) : s.rows[i].n = s.cols

(* Whatever the server sends: a row parser is never made from an absent    *)
(* __M_curr, and every row of every result set delivered has the number of *)
(* columns its description announced.                                      *)
RowsMatchDescription ==
    /\ parsers = "D" => curr # NoSet
    /\ Described(curr)
    /\ \A i \in 1..Len(result) : Described(result[i])

(* As long as connect waited for ReadyForQuery and no operation reported   *)
(* an error, but for those of the server that execute keeps, an idle       *)
(* connection has nothing unread and nothing unanswered: the next          *)
(* operation starts at the answer to its own request.                      *)
InSync == io = "idle" /\ conn = "open" /\ ~told => stream = <<>> /\ inbox = <<>>

(* An operation that ends on a ReadyForQuery has consumed the answer of    *)
(* the request issued `missed' operations before it, and every result set  *)
(* and row it delivers comes from that answer: connections fall behind one *)
(* whole answer at a time and answers are never mixed.                     *)
AnswersInOrder ==
    io = "idle" /\ endZ # 0
      => /\ endZ = ops - missed
         /\ \A i \in 1..Len(result) : result[i] # NoSet =>
              /\ result[i].rq = endZ
              /\ \A j \in 1..Len(result[i].rows) : result[i].rows[j].rq = endZ

(* How many answers a connection still has to read. *)
Owed == Cardinality({i \in 1..Len(stream) : stream[i].t = "Z"}) + Len(inbox)

(* They are exactly the ones its operations did not wait for: once an      *)
(* operation returned before its ReadyForQuery the connection stays that   *)
(* many answers behind for good.                                           *)
LagAccount == io = "idle" /\ up /\ conn \in {"open", "early"} => Owed = missed

(* When connect reports success before ReadyForQuery (trust, or a notice   *)
(* between the password and AuthenticationOk) the start-up messages it     *)
(* leaves behind make every later operation fail.                          *)
EarlyConnectUnusable == conn = "early" /\ io = "idle" /\ op # "connect" => outcome # Ok
=============================================================================
