------------------------------ MODULE MySession ------------------------------
(***************************************************************************)
(* One mysql::connection<Stream>: async_connect and async_query            *)
(* (mysql/detail/connection2.ipp, com_query2.ipp) over the packet reader   *)
(* they inherit from (mysql/detail/basic_packet.hpp).                      *)
(*                                                                         *)
(* A packet is a record: what its payload is (t), the one number n of it   *)
(* the client acts on, and its sequence id.  t stands for the first byte   *)
(* (0xff ERR, 0x00 OK, 0xfe EOF, anything else data) and the shape the     *)
(* payload parsers recognise; n is the server's error code (ERR), the      *)
(* number of columns (COUNT, ROW) or whether the authentication plugin is  *)
(* mysql_native_password (HS).                                             *)
(*                                                                         *)
(* As in PgSession, stream is what the server has sent and the client has  *)
(* not consumed, and the read buffer is its first `have' packets and, if   *)
(* `frag', a first piece of the next.  Here the buffer belongs to the      *)
(* operation: whatever is in it when the operation completes is lost.      *)
(***************************************************************************)
EXTENDS Naturals, Integers, Sequences

CONSTANTS
    MaxOps,      \* bound: operations the application starts
    SeqMod,      \* sequence ids are std::uint8_t: 256
    Builds,      \* values NDEBUG may have: is assert() compiled out?
    Replies(_)   \* external: what the server may send back to a request

PacketTypes == {"HS", "OK", "ERR", "EOF", "COUNT", "DEF", "ROW"}
RawPackets == {p \in [t : PacketTypes, n : Int] : p.t = "COUNT" => p.n >= 0}
RequestKinds == {"greeting", "response", "zeroed", "query"}

ASSUME ConstantsAssumption ==
    MaxOps \in Nat /\ SeqMod \in Nat \ {0, 1} /\ Builds \subseteq BOOLEAN

(* External: before a connection is open the server sends one packet at a  *)
(* time and waits for the client. *)
ASSUME ReplyAssumption ==
    \A k \in RequestKinds :
      Replies(k) \subseteq {r \in Seq(RawPackets) : IF k = "query" THEN r # <<>> ELSE Len(r) = 1}

VARIABLES
    conn,     \* "new", "open", "failed" (to be destroyed); "lost": the next
              \* read would start inside a packet, and is not followed further
    NDEBUG,   \* how the program was built; never changes
    io,       \* "idle", "sending", "reading", "parsing", "aborted" (assert)
    op, ops, stage,
    begun,    \* has the header of the next packet been accepted?
    seq,      \* next_sequence_id
    count,    \* __M_column_count
    defs,     \* __M_result_set.__M_def
    rows,     \* __M_result_set.__M_result
    ec,       \* __M_ec
    outcome,  \* error code of the last completion
    have, frag, stream, inbox, up,
    clean,    \* history: no earlier operation reported the client's own error
    endRq,    \* history: request whose answer the last packet consumed is from
    answer    \* history: the server's answer to the current request

opVars == <<op, ops, stage, begun, seq, count, defs, rows, ec>>
endVars == <<conn, outcome, clean, NDEBUG>>
netVars == <<stream, inbox, up, answer>>
vars == <<opVars, endVars, netVars, io, have, frag, endRq>>

Ok == 0
CR_MALFORMED_PACKET == -1
CR_AUTH_PLUGIN_ERR == -2
CR_UNKNOWN_ERROR == -3
Transport == -4

ConnectStages == {"InitialGuess", "S1_ERR", "S1_Handshake", "S2_Guess", "S2_OK",
                  "S2_ERR", "Finished"}
QueryStages == {"InitialGuess", "S1_ERR", "S1_OK", "S2_ColumnCount",
                "S2_ColnumDef", "S2_ResultSetRowGuess", "S2_ResultSet",
                "S2_ERR", "S2_OK_EOF", "Finished"}

(* External: a reply is numbered from the id the request leaves off at. *)
Number(r, q, first) ==
    [i \in 1..Len(r) |-> [t |-> r[i].t, n |-> r[i].n, rq |-> q,
                          seq |-> (first + i - 1) % SeqMod]]

Init ==
    /\ NDEBUG \in Builds /\ conn = "new" /\ io = "idle" /\ up = TRUE
    /\ op = "connect" /\ ops = 0 /\ stage = "InitialGuess" /\ begun = FALSE
    /\ seq = 0 /\ count = 0 /\ defs = <<>> /\ rows = <<>> /\ ec = Ok
    /\ outcome = Ok /\ have = 0 /\ frag = FALSE /\ stream = <<>>
    /\ inbox = <<>> /\ clean = TRUE /\ endRq = 0 /\ answer = <<>>

Request(kind, q, s) ==
    inbox' = IF up THEN Append(inbox, [kind |-> kind, rq |-> q, seq |-> s]) ELSE inbox

(* A fresh operation object. *)
Fresh(k) ==
    /\ io = "idle" /\ ops < MaxOps
    /\ op' = k /\ ops' = ops + 1 /\ stage' = "InitialGuess" /\ begun' = FALSE
    /\ count' = 0 /\ defs' = <<>> /\ rows' = <<>> /\ ec' = Ok
    /\ clean' = (clean /\ outcome >= Ok) /\ outcome' = Ok
    /\ endRq' = 0 /\ answer' = <<>>
    /\ UNCHANGED <<conn, have, frag, stream, up, NDEBUG>>

(* async_connect only reads: the server speaks first, with sequence id 0.  *)
StartConnect ==
    /\ conn = "new" /\ Fresh("connect")
    /\ io' = "reading" /\ seq' = 0
    /\ Request("greeting", ops + 1, 0)

(* async_query: the command goes out with id 0. *)
StartQuery ==
    /\ conn = "open" /\ Fresh("query")
    /\ io' = "sending" /\ seq' = 1
    /\ Request("query", ops + 1, 1)

(* cntl.complete(e) with s the stream and h the packets of it in the buffer. *)
Complete(e, s, h) ==
    /\ io' = "idle" /\ outcome' = e
    /\ stream' = SubSeq(s, h + 1, Len(s)) /\ have' = 0 /\ frag' = FALSE
    /\ conn' = IF op = "connect" THEN IF e = Ok THEN "open" ELSE "failed"
               ELSE IF e = Transport THEN "failed"
               ELSE IF frag THEN "lost" ELSE conn
    /\ UNCHANGED <<inbox, up, answer, clean, NDEBUG>>

(* ev_send_query, ev_send_handshake_response *)
SendDone ==
    /\ io = "sending" /\ io' = "reading"
    /\ UNCHANGED <<opVars, endVars, netVars, have, frag, endRq>>

(* A write or a read fails. *)
StreamFail ==
    /\ io \in {"sending", "reading"}
    /\ Complete(Transport, stream, 0)
    /\ UNCHANGED <<opVars, endRq>>

ReadDone ==
    /\ io = "reading" /\ stream # <<>> /\ io' = "parsing"
    /\ \E h \in 0..Len(stream), f \in BOOLEAN :
         /\ f => h < Len(stream)
         /\ h > 0 \/ (f /\ ~begun)
         /\ have' = h /\ frag' = f
    /\ UNCHANGED <<opVars, endVars, netVars, endRq>>

(* feed() ran out of bytes: PacketNeedMore. *)
NeedMore ==
    /\ io = "parsing" /\ have = 0 /\ (frag => begun)
    /\ io' = "reading" /\ frag' = FALSE
    /\ UNCHANGED <<opVars, endVars, netVars, have, endRq>>

-----------------------------------------------------------------------------
(* Column definitions are read until there are as many as announced. *)
MoreDefs_OneTooMany == Len(defs) <= count
MoreDefs == Len(defs) < count

(* on_payload_data, where the first byte of a packet decides: the stage    *)
(* that parses a packet of type t that arrives in stage x.                 *)
Guess(x, t) ==
    IF op = "connect"
    THEN CASE x = "InitialGuess" -> IF t = "ERR" THEN "S1_ERR" ELSE "S1_Handshake"
           [] x = "S2_Guess" -> IF t = "OK" THEN "S2_OK"
                                ELSE IF t = "ERR" THEN "S2_ERR" ELSE "unknown"
    ELSE CASE x = "InitialGuess" -> IF t = "ERR" THEN "S1_ERR"
                                    ELSE IF t = "OK" THEN "S1_OK" ELSE "S2_ColumnCount"
           [] x = "S2_ColnumDef" /\ MoreDefs -> x
           [] OTHER -> IF t = "ERR" THEN "S2_ERR"
                       ELSE IF t = "EOF" THEN "S2_OK_EOF" ELSE "S2_ResultSet"

Numbered_Any(p) == TRUE
NextPacket == io = "parsing" /\ ~begun /\ (have > 0 \/ frag)
Numbered(p) == p.seq = seq

(* basic_packet accepts a header and the payload parser is chosen. *)
Header_NoWrap ==
    /\ NextPacket /\ Numbered(Head(stream))
    /\ Guess(stage, Head(stream).t) # "unknown"
    /\ stage' = Guess(stage, Head(stream).t)
    /\ begun' = TRUE /\ seq' = seq + 1
    /\ UNCHANGED <<op, ops, count, defs, rows, ec, endVars, netVars, io, have, frag, endRq>>
Header ==
    /\ NextPacket /\ Numbered(Head(stream))
    /\ Guess(stage, Head(stream).t) # "unknown"
    /\ stage' = Guess(stage, Head(stream).t)
    /\ begun' = TRUE /\ seq' = (seq + 1) % SeqMod
    /\ UNCHANGED <<op, ops, count, defs, rows, ec, endVars, netVars, io, have, frag, endRq>>

(* on_sequence_id_complete, or no parser for the first byte. *)
HeaderRefused ==
    /\ NextPacket
    /\ \/ ~Numbered(Head(stream)) /\ Complete(CR_MALFORMED_PACKET, stream, have)
       \/ /\ Numbered(Head(stream)) /\ Guess(stage, Head(stream).t) = "unknown"
          /\ Complete(CR_UNKNOWN_ERROR, stream, have)
    /\ UNCHANGED <<opVars, endRq>>

(* The shapes the payload parsers accept; an ERR packet needs its SQL      *)
(* state marker (n = -1 stands for one without).                           *)
PayloadOK(p) ==
    /\ stage = "S1_Handshake" => p.t = "HS"
    /\ stage = "S2_ColumnCount" => p.t = "COUNT"
    /\ stage = "S2_ColnumDef" => p.t = "DEF"
    /\ stage \in {"S1_ERR", "S2_ERR"} => p.n >= 0
    /\ stage = "S2_ResultSet" => p.t = "ROW" /\ p.n = count

Payload(S) ==
    /\ io = "parsing" /\ begun /\ have > 0 /\ stage \in S
    /\ PayloadOK(Head(stream))
    /\ begun' = FALSE /\ endRq' = Head(stream).rq

PayloadMalformed ==
    /\ io = "parsing" /\ begun /\ (have > 0 \/ frag) /\ ~PayloadOK(Head(stream))
    /\ Complete(CR_MALFORMED_PACKET, stream, have)
    /\ UNCHANGED <<opVars, endRq>>

(* PayloadSuccess: feed() goes on with the next packet. *)
Consumed ==
    /\ stream' = Tail(stream) /\ have' = have - 1
    /\ UNCHANGED <<frag, inbox, up, answer, io, endVars, op, ops, ec, seq>>

ColumnCount ==
    /\ Payload({"S2_ColumnCount"}) /\ Consumed
    /\ count' = Head(stream).n /\ stage' = "S2_ColnumDef"
    /\ UNCHANGED <<defs, rows>>

ColumnDefinition41 ==
    /\ Payload({"S2_ColnumDef"}) /\ Consumed
    /\ defs' = Append(defs, Head(stream).rq)
    /\ UNCHANGED <<count, rows, stage>>

Resultset ==
    /\ Payload({"S2_ResultSet"}) /\ Consumed
    /\ rows' = Append(rows, [n |-> Head(stream).n, rq |-> Head(stream).rq])
    /\ stage' = "S2_ResultSetRowGuess"
    /\ UNCHANGED <<count, defs>>

(* PayloadPause: feed() stops.  The rest of the buffer must be empty. *)
Paused(e) ==
    Complete(IF have = 1 /\ ~frag THEN e ELSE CR_MALFORMED_PACKET, Tail(stream), have - 1)

(* generate_pw calls hash_ctx::finalize inside assert(): without asserts   *)
(* the digests stay zero and so does the scrambled password.               *)
Scramble == IF NDEBUG THEN "zeroed" ELSE "response"

(* do_handshake_response, then ev_read_stage_1.  A greeting whose           *)
(* auth_plugin_data_len would fail the assert() is refused before, by its  *)
(* parser (MyFraming).  Left out: the error when the digest library fails, *)
(* and the assert() on the request's length (MyRequests has the lengths). *)
Handshake ==
    /\ Payload({"S1_Handshake"}) /\ Head(stream).n = 1
    /\ stage' = "S2_Guess" /\ seq' = (seq + 1) % SeqMod
    /\ IF have = 1 /\ ~frag
       THEN /\ io' = "sending" /\ stream' = Tail(stream) /\ have' = 0
            /\ Request(Scramble, ops, (seq + 1) % SeqMod)
            /\ UNCHANGED <<endVars, frag, up, answer>>
       ELSE Paused(Ok)
    /\ UNCHANGED <<op, ops, count, defs, rows, ec>>

HandshakePlugin ==
    /\ Payload({"S1_Handshake"}) /\ Head(stream).n # 1
    /\ ec' = CR_AUTH_PLUGIN_ERR
    /\ Complete(ec', Tail(stream), have - 1)
    /\ UNCHANGED <<op, ops, stage, seq, count, defs, rows>>

(* ev_read_stage_1 after an ERR packet instead of a greeting: the payload  *)
(* parser has left stage = Finished, which its switch does not list.  With *)
(* assert() compiled out control runs into `case PacketNeedMore'.          *)
InitialErr ==
    /\ Payload({"S1_ERR"}) /\ op = "connect"
    /\ ec' = Head(stream).n /\ stage' = "Finished"
    /\ io' = IF NDEBUG THEN "reading" ELSE "aborted"
    /\ stream' = SubSeq(stream, have + 1, Len(stream)) /\ have' = 0 /\ frag' = FALSE
    /\ UNCHANGED <<op, ops, seq, count, defs, rows, endVars, inbox, up, answer>>

(* An OK, ERR or EOF packet ends the operation. *)
Final_FallsThrough ==
    /\ Payload({"S1_ERR", "S2_ERR", "S1_OK", "S2_OK", "S2_OK_EOF"})
    /\ ~(op = "connect" /\ stage = "S1_ERR")
    /\ stage' = "Finished" /\ io' = "reading"
    /\ stream' = Tail(stream) /\ have' = 0 /\ frag' = FALSE
    /\ UNCHANGED <<op, ops, seq, count, defs, rows, ec, endVars, inbox, up, answer>>
Final_StaleCode ==
    /\ Payload({"S1_ERR", "S2_ERR", "S1_OK", "S2_OK", "S2_OK_EOF"})
    /\ ~(op = "connect" /\ stage = "S1_ERR")
    /\ ec' = IF stage \in {"S1_ERR", "S2_ERR"} THEN Head(stream).n ELSE Ok
    /\ stage' = "Finished"
    /\ Paused(ec)
    /\ UNCHANGED <<op, ops, seq, count, defs, rows>>
Final ==
    /\ Payload({"S1_ERR", "S2_ERR", "S1_OK", "S2_OK", "S2_OK_EOF"})
    /\ ~(op = "connect" /\ stage = "S1_ERR")
    /\ ec' = IF stage \in {"S1_ERR", "S2_ERR"} THEN Head(stream).n ELSE Ok
    /\ stage' = "Finished"
    /\ Paused(ec')
    /\ UNCHANGED <<op, ops, seq, count, defs, rows>>

-----------------------------------------------------------------------------
(* External: the server answers in order and hangs up after it refused the *)
(* connection.                                                             *)
Reply ==
    /\ up /\ inbox # <<>>
    /\ \E r \in Replies(Head(inbox).kind) :
         /\ stream' = stream \o Number(r, Head(inbox).rq, Head(inbox).seq)
         /\ answer' = IF Head(inbox).rq = ops THEN r ELSE answer
         /\ up' = (Head(inbox).kind = "query" \/ r[Len(r)].t \in {"HS", "OK"})
         /\ inbox' = IF up' THEN Tail(inbox) ELSE <<>>
    /\ UNCHANGED <<opVars, endVars, io, have, frag, endRq>>

Client == \/ SendDone \/ NeedMore \/ Header \/ HeaderRefused \/ PayloadMalformed
          \/ ColumnCount \/ ColumnDefinition41 \/ Resultset
          \/ Handshake \/ HandshakePlugin \/ InitialErr \/ Final
Next == StartConnect \/ StartQuery \/ Client \/ ReadDone \/ StreamFail \/ Reply

Eof == ~up /\ stream = <<>> /\ io = "reading" /\ StreamFail
Fairness == WF_vars(Client) /\ WF_vars(ReadDone) /\ WF_vars(Reply) /\ WF_vars(Eof)
Spec == Init /\ [][Next]_vars /\ Fairness
=============================================================================
