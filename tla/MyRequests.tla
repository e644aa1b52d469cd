----------------------------- MODULE MyRequests -----------------------------
(***************************************************************************)
(* The bytes of the packets a MySQL connection writes: the handshake       *)
(* response (do_handshake_response in connection2.ipp) and COM_QUERY (the  *)
(* first handler of com_query2.ipp).                                       *)
(*                                                                         *)
(* Whether the response has a database is said twice, by a capability and  *)
(* by the field; a payload's length is computed apart from the payload; and*)
(* a query's has to fit three bytes.                                       *)
(*                                                                         *)
(* Of the capabilities the low byte is kept, of the scramble its length.   *)
(***************************************************************************)
EXTENDS RequestWire

CONSTANT Queries   \* texts of queries, shorter than a packet

ASSUME QueryAssumption ==
    /\ \A q \in Queries : Len(q) + 1 < Base^3 - 1
    /\ \A s, t \in Strings : Len(s) + Len(t) + 77 < Base^3 - 1

-----------------------------------------------------------------------------
(* fixed_length_integer_to_network: little-endian. *)
FixedLengthInteger(v, w) == [i \in 1..w |-> (v \div Base^(i - 1)) % Base]
Zeros(n) == [i \in 1..n |-> 0]

ConnectWithDb == 8
ClientFlag(database) == IF database = <<>> THEN 7 ELSE 7 + ConnectWithDb
PluginName == <<109, 121, 115, 113, 108, 95, 110, 97, 116, 105, 118, 101, 95,
                112, 97, 115, 115, 119, 111, 114, 100>>
Scramble == [i \in 1..20 |-> i % 2]

(* do_handshake_response: sequence id 1, maximum packet size, character    *)
(* set and filler, then the fields. *)
PayloadLength_NoDatabase(user, database) ==
    4 + 4 + 1 + 23 + (Len(user) + 1) + 21 + (Len(PluginName) + 1)
PayloadLength(user, database) ==
    4 + 4 + 1 + 23 + (Len(user) + 1) + 21 + (Len(PluginName) + 1)
    + (IF database = <<>> THEN 0 ELSE Len(database) + 1)
HandshakeResponse(user, database) ==
    FixedLengthInteger(PayloadLength(user, database), 3) \o <<1>>
    \o FixedLengthInteger(ClientFlag(database), 4) \o FixedLengthInteger(Base^3 - 1, 4)
    \o <<33>> \o Zeros(23) \o user \o <<0>> \o <<20>> \o Scramble
    \o (IF database = <<>> THEN <<>> ELSE database \o <<0>>)
    \o PluginName \o <<0>>

(* COM_QUERY: sequence id 0, command 3. *)
Query(text) == FixedLengthInteger(Len(text) + 1, 3) \o <<0, 3>> \o text

ResponsePacket(user, database) ==
    [seq |-> 1, user |-> user, auth |-> Scramble, database |-> database,
     plugin |-> PluginName, whole |-> TRUE]
QueryPacket(text) == [seq |-> 0, command |-> 3, text |-> text]

-----------------------------------------------------------------------------
AsyncConnect ==
    /\ protocol = "mysql" /\ requests = 0
    /\ \E u, d \in Strings : Write(HandshakeResponse(u, d), <<ResponsePacket(u, d)>>)
AsyncQuery ==
    /\ protocol = "mysql" /\ requests \in 1..MaxRequests
    /\ \E q \in Queries : Write(Query(q), <<QueryPacket(q)>>)

(* External: the server reads a packet by its length; the first is the     *)
(* response to its greeting, whose database is there if the capability is, *)
(* and the others are commands. *)
LittleEndian(s) == FoldRight(LAMBDA b, a : a * Base + b, s, 0)
At(p, i) == IF i \in DOMAIN p THEN p[i] ELSE 0
NulFrom(p, i) == Min({z \in i..Len(p) : p[z] = 0} \cup {Len(p) + 1})
Response(seq, p) ==
    LET u == NulFrom(p, 33)
        a == u + 1 + At(p, u + 1)
        d == IF (At(p, 1) + Base * At(p, 2)) \div ConnectWithDb % 2 = 1 THEN NulFrom(p, a + 1) ELSE a
        n == NulFrom(p, d + 1)
    IN  [seq |-> seq, user |-> SubSeq(p, 33, u - 1), auth |-> SubSeq(p, u + 2, a),
         database |-> SubSeq(p, a + 1, d - 1), plugin |-> SubSeq(p, d + 1, n - 1),
         whole |-> n = Len(p)]
ServerReads ==
    LET n == LittleEndian(SubSeq(wire, 1, 3))
        p == SubSeq(wire, 5, 4 + n)
    IN  /\ protocol = "mysql" /\ Len(wire) >= 4 /\ Len(wire) >= 4 + n
        /\ got' = Append(got,
             IF got = <<>> THEN Response(wire[4], p)
             ELSE [seq |-> wire[4], command |-> At(p, 1), text |-> SubSeq(p, 2, Len(p))])
        /\ wire' = SubSeq(wire, 5 + n, Len(wire))
        /\ UNCHANGED <<protocol, asked, reading, requests>>

MyRequest == AsyncConnect \/ AsyncQuery

-----------------------------------------------------------------------------
(* What a request may consist of. *)
MyPackets ==
    {<<ResponsePacket(u, d)>> : u, d \in Strings} \cup {<<QueryPacket(q)>> : q \in Queries}
=============================================================================
