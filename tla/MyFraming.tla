------------------------------ MODULE MyFraming ------------------------------
(***************************************************************************)
(* How the MySQL client takes packets out of the bytes it reads: feed() of *)
(* mysql/detail/basic_packet.hpp around the parsers of                     *)
(* mysql/detail/packets, chosen by the stages of async_connect and         *)
(* async_query.  One connect and the queries after it are one stream.      *)
(*                                                                         *)
(* stream, begin, end: as in PgFraming.  Each step is one turn of a loop:  *)
(* the length, the sequence id, the choice of a parser, one field of a     *)
(* payload.  MySession treats a packet as one piece or two and checks the  *)
(* sequence ids; this module shows that any cutting up makes no difference.*)
(***************************************************************************)
EXTENDS Fields, FiniteSets

CONSTANT Streams    \* as in Frames; the content of a packet is its type t and
                    \* the bytes fs of each field; len is its payload length
VARIABLES
    sent, stream,
    begin, end,
    reading,   \* a read is in flight
    state,     \* "length", "id", "payload": stage of basic_packet
    reader,    \* what the operation expects: "greeting", "auth", "answer", "data"
    t,         \* the parser chosen for this packet, "none" before
    p, got, limit, fs,  \* as in PgFraming
    count,     \* __M_column_count
    defs,      \* size of __M_result_set.__M_def
    done, malformed

vars == <<sent, stream, begin, end, reading, state, reader, t, p, got, limit, fs,
          count, defs, done, malformed>>
inputVars == <<sent, stream>>

-----------------------------------------------------------------------------
(* As in PgFraming: for each type, the size of the field after the last of f. *)
End == -8
Bad == -9

Types == {"OK", "EOF", "ERR", "HS", "COUNT", "DEF", "ROW"}

(* Value of a length-encoded integer. *)
LenIntRefused(b) == b[1] \in {251, 255}
LenIntValue(b) == IF b[1] < 251 THEN b[1] ELSE LittleEndian(Tail(b))

OkLayout == <<1, LenInt, LenInt, 2, 2, Rest>>
OK_Packet(f) ==
    CASE Len(f) = 6 -> End
      [] Len(f) \in {2, 3} /\ LenIntRefused(f[Len(f)]) -> Bad
      [] OTHER -> OkLayout[Len(f) + 1]

ErrLayout == <<1, 2, 1, 5, Rest>>
ERR_Packet(f) ==
    CASE Len(f) = 5 -> End
      [] Len(f) = 3 /\ f[3] # <<35>> -> Bad
      [] OTHER -> ErrLayout[Len(f) + 1]

(* The flag for a plugin name is bit 19 of the capabilities, looked up in  *)
(* flags_1 + (flags_1 << 16): bit 3 of the lower half decides. *)
PluginAuth(flags_1) == (flags_1[1] \div 8) % 2 = 1
HandshakeLayout == <<1, CStr, 4, 8, 1, 2, 1, 2, 2, 1, 10>>
HandshakeV10_Packet(f) ==
    CASE Len(f) = 1 /\ f[1] # <<10>> -> Bad
      [] Len(f) = 10 /\ f[10][1] <= 9 -> Bad
      [] Len(f) < 11 -> HandshakeLayout[Len(f) + 1]
      [] Len(f) = 11 -> IF f[10][1] - 8 > 13 THEN f[10][1] - 8 ELSE 13
      [] Len(f) = 12 /\ PluginAuth(f[6]) -> CStr
      [] OTHER -> End

ColumnCount_Packet(f) == IF LenIntRefused(f[1]) THEN Bad ELSE End

(* Six length-encoded strings, each its length and its bytes, and a tail.  *)
Def == <<100, 101, 102>>
DefTail == <<1, 2, 4, 1, 2, 1, 2>>
ColumnDefinition41_Packet(f) ==
    CASE Len(f) = 2 /\ f[2] # Def -> Bad
      [] Len(f) = 13 /\ f[13] # <<12>> -> Bad
      [] Len(f) < 12 /\ Len(f) % 2 = 0 -> LenInt
      [] Len(f) < 12 /\ Len(f) % 2 = 1 ->
            IF LenIntRefused(f[Len(f)]) THEN Bad ELSE LenIntValue(f[Len(f)])
      [] Len(f) \in 12..18 -> DefTail[Len(f) - 11]
      [] OTHER -> End

(* One of c columns is a length-encoded string, or 0xfb for NULL (no bytes). *)
Null == <<251>>
Resultset_Packet(c, f) ==
    CASE Len(f) % 2 = 1 -> IF f[Len(f)] = Null THEN 0
                           ELSE IF LenIntRefused(f[Len(f)]) THEN Bad
                           ELSE LenIntValue(f[Len(f)])
      [] Len(f) < 2 * c -> LenInt
      [] OTHER -> End

First(x) ==
    CASE x \in {"OK", "EOF", "ERR", "HS"} -> 1
      [] x \in {"COUNT", "DEF", "ROW"} -> LenInt
Following(x, c, f) ==
    CASE x \in {"OK", "EOF"} -> OK_Packet(f)
      [] x = "ERR" -> ERR_Packet(f)
      [] x = "HS" -> HandshakeV10_Packet(f)
      [] x = "COUNT" -> ColumnCount_Packet(f)
      [] x = "DEF" -> ColumnDefinition41_Packet(f)
      [] x = "ROW" -> Resultset_Packet(c, f)
SizeAfter(x, c, f) == IF f = <<>> THEN First(x) ELSE Following(x, c, f)

(* What an operation reads after a packet of type x; most packets end what *)
(* it waits for, and the next one begins afresh. *)
Awaits(x) ==
    CASE x = "HS" -> "auth"
      [] x \in {"OK", "ERR", "EOF"} -> "answer"
      [] OTHER -> "data"

(* The parser for a packet with first byte b, when d of c columns are      *)
(* defined; rows of no columns are not taken. *)
Guess(r, c, d, b) ==
    CASE r = "greeting" -> IF b = 255 THEN "ERR" ELSE "HS"
      [] r = "auth" -> IF b = 0 THEN "OK" ELSE IF b = 255 THEN "ERR" ELSE "none"
      [] r = "answer" -> IF b = 255 THEN "ERR" ELSE IF b = 0 THEN "OK" ELSE "COUNT"
      [] r = "data" -> IF d < c THEN "DEF"
                       ELSE IF b = 255 THEN "ERR" ELSE IF b = 254 THEN "EOF"
                       ELSE IF c = 0 THEN "none" ELSE "ROW"

-----------------------------------------------------------------------------
(* The bytes of a packet; what the sequence id is does not matter here. *)
Bytes(m) == m.len \o <<0>> \o FlattenSeq(m.content.fs)
Sent(s) == FlattenSeq([i \in 1..Len(s) |-> Bytes(s[i])])

(* What may be sent: packets with the length they say.  A well-formed one  *)
(* (ok) has the fields of the type that its first byte and the packets     *)
(* before it call for.  An ill-formed one is empty or of no such type; or  *)
(* its fields go wrong after the k-th: its value is not taken, bytes       *)
(* follow the last field, or a field is not there whole. *)
Packets == [content : [t : Types, fs : Seq(Seq(Nat))], len : Seq(Nat), ok : BOOLEAN]

(* Before packet n: what is read, the columns that the last count          *)
(* announced, and how many have been defined since. *)
Reader(s, n) == IF n = 1 THEN "greeting" ELSE Awaits(s[n - 1].content.t)
Columns(s, n) ==
    LET d == {i \in 1..(n - 1) : s[i].content.t = "COUNT"}
    IN  IF d = {} THEN 0 ELSE LenIntValue(s[Max(d)].content.fs[1])
Defined(s, n) ==
    Cardinality({i \in 1..(n - 1) : /\ s[i].content.t = "DEF"
                                    /\ \A j \in i..(n - 1) : s[j].content.t # "COUNT"})

Whole(x, c, f, k) ==
    \A i \in 1..k : LET n == SizeAfter(x, c, SubSeq(f, 1, i - 1))
                    IN  WholeField(n, f[i]) /\ (n = Rest => i = Len(f))
GoesWrong(x, c, f, k) ==
    LET n == SizeAfter(x, c, SubSeq(f, 1, k))
    IN  /\ Whole(x, c, f, k)
        /\ n = Bad \/ (n = End /\ Left(f, k) # <<>>) \/ TooShort(n, Left(f, k))

Legal(m, r, c, d) ==
    LET x == m.content.t
        f == m.content.fs
        b == FlattenSeq(f)
        g == Guess(r, c, d, b[1])
    IN  /\ LittleEndian(m.len) = Len(b)
        /\ IF m.ok
           THEN b # <<>> /\ g = x /\ Whole(x, c, f, Len(f)) /\ SizeAfter(x, c, f) = End
           ELSE \/ b = <<>> \/ g = "none"
                \/ g = x /\ \E k \in 0..Len(f) : GoesWrong(x, c, f, k)

ASSUME StreamAssumption ==
    \A s \in Streams :
      /\ s \in Seq(Packets)
      /\ \A n \in 1..Len(s) :
           /\ Len(s[n].len) = 3
           /\ (\A i \in 1..(n - 1) : s[i].ok)
                => Legal(s[n], Reader(s, n), Columns(s, n), Defined(s, n))

(* External: the server waits for the client after one of these, so no     *)
(* read gets more than the bytes up to the next of them. *)
Pauses == {"HS", "OK", "ERR", "EOF"}
Pause(n) == n = Len(sent) \/ (n > Len(done) /\ sent[n].content.t \in Pauses)
Available ==
    LET n == CHOOSE n \in Len(done)..Len(sent) :
                 Pause(n) /\ \A m \in Len(done)..(n - 1) : ~Pause(m)
    IN  Len(Sent(SubSeq(sent, 1, n)))

Init ==
    /\ sent \in Streams /\ stream = Sent(sent)
    /\ begin = 0 /\ end = 0 /\ reading = TRUE
    /\ state = "length" /\ reader = "greeting" /\ t = "none" /\ p = End /\ got = <<>>
    /\ limit = 0 /\ fs = <<>> /\ count = 0 /\ defs = 0 /\ done = <<>> /\ malformed = FALSE

(* async_read_some, into an empty buffer. *)
Read ==
    /\ reading /\ ~malformed
    /\ end' \in (end + 1)..Available
    /\ reading' = FALSE
    /\ UNCHANGED <<inputVars, begin, state, reader, t, p, got, limit, fs, count, defs,
                   done, malformed>>

Parsing(s) == ~reading /\ ~malformed /\ state = s

NeedMore ==
    /\ reading' = TRUE
    /\ UNCHANGED <<inputVars, end, state, reader, t, p, limit, fs, count, defs, done, malformed>>

Refuse ==
    /\ malformed' = TRUE
    /\ UNCHANGED <<inputVars, end, begin, state, reader, t, p, got, limit, fs, count, defs,
                   done, reading>>

(* feed() leaves its loop when the buffer is empty. *)
Drained ==
    /\ Parsing(state) /\ begin = end
    /\ state = "payload" => t = "none"
    /\ NeedMore /\ UNCHANGED <<begin, got>>

Take(k) == begin' = begin + k /\ got' = got \o SubSeq(stream, begin + 1, begin + k)

PacketLength ==
    /\ Parsing("length") /\ begin < end
    /\ LET k == Share(3, got, SubSeq(stream, begin + 1, end))
       IN  Take(k) /\ state' = IF Len(got) + k = 3 THEN "id" ELSE state
    /\ UNCHANGED <<inputVars, end, reading, reader, t, p, limit, fs, count, defs, done, malformed>>

SequenceId ==
    /\ Parsing("id") /\ begin < end
    /\ begin' = begin + 1 /\ state' = "payload"
    /\ limit' = begin + 1 + LittleEndian(got) /\ got' = <<>>
    /\ t' = "none" /\ fs' = <<>>
    /\ UNCHANGED <<inputVars, end, reading, reader, p, count, defs, done, malformed>>

(* on_payload_data gets the part of the payload that is in the buffer.     *)
PieceEnd == Smaller(end, limit)

Choose ==
    /\ Parsing("payload") /\ begin < end /\ t = "none"
    /\ LET x == Guess(reader, count, defs, stream[begin + 1])
       IN  IF begin = limit \/ x = "none" THEN Refuse
           ELSE /\ t' = x /\ p' = First(x)
                /\ UNCHANGED <<inputVars, end, begin, reading, state, reader, got, limit, fs,
                               count, defs, done, malformed>>

(* A packet ends with the last of its fields, or it is malformed. *)
Accept(k, f) ==
    /\ begin' = begin + k /\ got' = <<>> /\ state' = "length" /\ t' = "none"
    /\ done' = Append(done, [t |-> t, fs |-> f])
    /\ reader' = Awaits(t)
    /\ count' = IF t = "COUNT" THEN LenIntValue(f[1]) ELSE count
    /\ defs' = CASE t = "COUNT" -> 0 [] t = "DEF" -> defs + 1 [] OTHER -> defs
    /\ UNCHANGED <<inputVars, end, reading, p, limit, fs, malformed>>
Finish_LeavesRest(k, f) == IF PieceEnd = limit THEN Accept(k, f) ELSE Refuse
Finish(k, f) == IF begin + k = PieceEnd /\ PieceEnd = limit THEN Accept(k, f) ELSE Refuse

Body ==
    /\ Parsing("payload") /\ t # "none"
    /\ LET k == Share(p, got, SubSeq(stream, begin + 1, PieceEnd))
           b == got \o SubSeq(stream, begin + 1, begin + k)
           f == Append(fs, b)
           next == Following(t, count, f)
       IN  IF ~Complete(p, b, PieceEnd = limit)
           THEN IF PieceEnd = limit THEN Refuse ELSE Take(k) /\ NeedMore
           ELSE IF next = Bad THEN Refuse
           ELSE IF next = End THEN Finish(k, f)
           ELSE /\ begin' = begin + k /\ got' = <<>> /\ p' = next /\ fs' = f
                /\ UNCHANGED <<inputVars, end, reading, state, reader, t, limit, count, defs,
                               done, malformed>>

Next == Read \/ Drained \/ PacketLength \/ SequenceId \/ Choose \/ Body
Spec == Init /\ [][Next]_vars /\ WF_vars(Next)

-----------------------------------------------------------------------------
(* Every cut of the stream into reads delivers the same packets, with the  *)
(* bytes of every field as sent, and refuses the first ill-formed one.     *)
F == INSTANCE Frames WITH delivered <- done, refused <- malformed
CutsDoNotMatter == F!Spec

(* feed() takes no byte of the next packet and leaves none of its own. *)
OnPacketBoundary ==
    LET After(n) == Len(Sent(SubSeq(sent, 1, n)))
    IN  /\ state = "length" => begin = After(Len(done)) + Len(got)
        /\ ~malformed /\ state # "length" => begin \in After(Len(done))..After(Len(done) + 1)
=============================================================================
