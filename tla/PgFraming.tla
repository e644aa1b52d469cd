------------------------------ MODULE PgFraming ------------------------------
(***************************************************************************)
(* How the PostgreSQL client takes messages out of the bytes it reads:     *)
(* basic_parser<Message> (postgresql/detail/basic_parser.hpp) around the   *)
(* on_body parsers of postgresql/detail/msg.                               *)
(*                                                                         *)
(* stream is the bytes of the messages sent.  The read buffer              *)
(* [__M_buf_begin, __M_buf_end) is stream[begin + 1 .. end].  Each step is *)
(* one turn of a parser's loop: the type, the length, one field of a body. *)
(* PgSession treats a message as one piece or two; this module shows that  *)
(* any cutting up, byte by byte, makes no difference.                      *)
(***************************************************************************)
EXTENDS Fields

CONSTANT Streams    \* as in Frames; the content of a message is its type t and
                    \* the bytes fs of each field; len is its length word
VARIABLES
    sent, stream,
    begin, end,
    reading,   \* a read is in flight
    state,     \* "type", "length", "body": index of __M_parser
    t,         \* type of the message being parsed
    p,         \* size of the field being parsed, see Fields
    got,       \* its bytes so far
    limit,     \* where the body ends: begin + body_remain
    fs,        \* fields of this message parsed so far
    cols,      \* columns of the last RowDescription (__M_curr->__M_desc)
    done,      \* messages parsed
    malformed

vars == <<sent, stream, begin, end, reading, state, t, p, got, limit, fs, cols,
          done, malformed>>
inputVars == <<sent, stream>>

-----------------------------------------------------------------------------
(* Sizes that end a body: after its last field, or after a value that the  *)
(* client does not take. *)
End == -8
Bad == -9

Types == {"T", "D", "E", "N", "R", "K", "S", "Z", "C", "1", "2", "n", "I"}
FixedLength == [x \in {"1", "2", "n", "I"} |-> 4] @@ ("Z" :> 5) @@ ("K" :> 12)

(* A length counts itself, and some types have only one length. *)
LengthTaken(x, v) == v >= 4 /\ (x \in DOMAIN FixedLength => v = FixedLength[x])

First(x) ==
    CASE x \in {"T", "D"} -> 2
      [] x \in {"R", "K"} -> 4
      [] x \in {"E", "N", "Z"} -> 1
      [] x \in {"S", "C"} -> CStr
      [] OTHER -> End

(* For each type, the size of the field after the last one of f; c is the  *)
(* number of columns of a row. *)
Value(f) == BigEndian(f[Len(f)])

Column == <<CStr, 4, 2, 4, 2, 4, 2>>
RowDescription(f) ==
    IF Len(f) - 1 = 7 * BigEndian(f[1]) THEN End ELSE Column[((Len(f) - 1) % 7) + 1]

(* A column is its length and its bytes; one that is NULL has no bytes. *)
Null == <<255, 255, 255, 255>>
DataRow(c, f) ==
    CASE Len(f) = 1 /\ Value(f) # c -> Bad
      [] Len(f) % 2 = 0 -> IF f[Len(f)] = Null THEN 0 ELSE Value(f)
      [] Len(f) < 1 + 2 * c -> 4
      [] OTHER -> End

(* Errors and notices: a type byte and a string, until the type is 0.      *)
(* SQLSTATE, under 'C', is taken as six bytes. *)
NoticeResponse(f) ==
    CASE Len(f) % 2 = 0 -> 1
      [] f[Len(f)] = <<0>> -> End
      [] OTHER -> CStr
ErrorResponse(f) ==
    IF Len(f) % 2 = 1 /\ f[Len(f)] = <<67>> THEN 6 ELSE NoticeResponse(f)

Authentication(f) ==
    CASE Len(f) = 2 -> End
      [] Value(f) = 5 -> 4
      [] Value(f) = 10 -> CStr
      [] Value(f) \in {0, 2, 3, 7, 9} -> End
      [] OTHER -> Bad

BackendKeyData(f) == IF Len(f) = 1 THEN 4 ELSE End
ParameterStatus(f) == IF Len(f) = 1 THEN CStr ELSE End
ReadyForQuery(f) == IF f[1][1] \in {84, 69, 73} THEN End ELSE Bad
CommandComplete(f) == End

Following(x, c, f) ==
    CASE x = "T" -> RowDescription(f)
      [] x = "D" -> DataRow(c, f)
      [] x = "E" -> ErrorResponse(f)
      [] x = "N" -> NoticeResponse(f)
      [] x = "R" -> Authentication(f)
      [] x = "K" -> BackendKeyData(f)
      [] x = "S" -> ParameterStatus(f)
      [] x = "Z" -> ReadyForQuery(f)
      [] x = "C" -> CommandComplete(f)
SizeAfter(x, c, f) == IF f = <<>> THEN First(x) ELSE Following(x, c, f)

-----------------------------------------------------------------------------
(* The bytes of a message.  The type byte is the type's code; only its     *)
(* being one byte matters here.                                            *)
TypeByte == 0
Bytes(m) == <<TypeByte>> \o m.len \o FlattenSeq(m.content.fs)
Sent(s) == FlattenSeq([i \in 1..Len(s) |-> Bytes(s[i])])

(* What may be sent.  A well-formed message (ok) has the length it says    *)
(* and exactly the fields of its type.  An ill-formed one has a length     *)
(* that is not taken; or its fields go wrong after the k-th: its value is  *)
(* not taken, bytes follow the last field, or a field is not there whole.  *)
Messages == [content : [t : Types, fs : Seq(Seq(Nat))], len : Seq(Nat), ok : BOOLEAN]

(* Columns of the last RowDescription before message n. *)
Columns(s, n) ==
    LET d == {i \in 1..(n - 1) : s[i].content.t = "T"}
    IN  IF d = {} THEN 0 ELSE BigEndian(s[Max(d)].content.fs[1])

Whole(x, c, f) ==
    \A i \in 1..Len(f) : LET n == SizeAfter(x, c, SubSeq(f, 1, i - 1))
                         IN  n # Rest /\ WholeField(n, f[i])
GoesWrong(x, c, f, k) ==
    LET n == SizeAfter(x, c, SubSeq(f, 1, k))
    IN  /\ Whole(x, c, SubSeq(f, 1, k))
        /\ n = Bad \/ (n = End /\ Left(f, k) # <<>>) \/ TooShort(n, Left(f, k))

Fits(m) == BigEndian(m.len) = 4 + Len(FlattenSeq(m.content.fs))
Legal(m, c) ==
    LET x == m.content.t
        f == m.content.fs
    IN  IF m.ok
        THEN LengthTaken(x, BigEndian(m.len)) /\ Fits(m) /\ Whole(x, c, f) /\ SizeAfter(x, c, f) = End
        ELSE \/ ~LengthTaken(x, BigEndian(m.len))
             \/ Fits(m) /\ \E k \in 0..Len(f) : GoesWrong(x, c, f, k)

ASSUME StreamAssumption ==
    \A s \in Streams :
      /\ s \in Seq(Messages)
      /\ \A n \in 1..Len(s) : Len(s[n].len) = 4 /\ Legal(s[n], Columns(s, n))

Init ==
    /\ sent \in Streams /\ stream = Sent(sent)
    /\ begin = 0 /\ end = 0 /\ reading = FALSE
    /\ state = "type" /\ t = "none" /\ p = End /\ got = <<>> /\ limit = 0 /\ fs = <<>>
    /\ cols = 0 /\ done = <<>> /\ malformed = FALSE

(* async_read_some, into an empty buffer. *)
Read ==
    /\ reading /\ ~malformed
    /\ end' \in (end + 1)..Len(stream)
    /\ reading' = FALSE
    /\ UNCHANGED <<inputVars, begin, state, t, p, got, limit, fs, cols, done, malformed>>

Parsing == ~reading /\ ~malformed

NeedMore ==
    /\ reading' = TRUE
    /\ UNCHANGED <<t, state, p, limit, fs, cols, done, malformed>>

Refuse ==
    /\ malformed' = TRUE
    /\ UNCHANGED <<begin, t, state, p, got, limit, fs, cols, done, reading>>

(* Case 0.  do_parse has looked at the type byte; this one consumes it. *)
Type ==
    /\ Parsing /\ state = "type"
    /\ IF begin = end
       THEN NeedMore /\ UNCHANGED <<begin, got>>
       ELSE /\ begin' = begin + 1 /\ t' = sent[Len(done) + 1].content.t
            /\ state' = "length" /\ got' = <<>> /\ fs' = <<>>
            /\ UNCHANGED <<p, limit, cols, done, malformed, reading>>
    /\ UNCHANGED <<inputVars, end>>

Take_Forgets(k) == begin' = begin + k /\ got' = SubSeq(stream, begin + 1, begin + k)
Take(k) == begin' = begin + k /\ got' = got \o SubSeq(stream, begin + 1, begin + k)

(* Case 1. *)
Length ==
    /\ Parsing /\ state = "length"
    /\ LET k == Share(4, got, SubSeq(stream, begin + 1, end))
           b == got \o SubSeq(stream, begin + 1, begin + k)
           v == BigEndian(b)
       IN  IF Len(b) < 4 THEN Take(k) /\ NeedMore
           ELSE IF ~LengthTaken(t, v) THEN Refuse
           ELSE /\ begin' = begin + k /\ got' = <<>>
                /\ state' = "body" /\ limit' = begin + k + v - 4
                /\ p' = First(t)
                /\ UNCHANGED <<t, fs, cols, done, malformed, reading>>
    /\ UNCHANGED <<inputVars, end>>

(* Case 2, and the turns of on_body: the parser sees the part of the body  *)
(* that is in the buffer.  A body must end exactly where its fields do.    *)
PieceEnd == Smaller(end, limit)

Accept(k, f) ==
    /\ begin' = begin + k /\ state' = "type" /\ got' = <<>>
    /\ done' = Append(done, [t |-> t, fs |-> f])
    /\ cols' = IF t = "T" THEN BigEndian(f[1]) ELSE cols
    /\ UNCHANGED <<t, p, limit, fs, malformed, reading>>
Finish_KeepsGoing(k, f) == IF begin + k = PieceEnd THEN Accept(k, f) ELSE Refuse
Finish(k, f) == IF begin + k = PieceEnd /\ PieceEnd = limit THEN Accept(k, f) ELSE Refuse

EmptyBody ==
    /\ Parsing /\ state = "body" /\ p = End
    /\ Finish(0, fs)
    /\ UNCHANGED <<inputVars, end>>

Body ==
    /\ Parsing /\ state = "body" /\ p # End
    /\ LET k == Share(p, got, SubSeq(stream, begin + 1, PieceEnd))
           b == got \o SubSeq(stream, begin + 1, begin + k)
           f == Append(fs, b)
           next == Following(t, cols, f)
       IN  IF ~Complete(p, b, FALSE)
           THEN IF PieceEnd = limit THEN Refuse ELSE Take(k) /\ NeedMore
           ELSE IF next = Bad THEN Refuse
           ELSE IF next = End THEN Finish(k, f)
           ELSE /\ begin' = begin + k /\ got' = <<>> /\ p' = next /\ fs' = f
                /\ UNCHANGED <<t, state, limit, cols, done, malformed, reading>>
    /\ UNCHANGED <<inputVars, end>>

Next == Read \/ Type \/ Length \/ EmptyBody \/ Body
Spec == Init /\ [][Next]_vars /\ WF_vars(Next)

-----------------------------------------------------------------------------
(* Every cut of the stream into reads delivers the same messages, with the *)
(* bytes of every field as sent, and refuses the first ill-formed one: the *)
(* parsers keep in their state all they need of the piece they saw.        *)
F == INSTANCE Frames WITH delivered <- done, refused <- malformed
CutsDoNotMatter == F!Spec

(* A parser takes no byte of the next message and leaves none of its own:  *)
(* between messages the buffer starts at the first byte of a message, and  *)
(* within one, it starts in that message.                                  *)
OnMessageBoundary ==
    LET After(n) == Len(Sent(SubSeq(sent, 1, n)))
    IN  /\ state = "type" => begin = After(Len(done))
        /\ ~malformed /\ state # "type" => begin \in After(Len(done))..After(Len(done) + 1)
=============================================================================
