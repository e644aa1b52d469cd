----------------------------- MODULE PgRequests -----------------------------
(***************************************************************************)
(* The bytes of the requests a PostgreSQL connection writes: the first     *)
(* handlers of connect.ipp, simple_query.ipp and parse_query.ipp, and      *)
(* create_msg.hpp and encode_param.hpp for execute.ipp and oneshot.ipp.    *)
(***************************************************************************)
EXTENDS RequestWire

CONSTANT Parameters   \* tuples of encoded parameters

-----------------------------------------------------------------------------
(* integer_to_network, string_to_network, and a zeroed vector of n bytes   *)
(* that s was written to the front of. *)
IntegerToNetwork(v, w) == [i \in 1..w |-> (v \div Base^(w - i)) % Base]
StringToNetwork(s) == Append(s, 0)
Buffer(n, s) == [i \in 1..n |-> IF i <= Len(s) THEN s[i] ELSE 0]
U16(v) == IntegerToNetwork(v, 2)
U32(v) == IntegerToNetwork(v, 4)

Byte(c) == CASE c = "p" -> 112 [] c = "Q" -> 81 [] c = "P" -> 80 [] c = "B" -> 66
             [] c = "D" -> 68 [] c = "E" -> 69 [] c = "S" -> 83
User == <<117, 115, 101, 114>>
Database == <<100, 97, 116, 97, 98, 97, 115, 101>>
Version3 == 3 * Base^2   \* 196608

CreateStartup(user, database) ==
    LET raw_sz == 4 + 4 + 5 + Len(user) + 1 + 9 + Len(database) + 1 + 1
    IN  Buffer(raw_sz, U32(raw_sz) \o U32(Version3)
                       \o StringToNetwork(User) \o StringToNetwork(user)
                       \o StringToNetwork(Database) \o StringToNetwork(database))
CreatePassword(password) ==
    LET raw_sz == 5 + Len(password) + 1
    IN  Buffer(raw_sz, <<Byte("p")>> \o U32(raw_sz - 1) \o StringToNetwork(password))
CreateQuery(query) ==
    LET raw_sz == 5 + Len(query) + 1
    IN  Buffer(raw_sz, <<Byte("Q")>> \o U32(raw_sz - 1) \o StringToNetwork(query))

(* Parse and Sync in one buffer (parse_query.ipp). *)
CreateParseSync(name, pattern) ==
    LET p_len == 5 + Len(name) + Len(pattern) + 2 + 2
        raw_len == p_len + 5
    IN  Buffer(raw_len, Buffer(p_len, <<Byte("P")>> \o U32(p_len - 1)
                                      \o StringToNetwork(name) \o StringToNetwork(pattern))
                        \o <<Byte("S")>> \o U32(4))

(* create_parse_msg: the unnamed statement. *)
CreateParse(pattern) ==
    LET p_len == 5 + 1 + Len(pattern) + 1 + 2
    IN  Buffer(p_len, <<Byte("P")>> \o U32(p_len - 1) \o <<0>> \o StringToNetwork(pattern))

(* encode_param: a length and the bytes of the text. *)
EncodeParam(p) == U32(Len(p)) \o p

(* create_bind_msg: header, parameters, and the tail for result formats. *)
CreateBind_NoTail(name, params) ==
    LET body == FlattenSeq([i \in DOMAIN params |-> EncodeParam(params[i])])
        header_len == 5 + 1 + Len(name) + 1 + 2 + 2
    IN  Buffer(header_len, <<Byte("B")>> \o U32(header_len - 1 + Len(body))
                           \o <<0>> \o StringToNetwork(name) \o U16(0) \o U16(Len(params)))
        \o body \o U16(0)
CreateBind(name, params) ==
    LET body == FlattenSeq([i \in DOMAIN params |-> EncodeParam(params[i])])
        header_len == 5 + 1 + Len(name) + 1 + 2 + 2
    IN  Buffer(header_len, <<Byte("B")>> \o U32(header_len - 1 + Len(body) + 2)
                           \o <<0>> \o StringToNetwork(name) \o U16(0) \o U16(Len(params)))
        \o body \o U16(0)

(* create_DES_msg: Describe and Execute of the unnamed portal, and Sync. *)
CreateDES ==
    Buffer(7, <<Byte("D")>> \o U32(6) \o <<Byte("P")>>)
    \o Buffer(10, <<Byte("E")>> \o U32(9)) \o <<Byte("S")>> \o U32(4)

-----------------------------------------------------------------------------
(* The messages of a request: type byte, fields of the body, and whether   *)
(* the body was exactly its fields. *)
Message(c, fields) == [t |-> Byte(c), fields |-> fields, whole |-> TRUE]
StartupMessage(user, database) ==
    [t |-> 0, fields |-> <<<<Version3>>, User, user, Database, database, <<0>>>>, whole |-> TRUE]
ParseMessage(name, pattern) == Message("P", <<name, pattern, <<0>>>>)
BindMessage(name, params) ==
    Message("B", <<<<>>, name, <<0>>, <<Len(params)>>>> \o params \o <<<<0>>>>)
DES == <<Message("D", <<<<Byte("P")>>, <<>>>>), Message("E", <<<<>>, <<0>>>>), Message("S", <<>>)>>

Startup ==
    /\ protocol = "postgresql" /\ requests = 0
    /\ \E u, d \in Strings : Write(CreateStartup(u, d), <<StartupMessage(u, d)>>)
Password ==
    /\ protocol = "postgresql" /\ requests = 1
    /\ \E p \in Strings : Write(CreatePassword(p), <<Message("p", <<p>>)>>)

Open == protocol = "postgresql" /\ requests \in 2..(MaxRequests + 1)
SimpleQuery == Open /\ \E q \in Strings : Write(CreateQuery(q), <<Message("Q", <<q>>)>>)
Parse ==
    /\ Open
    /\ \E n, q \in Strings :
         Write(CreateParseSync(n, q), <<ParseMessage(n, q), Message("S", <<>>)>>)
Execute ==
    /\ Open
    /\ \E n \in Strings, ps \in Parameters :
         Write(CreateBind(n, ps) \o CreateDES, <<BindMessage(n, ps)>> \o DES)
ExecuteOneshot ==
    /\ Open
    /\ \E q \in Strings, ps \in Parameters :
         Write(CreateParse(q) \o CreateBind(<<>>, ps) \o CreateDES,
               <<ParseMessage(<<>>, q), BindMessage(<<>>, ps)>> \o DES)

-----------------------------------------------------------------------------
(* External: the server reads a message by its length, and then its fields *)
(* by the layout of its type, one at a time.                               *)
IntegerOf(s) == FoldLeft(LAMBDA a, b : a * Base + b, 0, s)
Layout(t) == CASE t = 0 -> <<"U32", "string", "string", "string", "string", "byte">>
               [] t \in {Byte("p"), Byte("Q")} -> <<"string">>
               [] t = Byte("P") -> <<"string", "string", "U16">>
               [] t = Byte("B") -> <<"string", "string", "U16", "parameters", "U16">>
               [] t = Byte("D") -> <<"byte", "string">>
               [] t = Byte("E") -> <<"string", "U32">>
               [] OTHER -> <<>>

ServerBegins ==
    LET h == IF got = <<>> THEN 0 ELSE 1   \* only the first message has no type
        n == h + IntegerOf(SubSeq(wire, h + 1, h + 4))
        t == IF h = 0 THEN 0 ELSE wire[1]
    IN  /\ protocol = "postgresql" /\ reading = Nothing
        /\ Len(wire) >= h + 4 /\ n >= h + 4 /\ Len(wire) >= n
        /\ reading' = [t |-> t, rest |-> SubSeq(wire, h + 5, n), layout |-> Layout(t),
                       fields |-> <<>>]
        /\ wire' = SubSeq(wire, n + 1, Len(wire))
        /\ UNCHANGED <<protocol, asked, got, requests>>

(* The bytes of the next field, if they are there, as <<how many, value>>. *)
Field ==
    LET b == reading.rest
        Number(w) == IF Len(b) < w THEN {} ELSE {<<w, <<IntegerOf(SubSeq(b, 1, w))>>>>}
    IN  CASE Head(reading.layout) = "byte" -> Number(1)
          [] Head(reading.layout) \in {"U16", "parameters"} -> Number(2)
          [] Head(reading.layout) = "U32" -> Number(4)
          [] Head(reading.layout) = "string" ->
               {<<z, SubSeq(b, 1, z - 1)>> : z \in {i \in DOMAIN b : b[i] = 0 /\ ~ \E j \in 1..(i - 1) : b[j] = 0}}
          [] Head(reading.layout) = "parameter" ->
               {<<4 + v[2][1], SubSeq(b, 5, 4 + v[2][1])>> : v \in {x \in Number(4) : 4 + x[2][1] <= Len(b)}}
ServerTakes ==
    /\ reading # Nothing /\ reading.layout # <<>>
    /\ \E f \in Field :
         reading' = [reading EXCEPT
           !.rest = SubSeq(@, f[1] + 1, Len(@)), !.fields = Append(@, f[2]),
           !.layout = IF Head(@) = "parameters"
                      THEN [i \in 1..f[2][1] |-> "parameter"] \o Tail(@) ELSE Tail(@)]
    /\ UNCHANGED <<protocol, wire, asked, got, requests>>
ServerEnds ==
    /\ reading # Nothing /\ (reading.layout # <<>> => Field = {})
    /\ got' = Append(got, [t |-> reading.t, fields |-> reading.fields,
                           whole |-> reading.layout = <<>> /\ reading.rest = <<>>])
    /\ reading' = Nothing
    /\ UNCHANGED <<protocol, wire, asked, requests>>

PgServerReads == ServerBegins \/ ServerTakes \/ ServerEnds
PgRequest == Startup \/ Password \/ SimpleQuery \/ Parse \/ Execute \/ ExecuteOneshot

-----------------------------------------------------------------------------
(* What a request may consist of. *)
PgMessages ==
    LET bs == {BindMessage(n, p) : n \in Strings \cup {<<>>}, p \in Parameters}
    IN  {<<StartupMessage(u, d)>> : u, d \in Strings}
        \cup {<<Message(c, <<s>>)>> : c \in {"p", "Q"}, s \in Strings}
        \cup {<<ParseMessage(n, q), Message("S", <<>>)>> : n, q \in Strings}
        \cup {<<b>> \o DES : b \in bs}
        \cup {<<ParseMessage(<<>>, q), b>> \o DES : q \in Strings, b \in bs}
=============================================================================
