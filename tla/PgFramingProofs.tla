-------------------------- MODULE PgFramingProofs --------------------------
(***************************************************************************)
(* The PostgreSQL reader keeps to message boundaries and implements        *)
(* Frames, for all messages and all ways to cut them up.                   *)
(***************************************************************************)
EXTENDS PgFraming, FieldsProofs

-----------------------------------------------------------------------------
(* The bytes of a stream, message by message; the message being read, and  *)
(* where it begins. *)
Chunks(s) == [i \in 1..Len(s) |-> Bytes(s[i])]
This == sent[Len(done) + 1]
Boundary == EndOf(Chunks(sent), Len(done))

(* The reader and its buffer. *)
Buffer ==
    /\ sent \in Streams /\ stream = Sent(sent)
    /\ begin \in Nat /\ end \in Nat /\ begin <= end /\ end <= Len(stream)
    /\ reading \in BOOLEAN /\ malformed \in BOOLEAN /\ (reading => begin = end)
    /\ state \in {"type", "length", "body"} /\ got \in Seq(Nat)

(* What was delivered, and what was refused. *)
Delivered ==
    /\ Len(done) \in 0..Len(sent)
    /\ done = [i \in 1..Len(done) |-> sent[i].content]
    /\ \A i \in 1..Len(done) : sent[i].ok
    /\ cols = Columns(sent, Len(done) + 1)
    /\ malformed => state # "type" /\ ~This.ok

(* The body of m ends, or goes wrong, after its k-th field. *)
Stops(m, c, k) ==
    IF m.ok THEN k = Len(m.content.fs) ELSE GoesWrong(m.content.t, c, m.content.fs, k)

(* The part a parser has of the field after the i-th of f, or of what      *)
(* follows the k-th: if it is the whole field, the field is empty. *)
InField(f, k, i, g) ==
    /\ i <= k
    /\ IF i = k THEN Begins(g, Left(f, k))
       ELSE Begins(g, f[i + 1]) /\ (Len(g) < Len(f[i + 1]) \/ f[i + 1] = <<>>)

InLength ==
    /\ fs = <<>> /\ Begins(got, This.len) /\ Len(got) < 4
    /\ begin = Boundary + 1 + Len(got)

InBody ==
    LET f == This.content.fs
    IN  /\ LengthTaken(t, BigEndian(This.len)) /\ Fits(This)
        /\ limit = EndOf(Chunks(sent), Len(done) + 1) /\ begin <= limit
        /\ p = SizeAfter(t, cols, fs) /\ p # Bad /\ (p = End => fs = <<>> /\ got = <<>>)
        /\ Len(fs) \in 0..Len(f) /\ fs = SubSeq(f, 1, Len(fs))
        /\ begin = Boundary + 5 + EndOf(f, Len(fs)) + Len(got)
        /\ \A k \in 0..Len(f) : Stops(This, cols, k) => InField(f, k, Len(fs), got)

(* Where the parser is. *)
Place ==
    /\ state = "type" => begin = Boundary
    /\ state # "type" => Len(done) < Len(sent) /\ t = This.content.t
    /\ state = "length" => InLength
    /\ state = "body" => InBody

FramingInv == Buffer /\ Delivered /\ Place

-----------------------------------------------------------------------------
(* Messages and their bytes. *)
LEMMA MessageType ==
    ASSUME NEW s \in Streams, NEW n \in 1..Len(s)
    PROVE  /\ s \in Seq(Messages) /\ s[n] \in Messages
           /\ s[n].len \in Seq(Nat) /\ Len(s[n].len) = 4 /\ s[n].ok \in BOOLEAN
           /\ s[n].content.fs \in Seq(Seq(Nat)) /\ s[n].content.t \in Types
           /\ s[n].content = [t |-> s[n].content.t, fs |-> s[n].content.fs]
           /\ Legal(s[n], Columns(s, n))
<1>1. s \in Seq(Messages) /\ Len(s[n].len) = 4 /\ Legal(s[n], Columns(s, n))
  BY StreamAssumption
<1>2. s[n] \in Messages
  BY <1>1
<1>3. s[n].content \in [t : Types, fs : Seq(Seq(Nat))] /\ s[n].len \in Seq(Nat)
      /\ s[n].ok \in BOOLEAN
  BY <1>2 DEF Messages
<1> QED  BY <1>1, <1>2, <1>3

LEMMA BytesOf ==
    ASSUME NEW s \in Streams, NEW n \in 1..Len(s)
    PROVE  /\ Bytes(s[n]) \in Seq(Nat)
           /\ FlattenSeq(s[n].content.fs) \in Seq(Nat)
           /\ Len(Bytes(s[n])) = 5 + Len(FlattenSeq(s[n].content.fs))
           /\ \A j \in 1..4 : Bytes(s[n])[1 + j] = s[n].len[j]
           /\ \A j \in 1..Len(FlattenSeq(s[n].content.fs)) :
                Bytes(s[n])[5 + j] = FlattenSeq(s[n].content.fs)[j]
<1> DEFINE l == s[n].len
           b == FlattenSeq(s[n].content.fs)
           h == <<TypeByte>>
<1>1. l \in Seq(Nat) /\ Len(l) = 4 /\ b \in Seq(Nat)
  BY MessageType, EndOfType
<1>2. h \in Seq(Nat) /\ Len(h) = 1
  BY DEF TypeByte
<1>3. Bytes(s[n]) = h \o l \o b
  BY DEF Bytes
<1> HIDE DEF l, b, h
<1>4. /\ h \o l \in Seq(Nat) /\ Len(h \o l) = 5
      /\ \A i \in 1..5 : (h \o l)[i] = IF i <= 1 THEN h[i] ELSE l[i - 1]
  <2>1. /\ h \o l \in Seq(Nat) /\ Len(h \o l) = Len(h) + Len(l)
        /\ \A i \in 1..(Len(h) + Len(l)) :
             (h \o l)[i] = IF i <= Len(h) THEN h[i] ELSE l[i - Len(h)]
    BY <1>1, <1>2, ConcatProperties
  <2>2. Len(h) + Len(l) = 5 /\ Len(h) = 1
    BY <1>1, <1>2
  <2> QED  BY <2>1, <2>2
<1>5. Len(b) \in Nat
  BY <1>1
<1>6. /\ (h \o l) \o b \in Seq(Nat) /\ Len((h \o l) \o b) = 5 + Len(b)
      /\ \A i \in 1..(5 + Len(b)) : ((h \o l) \o b)[i] = IF i <= 5 THEN (h \o l)[i] ELSE b[i - 5]
  <2> DEFINE a == h \o l
  <2>1. a \in Seq(Nat) /\ Len(a) = 5
    BY <1>4
  <2> HIDE DEF a
  <2>2. /\ a \o b \in Seq(Nat) /\ Len(a \o b) = Len(a) + Len(b)
        /\ \A i \in 1..(Len(a) + Len(b)) :
             (a \o b)[i] = IF i <= Len(a) THEN a[i] ELSE b[i - Len(a)]
    BY <1>1, <2>1, ConcatProperties
  <2>3. /\ a \o b \in Seq(Nat) /\ Len(a \o b) = 5 + Len(b)
        /\ \A i \in 1..(5 + Len(b)) : (a \o b)[i] = IF i <= 5 THEN a[i] ELSE b[i - 5]
    BY <2>1, <2>2
  <2> QED  BY <2>3 DEF a
<1>7. ASSUME NEW j \in 1..4 PROVE Bytes(s[n])[1 + j] = l[j]
  <2>1. 1 + j \in 1..5 /\ 1 + j \in 1..(5 + Len(b)) /\ 1 + j <= 5 /\ ~(1 + j <= 1)
        /\ (1 + j) - 1 = j
    BY <1>5
  <2> QED  BY <1>3, <1>4, <1>6, <2>1
<1>8. ASSUME NEW j \in 1..Len(b) PROVE Bytes(s[n])[5 + j] = b[j]
  <2>1. 5 + j \in 1..(5 + Len(b)) /\ ~(5 + j <= 5) /\ (5 + j) - 5 = j
    BY <1>5
  <2> QED  BY <1>3, <1>6, <2>1
<1> QED  BY <1>1, <1>3, <1>6, <1>7, <1>8 DEF l, b

LEMMA ChunksType ==
    ASSUME NEW s \in Streams
    PROVE  /\ s \in Seq(Messages)
           /\ Chunks(s) \in Seq(Seq(Nat)) /\ Len(Chunks(s)) = Len(s)
           /\ \A n \in 1..Len(s) : Chunks(s)[n] = Bytes(s[n])
           /\ Sent(s) = FlattenSeq(Chunks(s))
<1>1. s \in Seq(Messages)
  BY StreamAssumption
<1>2. \A n \in 1..Len(s) : Bytes(s[n]) \in Seq(Nat)
  BY BytesOf
<1> QED  BY <1>1, <1>2 DEF Chunks, Sent

(* The n + 1-st message in the stream. *)
LEMMA MessageAt ==
    ASSUME NEW s \in Streams, NEW n \in Nat, n < Len(s)
    PROVE  /\ EndOf(Chunks(s), n) \in Nat
           /\ EndOf(Chunks(s), n + 1) =
                EndOf(Chunks(s), n) + 5 + Len(FlattenSeq(s[n + 1].content.fs))
           /\ EndOf(Chunks(s), n + 1) <= Len(Sent(s))
           /\ \A j \in 1..4 : Sent(s)[EndOf(Chunks(s), n) + 1 + j] = s[n + 1].len[j]
           /\ \A j \in 1..Len(FlattenSeq(s[n + 1].content.fs)) :
                Sent(s)[EndOf(Chunks(s), n) + 5 + j] = FlattenSeq(s[n + 1].content.fs)[j]
<1> DEFINE e == EndOf(Chunks(s), n)
           b == FlattenSeq(s[n + 1].content.fs)
<1>1. n + 1 \in 1..Len(s) /\ s \in Seq(Messages)
  BY ChunksType
<1>2. /\ Bytes(s[n + 1]) \in Seq(Nat) /\ b \in Seq(Nat)
      /\ Len(Bytes(s[n + 1])) = 5 + Len(b)
      /\ \A j \in 1..4 : Bytes(s[n + 1])[1 + j] = s[n + 1].len[j]
      /\ \A j \in 1..Len(b) : Bytes(s[n + 1])[5 + j] = b[j]
  BY <1>1, BytesOf
<1>3. Chunks(s) \in Seq(Seq(Nat)) /\ n < Len(Chunks(s)) /\ Chunks(s)[n + 1] = Bytes(s[n + 1])
      /\ Sent(s) = FlattenSeq(Chunks(s))
  BY <1>1, ChunksType
<1>4. /\ e \in Nat /\ EndOf(Chunks(s), n + 1) = e + Len(Bytes(s[n + 1]))
      /\ EndOf(Chunks(s), n + 1) <= Len(Sent(s))
      /\ \A j \in 1..Len(Bytes(s[n + 1])) : Sent(s)[e + j] = Bytes(s[n + 1])[j]
  <2>1. /\ EndOf(Chunks(s), n) \in Nat
        /\ EndOf(Chunks(s), n + 1) = EndOf(Chunks(s), n) + Len(Chunks(s)[n + 1])
        /\ EndOf(Chunks(s), n + 1) <= Len(FlattenSeq(Chunks(s)))
        /\ \A j \in 1..Len(Chunks(s)[n + 1]) :
             FlattenSeq(Chunks(s))[EndOf(Chunks(s), n) + j] = Chunks(s)[n + 1][j]
    BY <1>3, FlattenAt
  <2> QED  BY <1>3, <2>1
<1>5. Len(b) \in Nat
  BY <1>2
<1> HIDE DEF e, b
<1>9. Len(Bytes(s[n + 1])) = 5 + Len(b) /\ e \in Nat
  BY <1>2, <1>4
<1>6. ASSUME NEW j \in 1..4 PROVE Sent(s)[e + 1 + j] = s[n + 1].len[j]
  <2>0. PICK x \in Nat : x = Len(b)
    BY <1>5
  <2>1. 1 + j \in 1..Len(Bytes(s[n + 1])) /\ e + 1 + j = e + (1 + j)
    BY <1>9, <2>0
  <2> QED  BY <1>2, <1>4, <2>1
<1>7. ASSUME NEW j \in 1..Len(b) PROVE Sent(s)[e + 5 + j] = b[j]
  <2>0. PICK x \in Nat : x = Len(b)
    BY <1>5
  <2>1. 5 + j \in 1..Len(Bytes(s[n + 1])) /\ e + 5 + j = e + (5 + j)
    BY <1>9, <2>0
  <2> QED  BY <1>2, <1>4, <2>1
<1>8. EndOf(Chunks(s), n + 1) = e + 5 + Len(b)
  BY <1>2, <1>4, <1>5
<1> QED  BY <1>4, <1>6, <1>7, <1>8 DEF e, b

(* Boundaries, as OnMessageBoundary has them. *)
LEMMA After ==
    ASSUME NEW s \in Streams, NEW n \in 0..Len(s)
    PROVE  Len(Sent(SubSeq(s, 1, n))) = EndOf(Chunks(s), n)
<1>1. s \in Seq(Messages) /\ Len(Chunks(s)) = Len(s) /\ Chunks(s) \in Seq(Seq(Nat))
  BY ChunksType
<1>2. Len(SubSeq(s, 1, n)) = n /\ \A i \in 1..n : SubSeq(s, 1, n)[i] = s[i]
  BY <1>1, FirstOnes
<1>3. /\ Len(SubSeq(Chunks(s), 1, n)) = n /\ SubSeq(Chunks(s), 1, n) \in Seq(Seq(Nat))
      /\ \A i \in 1..n : SubSeq(Chunks(s), 1, n)[i] = Chunks(s)[i]
  BY <1>1, FirstOnes
<1>4. Chunks(SubSeq(s, 1, n)) = [i \in 1..n |-> Bytes(s[i])]
  BY <1>2 DEF Chunks
<1>5. SubSeq(Chunks(s), 1, n) = [i \in 1..n |-> Bytes(s[i])]
  <2>1. \A i \in 1..n : Chunks(s)[i] = Bytes(s[i])
    BY <1>1 DEF Chunks
  <2>2. SubSeq(Chunks(s), 1, n) = [i \in 1..n |-> SubSeq(Chunks(s), 1, n)[i]]
    BY <1>3
  <2> QED  BY <1>3, <2>1, <2>2
<1> QED  BY <1>4, <1>5 DEF EndOf, Sent, Chunks

(* The columns of the rows after message n. *)
LEMMA ColumnsNext ==
    ASSUME NEW s \in Streams, NEW n \in 1..Len(s)
    PROVE  /\ Columns(s, 1) = 0
           /\ Columns(s, n + 1) = IF s[n].content.t = "T" THEN BigEndian(s[n].content.fs[1])
                                  ELSE Columns(s, n)
<1>1. Columns(s, 1) = 0
  <2>1. {i \in 1..(1 - 1) : s[i].content.t = "T"} = {}
    OBVIOUS
  <2> QED  BY <2>1 DEF Columns
<1>2. (n + 1) - 1 = n
  OBVIOUS
<1>3. CASE s[n].content.t = "T"
  <2> DEFINE d == {i \in 1..n : s[i].content.t = "T"}
  <2>1. n \in d /\ \A i \in d : i \in 1..n
    BY <1>3
  <2>2. Max(d) = n
    <3> HIDE DEF d
    <3>1. \E x \in d : \A y \in d : x >= y
      BY <2>1
    <3>2. PICK z : z = Max(d)
      OBVIOUS
    <3>3. z \in d /\ \A y \in d : z >= y
      BY <3>1, <3>2 DEF Max
    <3>4. z \in 1..n /\ z >= n
      BY <2>1, <3>3
    <3> QED  BY <3>2, <3>4
  <2>3. d # {}
    BY <2>1
  <2>4. Columns(s, n + 1) = BigEndian(s[Max(d)].content.fs[1])
    BY <1>2, <2>3 DEF Columns
  <2> QED  BY <1>1, <1>3, <2>2, <2>4
<1>4. CASE s[n].content.t # "T"
  <2>1. {i \in 1..n : s[i].content.t = "T"} = {i \in 1..(n - 1) : s[i].content.t = "T"}
    BY <1>4
  <2> QED  BY <1>1, <1>2, <1>4, <2>1 DEF Columns
<1> QED  BY <1>3, <1>4

-----------------------------------------------------------------------------
(* Fields of a body. *)
LEMMA NoField ==
    \A b \in Seq(Nat) : /\ ~WholeField(End, b) /\ ~TooShort(End, b)
                        /\ ~WholeField(Bad, b) /\ ~TooShort(Bad, b)
<1>1. /\ End \notin Nat /\ Bad \notin Nat
      /\ End \notin {CStr, LenInt, Rest} /\ Bad \notin {CStr, LenInt, Rest}
  BY DEF End, Bad, CStr, LenInt, Rest
<1> QED  BY <1>1 DEF WholeField, TooShort

LEMMA FirstNotBad == \A x : First(x) # Bad
BY DEF First, Bad, End, CStr

LEMMA FirstOfFirst ==
    ASSUME NEW f \in Seq(Seq(Nat)), NEW k \in 0..Len(f), NEW i \in 0..k
    PROVE  SubSeq(SubSeq(f, 1, k), 1, i) = SubSeq(f, 1, i)
<1>1. /\ SubSeq(f, 1, k) \in Seq(Seq(Nat)) /\ Len(SubSeq(f, 1, k)) = k
      /\ \A j \in 1..k : SubSeq(f, 1, k)[j] = f[j]
  BY FirstOnes
<1>2. i \in 0..Len(f) /\ i \in 0..Len(SubSeq(f, 1, k))
  BY <1>1
<1>3. /\ SubSeq(f, 1, i) \in Seq(Seq(Nat)) /\ Len(SubSeq(f, 1, i)) = i
      /\ \A j \in 1..i : SubSeq(f, 1, i)[j] = f[j]
  BY <1>2, FirstOnes
<1>4. /\ SubSeq(SubSeq(f, 1, k), 1, i) \in Seq(Seq(Nat))
      /\ Len(SubSeq(SubSeq(f, 1, k), 1, i)) = i
      /\ \A j \in 1..i : SubSeq(SubSeq(f, 1, k), 1, i)[j] = SubSeq(f, 1, k)[j]
  BY <1>1, <1>2, FirstOnes
<1>5. \A j \in 1..i : SubSeq(SubSeq(f, 1, k), 1, i)[j] = SubSeq(f, 1, i)[j]
  BY <1>1, <1>3, <1>4
<1> QED  BY <1>3, <1>4, <1>5, SeqEqual

LEMMA WholeAt ==
    ASSUME NEW x, NEW c, NEW f \in Seq(Seq(Nat)), NEW k \in 0..Len(f),
           Whole(x, c, SubSeq(f, 1, k)), NEW i \in Nat, i < k
    PROVE  LET n == SizeAfter(x, c, SubSeq(f, 1, i)) IN n # Rest /\ WholeField(n, f[i + 1])
<1>1. Len(SubSeq(f, 1, k)) = k /\ \A j \in 1..k : SubSeq(f, 1, k)[j] = f[j]
  BY FirstOnes
<1>2. i + 1 \in 1..k /\ (i + 1) - 1 = i
  OBVIOUS
<1>3. SubSeq(SubSeq(f, 1, k), 1, i) = SubSeq(f, 1, i)
  BY FirstOfFirst
<1>4. LET n == SizeAfter(x, c, SubSeq(SubSeq(f, 1, k), 1, (i + 1) - 1))
      IN  n # Rest /\ WholeField(n, SubSeq(f, 1, k)[i + 1])
  BY <1>1, <1>2 DEF Whole
<1> QED  BY <1>1, <1>2, <1>3, <1>4

(* Where the body of a message stops. *)
LEMMA StopFacts ==
    ASSUME NEW s \in Streams, NEW n \in 1..Len(s),
           LengthTaken(s[n].content.t, BigEndian(s[n].len))
    PROVE  LET m == s[n]
               c == Columns(s, n)
               f == m.content.fs
               z(k) == SizeAfter(m.content.t, c, SubSeq(f, 1, k))
           IN  /\ Fits(m)
               /\ \E k \in 0..Len(f) : Stops(m, c, k)
               /\ \A k \in 0..Len(f) : Stops(m, c, k) =>
                    /\ Whole(m.content.t, c, SubSeq(f, 1, k))
                    /\ m.ok => k = Len(f) /\ z(k) = End
                    /\ ~m.ok => \/ z(k) = Bad
                                \/ z(k) = End /\ Left(f, k) # <<>>
                                \/ TooShort(z(k), Left(f, k))
<1> DEFINE m == s[n]
           c == Columns(s, n)
           x == m.content.t
           f == m.content.fs
<1>1. m.ok \in BOOLEAN /\ f \in Seq(Seq(Nat)) /\ Legal(m, c)
  BY MessageType
<1>2. SubSeq(f, 1, Len(f)) = f /\ Len(f) \in 0..Len(f)
  BY <1>1, SubSeqFull
<1> HIDE DEF m, c, f
<1>3. CASE m.ok
  <2>1. Fits(m) /\ Whole(x, c, f) /\ SizeAfter(x, c, f) = End
    BY <1>1, <1>3 DEF Legal, f
  <2>2. \A k : Stops(m, c, k) <=> k = Len(f)
    BY <1>3 DEF Stops, f
  <2> QED  BY <1>2, <1>3, <2>1, <2>2 DEF m, c, f
<1>4. CASE ~m.ok
  <2>1. Fits(m) /\ \E k \in 0..Len(f) : GoesWrong(x, c, f, k)
    BY <1>1, <1>4 DEF Legal, f, m
  <2>2. \A k : Stops(m, c, k) <=> GoesWrong(x, c, f, k)
    BY <1>4 DEF Stops, f
  <2>3. \A k : GoesWrong(x, c, f, k) =>
           LET z == SizeAfter(x, c, SubSeq(f, 1, k))
           IN  /\ Whole(x, c, SubSeq(f, 1, k))
               /\ z = Bad \/ (z = End /\ Left(f, k) # <<>>) \/ TooShort(z, Left(f, k))
    BY DEF GoesWrong
  <2> QED  BY <1>4, <2>1, <2>2, <2>3 DEF m, c, f
<1> QED  BY <1>1, <1>3, <1>4

-----------------------------------------------------------------------------
(* The message being parsed, and its place in the stream. *)
LEMMA ThisMessage ==
    ASSUME Buffer, Delivered, Len(done) < Len(sent)
    PROVE  /\ Len(done) \in Nat /\ Len(done) + 1 \in 1..Len(sent)
           /\ This.content.fs \in Seq(Seq(Nat)) /\ This.len \in Seq(Nat) /\ Len(This.len) = 4
           /\ This.ok \in BOOLEAN /\ stream \in Seq(Nat) /\ Len(stream) \in Nat
           /\ cols = Columns(sent, Len(done) + 1) /\ Legal(This, cols)
           /\ Boundary \in Nat /\ Len(FlattenSeq(This.content.fs)) \in Nat
           /\ EndOf(Chunks(sent), Len(done) + 1) =
                Boundary + 5 + Len(FlattenSeq(This.content.fs))
           /\ EndOf(Chunks(sent), Len(done) + 1) <= Len(stream)
           /\ \A j \in 1..4 : stream[Boundary + 1 + j] = This.len[j]
           /\ \A j \in 1..Len(FlattenSeq(This.content.fs)) :
                stream[Boundary + 5 + j] = FlattenSeq(This.content.fs)[j]
<1>1. /\ sent \in Streams /\ stream = Sent(sent) /\ Len(done) \in 0..Len(sent)
      /\ cols = Columns(sent, Len(done) + 1)
  BY DEF Buffer, Delivered
<1>2. Len(sent) \in Nat
  BY <1>1, ChunksType
<1>3. PICK n \in Nat : n = Len(done)
  BY <1>1, <1>2
<1>4. n < Len(sent) /\ n + 1 \in 1..Len(sent)
  BY <1>2, <1>3
<1>5. /\ sent[n + 1].len \in Seq(Nat) /\ Len(sent[n + 1].len) = 4
      /\ sent[n + 1].ok \in BOOLEAN /\ sent[n + 1].content.fs \in Seq(Seq(Nat))
      /\ Legal(sent[n + 1], Columns(sent, n + 1))
  BY <1>1, <1>4, MessageType
<1>6. /\ EndOf(Chunks(sent), n) \in Nat
      /\ EndOf(Chunks(sent), n + 1) =
           EndOf(Chunks(sent), n) + 5 + Len(FlattenSeq(sent[n + 1].content.fs))
      /\ EndOf(Chunks(sent), n + 1) <= Len(Sent(sent))
      /\ \A j \in 1..4 : Sent(sent)[EndOf(Chunks(sent), n) + 1 + j] = sent[n + 1].len[j]
      /\ \A j \in 1..Len(FlattenSeq(sent[n + 1].content.fs)) :
           Sent(sent)[EndOf(Chunks(sent), n) + 5 + j] = FlattenSeq(sent[n + 1].content.fs)[j]
  BY <1>1, <1>4, MessageAt
<1>7. stream \in Seq(Nat)
  BY <1>1, ChunksType, EndOfType
<1>8. FlattenSeq(sent[n + 1].content.fs) \in Seq(Nat)
  BY <1>5, EndOfType
<1>9. /\ Len(stream) \in Nat /\ Len(FlattenSeq(sent[n + 1].content.fs)) \in Nat
  BY <1>7, <1>8
<1> QED  BY <1>1, <1>3, <1>4, <1>5, <1>6, <1>7, <1>9 DEF This, Boundary

(* The body being parsed. *)
LEMMA BodyAt ==
    ASSUME FramingInv, state = "body"
    PROVE  LET f == This.content.fs
               l == Len(FlattenSeq(f))
           IN  /\ Len(done) < Len(sent) /\ t = This.content.t
               /\ f \in Seq(Seq(Nat)) /\ Len(fs) \in 0..Len(f) /\ l \in Nat
               /\ Boundary \in Nat /\ EndOf(f, Len(fs)) \in Nat /\ EndOf(f, Len(fs)) <= l
               /\ limit = Boundary + 5 + l
               /\ begin = Boundary + 5 + EndOf(f, Len(fs)) + Len(got)
               /\ got \in Seq(Nat) /\ stream \in Seq(Nat) /\ begin \in Nat
               /\ PieceEnd \in Nat /\ PieceEnd <= Len(stream) /\ PieceEnd <= end
               /\ PieceEnd <= limit /\ (PieceEnd # limit => PieceEnd = end)
               /\ \A j \in 1..l : stream[Boundary + 5 + j] = FlattenSeq(f)[j]
<1>1. Buffer /\ Delivered /\ InBody /\ Len(done) < Len(sent) /\ t = This.content.t
  BY DEF FramingInv, Place
<1>2. /\ got \in Seq(Nat) /\ begin \in Nat /\ end \in Nat /\ end <= Len(stream)
  BY <1>1 DEF Buffer
<1>3. /\ limit = EndOf(Chunks(sent), Len(done) + 1)
      /\ Len(fs) \in 0..Len(This.content.fs)
      /\ begin = Boundary + 5 + EndOf(This.content.fs, Len(fs)) + Len(got)
  BY <1>1 DEF InBody
<1>4. /\ This.content.fs \in Seq(Seq(Nat)) /\ stream \in Seq(Nat) /\ Len(stream) \in Nat
      /\ Boundary \in Nat /\ Len(FlattenSeq(This.content.fs)) \in Nat
      /\ limit = Boundary + 5 + Len(FlattenSeq(This.content.fs))
      /\ limit <= Len(stream)
      /\ \A j \in 1..Len(FlattenSeq(This.content.fs)) :
           stream[Boundary + 5 + j] = FlattenSeq(This.content.fs)[j]
  BY <1>1, <1>3, ThisMessage
<1>5. /\ EndOf(This.content.fs, Len(fs)) \in Nat
      /\ EndOf(This.content.fs, Len(fs)) <= Len(FlattenSeq(This.content.fs))
  BY <1>3, <1>4, LeftFacts
<1>6. limit \in Nat
  BY <1>4
<1>7. /\ PieceEnd \in Nat /\ PieceEnd <= Len(stream) /\ PieceEnd <= end
      /\ PieceEnd <= limit /\ (PieceEnd # limit => PieceEnd = end)
  BY <1>2, <1>4, <1>6 DEF PieceEnd, Smaller
<1> QED  BY <1>1, <1>2, <1>3, <1>4, <1>5, <1>7

(* What the field parser makes of the buffer, when the body stops at k. *)
LEMMA BodyPiece ==
    ASSUME FramingInv, state = "body", p # End,
           NEW k \in 0..Len(This.content.fs), Stops(This, cols, k)
    PROVE  \E d, b :
             LET f == This.content.fs
                 i == Len(fs)
             IN  /\ d = Taken(p, got, stream, begin, PieceEnd)
                 /\ b = Grown(p, got, stream, begin, PieceEnd)
                 /\ d \in Nat /\ begin + d <= PieceEnd
                 /\ b \in Seq(Nat) /\ Len(b) = Len(got) + d
                 /\ Complete(p, b, FALSE) => i < k /\ b = f[i + 1]
                 /\ ~Complete(p, b, FALSE) =>
                      /\ begin + d = PieceEnd /\ InField(f, k, i, b)
                      /\ PieceEnd = limit => ~This.ok
<1> DEFINE f == This.content.fs
           i == Len(fs)
           l == Len(FlattenSeq(f))
           z == EndOf(f, i)
<1>1. /\ Len(done) < Len(sent) /\ t = This.content.t
      /\ f \in Seq(Seq(Nat)) /\ i \in 0..Len(f) /\ l \in Nat
      /\ Boundary \in Nat /\ z \in Nat /\ z <= l
      /\ limit = Boundary + 5 + l
      /\ begin = Boundary + 5 + z + Len(got)
      /\ got \in Seq(Nat) /\ stream \in Seq(Nat) /\ begin \in Nat
      /\ PieceEnd \in Nat /\ PieceEnd <= Len(stream) /\ PieceEnd <= end
      /\ PieceEnd <= limit /\ (PieceEnd # limit => PieceEnd = end)
      /\ \A j \in 1..l : stream[Boundary + 5 + j] = FlattenSeq(f)[j]
  BY BodyAt
<1>2. Buffer /\ Delivered /\ InBody
  BY DEF FramingInv, Place
<1>3. /\ LengthTaken(t, BigEndian(This.len)) /\ fs = SubSeq(f, 1, i)
      /\ p = SizeAfter(t, cols, SubSeq(f, 1, i)) /\ p # Bad
      /\ InField(f, k, i, got)
  BY <1>2 DEF InBody
<1>4. begin <= end
  BY <1>2 DEF Buffer
<1>5. /\ Whole(t, cols, SubSeq(f, 1, k))
      /\ This.ok => k = Len(f) /\ SizeAfter(t, cols, SubSeq(f, 1, k)) = End
      /\ ~This.ok => \/ SizeAfter(t, cols, SubSeq(f, 1, k)) = Bad
                     \/ SizeAfter(t, cols, SubSeq(f, 1, k)) = End /\ Left(f, k) # <<>>
                     \/ TooShort(SizeAfter(t, cols, SubSeq(f, 1, k)), Left(f, k))
  <2>1. Len(done) + 1 \in 1..Len(sent) /\ cols = Columns(sent, Len(done) + 1)
    BY <1>1, <1>2, ThisMessage
  <2>2. sent \in Streams
    BY <1>2 DEF Buffer
  <2> QED  BY <1>1, <1>3, <2>1, <2>2, StopFacts DEF This
<1>8. i \in Nat /\ k \in Nat /\ i <= k /\ k <= Len(f) /\ Len(f) \in Nat
  <2>1. Len(f) \in Nat
    BY <1>1, SMTT(40)
  <2>2. i <= k
    BY <1>3 DEF InField
  <2> HIDE DEF f, i
  <2> QED  BY <1>1, <2>1, <2>2, SMTT(40) DEF f
<1> HIDE DEF f, i, l, z
<1>9. PICK g \in Nat : g = Len(got)
  BY <1>1
<1>10. PICK a \in Nat : a = begin
  BY <1>1
<1>11. PICK e \in Nat : e = PieceEnd
  BY <1>1
<1>12. /\ l \in Nat /\ z \in Nat /\ z <= l /\ Boundary \in Nat /\ limit = Boundary + 5 + l
       /\ a = Boundary + 5 + z + g
       /\ e <= limit /\ (e # limit => e = end) /\ a <= end
  BY <1>1, <1>4, <1>9, <1>10, <1>11
<1>13. \A j \in 1..l : stream[Boundary + 5 + j] = FlattenSeq(f)[j]
  BY <1>1
<1>14. got \in Seq(Nat) /\ stream \in Seq(Nat) /\ e <= Len(stream)
  BY <1>1, <1>11
(* r is the rest of the body, or the field the parser is in. *)
<1>15. ASSUME NEW r \in Seq(Nat), Begins(got, r), z + Len(r) <= l,
              \A j \in 1..Len(r) : FlattenSeq(f)[z + j] = r[j]
       PROVE  /\ Len(r) \in Nat /\ g <= Len(r) /\ a <= e
              /\ Follows(stream, a, r, got)
  <2>1. PICK n \in Nat : n = Len(r)
    BY <1>15
  <2>2. g <= n
    BY <1>9, <1>15, <2>1 DEF Begins
  <2>3. z + n <= l
    BY <1>15, <2>1
  <2>4. a <= e
    BY <1>12, <2>2, <2>3
  <2>5. ASSUME NEW j \in 1..(n - g) PROVE stream[a + j] = r[g + j]
    <3>1. g + j \in 1..n /\ z + (g + j) \in 1..l /\ Boundary + 5 + (z + (g + j)) = a + j
      BY <1>12, <2>2, <2>3
    <3> QED  BY <1>13, <1>15, <2>1, <3>1
  <2> QED  BY <1>9, <2>1, <2>2, <2>4, <2>5 DEF Follows
<1>6. CASE i = k
  <2>1. TooShort(p, Left(f, k)) /\ ~This.ok
    BY <1>3, <1>5, <1>6
  <2>2. Begins(got, Left(f, k))
    BY <1>3, <1>6 DEF InField
  <2>3. /\ Left(f, k) \in Seq(Nat) /\ Len(Left(f, k)) = l - z
        /\ \A j \in 1..Len(Left(f, k)) : Left(f, k)[j] = FlattenSeq(f)[z + j]
    BY <1>1, <1>6, LeftFacts DEF l, z, i, f
  <2> DEFINE r == Left(f, k)
  <2> HIDE DEF r
  <2>4. z + Len(r) <= l
    BY <1>12, <2>3 DEF r
  <2>5. Len(r) \in Nat /\ g <= Len(r) /\ a <= e /\ Follows(stream, a, r, got)
    BY <1>15, <2>2, <2>3, <2>4 DEF r
  <2>6. e <= a + (Len(r) - Len(got))
    <3>1. Len(r) = l - z
      BY <2>3 DEF r
    <3> QED  BY <1>9, <1>12, <3>1
  <2>7. \E d, b :
          /\ d = Taken(p, got, stream, a, e)
          /\ b = Grown(p, got, stream, a, e)
          /\ d \in Nat /\ a + d = e /\ b \in Seq(Nat) /\ Len(b) = Len(got) + d
          /\ Begins(b, r)
          /\ \A x : ~Complete(p, b, x)
    <3>1. r \in Seq(Nat) /\ TooShort(p, r) /\ Begins(got, r)
      BY <2>1, <2>2, <2>3 DEF r
    <3> QED  BY <1>14, <2>5, <2>6, <3>1, TakeShort
  <2>8. \A b : Begins(b, r) => InField(f, k, i, b)
    BY <1>6, <1>8 DEF InField, r
  <2>9. PICK d, b :
          /\ d = Taken(p, got, stream, a, e)
          /\ b = Grown(p, got, stream, a, e)
          /\ d \in Nat /\ a + d = e /\ b \in Seq(Nat) /\ Len(b) = Len(got) + d
          /\ Begins(b, r)
          /\ \A x : ~Complete(p, b, x)
    BY <2>7
  <2>10. ~Complete(p, b, FALSE) /\ InField(f, k, i, b)
    BY <2>8, <2>9, Zenon
  <2>11. a + d <= e
    BY <2>9
  <2> QED  BY <1>10, <1>11, <2>1, <2>9, <2>10, <2>11 DEF f, i
<1>7. CASE i # k
  <2>1. i < k /\ i < Len(f) /\ i + 1 \in 1..Len(f)
    BY <1>7, <1>8
  <2>2. Begins(got, f[i + 1]) /\ (Len(got) < Len(f[i + 1]) \/ f[i + 1] = <<>>)
    BY <1>3, <1>7 DEF InField
  <2>3. p # Rest /\ WholeField(p, f[i + 1])
    <3>1. Whole(t, cols, SubSeq(f, 1, k)) /\ f \in Seq(Seq(Nat)) /\ k \in 0..Len(f)
      BY <1>1, <1>5, <1>8
    <3> QED  BY <1>3, <1>8, <2>1, <3>1, WholeAt
  <2>4. /\ f[i + 1] \in Seq(Nat) /\ z + Len(f[i + 1]) <= l
        /\ \A j \in 1..Len(f[i + 1]) : FlattenSeq(f)[z + j] = f[i + 1][j]
    <3>1. f \in Seq(Seq(Nat)) /\ f[i + 1] \in Seq(Nat)
      BY <1>1, <2>1
    <3>2. /\ EndOf(f, i + 1) = EndOf(f, i) + Len(f[i + 1])
          /\ EndOf(f, i + 1) <= Len(FlattenSeq(f))
          /\ \A j \in 1..Len(f[i + 1]) : FlattenSeq(f)[EndOf(f, i) + j] = f[i + 1][j]
      BY <1>8, <2>1, <3>1, FlattenAt
    <3> QED  BY <3>1, <3>2 DEF z, l
  <2> DEFINE r == f[i + 1]
  <2> HIDE DEF r
  <2>5. Len(r) \in Nat /\ g <= Len(r) /\ a <= e /\ Follows(stream, a, r, got)
    BY <1>15, <2>2, <2>4 DEF r
  <2>6. r \in Seq(Nat) /\ WholeField(p, r) /\ Begins(got, r) /\ (Len(got) < Len(r) \/ r = <<>>)
    BY <2>2, <2>3, <2>4 DEF r
  <2>7. PICK d, b : TakesOf(p, r, got, stream, a, e, d, b)
    <3>1. p # Rest
      BY <2>3
    <3> QED  BY <1>14, <2>5, <2>6, <3>1, TakeWhole
  <2>8. /\ d = Taken(p, got, stream, a, e)
        /\ b = Grown(p, got, stream, a, e)
        /\ d \in Nat /\ a + d <= e /\ b \in Seq(Nat) /\ Len(b) = Len(got) + d
        /\ Begins(b, r)
        /\ \A x : Complete(p, b, x) <=> Len(b) = Len(r)
        /\ Len(b) = Len(r) => b = r
        /\ Len(b) # Len(r) => Len(b) < Len(r) /\ a + d = e
    BY <2>7, Zenon DEF TakesOf
  <2>9. ASSUME ~Complete(p, b, FALSE)
        PROVE  a + d = e /\ InField(f, k, i, b) /\ e # limit
    <3>1. Len(b) < Len(r) /\ a + d = e
      BY <2>8, <2>9
    <3>2. InField(f, k, i, b)
      BY <1>7, <1>8, <2>8, <3>1 DEF InField, r
    <3>3. e # limit
      <4>1. PICK n \in Nat : n = Len(r)
        BY <2>5
      <4>2. d \in Nat /\ g + d < n /\ z + n <= l
        BY <1>9, <2>4, <2>8, <3>1, <4>1 DEF r
      <4> QED  BY <1>12, <3>1, <4>2
    <3> QED  BY <3>1, <3>2, <3>3
  <2>10. Complete(p, b, FALSE) => i < k /\ b = f[i + 1]
    BY <2>1, <2>8 DEF r
  <2> QED  BY <1>10, <1>11, <2>8, <2>9, <2>10 DEF f, i
<1> QED  BY <1>6, <1>7

-----------------------------------------------------------------------------
(* The steps of the reader.  Each keeps FramingInv and is a step of Frames *)
(* or leaves it as it is. *)
Good == FramingInv' /\ [F!Next]_(F!vars)

LEMMA Start == Init => FramingInv /\ F!Init
<1> SUFFICES ASSUME Init PROVE FramingInv /\ F!Init
  OBVIOUS
<1>1. sent \in Streams /\ stream = Sent(sent)
  BY DEF Init
<1>2. stream \in Seq(Nat) /\ Len(sent) \in Nat
  BY <1>1, ChunksType, EndOfType
<1>3. Len(done) = 0 /\ done = <<>> /\ 1..0 = {}
  BY DEF Init
<1>4. Buffer
  <2>1. Len(stream) \in Nat /\ <<>> \in Seq(Nat)
    BY <1>2
  <2>2. begin = 0 /\ end = 0 /\ reading = FALSE /\ state = "type" /\ got = <<>> /\ malformed = FALSE
    BY DEF Init
  <2>3. /\ begin \in Nat /\ end \in Nat /\ begin <= end /\ end <= Len(stream)
        /\ state \in {"type", "length", "body"} /\ got \in Seq(Nat)
    BY <2>1, <2>2
  <2>4. reading \in BOOLEAN /\ malformed \in BOOLEAN /\ ~reading
    BY <2>2, Zenon
  <2> QED  BY <1>1, <2>3, <2>4, Zenon DEF Buffer
<1>5. Columns(sent, 1) = 0
  <2>1. {j \in 1..(1 - 1) : sent[j].content.t = "T"} = {}
    OBVIOUS
  <2> QED  BY <2>1 DEF Columns
<1>6. Delivered
  <2>1. done = [j \in 1..Len(done) |-> sent[j].content]
    BY <1>3
  <2>2. 0 + 1 = 1 /\ 0 \in 0..Len(sent)
    BY <1>2
  <2> QED  BY <1>3, <1>5, <2>1, <2>2 DEF Delivered, Init
<1>7. Place
  <2>1. Boundary = 0
    BY <1>1, <1>3, ChunksType, EndOfType DEF Boundary
  <2> QED  BY <2>1 DEF Place, Init
<1> QED  BY <1>4, <1>6, <1>7 DEF FramingInv, F!Init, Init

(* A step that keeps to the messages it has delivered. *)
Still == UNCHANGED <<inputVars, cols, done, malformed>>

LEMMA StillThere ==
    ASSUME Buffer, Delivered, Still, state' = "type" => state = "type",
           begin' \in Nat, end' \in Nat, begin' <= end', end' <= Len(stream),
           reading' \in BOOLEAN, reading' => begin' = end',
           state' \in {"type", "length", "body"}, got' \in Seq(Nat)
    PROVE  Buffer' /\ Delivered' /\ This' = This /\ Boundary' = Boundary
           /\ [F!Next]_(F!vars)
<1>1. /\ sent' = sent /\ stream' = stream /\ cols' = cols /\ done' = done
      /\ malformed' = malformed
  BY DEF Still, inputVars
<1>2. This' = This /\ Boundary' = Boundary
  BY <1>1 DEF This, Boundary
<1>3. Buffer'
  <2>1. malformed \in BOOLEAN /\ sent \in Streams /\ stream = Sent(sent)
    BY DEF Buffer
  <2> QED  BY <1>1, <2>1 DEF Buffer
<1>4. Delivered'
  BY <1>1, <1>2 DEF Delivered
<1>5. UNCHANGED F!vars
  BY <1>1 DEF F!vars
<1> QED  BY <1>2, <1>3, <1>4, <1>5

LEMMA ReadStep == ASSUME FramingInv, Read PROVE Good
<1>1. /\ Buffer /\ Delivered /\ Place
  BY DEF FramingInv
<1>2. /\ begin' = begin /\ state' = state /\ t' = t /\ p' = p /\ got' = got
      /\ limit' = limit /\ fs' = fs /\ reading' = FALSE
      /\ end' \in (end + 1)..Len(stream) /\ Still
  BY DEF Read, Still
<1>3. Buffer' /\ Delivered' /\ This' = This /\ Boundary' = Boundary /\ [F!Next]_(F!vars)
  <2>1. /\ begin \in Nat /\ end \in Nat /\ begin <= end /\ stream \in Seq(Nat)
        /\ state \in {"type", "length", "body"} /\ got \in Seq(Nat)
    BY <1>1, ChunksType, EndOfType DEF Buffer
  <2>2. Len(stream) \in Nat
    BY <2>1
  <2>3. end' \in Nat /\ begin' <= end' /\ end' <= Len(stream)
    BY <1>2, <2>1, <2>2
  <2> QED  BY <1>1, <1>2, <2>1, <2>3, StillThere
<1>4. Place'
  BY <1>1, <1>2, <1>3 DEF Place, InLength, InBody, Still, inputVars
<1> QED  BY <1>1, <1>3, <1>4 DEF Good, FramingInv

LEMMA TypeStep == ASSUME FramingInv, Type PROVE Good
<1>1. Buffer /\ Delivered /\ Place
  BY DEF FramingInv
<1>2. /\ begin \in Nat /\ end \in Nat /\ begin <= end /\ end <= Len(stream)
      /\ state \in {"type", "length", "body"} /\ got \in Seq(Nat)
      /\ sent \in Streams /\ stream = Sent(sent)
  BY <1>1 DEF Buffer
<1>3. state = "type" /\ begin = Boundary /\ ~reading /\ ~malformed
  BY <1>1 DEF Place, Type, Parsing
<1>4. end' = end /\ sent' = sent /\ stream' = stream
  BY DEF Type, inputVars
<1>5. CASE begin = end
  <2>1. /\ begin' = begin /\ got' = got /\ state' = state /\ reading' = TRUE /\ Still
    BY <1>4, <1>5 DEF Type, NeedMore, Still, inputVars
  <2>2. Buffer' /\ Delivered' /\ This' = This /\ Boundary' = Boundary /\ [F!Next]_(F!vars)
    BY <1>1, <1>2, <1>4, <1>5, <2>1, StillThere
  <2>3. Place'
    BY <1>3, <2>1, <2>2 DEF Place
  <2> QED  BY <2>2, <2>3 DEF Good, FramingInv
<1>6. CASE begin # end
  <2>1. /\ begin' = begin + 1 /\ got' = <<>> /\ fs' = <<>> /\ state' = "length"
        /\ t' = This.content.t /\ reading' = reading /\ Still
    BY <1>4, <1>6 DEF Type, Still, inputVars, This
  <2>2. Len(done) \in Nat /\ Len(sent) \in Nat /\ Len(done) <= Len(sent)
    BY <1>1, <1>2, ChunksType DEF Delivered
  <2>3. Len(done) < Len(sent)
    <3>1. SUFFICES ASSUME Len(done) = Len(sent) PROVE FALSE
      BY <2>2
    <3>2. Boundary = Len(stream)
      BY <1>2, <3>1, ChunksType, EndOfType DEF Boundary
    <3> QED  BY <1>2, <1>3, <1>6, <3>2
  <2>4. Buffer' /\ Delivered' /\ This' = This /\ Boundary' = Boundary /\ [F!Next]_(F!vars)
    <3>1. /\ begin' \in Nat /\ end' \in Nat /\ begin' <= end' /\ end' <= Len(stream)
          /\ got' \in Seq(Nat) /\ (state' = "type" => state = "type")
      BY <1>2, <1>4, <1>6, <2>1
    <3>2. reading' \in BOOLEAN /\ ~reading' /\ state' \in {"type", "length", "body"}
      BY <1>1, <1>3, <2>1, Zenon DEF Buffer
    <3> QED  BY <1>1, <2>1, <3>1, <3>2, StillThere
  <2>5. InLength'
    <3>1. This.len \in Seq(Nat) /\ Len(This.len) = 4 /\ Boundary \in Nat
      BY <1>1, <2>3, ThisMessage
    <3>2. Begins(<<>>, This.len) /\ Len(<<>>) = 0
      BY <3>1 DEF Begins
    <3> QED  BY <1>3, <2>1, <2>4, <3>1, <3>2 DEF InLength
  <2>6. Len(done') < Len(sent') /\ t' = This'.content.t
    BY <1>4, <2>1, <2>3, <2>4 DEF Still
  <2>7. Place'
    BY <2>1, <2>5, <2>6 DEF Place
  <2> QED  BY <2>4, <2>7 DEF Good, FramingInv
<1> QED  BY <1>5, <1>6

(* A message that is not well formed is refused. *)
LEMMA RefuseStep ==
    ASSUME FramingInv, state # "type", ~malformed, ~This.ok, Refuse, UNCHANGED <<inputVars, end>>
    PROVE  Good
<1>1. Buffer /\ Delivered /\ Place
  BY DEF FramingInv
<1>2. /\ sent' = sent /\ stream' = stream /\ begin' = begin /\ end' = end
      /\ state' = state /\ t' = t /\ p' = p /\ got' = got /\ limit' = limit /\ fs' = fs
      /\ cols' = cols /\ done' = done /\ reading' = reading /\ malformed' = TRUE
  BY DEF Refuse, inputVars
<1>3. This' = This /\ Boundary' = Boundary
  BY <1>2 DEF This, Boundary
<1>4. Buffer'
  BY <1>1, <1>2 DEF Buffer
<1>5. Delivered'
  BY <1>1, <1>2, <1>3 DEF Delivered
<1>6. Place'
  BY <1>1, <1>2, <1>3 DEF Place, InLength, InBody
<1>7. Len(done) < Len(sent)
  BY <1>1 DEF Place
<1>8. F!Refuse
  BY <1>2, <1>7 DEF F!Refuse, F!Pending, This
<1> QED  BY <1>4, <1>5, <1>6, <1>8 DEF Good, FramingInv, F!Next

(* A message that is well formed is delivered, when its last byte is read. *)
LEMMA AcceptStep ==
    ASSUME FramingInv, state = "body", Parsing, This.ok, NEW k \in Nat,
           begin + k = limit, limit <= end,
           Accept(k, This.content.fs), UNCHANGED <<inputVars, end>>
    PROVE  Good
<1>1. Buffer /\ Delivered /\ Place /\ InBody /\ Len(done) < Len(sent) /\ t = This.content.t
  BY DEF FramingInv, Place
<1>2. PICK n \in Nat : n = Len(done) /\ n < Len(sent) /\ n + 1 \in 1..Len(sent)
  BY <1>1, ThisMessage
<1>3. /\ begin' = begin + k /\ state' = "type" /\ got' = <<>> /\ malformed' = malformed
      /\ done' = Append(done, [t |-> t, fs |-> This.content.fs])
      /\ cols' = IF t = "T" THEN BigEndian(This.content.fs[1]) ELSE cols
      /\ sent' = sent /\ stream' = stream /\ end' = end /\ reading' = reading
  BY DEF Accept, inputVars
<1>4. /\ sent \in Streams /\ begin \in Nat /\ end \in Nat /\ end <= Len(stream)
      /\ stream = Sent(sent) /\ reading \in BOOLEAN /\ ~reading /\ ~malformed
  BY <1>1 DEF Buffer, Parsing
<1>5. sent[n + 1].content = [t |-> t, fs |-> This.content.fs] /\ sent[n + 1] = This
  BY <1>1, <1>2, <1>4, MessageType DEF This
<1>6. /\ done = [i \in 1..n |-> sent[i].content]
      /\ \A i \in 1..n : sent[i].ok
      /\ cols = Columns(sent, n + 1)
  BY <1>1, <1>2 DEF Delivered
<1>7. done' = [i \in 1..(n + 1) |-> sent[i].content] /\ Len(done') = n + 1
  <2> DEFINE C == {sent[i].content : i \in 1..(n + 1)}
  <2>1. done \in Seq(C) /\ Len(done) = n
    BY <1>6
  <2>2. sent[n + 1].content \in C
    OBVIOUS
  <2>3. done' = Append(done, sent[n + 1].content)
    BY <1>3, <1>5
  <2> QED  BY <1>6, <2>1, <2>2, <2>3
<1>8. begin' = EndOf(Chunks(sent), n + 1)
  BY <1>1, <1>2, <1>3 DEF InBody
<1>9. Buffer'
  <2>1. begin' \in Nat /\ begin' <= end'
    BY <1>3, <1>4
  <2>2. got' \in Seq(Nat) /\ state' \in {"type", "length", "body"}
    BY <1>3
  <2>3. reading' \in BOOLEAN /\ ~reading' /\ malformed' \in BOOLEAN
    BY <1>1, <1>3, <1>4, Zenon DEF Buffer
  <2> QED  BY <1>3, <1>4, <2>1, <2>2, <2>3, Zenon DEF Buffer
<1>10. Delivered'
  <2>1. cols' = Columns(sent, (n + 1) + 1)
    <3>1. Columns(sent, (n + 1) + 1) =
            IF sent[n + 1].content.t = "T" THEN BigEndian(sent[n + 1].content.fs[1])
            ELSE Columns(sent, n + 1)
      BY <1>2, <1>4, ColumnsNext
    <3>2. sent[n + 1].content.t = t /\ sent[n + 1].content.fs = This.content.fs
      BY <1>1, <1>5, Zenon
    <3>3. cols' = IF t = "T" THEN BigEndian(This.content.fs[1]) ELSE cols
      BY <1>3
    <3>4. cols = Columns(sent, n + 1)
      BY <1>6
    <3> QED  BY <3>1, <3>2, <3>3, <3>4, Zenon
  <2>2. \A i \in 1..(n + 1) : sent[i].ok
    <3> SUFFICES ASSUME NEW i \in 1..(n + 1) PROVE sent[i].ok
      OBVIOUS
    <3>1. i \in 1..n \/ i = n + 1
      OBVIOUS
    <3> QED  BY <1>5, <1>6, <3>1
  <2>3. n + 1 \in 0..Len(sent)
    BY <1>2
  <2> QED  BY <1>3, <1>4, <1>7, <2>1, <2>2, <2>3 DEF Delivered
<1>11. Place'
  BY <1>3, <1>7, <1>8 DEF Place, Boundary
<1>12. F!Deliver
  <2>1. done' = Append(done, sent[n + 1].content)
    BY <1>3, <1>5
  <2> QED  BY <1>2, <1>3, <1>4, <1>5, <2>1 DEF F!Deliver, F!Pending
<1> QED  BY <1>9, <1>10, <1>11, <1>12 DEF Good, FramingInv, F!Next

LEMMA LengthStep == ASSUME FramingInv, Length PROVE Good
<1> DEFINE d == Taken(4, got, stream, begin, end)
           b == Grown(4, got, stream, begin, end)
           v == BigEndian(b)
<1>1. Buffer /\ Delivered /\ InLength /\ Len(done) < Len(sent) /\ t = This.content.t
      /\ state = "length" /\ ~reading /\ ~malformed
  BY DEF FramingInv, Place, Length, Parsing
<1>2. /\ begin \in Nat /\ end \in Nat /\ begin <= end /\ end <= Len(stream)
      /\ got \in Seq(Nat) /\ stream \in Seq(Nat) /\ sent \in Streams
  BY <1>1, ChunksType, EndOfType DEF Buffer
<1>3. /\ fs = <<>> /\ Begins(got, This.len) /\ Len(got) < 4
      /\ begin = Boundary + 1 + Len(got)
  BY <1>1 DEF InLength
<1>4. /\ This.len \in Seq(Nat) /\ Len(This.len) = 4 /\ Boundary \in Nat
      /\ EndOf(Chunks(sent), Len(done) + 1) = Boundary + 5 + Len(FlattenSeq(This.content.fs))
      /\ Len(FlattenSeq(This.content.fs)) \in Nat
      /\ \A j \in 1..4 : stream[Boundary + 1 + j] = This.len[j]
      /\ Legal(This, cols) /\ This.ok \in BOOLEAN /\ cols = Columns(sent, Len(done) + 1)
      /\ Len(done) + 1 \in 1..Len(sent) /\ This.content.fs \in Seq(Seq(Nat))
  BY <1>1, ThisMessage
<1>5. Follows(stream, begin, This.len, got)
  <2>1. PICK g \in Nat : g = Len(got)
    BY <1>2
  <2>2. ASSUME NEW j \in 1..(4 - g) PROVE stream[begin + j] = This.len[g + j]
    <3>1. Boundary \in Nat /\ begin = Boundary + 1 + g
      BY <1>3, <1>4, <2>1
    <3>2. g + j \in 1..4 /\ Boundary + 1 + (g + j) = begin + j
      BY <3>1
    <3> QED  BY <1>4, <3>2
  <2> QED  BY <1>4, <2>1, <2>2 DEF Follows
<1>6. TakesOf(4, This.len, got, stream, begin, end, d, b)
  <2>1. 4 # Rest /\ WholeField(4, This.len)
    BY <1>4 DEF WholeField, Rest, CStr, LenInt
  <2>2. \E x, y : TakesOf(4, This.len, got, stream, begin, end, x, y)
    BY <1>2, <1>3, <1>4, <1>5, <2>1, TakeWhole
  <2>3. PICK x, y : TakesOf(4, This.len, got, stream, begin, end, x, y)
    BY <2>2
  <2>4. x = d /\ y = b
    BY <2>3 DEF TakesOf
  <2> QED  BY <2>3, <2>4
<1>7. /\ d \in Nat /\ begin + d <= end /\ b \in Seq(Nat) /\ Len(b) = Len(got) + d
      /\ Begins(b, This.len)
      /\ Len(b) = 4 => b = This.len
      /\ Len(b) # 4 => Len(b) < 4 /\ begin + d = end
  BY <1>4, <1>6 DEF TakesOf
<1>8. /\ sent' = sent /\ stream' = stream /\ end' = end
      /\ IF Len(b) < 4 THEN Take(d) /\ NeedMore
         ELSE IF ~LengthTaken(t, v) THEN Refuse
         ELSE /\ begin' = begin + d /\ got' = <<>>
              /\ state' = "body" /\ limit' = begin + d + v - 4
              /\ p' = First(t)
              /\ UNCHANGED <<t, fs, cols, done, malformed, reading>>
  BY DEF Length, Taken, Grown, inputVars
<1>9. CASE Len(b) < 4
  <2>1. /\ begin' = begin + d /\ got' = b /\ state' = state /\ reading' = TRUE /\ fs' = fs
        /\ t' = t /\ Still
    BY <1>8, <1>9 DEF Take, NeedMore, Still, Grown, inputVars
  <2> HIDE DEF d, b
  <2>2. Buffer' /\ Delivered' /\ This' = This /\ Boundary' = Boundary /\ [F!Next]_(F!vars)
    <3>1. /\ begin' \in Nat /\ end' \in Nat /\ begin' <= end' /\ end' <= Len(stream)
          /\ begin' = end' /\ got' \in Seq(Nat)
      BY <1>2, <1>7, <1>8, <1>9, <2>1
    <3>2. reading' \in BOOLEAN /\ state' \in {"type", "length", "body"}
          /\ (state' = "type" => state = "type")
      BY <1>1, <2>1, Zenon
    <3> QED  BY <1>1, <2>1, <3>1, <3>2, StillThere
  <2>3. InLength'
    <3>1. begin' = Boundary + 1 + Len(b)
      <4>1. PICK g \in Nat : g = Len(got)
        BY <1>2
      <4> QED  BY <1>3, <1>4, <1>7, <2>1, <4>1
    <3> QED  BY <1>3, <1>7, <1>9, <2>1, <2>2, <3>1 DEF InLength
  <2>4. Place'
    BY <1>1, <1>8, <2>1, <2>2, <2>3 DEF Place, Still
  <2> QED  BY <2>2, <2>4 DEF Good, FramingInv
<1>10. ASSUME ~(Len(b) < 4) PROVE b = This.len /\ v = BigEndian(This.len)
  <2>1. b = This.len
    <3> HIDE DEF b, d
    <3> QED  BY <1>7, <1>10
  <2> HIDE DEF b
  <2> QED  BY <2>1
<1>11. CASE ~(Len(b) < 4) /\ ~LengthTaken(t, v)
  <2>1. Refuse
    BY <1>8, <1>11
  <2>2. ~This.ok
    BY <1>1, <1>4, <1>10, <1>11 DEF Legal
  <2> QED  BY <1>1, <1>8, <2>1, <2>2, RefuseStep DEF inputVars
<1>12. CASE ~(Len(b) < 4) /\ LengthTaken(t, v)
  <2>1. /\ begin' = begin + d /\ got' = <<>> /\ state' = "body" /\ limit' = begin + d + v - 4
        /\ p' = First(t) /\ t' = t /\ fs' = fs /\ reading' = reading /\ Still
    BY <1>8, <1>12 DEF Still, inputVars
  <2>2. b = This.len /\ v = BigEndian(This.len)
    BY <1>10, <1>12
  <2>3. Fits(This) /\ LengthTaken(t, BigEndian(This.len))
    BY <1>1, <1>2, <1>4, <1>12, <2>2, StopFacts DEF This
  <2> HIDE DEF d, b, v
  <2>4. begin + d = Boundary + 5
    <3>1. PICK g \in Nat : g = Len(got)
      BY <1>2
    <3>2. g + d = 4
      BY <1>4, <1>7, <2>2, <3>1
    <3> QED  BY <1>3, <1>4, <1>7, <3>1, <3>2
  <2>5. limit' = EndOf(Chunks(sent), Len(done) + 1)
    <3>1. v = 4 + Len(FlattenSeq(This.content.fs))
      BY <2>2, <2>3 DEF Fits
    <3> QED  BY <1>4, <2>1, <2>4, <3>1
  <2>6. Buffer' /\ Delivered' /\ This' = This /\ Boundary' = Boundary /\ [F!Next]_(F!vars)
    <3>1. /\ begin' \in Nat /\ end' \in Nat /\ begin' <= end' /\ end' <= Len(stream)
          /\ got' \in Seq(Nat)
      BY <1>2, <1>7, <1>8, <2>1
    <3>2. reading' \in BOOLEAN /\ ~reading' /\ state' \in {"type", "length", "body"}
          /\ state' # "type"
      BY <1>1, <2>1, Zenon DEF Buffer
    <3> QED  BY <1>1, <2>1, <3>1, <3>2, StillThere
  <2>7. InBody'
    <3> DEFINE f == This.content.fs
    <3>1. SubSeq(f, 1, 0) = <<>> /\ Len(<<>>) = 0 /\ 0 \in 0..Len(f) /\ EndOf(f, 0) = 0
      BY <1>4, EndOfType, SMTT(40)
    <3>2. p' = SizeAfter(t, cols, <<>>) /\ p' # Bad
      BY <2>1, FirstNotBad DEF SizeAfter
    <3>3. ASSUME NEW k \in 0..Len(f) PROVE InField(f, k, 0, <<>>)
      <4>1. Begins(<<>>, Left(f, k))
        BY <1>4, LeftFacts DEF Begins
      <4>2. k # 0 => f[0 + 1] \in Seq(Nat)
        <5>1. This.content.fs \in Seq(Seq(Nat))
          BY <1>4
        <5>2. k # 0 => 0 + 1 \in 1..Len(This.content.fs)
          BY <5>1
        <5> QED  BY <5>1, <5>2
      <4>3. k # 0 => Begins(<<>>, f[0 + 1]) /\ (Len(<<>>) < Len(f[0 + 1]) \/ f[0 + 1] = <<>>)
        BY <4>2 DEF Begins
      <4>4. 0 <= k
        BY <1>4
      <4> QED  BY <4>1, <4>3, <4>4 DEF InField
    <3>4. begin' = Boundary + 5 + EndOf(f, 0) + Len(<<>>)
      BY <1>4, <2>1, <2>4, <3>1
    <3>5. Fits(This') /\ LengthTaken(t', BigEndian(This'.len))
      BY <2>1, <2>3, <2>6
    <3>6. fs' = <<>> /\ got' = <<>> /\ cols' = cols /\ done' = done /\ sent' = sent
          /\ t' = t /\ This' = This /\ Boundary' = Boundary
      BY <1>3, <2>1, <2>6 DEF Still, inputVars
    <3> HIDE DEF f
    <3>7. \A k \in 0..Len(f) : Stops(This', cols', k) => InField(f, k, Len(fs'), got')
      BY <3>1, <3>3, <3>6
    <3>8. begin' <= limit'
      BY <1>4, <2>1, <2>4, <2>5
    <3> QED  BY <2>5, <3>1, <3>2, <3>4, <3>5, <3>6, <3>7, <3>8 DEF InBody, f
  <2>8. Place'
    BY <1>1, <1>8, <2>1, <2>6, <2>7 DEF Place, Still
  <2> QED  BY <2>6, <2>8 DEF Good, FramingInv
<1> QED  BY <1>9, <1>11, <1>12

(* After the last field of a body: it is well formed if it ends there. *)
LEMMA FinishStep ==
    ASSUME FramingInv, state = "body", Parsing, UNCHANGED <<inputVars, end>>,
           NEW i \in 0..Len(This.content.fs), NEW k \in 0..Len(This.content.fs), i <= k,
           SizeAfter(t, cols, SubSeq(This.content.fs, 1, i)) = End,
           Stops(This, cols, k),
           NEW d \in Nat, begin + d <= PieceEnd,
           begin + d = Boundary + 5 + EndOf(This.content.fs, i),
           Finish(d, SubSeq(This.content.fs, 1, i))
    PROVE  Good
<1> DEFINE f == This.content.fs
           l == Len(FlattenSeq(f))
<1>1. /\ Len(done) < Len(sent) /\ t = This.content.t /\ f \in Seq(Seq(Nat)) /\ l \in Nat
      /\ Boundary \in Nat /\ limit = Boundary + 5 + l
      /\ PieceEnd \in Nat /\ PieceEnd <= end /\ PieceEnd <= limit
  BY BodyAt
<1>2. Buffer /\ Delivered /\ InBody
  BY DEF FramingInv, Place
<1>3. LengthTaken(t, BigEndian(This.len)) /\ sent \in Streams
  BY <1>2 DEF InBody, Buffer
<1>4. /\ Len(done) + 1 \in 1..Len(sent) /\ cols = Columns(sent, Len(done) + 1)
      /\ This.ok \in BOOLEAN
  BY <1>1, <1>2, ThisMessage
<1>5. /\ Whole(t, cols, SubSeq(f, 1, k))
      /\ This.ok => k = Len(f)
      /\ ~This.ok => \/ SizeAfter(t, cols, SubSeq(f, 1, k)) = Bad
                     \/ SizeAfter(t, cols, SubSeq(f, 1, k)) = End /\ Left(f, k) # <<>>
                     \/ TooShort(SizeAfter(t, cols, SubSeq(f, 1, k)), Left(f, k))
  BY <1>1, <1>3, <1>4, StopFacts DEF This
<1>6. i = k
  <2> SUFFICES ASSUME i < k PROVE FALSE
    OBVIOUS
  <2>1. WholeField(End, f[i + 1])
    BY <1>1, <1>5, WholeAt, SMTT(40)
  <2>2. f[i + 1] \in Seq(Nat)
    BY <1>1, SMTT(40)
  <2> QED  BY <2>1, <2>2, NoField
<1>7. PICK z \in Nat : z = EndOf(f, i) /\ z <= l /\ Len(Left(f, i)) = l - z
                       /\ Left(f, i) \in Seq(Nat)
  BY <1>1, LeftFacts
<1>8. CASE This.ok
  <2>1. i = Len(f)
    BY <1>5, <1>6, <1>8
  <2>2. SubSeq(f, 1, i) = f /\ EndOf(f, i) = l
    BY <1>1, <2>1, SubSeqFull, EndOfType
  <2>3. begin + d = limit /\ limit = PieceEnd /\ limit <= end
    BY <1>1, <2>2
  <2>4. Accept(d, f)
    BY <2>2, <2>3 DEF Finish
  <2> QED  BY <1>8, <2>3, <2>4, AcceptStep
<1>9. CASE ~This.ok
  <2>1. Left(f, i) # <<>>
    <3>1. End # Bad /\ ~TooShort(End, Left(f, i))
      BY <1>7, NoField DEF End, Bad
    <3> QED  BY <1>5, <1>6, <1>9, <3>1
  <2>2. Len(Left(f, i)) # 0
    BY <1>7, <2>1
  <2>3. begin + d # limit
    BY <1>1, <1>7, <2>2, SMTT(40)
  <2>4. Refuse
    BY <2>3 DEF Finish
  <2>5. state # "type" /\ ~malformed
    BY DEF Parsing
  <2> QED  BY <1>9, <2>4, <2>5, RefuseStep
<1> QED  BY <1>4, <1>8, <1>9

LEMMA EmptyBodyStep == ASSUME FramingInv, EmptyBody PROVE Good
<1> DEFINE f == This.content.fs
<1>1. /\ state = "body" /\ Parsing /\ p = End /\ Finish(0, fs) /\ UNCHANGED <<inputVars, end>>
  BY DEF EmptyBody
<1>2. Buffer /\ Delivered /\ InBody
  BY <1>1 DEF FramingInv, Place
<1>3. /\ fs = <<>> /\ got = <<>> /\ SizeAfter(t, cols, fs) = End
      /\ LengthTaken(t, BigEndian(This.len)) /\ sent \in Streams
  BY <1>1, <1>2 DEF InBody, Buffer
<1>4. /\ Len(done) < Len(sent) /\ f \in Seq(Seq(Nat)) /\ t = This.content.t
      /\ begin = Boundary + 5 + EndOf(f, Len(fs)) + Len(got)
      /\ PieceEnd \in Nat /\ PieceEnd <= limit /\ (PieceEnd # limit => PieceEnd = end)
      /\ Boundary \in Nat /\ limit = Boundary + 5 + Len(FlattenSeq(f))
      /\ Len(FlattenSeq(f)) \in Nat /\ begin \in Nat
  BY <1>1, BodyAt
<1>5. Len(fs) = 0 /\ Len(got) = 0 /\ SubSeq(f, 1, 0) = <<>> /\ EndOf(f, 0) = 0
      /\ 0 \in 0..Len(f)
  BY <1>3, <1>4, EndOfType
<1>6. PICK k \in 0..Len(f) : Stops(This, cols, k)
  <2>1. Len(done) + 1 \in 1..Len(sent) /\ cols = Columns(sent, Len(done) + 1)
    BY <1>2, <1>4, ThisMessage
  <2> QED  BY <1>3, <1>4, <2>1, StopFacts DEF This
<1>7. begin <= end
  BY <1>2 DEF Buffer
<1>8. begin + 0 <= PieceEnd /\ begin + 0 = Boundary + 5 + EndOf(f, 0)
  BY <1>4, <1>5, <1>7
<1>9. Finish(0, SubSeq(f, 1, 0)) /\ SizeAfter(t, cols, SubSeq(f, 1, 0)) = End
  BY <1>1, <1>3, <1>5
<1>10. 0 <= k
  BY <1>4
<1> HIDE DEF f
<1> QED  BY <1>1, <1>5, <1>6, <1>8, <1>9, <1>10, FinishStep DEF f

LEMMA BodyStep == ASSUME FramingInv, Body PROVE Good
<1> DEFINE f == This.content.fs
           i == Len(fs)
           d == Taken(p, got, stream, begin, PieceEnd)
           b == Grown(p, got, stream, begin, PieceEnd)
           n == Following(t, cols, Append(fs, b))
<1>1. /\ state = "body" /\ Parsing /\ p # End /\ UNCHANGED <<inputVars, end>>
  BY DEF Body
<1>2. /\ ~Complete(p, b, FALSE) => IF PieceEnd = limit THEN Refuse ELSE Take(d) /\ NeedMore
      /\ Complete(p, b, FALSE) =>
           /\ n = Bad => Refuse
           /\ n # Bad /\ n = End => Finish(d, Append(fs, b))
           /\ n # Bad /\ n # End =>
                /\ begin' = begin + d /\ got' = <<>> /\ p' = n /\ fs' = Append(fs, b)
                /\ UNCHANGED <<t, state, limit, cols, done, malformed, reading>>
  BY DEF Body, Taken, Grown
<1>3. Buffer /\ Delivered /\ InBody /\ ~reading /\ ~malformed
  BY <1>1 DEF FramingInv, Place, Parsing
<1>4. /\ Len(done) < Len(sent) /\ t = This.content.t
      /\ f \in Seq(Seq(Nat)) /\ i \in 0..Len(f)
      /\ Boundary \in Nat /\ EndOf(f, i) \in Nat
      /\ begin = Boundary + 5 + EndOf(f, i) + Len(got)
      /\ got \in Seq(Nat) /\ begin \in Nat
      /\ PieceEnd \in Nat /\ PieceEnd <= Len(stream) /\ PieceEnd <= end
      /\ PieceEnd <= limit /\ (PieceEnd # limit => PieceEnd = end)
  BY <1>1, BodyAt
<1>5. /\ LengthTaken(t, BigEndian(This.len)) /\ Fits(This)
      /\ limit = EndOf(Chunks(sent), Len(done) + 1)
      /\ p = SizeAfter(t, cols, fs) /\ p # Bad /\ fs = SubSeq(f, 1, i)
  BY <1>3 DEF InBody
<1>6. /\ sent \in Streams /\ end \in Nat /\ end <= Len(stream)
  BY <1>3 DEF Buffer
<1>7. Len(done) + 1 \in 1..Len(sent) /\ cols = Columns(sent, Len(done) + 1) /\ This.ok \in BOOLEAN
  BY <1>3, <1>4, ThisMessage
<1>8. PICK k \in 0..Len(f) : Stops(This, cols, k)
  BY <1>4, <1>5, <1>6, <1>7, StopFacts DEF This
<1>9. ASSUME NEW x \in 0..Len(f), Stops(This, cols, x)
      PROVE  /\ d \in Nat /\ begin + d <= PieceEnd
             /\ b \in Seq(Nat) /\ Len(b) = Len(got) + d
             /\ Complete(p, b, FALSE) => i < x /\ b = f[i + 1]
             /\ ~Complete(p, b, FALSE) =>
                  /\ begin + d = PieceEnd /\ InField(f, x, i, b)
                  /\ PieceEnd = limit => ~This.ok
  <2>1. \E u, w :
             LET ff == This.content.fs
                 j == Len(fs)
             IN  /\ u = Taken(p, got, stream, begin, PieceEnd)
                 /\ w = Grown(p, got, stream, begin, PieceEnd)
                 /\ u \in Nat /\ begin + u <= PieceEnd
                 /\ w \in Seq(Nat) /\ Len(w) = Len(got) + u
                 /\ Complete(p, w, FALSE) => j < x /\ w = ff[j + 1]
                 /\ ~Complete(p, w, FALSE) =>
                      /\ begin + u = PieceEnd /\ InField(ff, x, j, w)
                      /\ PieceEnd = limit => ~This.ok
    BY <1>1, <1>9, BodyPiece
  <2> QED  BY <2>1, Zenon
<1>10. /\ sent' = sent /\ stream' = stream /\ end' = end /\ state # "type"
  BY <1>1 DEF inputVars
<1> HIDE DEF d, b, n, i
<1>11. d \in Nat /\ begin + d <= PieceEnd /\ b \in Seq(Nat) /\ Len(b) = Len(got) + d
  BY <1>8, <1>9
<1>18. PICK g \in Nat : g = Len(got)
  BY <1>4
<1>19. PICK z \in Nat : z = EndOf(f, i)
  BY <1>4
<1>20. begin = Boundary + 5 + z + g /\ Len(b) = g + d /\ Boundary \in Nat /\ d \in Nat
  BY <1>4, <1>11, <1>18, <1>19
<1>21. i \in Nat /\ k \in Nat /\ i <= Len(f) /\ k <= Len(f) /\ Len(f) \in Nat
  <2>1. Len(f) \in Nat /\ i \in 0..Len(f)
    BY <1>4
  <2> HIDE DEF f
  <2> QED  BY <2>1
<1>22. \A j \in 1..Len(f) : f[j] \in Seq(Nat)
  <2>1. f \in Seq(Seq(Nat))
    BY <1>4
  <2> HIDE DEF f
  <2> QED  BY <2>1
<1>12. CASE ~Complete(p, b, FALSE) /\ PieceEnd = limit
  <2>1. Refuse /\ ~This.ok
    BY <1>2, <1>8, <1>9, <1>12
  <2> QED  BY <1>1, <1>3, <1>10, <2>1, RefuseStep
<1>13. CASE ~Complete(p, b, FALSE) /\ PieceEnd # limit
  <2>1. /\ Take(d) /\ NeedMore
    BY <1>2, <1>13
  <2>2. /\ begin' = begin + d /\ got' = b /\ state' = state /\ reading' = TRUE /\ fs' = fs
        /\ t' = t /\ p' = p /\ limit' = limit /\ Still
    BY <1>10, <2>1 DEF Take, NeedMore, Still, b, d, Grown, inputVars
  <2>3. begin + d = end
    BY <1>4, <1>8, <1>9, <1>13
  <2>4. Buffer' /\ Delivered' /\ This' = This /\ Boundary' = Boundary /\ [F!Next]_(F!vars)
    <3>1. /\ begin' \in Nat /\ end' \in Nat /\ begin' <= end' /\ end' <= Len(stream)
          /\ begin' = end' /\ got' \in Seq(Nat)
      BY <1>6, <1>10, <1>11, <2>2, <2>3
    <3>2. reading' \in BOOLEAN /\ state' \in {"type", "length", "body"}
          /\ (state' = "type" => state = "type")
      BY <1>1, <2>2, Zenon
    <3> QED  BY <1>3, <2>2, <3>1, <3>2, StillThere
  <2>5. begin' = Boundary + 5 + EndOf(f, i) + Len(b)
    <3>1. begin' = Boundary + 5 + z + Len(b)
      BY <1>20, <2>2
    <3> QED  BY <1>19, <3>1
  <2>6. \A x \in 0..Len(f) : Stops(This, cols, x) => InField(f, x, i, b)
    BY <1>9, <1>13
  <2>7. InBody'
    <3>1. /\ cols' = cols /\ done' = done
      BY <2>2 DEF Still
    <3>2. begin' <= limit'
      <4>1. begin \in Nat /\ PieceEnd \in Nat /\ PieceEnd <= limit /\ begin + d <= PieceEnd
            /\ begin' = begin + d /\ limit' = limit /\ d \in Nat
        BY <1>4, <1>11, <2>2
      <4>2. limit \in Nat
        BY <1>1, BodyAt, SMTT(40)
      <4> QED  BY <4>1, <4>2
    <3> QED  BY <1>1, <1>4, <1>5, <1>10, <2>2, <2>4, <2>5, <2>6, <3>1, <3>2 DEF InBody, i
  <2>8. Place'
    BY <1>1, <1>4, <1>10, <2>2, <2>4, <2>7 DEF Place, Still
  <2> QED  BY <2>4, <2>8 DEF Good, FramingInv
<1>14. ASSUME Complete(p, b, FALSE)
       PROVE  /\ i + 1 \in 0..Len(f) /\ Append(fs, b) = SubSeq(f, 1, i + 1) /\ i + 1 <= k
              /\ n = SizeAfter(t, cols, SubSeq(f, 1, i + 1))
              /\ begin + d = Boundary + 5 + EndOf(f, i + 1)
              /\ \A x \in 0..Len(f) : Stops(This, cols, x) => i + 1 <= x
  <2>1. i < k /\ b = f[i + 1] /\ \A x \in 0..Len(f) : Stops(This, cols, x) => i < x
    BY <1>8, <1>9, <1>14
  <2>2. i \in Nat /\ i < Len(f) /\ i + 1 \in 1..Len(f) /\ f[i + 1] \in Seq(Nat)
    <3>1. i < Len(f) /\ i + 1 \in 1..Len(f)
      BY <1>21, <2>1
    <3> HIDE DEF f
    <3> QED  BY <1>21, <1>22, <3>1
  <2>3. Append(fs, b) = SubSeq(f, 1, i + 1)
    <3> DEFINE u == Append(fs, b)
               w == SubSeq(f, 1, i + 1)
    <3>1. /\ fs \in Seq(Seq(Nat)) /\ Len(fs) = i /\ \A j \in 1..i : fs[j] = f[j]
      BY <1>4, <1>5, FirstOnes
    <3>2. /\ w \in Seq(Seq(Nat)) /\ Len(w) = i + 1 /\ \A j \in 1..(i + 1) : w[j] = f[j]
      <4>1. i + 1 \in 0..Len(f)
        BY <1>21, <2>2
      <4> QED  BY <1>4, <4>1, FirstOnes
    <3>3. /\ u \in Seq(Seq(Nat)) /\ Len(u) = i + 1 /\ u[i + 1] = b
          /\ \A j \in 1..i : u[j] = fs[j]
      <4>1. b \in Seq(Nat)
        BY <1>11
      <4> HIDE DEF f
      <4> QED  BY <3>1, <4>1, AppendProperties
    <3> HIDE DEF u, w, f
    <3>4. ASSUME NEW j \in 1..(i + 1) PROVE u[j] = w[j]
      <4>1. j \in 1..i \/ j = i + 1
        BY <2>2
      <4> QED  BY <2>1, <3>1, <3>2, <3>3, <4>1
    <3>5. u = w
      BY <3>2, <3>3, <3>4, SeqEqual
    <3> QED  BY <3>5 DEF u, w
  <2>4. n = SizeAfter(t, cols, SubSeq(f, 1, i + 1))
    <3>1. SubSeq(f, 1, i + 1) # <<>>
      <4>1. i + 1 \in 0..Len(f) /\ i + 1 # 0
        BY <1>21, <2>2
      <4>2. Len(SubSeq(f, 1, i + 1)) = i + 1
        BY <1>4, <4>1, FirstOnes
      <4>3. Len(<<>>) = 0
        OBVIOUS
      <4> QED  BY <4>1, <4>2, <4>3
    <3> QED  BY <2>3, <3>1 DEF SizeAfter, n
  <2>5. EndOf(f, i + 1) = EndOf(f, i) + Len(b)
    BY <1>4, <2>1, <2>2, EndOfNext
  <2>6. begin + d = Boundary + 5 + EndOf(f, i + 1)
    <3> QED  BY <1>19, <1>20, <2>5
  <2>7. \A x \in 0..Len(f) : i < x => i + 1 <= x
    BY <2>2
  <2> QED  BY <2>1, <2>2, <2>3, <2>4, <2>6, <2>7
<1>15. CASE Complete(p, b, FALSE) /\ n = Bad
  <2>1. Refuse
    BY <1>2, <1>15
  <2>2. ~This.ok
    <3> SUFFICES ASSUME This.ok PROVE FALSE
      OBVIOUS
    <3>1. Whole(t, cols, SubSeq(f, 1, k)) /\ k = Len(f) /\ SizeAfter(t, cols, SubSeq(f, 1, k)) = End
      BY <1>4, <1>5, <1>6, <1>7, <1>8, StopFacts DEF This
    <3>2. CASE i + 1 = k
      BY <1>14, <1>15, <3>1, <3>2 DEF Bad, End
    <3>3. CASE i + 1 < k
      <4>1. WholeField(Bad, f[(i + 1) + 1]) /\ f[(i + 1) + 1] \in Seq(Nat)
        <5>1. i + 1 \in Nat /\ (i + 1) + 1 \in 1..Len(f)
          BY <1>21, <3>3
        <5>2. SizeAfter(t, cols, SubSeq(f, 1, i + 1)) = Bad
          BY <1>14, <1>15
        <5>3. WholeField(Bad, f[(i + 1) + 1])
          BY <1>4, <3>1, <3>3, <5>1, <5>2, WholeAt
        <5> HIDE DEF f
        <5> QED  BY <1>22, <5>1, <5>3
      <4> QED  BY <4>1, NoField
    <3> QED  BY <1>4, <1>14, <1>15, <3>2, <3>3
  <2> QED  BY <1>1, <1>3, <1>10, <2>1, <2>2, RefuseStep
<1>16. CASE Complete(p, b, FALSE) /\ n # Bad /\ n = End
  <2>1. Finish(d, SubSeq(f, 1, i + 1))
    BY <1>2, <1>14, <1>16
  <2>2. SizeAfter(t, cols, SubSeq(f, 1, i + 1)) = End
    BY <1>14, <1>16
  <2> HIDE DEF f
  <2> QED  BY <1>1, <1>8, <1>11, <1>14, <1>16, <2>1, <2>2, FinishStep DEF f
<1>17. CASE Complete(p, b, FALSE) /\ n # Bad /\ n # End
  <2>1. /\ begin' = begin + d /\ got' = <<>> /\ p' = n /\ fs' = SubSeq(f, 1, i + 1)
        /\ t' = t /\ state' = state /\ limit' = limit /\ reading' = reading /\ Still
    BY <1>2, <1>10, <1>14, <1>17 DEF Still, inputVars
  <2>2. Buffer' /\ Delivered' /\ This' = This /\ Boundary' = Boundary /\ [F!Next]_(F!vars)
    <3>1. /\ begin' \in Nat /\ end' \in Nat /\ begin' <= end' /\ end' <= Len(stream)
          /\ got' \in Seq(Nat)
      <4>1. begin \in Nat /\ PieceEnd \in Nat /\ PieceEnd <= end /\ end' = end
            /\ begin' = begin + d /\ d \in Nat /\ begin + d <= PieceEnd
        BY <1>4, <1>10, <1>11, <2>1
      <4>2. stream' = stream /\ got' = <<>>
        BY <1>10, <2>1
      <4> QED  BY <1>6, <4>1, <4>2
    <3>2. reading' \in BOOLEAN /\ ~reading' /\ state' \in {"type", "length", "body"}
          /\ (state' = "type" => state = "type")
      BY <1>1, <1>3, <2>1, Zenon DEF Buffer
    <3> QED  BY <1>3, <2>1, <3>1, <3>2, StillThere
  <2>3. InBody'
    <3>1. Len(fs') = i + 1 /\ i + 1 \in 0..Len(f)
      BY <1>4, <1>14, <1>17, <2>1, FirstOnes
    <3>2. Len(<<>>) = 0 /\ begin' = Boundary + 5 + EndOf(f, i + 1) + 0
      BY <1>4, <1>11, <1>14, <1>17, <2>1
    <3>3. ASSUME NEW x \in 0..Len(f), Stops(This, cols, x) PROVE InField(f, x, i + 1, <<>>)
      <4>1. i + 1 <= x
        BY <1>14, <1>17, <3>3
      <4>2. Begins(<<>>, Left(f, x))
        BY <1>4, LeftFacts DEF Begins
      <4>3. i + 1 # x => (i + 1) + 1 \in 1..Len(f)
        BY <1>21, <4>1
      <4>4. i + 1 # x => f[(i + 1) + 1] \in Seq(Nat)
        <5> HIDE DEF f
        <5> QED  BY <1>22, <4>3
      <4>5. i + 1 # x => Begins(<<>>, f[(i + 1) + 1])
                         /\ (Len(<<>>) < Len(f[(i + 1) + 1]) \/ f[(i + 1) + 1] = <<>>)
        BY <4>4 DEF Begins
      <4> QED  BY <4>1, <4>2, <4>5 DEF InField
    <3>4. cols' = cols /\ done' = done
      BY <2>1 DEF Still
    <3>5. p' = SizeAfter(t', cols', fs')
      BY <1>14, <1>17, <2>1, <3>4
    <3>6. \A x \in 0..Len(f) : Stops(This', cols', x) => InField(f, x, Len(fs'), got')
      BY <2>1, <2>2, <3>1, <3>3, <3>4
    <3>8. begin' <= limit'
      <4>1. begin \in Nat /\ PieceEnd \in Nat /\ PieceEnd <= limit /\ begin + d <= PieceEnd
            /\ begin' = begin + d /\ limit' = limit /\ d \in Nat
        BY <1>4, <1>11, <2>1
      <4>2. limit \in Nat
        BY <1>1, BodyAt, SMTT(40)
      <4> QED  BY <4>1, <4>2
    <3> HIDE DEF f
    <3>7. /\ begin' = Boundary' + 5 + EndOf(f, Len(fs')) + Len(got')
          /\ fs' = SubSeq(f, 1, Len(fs')) /\ Len(fs') \in 0..Len(f)
      BY <2>1, <2>2, <3>1, <3>2
    <3> QED  BY <1>5, <1>10, <1>17, <2>1, <2>2, <3>4, <3>5, <3>6, <3>7, <3>8 DEF InBody, f
  <2>4. Place'
    BY <1>1, <1>4, <1>10, <2>1, <2>2, <2>3 DEF Place, Still
  <2> QED  BY <2>2, <2>4 DEF Good, FramingInv
<1> QED  BY <1>12, <1>13, <1>15, <1>16, <1>17

-----------------------------------------------------------------------------
LEMMA Steps == ASSUME FramingInv, [Next]_vars PROVE Good
<1>1. CASE Next
  BY <1>1, ReadStep, TypeStep, LengthStep, EmptyBodyStep, BodyStep DEF Next
<1>2. CASE UNCHANGED vars
  <2>1. /\ sent' = sent /\ stream' = stream /\ begin' = begin /\ end' = end /\ reading' = reading
        /\ state' = state /\ t' = t /\ p' = p /\ got' = got /\ limit' = limit /\ fs' = fs
        /\ cols' = cols /\ done' = done /\ malformed' = malformed
    BY <1>2 DEF vars, inputVars
  <2>2. This' = This /\ Boundary' = Boundary
    BY <2>1 DEF This, Boundary
  <2>3. FramingInv'
    BY <2>1, <2>2 DEF FramingInv, Buffer, Delivered, Place, InLength, InBody
  <2>4. UNCHANGED F!vars
    BY <2>1 DEF F!vars
  <2> QED  BY <2>3, <2>4 DEF Good
<1> QED  BY <1>1, <1>2

(* The reader's invariant: where it is in the stream, in the message and   *)
(* in the field, and what it knows of them, whatever the reads cut up.     *)
THEOREM FramingIsInvariant == Spec => []FramingInv
<1>1. Init => FramingInv
  BY Start
<1>2. FramingInv /\ [Next]_vars => FramingInv'
  BY Steps DEF Good
<1> QED  BY <1>1, <1>2, PTL DEF Spec

(* A parser takes no byte of the next message and leaves none of its own   *)
(* (basic_parser.hpp, do_parse), for every stream of messages and every    *)
(* way to cut it up.                                                       *)
THEOREM AlwaysOnBoundary == Spec => []OnMessageBoundary
<1>1. FramingInv => OnMessageBoundary
  <2> SUFFICES ASSUME FramingInv PROVE OnMessageBoundary
    OBVIOUS
  <2>1. Buffer /\ Delivered /\ Place
    BY DEF FramingInv
  <2>2. /\ sent \in Streams /\ Len(done) \in 0..Len(sent) /\ begin \in Nat
        /\ state \in {"type", "length", "body"}
    BY <2>1 DEF Buffer, Delivered
  <2>3. Len(Sent(SubSeq(sent, 1, Len(done)))) = Boundary
    BY <2>2, After DEF Boundary
  <2>4. CASE state = "type"
    BY <2>1, <2>3, <2>4 DEF OnMessageBoundary, Place
  <2>5. CASE state # "type"
    <3>1. Len(done) < Len(sent)
      BY <2>1, <2>5 DEF Place
    <3>2. /\ Len(done) + 1 \in 1..Len(sent) /\ Boundary \in Nat
          /\ EndOf(Chunks(sent), Len(done) + 1) = Boundary + 5 + Len(FlattenSeq(This.content.fs))
          /\ Len(FlattenSeq(This.content.fs)) \in Nat
      BY <2>1, <3>1, ThisMessage
    <3>3. Len(done) + 1 \in 0..Len(sent)
      BY <3>2
    <3>4. Len(Sent(SubSeq(sent, 1, Len(done) + 1))) = EndOf(Chunks(sent), Len(done) + 1)
      BY <2>2, <3>3, After
    <3>5. begin \in Boundary..EndOf(Chunks(sent), Len(done) + 1)
      <4>1. CASE state = "length"
        <5>1. got \in Seq(Nat) /\ Len(got) < 4 /\ begin = Boundary + 1 + Len(got)
          BY <2>1, <4>1 DEF Place, InLength, Buffer
        <5>2. PICK g \in Nat : g = Len(got)
          BY <5>1
        <5> QED  BY <3>2, <5>1, <5>2
      <4>2. CASE state = "body"
        <5>1. /\ begin = Boundary + 5 + EndOf(This.content.fs, Len(fs)) + Len(got)
              /\ EndOf(This.content.fs, Len(fs)) \in Nat /\ got \in Seq(Nat)
          BY <4>2, BodyAt
        <5>2. begin <= EndOf(Chunks(sent), Len(done) + 1)
          BY <2>1, <4>2 DEF Place, InBody
        <5> QED  BY <3>2, <5>1, <5>2
      <4> QED  BY <2>2, <2>5, <4>1, <4>2
    <3> QED  BY <2>3, <2>5, <3>4, <3>5 DEF OnMessageBoundary
  <2> QED  BY <2>4, <2>5
<1> QED  BY <1>1, FramingIsInvariant, PTL

(* What the reader delivers and refuses: the well-formed messages before   *)
(* the first ill-formed one, in order, each with the fields and the bytes  *)
(* it was sent with; and never more.  This is CutsDoNotMatter but for its  *)
(* fairness. *)
THEOREM ImplementsFrames == Spec => F!Init /\ [][F!Next]_(F!vars)
<1>1. Init => F!Init
  BY Start
<1>2. FramingInv /\ [Next]_vars => [F!Next]_(F!vars)
  BY Steps DEF Good
<1> QED  BY <1>1, <1>2, FramingIsInvariant, PTL DEF Spec
=============================================================================
