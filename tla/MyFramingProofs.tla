-------------------------- MODULE MyFramingProofs --------------------------
(***************************************************************************)
(* The MySQL reader keeps to packet boundaries and implements Frames, for  *)
(* all packets and all ways to cut them up: the argument of                *)
(* PgFramingProofs, for a reader that picks the parser of a packet by its  *)
(* first byte and by what it delivered before.                             *)
(***************************************************************************)
EXTENDS MyFraming, FieldsProofs, FiniteSetTheorems

-----------------------------------------------------------------------------
(* The bytes of a stream, packet by packet; the packet being read, and     *)
(* where it begins. *)
Chunks(s) == [i \in 1..Len(s) |-> Bytes(s[i])]
This == sent[Len(done) + 1]
Boundary == EndOf(Chunks(sent), Len(done))

(* The reader and its buffer. *)
Buffer ==
    /\ sent \in Streams /\ stream = Sent(sent)
    /\ begin \in Nat /\ end \in Nat /\ begin <= end /\ end <= Len(stream)
    /\ reading \in BOOLEAN /\ malformed \in BOOLEAN /\ (reading => begin = end)
    /\ state \in {"length", "id", "payload"} /\ got \in Seq(Nat)

(* What was delivered, what the reader knows from it, and what was refused. *)
Delivered ==
    /\ Len(done) \in 0..Len(sent)
    /\ done = [i \in 1..Len(done) |-> sent[i].content]
    /\ \A i \in 1..Len(done) : sent[i].ok
    /\ reader = Reader(sent, Len(done) + 1)
    /\ count = Columns(sent, Len(done) + 1)
    /\ defs = Defined(sent, Len(done) + 1)
    /\ malformed => state = "payload" /\ ~This.ok

(* The payload of m ends, or goes wrong, after its k-th field. *)
Stops(m, c, k) ==
    IF m.ok THEN k = Len(m.content.fs) ELSE GoesWrong(m.content.t, c, m.content.fs, k)

(* The part a parser has of the field after the i-th of f, or of what      *)
(* follows the k-th: if it is the whole field, the field is empty. *)
InField(f, k, i, g) ==
    /\ i <= k
    /\ IF i = k THEN Begins(g, Left(f, k))
       ELSE Begins(g, f[i + 1]) /\ (Len(g) < Len(f[i + 1]) \/ f[i + 1] = <<>>)

(* Before and in the length; at the sequence id; at a payload of which     *)
(* nothing was read; in one. *)
InLength ==
    /\ begin = Boundary + Len(got) /\ Len(got) < 3
    /\ got # <<>> => Len(done) < Len(sent) /\ Begins(got, This.len)

AtId == Len(done) < Len(sent) /\ got = This.len /\ begin = Boundary + 3

AtPayload ==
    /\ Len(done) < Len(sent) /\ got = <<>> /\ fs = <<>>
    /\ begin = Boundary + 4 /\ limit = EndOf(Chunks(sent), Len(done) + 1)

InPayload ==
    LET f == This.content.fs
    IN  /\ Len(done) < Len(sent) /\ t = This.content.t
        /\ limit = EndOf(Chunks(sent), Len(done) + 1) /\ begin <= limit
        /\ p = SizeAfter(t, count, fs) /\ p # Bad /\ p # End
        /\ Len(fs) \in 0..Len(f) /\ fs = SubSeq(f, 1, Len(fs))
        /\ begin = Boundary + 4 + EndOf(f, Len(fs)) + Len(got)
        /\ \E k \in 0..Len(f) : Stops(This, count, k)
        /\ \A k \in 0..Len(f) : Stops(This, count, k) => InField(f, k, Len(fs), got)

(* Where the reader is. *)
Place ==
    /\ state = "length" => InLength
    /\ state = "id" => AtId
    /\ state = "payload" => IF t = "none" THEN AtPayload ELSE InPayload

FramingInv == Buffer /\ Delivered /\ Place

-----------------------------------------------------------------------------
(* Packets and their bytes. *)
LEMMA PacketType ==
    ASSUME NEW s \in Streams, NEW n \in 1..Len(s)
    PROVE  /\ s \in Seq(Packets) /\ s[n] \in Packets
           /\ s[n].len \in Seq(Nat) /\ Len(s[n].len) = 3 /\ s[n].ok \in BOOLEAN
           /\ s[n].content.fs \in Seq(Seq(Nat)) /\ s[n].content.t \in Types
           /\ s[n].content = [t |-> s[n].content.t, fs |-> s[n].content.fs]
<1>1. s \in Seq(Packets) /\ Len(s[n].len) = 3
  BY StreamAssumption
<1>2. s[n] \in Packets
  BY <1>1
<1>3. s[n].content \in [t : Types, fs : Seq(Seq(Nat))] /\ s[n].len \in Seq(Nat)
      /\ s[n].ok \in BOOLEAN
  BY <1>2 DEF Packets
<1> QED  BY <1>1, <1>2, <1>3

LEMMA BytesOf ==
    ASSUME NEW s \in Streams, NEW n \in 1..Len(s)
    PROVE  /\ Bytes(s[n]) \in Seq(Nat)
           /\ FlattenSeq(s[n].content.fs) \in Seq(Nat)
           /\ Len(Bytes(s[n])) = 4 + Len(FlattenSeq(s[n].content.fs))
           /\ \A j \in 1..3 : Bytes(s[n])[j] = s[n].len[j]
           /\ \A j \in 1..Len(FlattenSeq(s[n].content.fs)) :
                Bytes(s[n])[4 + j] = FlattenSeq(s[n].content.fs)[j]
<1> DEFINE l == s[n].len
           b == FlattenSeq(s[n].content.fs)
           h == <<0>>
<1>1. l \in Seq(Nat) /\ Len(l) = 3 /\ b \in Seq(Nat)
  BY PacketType, EndOfType
<1>2. h \in Seq(Nat) /\ Len(h) = 1
  OBVIOUS
<1>3. Bytes(s[n]) = l \o h \o b
  BY DEF Bytes
<1> HIDE DEF l, b, h
<1>4. /\ l \o h \in Seq(Nat) /\ Len(l \o h) = 4
      /\ \A i \in 1..4 : (l \o h)[i] = IF i <= 3 THEN l[i] ELSE h[i - 3]
  <2>1. /\ l \o h \in Seq(Nat) /\ Len(l \o h) = Len(l) + Len(h)
        /\ \A i \in 1..(Len(l) + Len(h)) :
             (l \o h)[i] = IF i <= Len(l) THEN l[i] ELSE h[i - Len(l)]
    BY <1>1, <1>2, ConcatProperties
  <2>2. Len(l) + Len(h) = 4 /\ Len(l) = 3
    BY <1>1, <1>2
  <2> QED  BY <2>1, <2>2
<1>5. Len(b) \in Nat
  BY <1>1
<1>6. /\ (l \o h) \o b \in Seq(Nat) /\ Len((l \o h) \o b) = 4 + Len(b)
      /\ \A i \in 1..(4 + Len(b)) : ((l \o h) \o b)[i] = IF i <= 4 THEN (l \o h)[i] ELSE b[i - 4]
  <2> DEFINE a == l \o h
  <2>1. a \in Seq(Nat) /\ Len(a) = 4
    BY <1>4
  <2> HIDE DEF a
  <2>2. /\ a \o b \in Seq(Nat) /\ Len(a \o b) = Len(a) + Len(b)
        /\ \A i \in 1..(Len(a) + Len(b)) :
             (a \o b)[i] = IF i <= Len(a) THEN a[i] ELSE b[i - Len(a)]
    BY <1>1, <2>1, ConcatProperties
  <2>3. /\ a \o b \in Seq(Nat) /\ Len(a \o b) = 4 + Len(b)
        /\ \A i \in 1..(4 + Len(b)) : (a \o b)[i] = IF i <= 4 THEN a[i] ELSE b[i - 4]
    BY <2>1, <2>2
  <2> QED  BY <2>3 DEF a
<1>7. ASSUME NEW j \in 1..3 PROVE Bytes(s[n])[j] = l[j]
  <2>1. j \in 1..4 /\ j \in 1..(4 + Len(b)) /\ j <= 4 /\ j <= 3
    BY <1>5
  <2>2. ((l \o h) \o b)[j] = (l \o h)[j]
    BY <1>6, <2>1
  <2>3. (l \o h)[j] = l[j]
    BY <1>4, <2>1
  <2> QED  BY <1>3, <2>2, <2>3
<1>8. ASSUME NEW j \in 1..Len(b) PROVE Bytes(s[n])[4 + j] = b[j]
  <2>1. 4 + j \in 1..(4 + Len(b)) /\ ~(4 + j <= 4) /\ (4 + j) - 4 = j
    BY <1>5
  <2> QED  BY <1>3, <1>6, <2>1
<1> QED  BY <1>1, <1>3, <1>6, <1>7, <1>8 DEF l, b

LEMMA ChunksType ==
    ASSUME NEW s \in Streams
    PROVE  /\ s \in Seq(Packets) /\ Len(s) \in Nat
           /\ Chunks(s) \in Seq(Seq(Nat)) /\ Len(Chunks(s)) = Len(s)
           /\ \A n \in 1..Len(s) : Chunks(s)[n] = Bytes(s[n])
           /\ Sent(s) = FlattenSeq(Chunks(s)) /\ Sent(s) \in Seq(Nat)
<1>1. s \in Seq(Packets)
  BY StreamAssumption
<1>2. \A n \in 1..Len(s) : Bytes(s[n]) \in Seq(Nat)
  BY BytesOf
<1>3. /\ Chunks(s) \in Seq(Seq(Nat)) /\ Len(Chunks(s)) = Len(s)
      /\ \A n \in 1..Len(s) : Chunks(s)[n] = Bytes(s[n])
      /\ Sent(s) = FlattenSeq(Chunks(s))
  BY <1>1, <1>2 DEF Chunks, Sent
<1>4. FlattenSeq(Chunks(s)) \in Seq(Nat)
  BY <1>3, EndOfType
<1> QED  BY <1>1, <1>3, <1>4

(* The n + 1-st packet in the stream. *)
LEMMA PacketAt ==
    ASSUME NEW s \in Streams, NEW n \in Nat, n < Len(s)
    PROVE  /\ EndOf(Chunks(s), n) \in Nat
           /\ EndOf(Chunks(s), n + 1) =
                EndOf(Chunks(s), n) + 4 + Len(FlattenSeq(s[n + 1].content.fs))
           /\ EndOf(Chunks(s), n + 1) <= Len(Sent(s))
           /\ \A j \in 1..3 : Sent(s)[EndOf(Chunks(s), n) + j] = s[n + 1].len[j]
           /\ \A j \in 1..Len(FlattenSeq(s[n + 1].content.fs)) :
                Sent(s)[EndOf(Chunks(s), n) + 4 + j] = FlattenSeq(s[n + 1].content.fs)[j]
<1> DEFINE e == EndOf(Chunks(s), n)
           b == FlattenSeq(s[n + 1].content.fs)
<1>1. n + 1 \in 1..Len(s) /\ s \in Seq(Packets)
  BY ChunksType
<1>2. /\ Bytes(s[n + 1]) \in Seq(Nat) /\ b \in Seq(Nat)
      /\ Len(Bytes(s[n + 1])) = 4 + Len(b)
      /\ \A j \in 1..3 : Bytes(s[n + 1])[j] = s[n + 1].len[j]
      /\ \A j \in 1..Len(b) : Bytes(s[n + 1])[4 + j] = b[j]
  BY <1>1, BytesOf
<1>3. Chunks(s) \in Seq(Seq(Nat)) /\ n < Len(Chunks(s)) /\ Chunks(s)[n + 1] = Bytes(s[n + 1])
      /\ Sent(s) = FlattenSeq(Chunks(s))
  BY <1>1, ChunksType
<1>4. /\ e \in Nat /\ EndOf(Chunks(s), n + 1) = e + Len(Bytes(s[n + 1]))
      /\ EndOf(Chunks(s), n + 1) <= Len(Sent(s))
      /\ \A j \in 1..Len(Bytes(s[n + 1])) : Sent(s)[e + j] = Bytes(s[n + 1])[j]
  <2>1. /\ EndOf(Chunks(s), n) \in Nat
        /\ EndOf(Chunks(s), n + 1) = EndOf(Chunks(s), n) + Len(Chunks(s)[n + 1])
        /\ EndOf(Chunks(s), n + 1) <= Len(FlattenSeq(Chunks(s)))
        /\ \A j \in 1..Len(Chunks(s)[n + 1]) :
             FlattenSeq(Chunks(s))[EndOf(Chunks(s), n) + j] = Chunks(s)[n + 1][j]
    BY <1>3, FlattenAt
  <2> QED  BY <1>3, <2>1
<1>5. Len(b) \in Nat
  BY <1>2
<1> HIDE DEF e, b
<1>9. Len(Bytes(s[n + 1])) = 4 + Len(b) /\ e \in Nat
  BY <1>2, <1>4
<1>6. ASSUME NEW j \in 1..3 PROVE Sent(s)[e + j] = s[n + 1].len[j]
  <2>0. PICK x \in Nat : x = Len(b)
    BY <1>5
  <2>1. j \in 1..Len(Bytes(s[n + 1]))
    BY <1>9, <2>0
  <2> QED  BY <1>2, <1>4, <2>1
<1>7. ASSUME NEW j \in 1..Len(b) PROVE Sent(s)[e + 4 + j] = b[j]
  <2>0. PICK x \in Nat : x = Len(b)
    BY <1>5
  <2>1. 4 + j \in 1..Len(Bytes(s[n + 1])) /\ e + 4 + j = e + (4 + j)
    BY <1>9, <2>0
  <2> QED  BY <1>2, <1>4, <2>1
<1>8. EndOf(Chunks(s), n + 1) = e + 4 + Len(b)
  BY <1>2, <1>4, <1>5
<1> QED  BY <1>4, <1>6, <1>7, <1>8 DEF e, b

(* Boundaries, as OnPacketBoundary has them. *)
LEMMA After ==
    ASSUME NEW s \in Streams, NEW n \in 0..Len(s)
    PROVE  /\ Len(Sent(SubSeq(s, 1, n))) = EndOf(Chunks(s), n)
           /\ EndOf(Chunks(s), n) \in Nat /\ EndOf(Chunks(s), n) <= Len(Sent(s))
<1>1. s \in Seq(Packets) /\ Len(Chunks(s)) = Len(s) /\ Chunks(s) \in Seq(Seq(Nat))
      /\ Sent(s) = FlattenSeq(Chunks(s)) /\ Len(s) \in Nat
  BY ChunksType
<1>2. Len(SubSeq(s, 1, n)) = n /\ \A i \in 1..n : SubSeq(s, 1, n)[i] = s[i]
  BY <1>1, FirstOnes
<1>3. /\ Len(SubSeq(Chunks(s), 1, n)) = n /\ SubSeq(Chunks(s), 1, n) \in Seq(Seq(Nat))
      /\ \A i \in 1..n : SubSeq(Chunks(s), 1, n)[i] = Chunks(s)[i]
  BY <1>1, FirstOnes
<1>4. Chunks(SubSeq(s, 1, n)) = [i \in 1..n |-> Bytes(s[i])]
  BY <1>2 DEF Chunks
<1>5. SubSeq(Chunks(s), 1, n) = [i \in 1..n |-> Bytes(s[i])]
  <2>1. \A i \in 1..n : Chunks(s)[i] = Bytes(s[i])
    BY <1>1 DEF Chunks
  <2>2. SubSeq(Chunks(s), 1, n) = [i \in 1..n |-> SubSeq(Chunks(s), 1, n)[i]]
    BY <1>3
  <2> QED  BY <1>3, <2>1, <2>2
<1>6. Len(Sent(SubSeq(s, 1, n))) = EndOf(Chunks(s), n)
  BY <1>4, <1>5 DEF EndOf, Sent, Chunks
<1>7. EndOf(Chunks(s), n) \in Nat /\ EndOf(Chunks(s), Len(s)) = Len(Sent(s))
  BY <1>1, EndOfType
<1>8. EndOf(Chunks(s), n) <= EndOf(Chunks(s), Len(s))
  <2>1. n \in 0..Len(Chunks(s)) /\ Len(s) \in n..Len(Chunks(s))
    BY <1>1
  <2> QED  BY <1>1, <2>1, FlattenPrefix
<1> QED  BY <1>6, <1>7, <1>8

(* What the reader knows after packet n. *)
LEMMA ColumnsNext ==
    ASSUME NEW s, NEW n \in Nat \ {0}
    PROVE  Columns(s, n + 1) = IF s[n].content.t = "COUNT" THEN LenIntValue(s[n].content.fs[1])
                               ELSE Columns(s, n)
<1>2. (n + 1) - 1 = n
  OBVIOUS
<1>3. CASE s[n].content.t = "COUNT"
  <2> DEFINE d == {i \in 1..n : s[i].content.t = "COUNT"}
  <2>1. n \in d /\ \A i \in d : i \in 1..n
    BY <1>3
  <2>2. Max(d) = n
    <3> HIDE DEF d
    <3>1. \E x \in d : \A y \in d : x >= y
      BY <2>1
    <3>2. PICK z : z = Max(d)
      OBVIOUS
    <3>3. z \in d /\ \A y \in d : z >= y
      BY <3>1, <3>2 DEF Max
    <3>4. z \in 1..n /\ z >= n
      BY <2>1, <3>3
    <3> QED  BY <3>2, <3>4
  <2>3. d # {}
    BY <2>1
  <2>4. Columns(s, n + 1) = LenIntValue(s[Max(d)].content.fs[1])
    BY <1>2, <2>3 DEF Columns
  <2> QED  BY <1>3, <2>2, <2>4
<1>4. CASE s[n].content.t # "COUNT"
  <2>1. {i \in 1..n : s[i].content.t = "COUNT"} = {i \in 1..(n - 1) : s[i].content.t = "COUNT"}
    BY <1>4
  <2> QED  BY <1>2, <1>4, <2>1 DEF Columns
<1> QED  BY <1>3, <1>4

LEMMA DefinedNext ==
    ASSUME NEW s, NEW n \in Nat \ {0}
    PROVE  Defined(s, n + 1) = CASE s[n].content.t = "COUNT" -> 0
                                 [] s[n].content.t = "DEF" -> Defined(s, n) + 1
                                 [] OTHER -> Defined(s, n)
<1> DEFINE D(m) == {i \in 1..m : /\ s[i].content.t = "DEF"
                                 /\ \A j \in i..m : s[j].content.t # "COUNT"}
<1>1. Defined(s, n + 1) = Cardinality(D(n)) /\ Defined(s, n) = Cardinality(D(n - 1))
  <2>1. (n + 1) - 1 = n
    OBVIOUS
  <2> QED  BY <2>1 DEF Defined
<1>2. \A i \in 1..n : i = n \/ i \in 1..(n - 1)
  OBVIOUS
<1>3. CASE s[n].content.t = "COUNT"
  <2>1. \A i \in 1..n : n \in i..n
    OBVIOUS
  <2>2. D(n) = {}
    BY <1>3, <2>1
  <2>3. Cardinality({}) = 0
    BY FS_EmptySet
  <2> QED  BY <1>1, <1>3, <2>2, <2>3
<1>4. CASE s[n].content.t # "COUNT"
  <2>1. ASSUME NEW i \in 1..(n - 1)
        PROVE  (\A j \in i..n : s[j].content.t # "COUNT")
                 <=> \A j \in i..(n - 1) : s[j].content.t # "COUNT"
    <3>1. \A j \in i..n : j = n \/ j \in i..(n - 1)
      OBVIOUS
    <3>2. \A j \in i..(n - 1) : j \in i..n
      OBVIOUS
    <3> QED  BY <1>4, <3>1, <3>2
  <2>2. \A i \in 1..(n - 1) : i \in D(n) <=> i \in D(n - 1)
    BY <2>1
  <2>3. n \in D(n) <=> s[n].content.t = "DEF"
    <3>1. n \in 1..n /\ \A j \in n..n : j = n
      OBVIOUS
    <3> QED  BY <1>4, <3>1
  <2>4. n \notin D(n - 1) /\ \A i \in D(n - 1) : i \in 1..(n - 1)
    OBVIOUS
  <2>5. CASE s[n].content.t = "DEF"
    <3>1. D(n) = D(n - 1) \cup {n}
      <4>1. \A i \in D(n) : i \in 1..n
        OBVIOUS
      <4> HIDE DEF D
      <4> QED  BY <1>2, <2>2, <2>3, <2>4, <2>5, <4>1
    <3>2. IsFiniteSet(D(n - 1))
      <4>1. IsFiniteSet(1..(n - 1))
        BY FS_Interval
      <4>2. D(n - 1) \subseteq 1..(n - 1)
        OBVIOUS
      <4> QED  BY <4>1, <4>2, FS_Subset
    <3>3. Cardinality(D(n - 1) \cup {n}) = Cardinality(D(n - 1)) + 1
      <4> HIDE DEF D
      <4> QED  BY <2>4, <3>2, FS_AddElement
    <3> HIDE DEF D
    <3> QED  BY <1>1, <2>5, <3>1, <3>3
  <2>6. CASE s[n].content.t # "DEF"
    <3>1. D(n) = D(n - 1)
      <4>1. \A i \in D(n) : i \in 1..n
        OBVIOUS
      <4> HIDE DEF D
      <4> QED  BY <1>2, <2>2, <2>3, <2>4, <2>6, <4>1
    <3> HIDE DEF D
    <3> QED  BY <1>1, <1>4, <2>6, <3>1
  <2> QED  BY <2>5, <2>6
<1> QED  BY <1>3, <1>4

LEMMA NothingKnown ==
    ASSUME NEW s
    PROVE  Reader(s, 1) = "greeting" /\ Columns(s, 1) = 0 /\ Defined(s, 1) = 0
<1>1. 1..(1 - 1) = {}
  OBVIOUS
<1>2. Reader(s, 1) = "greeting" /\ Columns(s, 1) = 0
  BY <1>1 DEF Reader, Columns
<1>3. Defined(s, 1) = Cardinality({})
  BY <1>1 DEF Defined
<1> QED  BY <1>2, <1>3, FS_EmptySet

-----------------------------------------------------------------------------
(* The packet being read, and its place in the stream. *)
LEMMA ThisPacket ==
    ASSUME Buffer, Delivered, Len(done) < Len(sent)
    PROVE  /\ Len(done) \in Nat /\ Len(done) + 1 \in 1..Len(sent)
           /\ This.content.fs \in Seq(Seq(Nat)) /\ This.len \in Seq(Nat) /\ Len(This.len) = 3
           /\ This.ok \in BOOLEAN /\ This.content.t \in Types
           /\ stream \in Seq(Nat) /\ Len(stream) \in Nat
           /\ Legal(This, reader, count, defs)
           /\ FlattenSeq(This.content.fs) \in Seq(Nat)
           /\ Boundary \in Nat /\ Len(FlattenSeq(This.content.fs)) \in Nat
           /\ EndOf(Chunks(sent), Len(done) + 1) =
                Boundary + 4 + Len(FlattenSeq(This.content.fs))
           /\ EndOf(Chunks(sent), Len(done) + 1) <= Len(stream)
           /\ \A j \in 1..3 : stream[Boundary + j] = This.len[j]
           /\ \A j \in 1..Len(FlattenSeq(This.content.fs)) :
                stream[Boundary + 4 + j] = FlattenSeq(This.content.fs)[j]
<1>1. /\ sent \in Streams /\ stream = Sent(sent) /\ Len(done) \in 0..Len(sent)
      /\ reader = Reader(sent, Len(done) + 1) /\ count = Columns(sent, Len(done) + 1)
      /\ defs = Defined(sent, Len(done) + 1)
      /\ \A i \in 1..Len(done) : sent[i].ok
  BY DEF Buffer, Delivered
<1>2. Len(sent) \in Nat
  BY <1>1, ChunksType
<1>3. PICK n \in Nat : n = Len(done)
  BY <1>1, <1>2
<1>4. n < Len(sent) /\ n + 1 \in 1..Len(sent) /\ (n + 1) - 1 = n
  BY <1>2, <1>3
<1>5. /\ sent[n + 1].len \in Seq(Nat) /\ Len(sent[n + 1].len) = 3
      /\ sent[n + 1].ok \in BOOLEAN /\ sent[n + 1].content.fs \in Seq(Seq(Nat))
      /\ sent[n + 1].content.t \in Types
  BY <1>1, <1>4, PacketType
<1>10. Legal(sent[n + 1], reader, count, defs)
  <2>1. \A i \in 1..((n + 1) - 1) : sent[i].ok
    BY <1>1, <1>3, <1>4
  <2>2. Legal(sent[n + 1], Reader(sent, n + 1), Columns(sent, n + 1), Defined(sent, n + 1))
    BY <1>1, <1>4, <2>1, StreamAssumption, Zenon
  <2> QED  BY <1>1, <1>3, <2>2
<1>6. /\ EndOf(Chunks(sent), n) \in Nat
      /\ EndOf(Chunks(sent), n + 1) =
           EndOf(Chunks(sent), n) + 4 + Len(FlattenSeq(sent[n + 1].content.fs))
      /\ EndOf(Chunks(sent), n + 1) <= Len(Sent(sent))
      /\ \A j \in 1..3 : Sent(sent)[EndOf(Chunks(sent), n) + j] = sent[n + 1].len[j]
      /\ \A j \in 1..Len(FlattenSeq(sent[n + 1].content.fs)) :
           Sent(sent)[EndOf(Chunks(sent), n) + 4 + j] = FlattenSeq(sent[n + 1].content.fs)[j]
  BY <1>1, <1>4, PacketAt
<1>7. stream \in Seq(Nat)
  BY <1>1, ChunksType
<1>8. FlattenSeq(sent[n + 1].content.fs) \in Seq(Nat)
  BY <1>5, EndOfType
<1>9. /\ Len(stream) \in Nat /\ Len(FlattenSeq(sent[n + 1].content.fs)) \in Nat
  BY <1>7, <1>8
<1> QED  BY <1>1, <1>3, <1>4, <1>5, <1>6, <1>7, <1>8, <1>9, <1>10 DEF This, Boundary

(* Where the payload of a packet stops. *)
LEMMA StopFacts ==
    ASSUME NEW m, NEW r, NEW c, NEW d, Legal(m, r, c, d), m.ok \in BOOLEAN,
           NEW k, Stops(m, c, k)
    PROVE  LET f == m.content.fs
               z == SizeAfter(m.content.t, c, SubSeq(f, 1, k))
           IN  /\ Whole(m.content.t, c, f, k)
               /\ m.ok => k = Len(f) /\ SizeAfter(m.content.t, c, f) = End
               /\ ~m.ok => z = Bad \/ (z = End /\ Left(f, k) # <<>>) \/ TooShort(z, Left(f, k))
<1>1. CASE m.ok
  BY <1>1 DEF Legal, Stops
<1>2. CASE ~m.ok
  BY <1>2 DEF Stops, GoesWrong
<1> QED  BY <1>1, <1>2

(* The payload being parsed. *)
LEMMA PayloadAt ==
    ASSUME FramingInv, state = "payload", t # "none"
    PROVE  LET f == This.content.fs
               l == Len(FlattenSeq(f))
           IN  /\ Len(done) < Len(sent) /\ t = This.content.t
               /\ f \in Seq(Seq(Nat)) /\ Len(fs) \in 0..Len(f) /\ l \in Nat
               /\ Boundary \in Nat /\ EndOf(f, Len(fs)) \in Nat /\ EndOf(f, Len(fs)) <= l
               /\ limit = Boundary + 4 + l
               /\ begin = Boundary + 4 + EndOf(f, Len(fs)) + Len(got)
               /\ got \in Seq(Nat) /\ stream \in Seq(Nat) /\ begin \in Nat
               /\ PieceEnd \in Nat /\ PieceEnd <= Len(stream) /\ PieceEnd <= end
               /\ PieceEnd <= limit /\ (PieceEnd # limit => PieceEnd = end)
               /\ begin <= PieceEnd
               /\ \A j \in 1..l : stream[Boundary + 4 + j] = FlattenSeq(f)[j]
<1>1. Buffer /\ Delivered /\ InPayload /\ Len(done) < Len(sent) /\ t = This.content.t
  BY DEF FramingInv, Place, InPayload
<1>2. /\ got \in Seq(Nat) /\ begin \in Nat /\ end \in Nat /\ end <= Len(stream) /\ begin <= end
  BY <1>1 DEF Buffer
<1>3. /\ limit = EndOf(Chunks(sent), Len(done) + 1) /\ begin <= limit
      /\ Len(fs) \in 0..Len(This.content.fs)
      /\ begin = Boundary + 4 + EndOf(This.content.fs, Len(fs)) + Len(got)
  BY <1>1 DEF InPayload
<1>4. /\ This.content.fs \in Seq(Seq(Nat)) /\ stream \in Seq(Nat) /\ Len(stream) \in Nat
      /\ Boundary \in Nat /\ Len(FlattenSeq(This.content.fs)) \in Nat
      /\ limit = Boundary + 4 + Len(FlattenSeq(This.content.fs))
      /\ limit <= Len(stream)
      /\ \A j \in 1..Len(FlattenSeq(This.content.fs)) :
           stream[Boundary + 4 + j] = FlattenSeq(This.content.fs)[j]
  BY <1>1, <1>3, ThisPacket
<1>5. /\ EndOf(This.content.fs, Len(fs)) \in Nat
      /\ EndOf(This.content.fs, Len(fs)) <= Len(FlattenSeq(This.content.fs))
  BY <1>3, <1>4, LeftFacts
<1>6. limit \in Nat
  BY <1>4
<1>7. /\ PieceEnd \in Nat /\ PieceEnd <= Len(stream) /\ PieceEnd <= end
      /\ PieceEnd <= limit /\ (PieceEnd # limit => PieceEnd = end) /\ begin <= PieceEnd
  <2>1. PieceEnd = IF end <= limit THEN end ELSE limit
    BY DEF PieceEnd, Smaller
  <2>2. PICK e \in Nat : e = end
    BY <1>2
  <2>3. PICK z \in Nat : z = limit
    BY <1>6
  <2>4. PICK l \in Nat : l = Len(stream)
    BY <1>4
  <2>5. e <= l /\ z <= l /\ begin <= e /\ begin <= z /\ begin \in Nat
    BY <1>2, <1>3, <1>4, <2>2, <2>3, <2>4
  <2>6. PieceEnd = IF e <= z THEN e ELSE z
    BY <2>1, <2>2, <2>3
  <2>7. /\ PieceEnd \in Nat /\ PieceEnd <= l /\ PieceEnd <= e /\ PieceEnd <= z
        /\ (PieceEnd # z => PieceEnd = e) /\ begin <= PieceEnd
    BY <2>5, <2>6
  <2> QED  BY <2>2, <2>3, <2>4, <2>7
<1> QED  BY <1>1, <1>2, <1>3, <1>4, <1>5, <1>7

(* A field that is the rest of its packet: r, of which g was read.  Only   *)
(* the piece that ends the packet completes it. *)
LEMMA TakeRest ==
    ASSUME NEW r \in Seq(Nat), NEW g \in Seq(Nat), Begins(g, r),
           NEW s \in Seq(Nat), NEW a \in Nat, NEW e \in Nat, a <= e, e <= Len(s),
           e <= a + (Len(r) - Len(g)), Follows(s, a, r, g)
    PROVE  \E k, b :
             /\ k = Taken(Rest, g, s, a, e) /\ b = Grown(Rest, g, s, a, e)
             /\ k \in Nat /\ a + k = e /\ b \in Seq(Nat) /\ Len(b) = Len(g) + k
             /\ Begins(b, r)
             /\ Len(b) = Len(r) <=> e = a + (Len(r) - Len(g))
             /\ Len(b) = Len(r) => b = r
             /\ \A l : Complete(Rest, b, l) <=> l
<1>1. SubSeq(s, a + 1, e) \in Seq(Nat) /\ Len(SubSeq(s, a + 1, e)) = e - a
  BY PieceFacts
<1>2. PICK k : k = Taken(Rest, g, s, a, e)
  OBVIOUS
<1>3. PICK b : b = g \o SubSeq(s, a + 1, a + k)
  OBVIOUS
<1>4. PICK x \in Nat : x = Len(r)
  OBVIOUS
<1>5. PICK y \in Nat : y = Len(g)
  OBVIOUS
<1>6. k = e - a
  BY <1>1, <1>2, SizesApart DEF Taken, Share
<1>7. k \in Nat /\ a + k = e /\ a + k <= Len(s) /\ Len(g) + k <= Len(r)
  <2>1. k \in Nat /\ a + k = e /\ y + k <= x
    BY <1>4, <1>5, <1>6
  <2> QED  BY <1>4, <1>5, <2>1
<1>8. b \in Seq(Nat) /\ Len(b) = Len(g) + k /\ Begins(b, r)
  <2> DEFINE v == g \o SubSeq(s, a + 1, a + k)
  <2>1. v \in Seq(Nat) /\ Len(v) = Len(g) + k /\ Begins(v, r)
    BY <1>7, Joined
  <2>2. b = v
    BY <1>3
  <2> HIDE DEF v
  <2> QED  BY <2>1, <2>2
<1>9. b = Grown(Rest, g, s, a, e)
  BY <1>2, <1>3 DEF Grown
<1>10. \A l : Complete(Rest, b, l) <=> l
  BY SizesApart DEF Complete
<1>11. Len(b) = Len(r) <=> e = a + (Len(r) - Len(g))
  <2>1. Len(b) = y + k
    BY <1>5, <1>8
  <2>2. y + k = x <=> e = a + (x - y)
    BY <1>7
  <2> QED  BY <1>4, <1>5, <2>1, <2>2
<1>12. Len(b) = Len(r) => b = r
  BY <1>8, BeginsAll
<1> QED  BY <1>2, <1>7, <1>8, <1>9, <1>10, <1>11, <1>12

(* What the field parser makes of the buffer, when the payload stops at k. *)
LEMMA FieldPiece ==
    ASSUME FramingInv, state = "payload", t # "none",
           NEW k \in 0..Len(This.content.fs), Stops(This, count, k)
    PROVE  \E d, b :
             LET f == This.content.fs
                 i == Len(fs)
             IN  /\ d = Taken(p, got, stream, begin, PieceEnd)
                 /\ b = Grown(p, got, stream, begin, PieceEnd)
                 /\ d \in Nat /\ begin + d <= PieceEnd
                 /\ b \in Seq(Nat) /\ Len(b) = Len(got) + d
                 /\ Complete(p, b, PieceEnd = limit) => i < k /\ b = f[i + 1]
                 /\ ~Complete(p, b, PieceEnd = limit) =>
                      /\ begin + d = PieceEnd /\ InField(f, k, i, b)
                      /\ PieceEnd = limit => ~This.ok
<1> DEFINE f == This.content.fs
           i == Len(fs)
           l == Len(FlattenSeq(f))
           z == EndOf(f, i)
<1>1. /\ Len(done) < Len(sent) /\ t = This.content.t
      /\ f \in Seq(Seq(Nat)) /\ i \in 0..Len(f) /\ l \in Nat
      /\ Boundary \in Nat /\ z \in Nat /\ z <= l
      /\ limit = Boundary + 4 + l
      /\ begin = Boundary + 4 + z + Len(got)
      /\ got \in Seq(Nat) /\ stream \in Seq(Nat) /\ begin \in Nat
      /\ PieceEnd \in Nat /\ PieceEnd <= Len(stream) /\ PieceEnd <= limit /\ begin <= PieceEnd
      /\ \A j \in 1..l : stream[Boundary + 4 + j] = FlattenSeq(f)[j]
  BY PayloadAt
<1>2. Buffer /\ Delivered /\ InPayload
  BY DEF FramingInv, Place
<1>3. /\ fs = SubSeq(f, 1, i)
      /\ p = SizeAfter(t, count, SubSeq(f, 1, i)) /\ p # Bad /\ p # End
      /\ InField(f, k, i, got)
  BY <1>2 DEF InPayload
<1>5. /\ Whole(t, count, f, k)
      /\ This.ok => k = Len(f) /\ SizeAfter(t, count, f) = End
      /\ ~This.ok => \/ SizeAfter(t, count, SubSeq(f, 1, k)) = Bad
                     \/ SizeAfter(t, count, SubSeq(f, 1, k)) = End /\ Left(f, k) # <<>>
                     \/ TooShort(SizeAfter(t, count, SubSeq(f, 1, k)), Left(f, k))
  <2>1. Legal(This, reader, count, defs) /\ This.ok \in BOOLEAN
    BY <1>1, <1>2, ThisPacket
  <2> QED  BY <1>1, <2>1, StopFacts
<1>8. i \in Nat /\ k \in Nat /\ i <= k /\ k <= Len(f) /\ Len(f) \in Nat
  <2>1. Len(f) \in Nat
    BY <1>1, SMTT(40)
  <2>2. i <= k
    BY <1>3 DEF InField
  <2> HIDE DEF f, i
  <2> QED  BY <1>1, <2>1, <2>2, SMTT(40) DEF f
<1>16. This.ok \in BOOLEAN
  BY <1>1, <1>2, ThisPacket
<1>17. SubSeq(f, 1, Len(f)) = f /\ EndOf(f, Len(f)) = l
  BY <1>1, SubSeqFull, EndOfType
<1> HIDE DEF f, i, l, z
<1>9. PICK g \in Nat : g = Len(got)
  BY <1>1
<1>10. PICK a \in Nat : a = begin
  BY <1>1
<1>11. PICK e \in Nat : e = PieceEnd
  BY <1>1
<1>12. /\ l \in Nat /\ z \in Nat /\ z <= l /\ Boundary \in Nat /\ limit = Boundary + 4 + l
       /\ a = Boundary + 4 + z + g
       /\ e <= limit /\ a <= e
  BY <1>1, <1>9, <1>10, <1>11
<1>13. \A j \in 1..l : stream[Boundary + 4 + j] = FlattenSeq(f)[j]
  BY <1>1
<1>14. got \in Seq(Nat) /\ stream \in Seq(Nat) /\ e <= Len(stream)
  BY <1>1, <1>11
(* r is the rest of the payload, or the field the parser is in. *)
<1>15. ASSUME NEW r \in Seq(Nat), Begins(got, r), z + Len(r) <= l,
              \A j \in 1..Len(r) : FlattenSeq(f)[z + j] = r[j]
       PROVE  /\ Len(r) \in Nat /\ g <= Len(r) /\ Follows(stream, a, r, got)
  <2>1. PICK n \in Nat : n = Len(r)
    BY <1>15
  <2>2. g <= n
    BY <1>9, <1>15, <2>1 DEF Begins
  <2>3. z + n <= l
    BY <1>15, <2>1
  <2>5. ASSUME NEW j \in 1..(n - g) PROVE stream[a + j] = r[g + j]
    <3>1. g + j \in 1..n /\ z + (g + j) \in 1..l /\ Boundary + 4 + (z + (g + j)) = a + j
      BY <1>12, <2>2, <2>3
    <3> QED  BY <1>13, <1>15, <2>1, <3>1
  <2> QED  BY <1>9, <2>1, <2>2, <2>5 DEF Follows
<1>6. CASE i = k
  <2>1. TooShort(p, Left(f, k)) /\ ~This.ok
    <3>1. ~This.ok
      BY <1>3, <1>5, <1>6, <1>16, <1>17
    <3> QED  BY <1>3, <1>5, <1>6, <3>1
  <2>2. Begins(got, Left(f, k))
    BY <1>3, <1>6 DEF InField
  <2>3. /\ Left(f, k) \in Seq(Nat) /\ Len(Left(f, k)) = l - z
        /\ \A j \in 1..Len(Left(f, k)) : Left(f, k)[j] = FlattenSeq(f)[z + j]
    BY <1>1, <1>6, LeftFacts DEF l, z, i, f
  <2> DEFINE r == Left(f, k)
  <2> HIDE DEF r
  <2>4. z + Len(r) <= l
    BY <1>12, <2>3 DEF r
  <2>5. Len(r) \in Nat /\ g <= Len(r) /\ Follows(stream, a, r, got)
    BY <1>15, <2>2, <2>3, <2>4 DEF r
  <2>6. e <= a + (Len(r) - Len(got))
    <3>1. Len(r) = l - z
      BY <2>3 DEF r
    <3> QED  BY <1>9, <1>12, <3>1
  <2>7. \E d, b :
          /\ d = Taken(p, got, stream, a, e)
          /\ b = Grown(p, got, stream, a, e)
          /\ d \in Nat /\ a + d = e /\ b \in Seq(Nat) /\ Len(b) = Len(got) + d
          /\ Begins(b, r)
          /\ \A x : ~Complete(p, b, x)
    <3>1. r \in Seq(Nat) /\ TooShort(p, r) /\ Begins(got, r)
      BY <2>1, <2>2, <2>3 DEF r
    <3> QED  BY <1>12, <1>14, <2>5, <2>6, <3>1, TakeShort
  <2>8. \A b : Begins(b, r) => InField(f, k, i, b)
    BY <1>6, <1>8 DEF InField, r
  <2>9. PICK d, b :
          /\ d = Taken(p, got, stream, a, e)
          /\ b = Grown(p, got, stream, a, e)
          /\ d \in Nat /\ a + d = e /\ b \in Seq(Nat) /\ Len(b) = Len(got) + d
          /\ Begins(b, r)
          /\ \A x : ~Complete(p, b, x)
    BY <2>7
  <2>10. ~Complete(p, b, PieceEnd = limit) /\ InField(f, k, i, b)
    BY <2>8, <2>9, Zenon
  <2>11. a + d <= e
    BY <2>9
  <2> QED  BY <1>10, <1>11, <2>1, <2>9, <2>10, <2>11 DEF f, i
<1>7. CASE i # k
  <2>1. i < k /\ i < Len(f) /\ i + 1 \in 1..Len(f) /\ i + 1 \in 1..k /\ (i + 1) - 1 = i
    BY <1>7, <1>8
  <2>2. Begins(got, f[i + 1]) /\ (Len(got) < Len(f[i + 1]) \/ f[i + 1] = <<>>)
    BY <1>3, <1>7 DEF InField
  <2>3. WholeField(p, f[i + 1]) /\ (p = Rest => i + 1 = Len(f))
    <3>1. LET n == SizeAfter(t, count, SubSeq(f, 1, (i + 1) - 1))
          IN  WholeField(n, f[i + 1]) /\ (n = Rest => i + 1 = Len(f))
      BY <1>5, <2>1 DEF Whole
    <3> QED  BY <1>3, <2>1, <3>1
  <2>4. /\ f[i + 1] \in Seq(Nat) /\ z + Len(f[i + 1]) <= l
        /\ \A j \in 1..Len(f[i + 1]) : FlattenSeq(f)[z + j] = f[i + 1][j]
        /\ EndOf(f, i + 1) = z + Len(f[i + 1])
    <3>1. f \in Seq(Seq(Nat)) /\ f[i + 1] \in Seq(Nat)
      BY <1>1, <2>1
    <3>2. /\ EndOf(f, i + 1) = EndOf(f, i) + Len(f[i + 1])
          /\ EndOf(f, i + 1) <= Len(FlattenSeq(f))
          /\ \A j \in 1..Len(f[i + 1]) : FlattenSeq(f)[EndOf(f, i) + j] = f[i + 1][j]
      BY <1>8, <2>1, <3>1, FlattenAt
    <3> QED  BY <3>1, <3>2 DEF z, l
  <2> DEFINE r == f[i + 1]
  <2> HIDE DEF r
  <2>5. Len(r) \in Nat /\ g <= Len(r) /\ Follows(stream, a, r, got)
    BY <1>15, <2>2, <2>4 DEF r
  <2>6. r \in Seq(Nat) /\ WholeField(p, r) /\ Begins(got, r) /\ (Len(got) < Len(r) \/ r = <<>>)
        /\ z + Len(r) <= l
    BY <2>2, <2>3, <2>4 DEF r
  <2>11. PICK n \in Nat : n = Len(r)
    BY <2>5
  <2>7. \E d, b :
          /\ d = Taken(p, got, stream, a, e)
          /\ b = Grown(p, got, stream, a, e)
          /\ d \in Nat /\ a + d <= e /\ b \in Seq(Nat) /\ Len(b) = Len(got) + d
          /\ Begins(b, r)
          /\ Complete(p, b, PieceEnd = limit) <=> Len(b) = Len(r)
          /\ Len(b) = Len(r) => b = r
          /\ Len(b) # Len(r) => Len(b) < Len(r) /\ a + d = e
    <3>1. CASE p # Rest
      <4>1. PICK d, b : TakesOf(p, r, got, stream, a, e, d, b)
        BY <1>12, <1>14, <2>5, <2>6, <3>1, TakeWhole
      <4> QED  BY <4>1, Zenon DEF TakesOf
    <3>2. CASE p = Rest
      <4>1. limit = a + (Len(r) - Len(got))
        <5>1. z + Len(r) = l
          BY <1>17, <2>3, <2>4, <3>2 DEF r
        <5> QED  BY <1>9, <1>12, <2>11, <5>1
      <4>2. PICK d, b :
              /\ d = Taken(Rest, got, stream, a, e) /\ b = Grown(Rest, got, stream, a, e)
              /\ d \in Nat /\ a + d = e /\ b \in Seq(Nat) /\ Len(b) = Len(got) + d
              /\ Begins(b, r)
              /\ Len(b) = Len(r) <=> e = a + (Len(r) - Len(got))
              /\ Len(b) = Len(r) => b = r
              /\ \A x : Complete(Rest, b, x) <=> x
        <5>1. e <= a + (Len(r) - Len(got))
          BY <1>12, <4>1
        <5> QED  BY <1>12, <1>14, <2>5, <2>6, <5>1, TakeRest
      <4>3. Complete(p, b, PieceEnd = limit) <=> PieceEnd = limit
        BY <3>2, <4>2, Zenon
      <4>4. Len(b) = Len(r) <=> PieceEnd = limit
        BY <1>11, <4>1, <4>2
      <4>5. a + d <= e /\ (Len(b) # Len(r) => Len(b) < Len(r))
        <5>1. Len(b) <= Len(r) /\ Len(b) \in Nat
          BY <4>2 DEF Begins
        <5> QED  BY <2>11, <4>2, <5>1
      <4> QED  BY <3>2, <4>2, <4>3, <4>4, <4>5
    <3> QED  BY <3>1, <3>2
  <2>8. PICK d, b :
          /\ d = Taken(p, got, stream, a, e)
          /\ b = Grown(p, got, stream, a, e)
          /\ d \in Nat /\ a + d <= e /\ b \in Seq(Nat) /\ Len(b) = Len(got) + d
          /\ Begins(b, r)
          /\ Complete(p, b, PieceEnd = limit) <=> Len(b) = Len(r)
          /\ Len(b) = Len(r) => b = r
          /\ Len(b) # Len(r) => Len(b) < Len(r) /\ a + d = e
    BY <2>7
  <2>9. ASSUME ~Complete(p, b, PieceEnd = limit)
        PROVE  a + d = e /\ InField(f, k, i, b) /\ (PieceEnd = limit => ~This.ok)
    <3>1. Len(b) < Len(r) /\ a + d = e
      BY <2>8, <2>9
    <3>2. InField(f, k, i, b)
      BY <1>7, <1>8, <2>8, <3>1 DEF InField, r
    <3>3. e # limit
      <4>1. d \in Nat /\ g + d < n /\ z + n <= l
        BY <1>9, <2>6, <2>8, <2>11, <3>1
      <4> QED  BY <1>12, <3>1, <4>1
    <3> QED  BY <1>11, <3>1, <3>2, <3>3
  <2>10. Complete(p, b, PieceEnd = limit) => i < k /\ b = f[i + 1]
    BY <2>1, <2>8 DEF r
  <2> QED  BY <1>10, <1>11, <2>8, <2>9, <2>10 DEF f, i
<1> QED  BY <1>6, <1>7

-----------------------------------------------------------------------------
(* The steps of the reader.  Each keeps FramingInv and is a step of Frames *)
(* or leaves it as it is. *)
Good == FramingInv' /\ [F!Next]_(F!vars)

LEMMA Start == Init => FramingInv /\ F!Init
<1> SUFFICES ASSUME Init PROVE FramingInv /\ F!Init
  OBVIOUS
<1>1. /\ sent \in Streams /\ stream = Sent(sent) /\ begin = 0 /\ end = 0 /\ reading = TRUE
      /\ state = "length" /\ reader = "greeting" /\ got = <<>> /\ count = 0 /\ defs = 0
      /\ done = <<>> /\ malformed = FALSE
  BY DEF Init
<1>2. stream \in Seq(Nat) /\ Len(sent) \in Nat
  BY <1>1, ChunksType
<1>3. Len(done) = 0 /\ 1..0 = {}
  BY <1>1
<1>4. Buffer
  <2>1. Len(stream) \in Nat /\ <<>> \in Seq(Nat)
    BY <1>2
  <2>2. /\ begin \in Nat /\ end \in Nat /\ begin <= end /\ end <= Len(stream) /\ begin = end
        /\ state \in {"length", "id", "payload"} /\ got \in Seq(Nat)
    BY <1>1, <2>1
  <2>3. reading \in BOOLEAN /\ malformed \in BOOLEAN
    BY <1>1, Zenon
  <2> QED  BY <1>1, <2>2, <2>3, Zenon DEF Buffer
<1>5. Delivered
  <2>1. done = [j \in 1..Len(done) |-> sent[j].content]
    BY <1>1, <1>3
  <2>2. 0 + 1 = 1 /\ 0 \in 0..Len(sent)
    BY <1>2
  <2> QED  BY <1>1, <1>3, <2>1, <2>2, NothingKnown DEF Delivered
<1>6. Place
  <2>1. Boundary = 0
    BY <1>1, <1>3, ChunksType, EndOfType DEF Boundary
  <2>2. Len(<<>>) = 0
    OBVIOUS
  <2>3. InLength
    BY <1>1, <2>1, <2>2 DEF InLength
  <2> QED  BY <1>1, <2>3 DEF Place
<1> QED  BY <1>1, <1>4, <1>5, <1>6 DEF FramingInv, F!Init

(* A step that keeps to the packets it has delivered. *)
Still == UNCHANGED <<inputVars, reader, count, defs, done, malformed>>

LEMMA StillThere ==
    ASSUME Buffer, Delivered, Still, ~malformed,
           begin' \in Nat, end' \in Nat, begin' <= end', end' <= Len(stream),
           reading' \in BOOLEAN, reading' => begin' = end',
           state' \in {"length", "id", "payload"}, got' \in Seq(Nat)
    PROVE  Buffer' /\ Delivered' /\ This' = This /\ Boundary' = Boundary
           /\ [F!Next]_(F!vars)
<1>1. /\ sent' = sent /\ stream' = stream /\ reader' = reader /\ count' = count
      /\ defs' = defs /\ done' = done /\ malformed' = malformed
  BY DEF Still, inputVars
<1>2. This' = This /\ Boundary' = Boundary
  BY <1>1 DEF This, Boundary
<1>3. Buffer'
  <2>1. malformed \in BOOLEAN /\ sent \in Streams /\ stream = Sent(sent)
    BY DEF Buffer
  <2> QED  BY <1>1, <2>1 DEF Buffer
<1>4. Delivered'
  BY <1>1, <1>2 DEF Delivered
<1>5. UNCHANGED F!vars
  BY <1>1 DEF F!vars
<1> QED  BY <1>2, <1>3, <1>4, <1>5

(* The server has sent no more than there is. *)
LEMMA AvailableBound ==
    ASSUME Buffer, Delivered
    PROVE  Available \in Nat /\ Available <= Len(stream)
<1>1. /\ sent \in Streams /\ stream = Sent(sent) /\ Len(done) \in 0..Len(sent)
      /\ Len(sent) \in Nat
  BY ChunksType DEF Buffer, Delivered
<1>2. PICK a \in Nat : a = Len(done)
  BY <1>1
<1>3. PICK z \in Nat : z = Len(sent)
  BY <1>1
<1>4. a <= z
  BY <1>1, <1>2, <1>3
<1> DEFINE Q(n) == Pause(n) /\ \A m \in a..(n - 1) : ~Pause(m)
           P == {k \in Nat : \A m \in a..k : ~Pause(m)}
<1>5. Pause(z)
  BY <1>3 DEF Pause
<1>6. \E n \in a..z : Q(n)
  <2> SUFFICES ASSUME \A n \in a..z : ~Q(n) PROVE FALSE
    OBVIOUS
  <2> HIDE DEF Q
  <2>1. 0 - 1 \in Int /\ \A m \in Nat : m \in P => m \in Nat
    OBVIOUS
  <2> DEFINE R == {k \in Nat : k <= z => \A m \in a..k : ~Pause(m)}
  <2>2. 0 \in R
    <3>1. ASSUME NEW m \in a..0 PROVE ~Pause(m)
      <4>1. m = a /\ a = 0 /\ a..(a - 1) = {} /\ a \in a..z
        BY <1>4
      <4> QED  BY <4>1 DEF Q
    <3> QED  BY <3>1
  <2>3. ASSUME NEW k \in Nat, k \in R PROVE k + 1 \in R
    <3> SUFFICES ASSUME k + 1 <= z, NEW m \in a..(k + 1) PROVE ~Pause(m)
      OBVIOUS
    <3>1. \A j \in a..k : ~Pause(j)
      BY <2>3
    <3>2. CASE m \in a..k
      BY <3>1, <3>2
    <3>3. CASE m \notin a..k
      <4>1. m \in a..z /\ m - 1 = k
        BY <3>3
      <4> QED  BY <3>1, <4>1 DEF Q
    <3> QED  BY <3>2, <3>3
  <2>4. \A k \in Nat : k \in R
    <3> HIDE DEF R
    <3> QED  BY <2>2, <2>3, SetInduction
  <2>5. z \in a..z /\ z \in R /\ z <= z
    BY <1>4, <2>4
  <2> QED  BY <1>5, <2>5
<1> DEFINE c == CHOOSE n \in a..z : Q(n)
<1>7. c \in a..z
  <2> HIDE DEF Q
  <2> QED  BY <1>6
<1>8. Available = Len(Sent(SubSeq(sent, 1, c)))
  BY <1>2, <1>3 DEF Available
<1> HIDE DEF c
<1>9. c \in 0..Len(sent)
  BY <1>3, <1>7
<1> QED  BY <1>1, <1>8, <1>9, After

LEMMA ReadStep == ASSUME FramingInv, Read PROVE Good
<1>1. /\ Buffer /\ Delivered /\ Place
  BY DEF FramingInv
<1>2. /\ begin' = begin /\ state' = state /\ t' = t /\ p' = p /\ got' = got
      /\ limit' = limit /\ fs' = fs /\ reading' = FALSE
      /\ end' \in (end + 1)..Available /\ Still /\ ~malformed
  BY DEF Read, Still
<1>3. Buffer' /\ Delivered' /\ This' = This /\ Boundary' = Boundary /\ [F!Next]_(F!vars)
  <2>1. /\ begin \in Nat /\ end \in Nat /\ begin <= end /\ stream \in Seq(Nat)
        /\ state \in {"length", "id", "payload"} /\ got \in Seq(Nat)
    BY <1>1, ChunksType DEF Buffer
  <2>2. Len(stream) \in Nat /\ Available \in Nat /\ Available <= Len(stream)
    BY <1>1, <2>1, AvailableBound
  <2>3. end' \in Nat /\ begin' <= end' /\ end' <= Len(stream)
    BY <1>2, <2>1, <2>2
  <2> QED  BY <1>1, <1>2, <2>1, <2>3, StillThere
<1>4. Place'
  BY <1>1, <1>2, <1>3 DEF Place, InLength, AtId, AtPayload, InPayload, Still, inputVars
<1> QED  BY <1>1, <1>3, <1>4 DEF Good, FramingInv

LEMMA DrainedStep == ASSUME FramingInv, Drained PROVE Good
<1>1. /\ Buffer /\ Delivered /\ Place
  BY DEF FramingInv
<1>2. /\ begin' = begin /\ end' = end /\ state' = state /\ t' = t /\ p' = p /\ got' = got
      /\ limit' = limit /\ fs' = fs /\ reading' = TRUE /\ begin = end
      /\ Still /\ ~malformed
  BY DEF Drained, NeedMore, Parsing, Still, inputVars
<1>3. Buffer' /\ Delivered' /\ This' = This /\ Boundary' = Boundary /\ [F!Next]_(F!vars)
  <2>1. /\ begin \in Nat /\ end \in Nat /\ begin <= end /\ end <= Len(stream)
        /\ state \in {"length", "id", "payload"} /\ got \in Seq(Nat)
    BY <1>1 DEF Buffer
  <2> QED  BY <1>1, <1>2, <2>1, StillThere
<1>4. Place'
  BY <1>1, <1>2, <1>3 DEF Place, InLength, AtId, AtPayload, InPayload, Still, inputVars
<1> QED  BY <1>1, <1>3, <1>4 DEF Good, FramingInv

(* There is a packet to read while there are bytes. *)
LEMMA MoreToRead ==
    ASSUME FramingInv, state = "length", begin < end
    PROVE  Len(done) < Len(sent) /\ Begins(got, This.len) /\ Len(got) < 3
           /\ begin = Boundary + Len(got)
<1>1. Buffer /\ Delivered /\ InLength
  BY DEF FramingInv, Place
<1>2. /\ begin \in Nat /\ end \in Nat /\ end <= Len(stream) /\ sent \in Streams
      /\ stream = Sent(sent) /\ Len(done) \in 0..Len(sent) /\ Len(sent) \in Nat
      /\ stream \in Seq(Nat) /\ got \in Seq(Nat)
  BY <1>1, ChunksType DEF Buffer, Delivered
<1>3. CASE got # <<>>
  BY <1>1, <1>3 DEF InLength
<1>4. CASE got = <<>>
  <2>1. Len(got) = 0
    BY <1>4
  <2>2. begin = Boundary + 0
    BY <1>1, <2>1 DEF InLength
  <2>3. Len(done) < Len(sent)
    <3> SUFFICES ASSUME Len(done) = Len(sent) PROVE FALSE
      BY <1>2
    <3>1. Boundary = Len(stream)
      BY <1>2, ChunksType, EndOfType DEF Boundary
    <3>2. Len(stream) \in Nat
      BY <1>2
    <3> QED  BY <1>2, <2>2, <3>1, <3>2
  <2>4. This.len \in Seq(Nat)
    BY <1>1, <2>3, ThisPacket
  <2>5. Begins(got, This.len)
    BY <1>4, <2>4 DEF Begins
  <2> QED  BY <1>1, <2>3, <2>5 DEF InLength
<1> QED  BY <1>3, <1>4

LEMMA LengthStep == ASSUME FramingInv, PacketLength PROVE Good
<1> DEFINE d == Taken(3, got, stream, begin, end)
           b == Grown(3, got, stream, begin, end)
<1>1. Buffer /\ Delivered /\ state = "length" /\ ~reading /\ ~malformed /\ begin < end
  BY DEF FramingInv, PacketLength, Parsing
<1>2. /\ begin \in Nat /\ end \in Nat /\ begin <= end /\ end <= Len(stream)
      /\ got \in Seq(Nat) /\ stream \in Seq(Nat) /\ sent \in Streams
  BY <1>1, ChunksType DEF Buffer
<1>3. /\ Len(done) < Len(sent) /\ Begins(got, This.len) /\ Len(got) < 3
      /\ begin = Boundary + Len(got)
  BY <1>1, MoreToRead
<1>4. /\ This.len \in Seq(Nat) /\ Len(This.len) = 3 /\ Boundary \in Nat
      /\ \A j \in 1..3 : stream[Boundary + j] = This.len[j]
  BY <1>1, <1>3, ThisPacket
<1>5. Follows(stream, begin, This.len, got)
  <2>1. PICK g \in Nat : g = Len(got)
    BY <1>2
  <2>2. ASSUME NEW j \in 1..(3 - g) PROVE stream[begin + j] = This.len[g + j]
    <3>1. Boundary \in Nat /\ begin = Boundary + g
      BY <1>3, <1>4, <2>1
    <3>2. g + j \in 1..3 /\ Boundary + (g + j) = begin + j
      BY <3>1
    <3> QED  BY <1>4, <3>2
  <2> QED  BY <1>4, <2>1, <2>2 DEF Follows
<1>6. TakesOf(3, This.len, got, stream, begin, end, d, b)
  <2>1. 3 # Rest /\ WholeField(3, This.len)
    BY <1>4 DEF WholeField, Rest, CStr, LenInt
  <2>2. \E x, y : TakesOf(3, This.len, got, stream, begin, end, x, y)
    BY <1>2, <1>3, <1>4, <1>5, <2>1, TakeWhole
  <2>3. PICK x, y : TakesOf(3, This.len, got, stream, begin, end, x, y)
    BY <2>2
  <2>4. x = d /\ y = b
    BY <2>3 DEF TakesOf
  <2> QED  BY <2>3, <2>4
<1>7. /\ d \in Nat /\ begin + d <= end /\ b \in Seq(Nat) /\ Len(b) = Len(got) + d
      /\ Begins(b, This.len)
      /\ Len(b) = 3 => b = This.len
      /\ Len(b) # 3 => Len(b) < 3
  BY <1>4, <1>6 DEF TakesOf
<1>8. /\ begin' = begin + d /\ got' = b
      /\ state' = IF Len(got) + d = 3 THEN "id" ELSE state
      /\ end' = end /\ reading' = reading /\ Still
  BY DEF PacketLength, Take, Taken, Grown, Still
<1> HIDE DEF d, b
<1>9. PICK g \in Nat : g = Len(got)
  BY <1>2
<1>10. begin' = Boundary + Len(b)
  <2>1. Len(b) = g + d /\ begin = Boundary + g
    BY <1>3, <1>7, <1>9
  <2>2. begin' = begin + d /\ d \in Nat /\ Boundary \in Nat
    BY <1>4, <1>7, <1>8
  <2> QED  BY <2>1, <2>2
<1>11. Buffer' /\ Delivered' /\ This' = This /\ Boundary' = Boundary /\ [F!Next]_(F!vars)
  <2>1. /\ begin' \in Nat /\ end' \in Nat /\ begin' <= end' /\ end' <= Len(stream)
        /\ got' \in Seq(Nat) /\ state' \in {"length", "id", "payload"}
    BY <1>1, <1>2, <1>7, <1>8
  <2>2. reading' \in BOOLEAN /\ ~reading'
    BY <1>1, <1>8, Zenon DEF Buffer
  <2> QED  BY <1>1, <1>8, <2>1, <2>2, StillThere
<1>12. Len(done') < Len(sent')
  BY <1>3, <1>8 DEF Still, inputVars
<1>13. CASE Len(b) = 3
  <2>1. state' = "id"
    BY <1>7, <1>8, <1>13
  <2>2. AtId'
    BY <1>7, <1>8, <1>10, <1>11, <1>12, <1>13 DEF AtId
  <2> QED  BY <1>11, <2>1, <2>2 DEF Good, FramingInv, Place
<1>14. CASE Len(b) # 3
  <2>1. state' = "length"
    BY <1>1, <1>7, <1>8, <1>14
  <2>2. InLength'
    BY <1>7, <1>8, <1>10, <1>11, <1>12, <1>14 DEF InLength
  <2> QED  BY <1>11, <2>1, <2>2 DEF Good, FramingInv, Place
<1> QED  BY <1>13, <1>14

LEMMA IdStep == ASSUME FramingInv, SequenceId PROVE Good
<1>1. Buffer /\ Delivered /\ AtId /\ ~reading /\ ~malformed /\ begin < end
  BY DEF FramingInv, Place, SequenceId, Parsing
<1>2. /\ begin \in Nat /\ end \in Nat /\ end <= Len(stream) /\ sent \in Streams
  BY <1>1 DEF Buffer
<1>3. Len(done) < Len(sent) /\ got = This.len /\ begin = Boundary + 3
  BY <1>1 DEF AtId
<1>4. /\ Boundary \in Nat /\ Len(FlattenSeq(This.content.fs)) \in Nat
      /\ EndOf(Chunks(sent), Len(done) + 1) = Boundary + 4 + Len(FlattenSeq(This.content.fs))
      /\ Legal(This, reader, count, defs)
  BY <1>1, <1>3, ThisPacket
<1>5. LittleEndian(got) = Len(FlattenSeq(This.content.fs))
  BY <1>3, <1>4 DEF Legal
<1>6. /\ begin' = begin + 1 /\ state' = "payload" /\ limit' = begin + 1 + LittleEndian(got)
      /\ got' = <<>> /\ t' = "none" /\ fs' = <<>> /\ end' = end /\ reading' = reading /\ Still
  BY DEF SequenceId, Still
<1>7. Buffer' /\ Delivered' /\ This' = This /\ Boundary' = Boundary /\ [F!Next]_(F!vars)
  <2>1. /\ begin' \in Nat /\ end' \in Nat /\ begin' <= end' /\ end' <= Len(stream)
        /\ got' \in Seq(Nat) /\ state' \in {"length", "id", "payload"}
    BY <1>1, <1>2, <1>6
  <2>2. reading' \in BOOLEAN /\ ~reading'
    BY <1>1, <1>6, Zenon DEF Buffer
  <2> QED  BY <1>1, <1>6, <2>1, <2>2, StillThere
<1>8. sent' = sent /\ done' = done
  BY <1>6 DEF Still, inputVars
<1>9. begin' = Boundary + 4 /\ limit' = EndOf(Chunks(sent), Len(done) + 1)
  BY <1>3, <1>4, <1>5, <1>6
<1>10. AtPayload'
  BY <1>3, <1>6, <1>7, <1>8, <1>9 DEF AtPayload
<1> QED  BY <1>6, <1>7, <1>10 DEF Good, FramingInv, Place

(* A packet that is not well formed is refused. *)
LEMMA RefuseStep ==
    ASSUME FramingInv, state = "payload", ~malformed, ~This.ok, Refuse,
           UNCHANGED <<sent, stream, end>>
    PROVE  Good
<1>1. Buffer /\ Delivered /\ Place
  BY DEF FramingInv
<1>2. /\ sent' = sent /\ stream' = stream /\ begin' = begin /\ end' = end
      /\ state' = state /\ t' = t /\ p' = p /\ got' = got /\ limit' = limit /\ fs' = fs
      /\ reader' = reader /\ count' = count /\ defs' = defs /\ done' = done
      /\ reading' = reading /\ malformed' = TRUE
  BY DEF Refuse
<1>3. This' = This /\ Boundary' = Boundary
  BY <1>2 DEF This, Boundary
<1>4. Buffer'
  BY <1>1, <1>2 DEF Buffer
<1>5. Delivered'
  BY <1>1, <1>2, <1>3 DEF Delivered
<1>6. Place'
  BY <1>1, <1>2, <1>3 DEF Place, InLength, AtId, AtPayload, InPayload
<1>7. Len(done) < Len(sent)
  BY <1>1 DEF Place, AtPayload, InPayload
<1>8. F!Refuse
  BY <1>2, <1>7 DEF F!Refuse, F!Pending, This
<1> QED  BY <1>4, <1>5, <1>6, <1>8 DEF Good, FramingInv, F!Next

(* The first byte of a packet picks its parser, or the packet is refused. *)
LEMMA ChooseStep == ASSUME FramingInv, Choose PROVE Good
<1> DEFINE x == Guess(reader, count, defs, stream[begin + 1])
           f == This.content.fs
           h == FlattenSeq(f)
<1>1. /\ Buffer /\ Delivered /\ AtPayload /\ state = "payload" /\ t = "none"
      /\ ~reading /\ ~malformed /\ begin < end
  BY DEF FramingInv, Place, Choose, Parsing
<1>2. /\ begin \in Nat /\ end \in Nat /\ end <= Len(stream)
  BY <1>1 DEF Buffer
<1>3. /\ Len(done) < Len(sent) /\ got = <<>> /\ fs = <<>> /\ begin = Boundary + 4
      /\ limit = EndOf(Chunks(sent), Len(done) + 1)
  BY <1>1 DEF AtPayload
<1>4. /\ Boundary \in Nat /\ h \in Seq(Nat) /\ Len(h) \in Nat /\ f \in Seq(Seq(Nat))
      /\ EndOf(Chunks(sent), Len(done) + 1) = Boundary + 4 + Len(h)
      /\ Legal(This, reader, count, defs) /\ This.ok \in BOOLEAN /\ This.content.t \in Types
      /\ \A j \in 1..Len(h) : stream[Boundary + 4 + j] = h[j]
  BY <1>1, <1>3, ThisPacket
<1>5. limit = begin + Len(h)
  BY <1>3, <1>4
<1>6. h # <<>> => Len(h) # 0 /\ stream[begin + 1] = h[1]
  <2> HIDE DEF h
  <2>1. h # <<>> => Len(h) # 0 /\ 1 \in 1..Len(h)
    BY <1>4
  <2> QED  BY <1>3, <1>4, <2>1
<1>7. h = <<>> => limit = begin
  <2>1. h = <<>> => Len(h) = 0
    OBVIOUS
  <2> HIDE DEF h
  <2> QED  BY <1>2, <1>5, <2>1
<1>8. /\ sent' = sent /\ stream' = stream /\ end' = end
      /\ IF begin = limit \/ x = "none" THEN Refuse
         ELSE /\ t' = x /\ p' = First(x) /\ begin' = begin /\ reading' = reading
              /\ state' = state /\ got' = got /\ limit' = limit /\ fs' = fs /\ Still
  BY DEF Choose, Refuse, inputVars, Still
<1>9. This.content.t # "none"
  BY <1>4 DEF Types
<1>10. IF This.ok
       THEN /\ h # <<>> /\ Guess(reader, count, defs, h[1]) = This.content.t
            /\ Whole(This.content.t, count, f, Len(f)) /\ SizeAfter(This.content.t, count, f) = End
       ELSE \/ h = <<>> \/ Guess(reader, count, defs, h[1]) = "none"
            \/ /\ Guess(reader, count, defs, h[1]) = This.content.t
               /\ \E k \in 0..Len(f) : GoesWrong(This.content.t, count, f, k)
  BY <1>4 DEF Legal
<1> HIDE DEF h
<1>11. CASE begin = limit \/ x = "none"
  <2>1. ~This.ok
    <3>1. SUFFICES ASSUME This.ok PROVE FALSE
      OBVIOUS
    <3>2. h # <<>> /\ x = This.content.t
      BY <1>6, <1>10, <3>1
    <3>3. begin # limit
      BY <1>2, <1>4, <1>5, <1>6, <3>2
    <3> QED  BY <1>9, <1>11, <3>2, <3>3
  <2> HIDE DEF x
  <2> QED  BY <1>1, <1>8, <1>11, <2>1, RefuseStep
<1>12. CASE ~(begin = limit \/ x = "none")
  <2>1. h # <<>>
    BY <1>7, <1>12
  <2>2. x = Guess(reader, count, defs, h[1])
    BY <1>6, <2>1
  <2> HIDE DEF x
  <2>3. x = This.content.t /\ \E k \in 0..Len(f) : Stops(This, count, k)
    <3>1. CASE This.ok
      <4>1. Len(f) \in 0..Len(f)
        BY <1>4
      <4>2. Stops(This, count, Len(f))
        BY <3>1 DEF Stops
      <4> QED  BY <1>10, <2>2, <3>1, <4>1, <4>2
    <3>2. CASE ~This.ok
      <4>1. x = This.content.t /\ \E k \in 0..Len(f) : GoesWrong(This.content.t, count, f, k)
        BY <1>10, <1>12, <2>1, <2>2, <3>2
      <4> QED  BY <3>2, <4>1 DEF Stops
    <3> QED  BY <3>1, <3>2
  <2>4. /\ t' = x /\ p' = First(x) /\ begin' = begin /\ reading' = reading
        /\ state' = state /\ got' = got /\ limit' = limit /\ fs' = fs /\ Still
    BY <1>8, <1>12
  <2>5. Buffer' /\ Delivered' /\ This' = This /\ Boundary' = Boundary /\ [F!Next]_(F!vars)
    <3>1. /\ begin' \in Nat /\ end' \in Nat /\ begin' <= end' /\ end' <= Len(stream)
          /\ got' \in Seq(Nat) /\ state' \in {"length", "id", "payload"}
      BY <1>1, <1>2, <1>3, <1>8, <2>4
    <3>2. reading' \in BOOLEAN /\ ~reading'
      BY <1>1, <2>4, Zenon DEF Buffer
    <3> QED  BY <1>1, <2>4, <3>1, <3>2, StillThere
  <2>6. InPayload'
    <3>1. SubSeq(f, 1, 0) = <<>> /\ Len(<<>>) = 0 /\ 0 \in 0..Len(f) /\ EndOf(f, 0) = 0
      BY <1>4, EndOfType, SMTT(40)
    <3>2. p' = SizeAfter(x, count, <<>>) /\ p' # Bad /\ p' # End
      <4>1. x \in Types => First(x) # Bad /\ First(x) # End
        BY DEF First, Types, Bad, End, LenInt
      <4> QED  BY <1>4, <2>3, <2>4, <4>1 DEF SizeAfter
    <3>3. ASSUME NEW k \in 0..Len(f) PROVE InField(f, k, 0, <<>>)
      <4>1. Begins(<<>>, Left(f, k))
        BY <1>4, LeftFacts DEF Begins
      <4>2. k # 0 => f[0 + 1] \in Seq(Nat)
        <5>1. This.content.fs \in Seq(Seq(Nat))
          BY <1>4
        <5>2. k # 0 => 0 + 1 \in 1..Len(This.content.fs)
          BY <5>1
        <5> QED  BY <5>1, <5>2
      <4>3. k # 0 => Begins(<<>>, f[0 + 1]) /\ (Len(<<>>) < Len(f[0 + 1]) \/ f[0 + 1] = <<>>)
        BY <4>2 DEF Begins
      <4>4. 0 <= k
        BY <1>4
      <4> QED  BY <4>1, <4>3, <4>4 DEF InField
    <3>4. begin' = Boundary + 4 + EndOf(f, 0) + Len(<<>>)
      BY <1>3, <1>4, <2>4, <3>1
    <3>5. /\ fs' = <<>> /\ got' = <<>> /\ count' = count /\ done' = done /\ sent' = sent
          /\ t' = This.content.t /\ This' = This /\ Boundary' = Boundary
      BY <1>3, <2>3, <2>4, <2>5 DEF Still, inputVars
    <3>6. p' = SizeAfter(t', count', <<>>)
      BY <2>3, <3>2, <3>5
    <3>7. begin' <= limit' /\ limit' = EndOf(Chunks(sent), Len(done) + 1)
      BY <1>2, <1>3, <1>4, <1>5, <2>4
    <3> HIDE DEF f
    <3>8. \A k \in 0..Len(f) : Stops(This', count', k) => InField(f, k, Len(fs'), got')
      BY <3>1, <3>3, <3>5
    <3>9. \E k \in 0..Len(f) : Stops(This', count', k)
      BY <2>3, <3>5
    <3> QED  BY <1>3, <3>1, <3>2, <3>4, <3>5, <3>6, <3>7, <3>8, <3>9 DEF InPayload, f
  <2>7. Place'
    <3>1. t' # "none" /\ state' = "payload"
      BY <1>1, <1>9, <2>3, <2>4
    <3> QED  BY <2>6, <3>1 DEF Place
  <2> QED  BY <2>5, <2>7 DEF Good, FramingInv
<1> QED  BY <1>11, <1>12

(* A packet that is well formed is delivered, when its last byte is read. *)
LEMMA AcceptStep ==
    ASSUME FramingInv, state = "payload", t # "none", ~reading, ~malformed, This.ok,
           NEW k \in Nat, begin + k = limit, limit <= end,
           Accept(k, This.content.fs)
    PROVE  Good
<1>1. Buffer /\ Delivered /\ Place /\ InPayload /\ Len(done) < Len(sent) /\ t = This.content.t
  BY DEF FramingInv, Place, InPayload
<1>2. PICK n \in Nat : n = Len(done) /\ n < Len(sent) /\ n + 1 \in 1..Len(sent)
  BY <1>1, ThisPacket
<1>3. /\ begin' = begin + k /\ state' = "length" /\ got' = <<>> /\ malformed' = malformed
      /\ done' = Append(done, [t |-> t, fs |-> This.content.fs])
      /\ reader' = Awaits(t)
      /\ count' = IF t = "COUNT" THEN LenIntValue(This.content.fs[1]) ELSE count
      /\ defs' = CASE t = "COUNT" -> 0 [] t = "DEF" -> defs + 1 [] OTHER -> defs
      /\ sent' = sent /\ stream' = stream /\ end' = end /\ reading' = reading
  BY DEF Accept, inputVars
<1>4. /\ sent \in Streams /\ begin \in Nat /\ end \in Nat /\ end <= Len(stream)
      /\ stream = Sent(sent)
  BY <1>1 DEF Buffer
<1>5. sent[n + 1].content = [t |-> t, fs |-> This.content.fs] /\ sent[n + 1] = This
  BY <1>1, <1>2, <1>4, PacketType DEF This
<1>6. /\ done = [i \in 1..n |-> sent[i].content]
      /\ \A i \in 1..n : sent[i].ok
      /\ count = Columns(sent, n + 1) /\ defs = Defined(sent, n + 1)
  BY <1>1, <1>2 DEF Delivered
<1>7. done' = [i \in 1..(n + 1) |-> sent[i].content] /\ Len(done') = n + 1
  <2> DEFINE C == {sent[i].content : i \in 1..(n + 1)}
  <2>1. done \in Seq(C) /\ Len(done) = n
    BY <1>6
  <2>2. sent[n + 1].content \in C
    OBVIOUS
  <2>3. done' = Append(done, sent[n + 1].content)
    BY <1>3, <1>5
  <2> QED  BY <1>6, <2>1, <2>2, <2>3
<1>8. begin' = EndOf(Chunks(sent), n + 1)
  BY <1>1, <1>2, <1>3 DEF InPayload
<1>9. Buffer'
  <2>1. begin' \in Nat /\ begin' <= end'
    BY <1>3, <1>4
  <2>2. got' \in Seq(Nat) /\ state' \in {"length", "id", "payload"}
    BY <1>3
  <2>3. reading' \in BOOLEAN /\ ~reading' /\ malformed' \in BOOLEAN
    BY <1>1, <1>3, <1>4, Zenon DEF Buffer
  <2> QED  BY <1>3, <1>4, <2>1, <2>2, <2>3, Zenon DEF Buffer
<1>10. Delivered'
  <2>1. sent[n + 1].content.t = t /\ sent[n + 1].content.fs = This.content.fs
    BY <1>1, <1>5, Zenon
  <2>2. \A i \in 1..(n + 1) : sent[i].ok
    <3> SUFFICES ASSUME NEW i \in 1..(n + 1) PROVE sent[i].ok
      OBVIOUS
    <3>1. i \in 1..n \/ i = n + 1
      OBVIOUS
    <3> QED  BY <1>5, <1>6, <3>1
  <2>3. n + 1 \in 0..Len(sent) /\ n + 1 \in Nat \ {0}
    BY <1>2
  <2>4. count' = Columns(sent, (n + 1) + 1)
    BY <1>3, <1>6, <2>1, <2>3, ColumnsNext, Zenon
  <2>5. defs' = Defined(sent, (n + 1) + 1)
    BY <1>3, <1>6, <2>1, <2>3, DefinedNext
  <2>6. reader' = Reader(sent, (n + 1) + 1)
    <3>1. (n + 1) + 1 # 1 /\ ((n + 1) + 1) - 1 = n + 1
      OBVIOUS
    <3> QED  BY <1>3, <2>1, <3>1 DEF Reader
  <2> QED  BY <1>3, <1>7, <2>2, <2>3, <2>4, <2>5, <2>6 DEF Delivered
<1>11. Place'
  <2>1. Len(<<>>) = 0 /\ Boundary' = EndOf(Chunks(sent), n + 1)
    BY <1>3, <1>7 DEF Boundary
  <2>2. InLength'
    <3>1. begin' \in Nat
      BY <1>3, <1>4
    <3> QED  BY <1>3, <1>8, <2>1, <3>1 DEF InLength
  <2> QED  BY <1>3, <2>2 DEF Place
<1>12. F!Deliver
  <2>1. done' = Append(done, sent[n + 1].content)
    BY <1>3, <1>5
  <2> QED  BY <1>2, <1>3, <1>4, <1>5, <2>1 DEF F!Deliver, F!Pending
<1> QED  BY <1>9, <1>10, <1>11, <1>12 DEF Good, FramingInv, F!Next

(* The bytes that are left, after the last field: none is sent after a     *)
(* field that takes the rest. *)
LEMMA FieldEnds ==
    ASSUME NEW f \in Seq(Seq(Nat)), NEW x, NEW c, NEW k \in 0..Len(f), Whole(x, c, f, k),
           NEW i \in Nat, i < k, NEW b, SizeAfter(x, c, SubSeq(f, 1, i)) = b
    PROVE  b # End /\ b # Bad
<1>1. i + 1 \in 1..k /\ i + 1 \in 1..Len(f) /\ (i + 1) - 1 = i
  OBVIOUS
<1>2. WholeField(b, f[i + 1])
  BY <1>1 DEF Whole
<1>3. f[i + 1] \in Seq(Nat)
  BY <1>1
<1>4. /\ End \notin Nat /\ Bad \notin Nat
      /\ End \notin {CStr, LenInt, Rest} /\ Bad \notin {CStr, LenInt, Rest}
  BY DEF End, Bad, CStr, LenInt, Rest
<1> QED  BY <1>2, <1>3, <1>4 DEF WholeField

(* After the last field of a payload: it is well formed if it ends there. *)
LEMMA FinishStep ==
    ASSUME FramingInv, state = "payload", t # "none", ~reading, ~malformed,
           NEW i \in 0..Len(This.content.fs), NEW k \in 0..Len(This.content.fs), i <= k,
           SizeAfter(t, count, SubSeq(This.content.fs, 1, i)) = End,
           Stops(This, count, k),
           NEW d \in Nat, begin + d <= PieceEnd,
           begin + d = Boundary + 4 + EndOf(This.content.fs, i),
           Finish(d, SubSeq(This.content.fs, 1, i))
    PROVE  Good
<1> DEFINE f == This.content.fs
           l == Len(FlattenSeq(f))
<1>1. /\ Len(done) < Len(sent) /\ t = This.content.t /\ f \in Seq(Seq(Nat)) /\ l \in Nat
      /\ Boundary \in Nat /\ limit = Boundary + 4 + l
      /\ PieceEnd \in Nat /\ PieceEnd <= end /\ PieceEnd <= limit
  BY PayloadAt
<1>2. Buffer /\ Delivered
  BY DEF FramingInv
<1>4. Legal(This, reader, count, defs) /\ This.ok \in BOOLEAN
  BY <1>1, <1>2, ThisPacket
<1>5. /\ Whole(t, count, f, k)
      /\ This.ok => k = Len(f)
      /\ ~This.ok => \/ SizeAfter(t, count, SubSeq(f, 1, k)) = Bad
                     \/ SizeAfter(t, count, SubSeq(f, 1, k)) = End /\ Left(f, k) # <<>>
                     \/ TooShort(SizeAfter(t, count, SubSeq(f, 1, k)), Left(f, k))
  BY <1>1, <1>4, StopFacts
<1>6. i = k
  <2> SUFFICES ASSUME i < k PROVE FALSE
    OBVIOUS
  <2>1. i \in Nat
    OBVIOUS
  <2> HIDE DEF f
  <2> QED  BY <1>1, <1>5, <2>1, FieldEnds DEF f
<1>7. PICK z \in Nat : z = EndOf(f, i) /\ z <= l /\ Len(Left(f, i)) = l - z
                       /\ Left(f, i) \in Seq(Nat)
  BY <1>1, LeftFacts
<1>8. CASE This.ok
  <2>1. i = Len(f)
    BY <1>5, <1>6, <1>8
  <2>2. SubSeq(f, 1, i) = f /\ EndOf(f, i) = l
    BY <1>1, <2>1, SubSeqFull, EndOfType
  <2>3. begin + d = limit /\ limit = PieceEnd /\ limit <= end
    BY <1>1, <2>2
  <2>4. Accept(d, f)
    BY <2>2, <2>3 DEF Finish
  <2> QED  BY <1>8, <2>3, <2>4, AcceptStep
<1>9. CASE ~This.ok
  <2>1. Left(f, i) # <<>>
    <3>1. End # Bad /\ ~TooShort(End, Left(f, i))
      BY <1>7 DEF End, Bad, TooShort, CStr, LenInt, Rest
    <3> QED  BY <1>5, <1>6, <1>9, <3>1
  <2>2. Len(Left(f, i)) # 0
    BY <1>7, <2>1
  <2>3. begin + d # limit
    BY <1>1, <1>7, <2>2, SMTT(40)
  <2>4. Refuse
    BY <2>3 DEF Finish
  <2>5. UNCHANGED <<sent, stream, end>>
    BY <2>4 DEF Refuse, inputVars
  <2> QED  BY <1>9, <2>4, <2>5, RefuseStep
<1> QED  BY <1>4, <1>8, <1>9

LEMMA BodyStep == ASSUME FramingInv, Body PROVE Good
<1> DEFINE f == This.content.fs
           i == Len(fs)
           d == Taken(p, got, stream, begin, PieceEnd)
           b == Grown(p, got, stream, begin, PieceEnd)
           c == Complete(p, b, PieceEnd = limit)
           n == Following(t, count, Append(fs, b))
<1>1. state = "payload" /\ t # "none" /\ ~reading /\ ~malformed
  BY DEF Body, Parsing
<1>2. /\ ~c => IF PieceEnd = limit THEN Refuse ELSE Take(d) /\ NeedMore
      /\ c => /\ n = Bad => Refuse
              /\ n # Bad /\ n = End => Finish(d, Append(fs, b))
              /\ n # Bad /\ n # End =>
                   /\ begin' = begin + d /\ got' = <<>> /\ p' = n /\ fs' = Append(fs, b)
                   /\ UNCHANGED <<inputVars, end, reading, state, reader, t, limit, count, defs,
                                  done, malformed>>
  BY DEF Body, Taken, Grown
<1>3. Buffer /\ Delivered /\ InPayload
  BY <1>1 DEF FramingInv, Place
<1>4. /\ Len(done) < Len(sent) /\ t = This.content.t
      /\ f \in Seq(Seq(Nat)) /\ i \in 0..Len(f)
      /\ Boundary \in Nat /\ EndOf(f, i) \in Nat
      /\ begin = Boundary + 4 + EndOf(f, i) + Len(got)
      /\ got \in Seq(Nat) /\ begin \in Nat
      /\ PieceEnd \in Nat /\ PieceEnd <= Len(stream) /\ PieceEnd <= end
      /\ PieceEnd <= limit /\ (PieceEnd # limit => PieceEnd = end)
  BY <1>1, PayloadAt
<1>5. /\ limit = EndOf(Chunks(sent), Len(done) + 1)
      /\ p = SizeAfter(t, count, fs) /\ p # Bad /\ p # End /\ fs = SubSeq(f, 1, i)
      /\ \E k \in 0..Len(f) : Stops(This, count, k)
  BY <1>3 DEF InPayload
<1>6. /\ sent \in Streams /\ end \in Nat /\ end <= Len(stream)
  BY <1>3 DEF Buffer
<1>7. /\ EndOf(Chunks(sent), Len(done) + 1) \in Nat
      /\ Legal(This, reader, count, defs) /\ This.ok \in BOOLEAN
  <2>1. /\ EndOf(Chunks(sent), Len(done) + 1) = Boundary + 4 + Len(FlattenSeq(This.content.fs))
        /\ Len(FlattenSeq(This.content.fs)) \in Nat /\ Boundary \in Nat
        /\ Legal(This, reader, count, defs) /\ This.ok \in BOOLEAN
    BY <1>3, <1>4, ThisPacket
  <2> QED  BY <2>1
<1>8. PICK k \in 0..Len(f) : Stops(This, count, k)
  BY <1>5
<1>9. ASSUME NEW x \in 0..Len(f), Stops(This, count, x)
      PROVE  /\ d \in Nat /\ begin + d <= PieceEnd
             /\ b \in Seq(Nat) /\ Len(b) = Len(got) + d
             /\ c => i < x /\ b = f[i + 1]
             /\ ~c => /\ begin + d = PieceEnd /\ InField(f, x, i, b)
                      /\ PieceEnd = limit => ~This.ok
  <2>1. \E u, w :
             LET ff == This.content.fs
                 j == Len(fs)
             IN  /\ u = Taken(p, got, stream, begin, PieceEnd)
                 /\ w = Grown(p, got, stream, begin, PieceEnd)
                 /\ u \in Nat /\ begin + u <= PieceEnd
                 /\ w \in Seq(Nat) /\ Len(w) = Len(got) + u
                 /\ Complete(p, w, PieceEnd = limit) => j < x /\ w = ff[j + 1]
                 /\ ~Complete(p, w, PieceEnd = limit) =>
                      /\ begin + u = PieceEnd /\ InField(ff, x, j, w)
                      /\ PieceEnd = limit => ~This.ok
    BY <1>1, <1>9, FieldPiece
  <2> QED  BY <2>1, Zenon
<1> HIDE DEF d, b, n, i, c
<1>10. limit \in Nat
  BY <1>5, <1>7
<1>11. d \in Nat /\ begin + d <= PieceEnd /\ b \in Seq(Nat) /\ Len(b) = Len(got) + d
  BY <1>8, <1>9
<1>18. PICK g \in Nat : g = Len(got)
  BY <1>4
<1>19. PICK z \in Nat : z = EndOf(f, i)
  BY <1>4
<1>20. begin = Boundary + 4 + z + g /\ Len(b) = g + d /\ Boundary \in Nat /\ d \in Nat
  BY <1>4, <1>11, <1>18, <1>19
<1>21. i \in Nat /\ k \in Nat /\ i <= Len(f) /\ k <= Len(f) /\ Len(f) \in Nat
  <2>1. Len(f) \in Nat /\ i \in 0..Len(f)
    BY <1>4
  <2> HIDE DEF f
  <2> QED  BY <2>1
<1>22. \A j \in 1..Len(f) : f[j] \in Seq(Nat)
  <2>1. f \in Seq(Seq(Nat))
    BY <1>4
  <2> HIDE DEF f
  <2> QED  BY <2>1
<1>12. CASE ~c /\ PieceEnd = limit
  <2>1. Refuse /\ ~This.ok
    BY <1>2, <1>8, <1>9, <1>12
  <2>2. UNCHANGED <<sent, stream, end>>
    BY <2>1 DEF Refuse, inputVars
  <2> QED  BY <1>1, <2>1, <2>2, RefuseStep
<1>13. CASE ~c /\ PieceEnd # limit
  <2>1. /\ Take(d) /\ NeedMore
    BY <1>2, <1>13
  <2>2. /\ begin' = begin + d /\ got' = b /\ state' = state /\ reading' = TRUE /\ fs' = fs
        /\ t' = t /\ p' = p /\ limit' = limit /\ end' = end /\ Still
    BY <2>1 DEF Take, NeedMore, Still, b, d, Grown, inputVars
  <2>3. begin + d = end
    BY <1>4, <1>8, <1>9, <1>13
  <2>4. Buffer' /\ Delivered' /\ This' = This /\ Boundary' = Boundary /\ [F!Next]_(F!vars)
    <3>1. /\ begin' \in Nat /\ end' \in Nat /\ begin' <= end' /\ end' <= Len(stream)
          /\ begin' = end' /\ got' \in Seq(Nat)
      BY <1>6, <1>11, <2>2, <2>3
    <3>2. reading' \in BOOLEAN /\ state' \in {"length", "id", "payload"}
      BY <1>1, <2>2, Zenon
    <3> QED  BY <1>1, <1>3, <2>2, <3>1, <3>2, StillThere
  <2>5. begin' = Boundary + 4 + EndOf(f, i) + Len(b)
    <3>1. begin' = Boundary + 4 + z + Len(b)
      BY <1>20, <2>2
    <3> QED  BY <1>19, <3>1
  <2>6. \A x \in 0..Len(f) : Stops(This, count, x) => InField(f, x, i, b)
    BY <1>9, <1>13
  <2>7. InPayload'
    <3>1. count' = count /\ done' = done /\ sent' = sent
      BY <2>2 DEF Still, inputVars
    <3>2. begin' <= limit'
      BY <1>4, <1>10, <1>11, <2>2
    <3> QED  BY <1>4, <1>5, <1>8, <2>2, <2>4, <2>5, <2>6, <3>1, <3>2 DEF InPayload, i
  <2>8. Place'
    BY <1>1, <2>2, <2>7 DEF Place
  <2> QED  BY <2>4, <2>8 DEF Good, FramingInv
<1>14. ASSUME c
       PROVE  /\ i + 1 \in 0..Len(f) /\ Append(fs, b) = SubSeq(f, 1, i + 1) /\ i + 1 <= k
              /\ n = SizeAfter(t, count, SubSeq(f, 1, i + 1))
              /\ begin + d = Boundary + 4 + EndOf(f, i + 1)
              /\ \A x \in 0..Len(f) : Stops(This, count, x) => i + 1 <= x
  <2>1. i < k /\ b = f[i + 1] /\ \A x \in 0..Len(f) : Stops(This, count, x) => i < x
    BY <1>8, <1>9, <1>14
  <2>2. i \in Nat /\ i < Len(f) /\ i + 1 \in 1..Len(f) /\ f[i + 1] \in Seq(Nat)
    <3>1. i < Len(f) /\ i + 1 \in 1..Len(f)
      BY <1>21, <2>1
    <3> HIDE DEF f
    <3> QED  BY <1>21, <1>22, <3>1
  <2>3. Append(fs, b) = SubSeq(f, 1, i + 1)
    <3> DEFINE u == Append(fs, b)
               w == SubSeq(f, 1, i + 1)
    <3>1. /\ fs \in Seq(Seq(Nat)) /\ Len(fs) = i /\ \A j \in 1..i : fs[j] = f[j]
      BY <1>4, <1>5, FirstOnes
    <3>2. /\ w \in Seq(Seq(Nat)) /\ Len(w) = i + 1 /\ \A j \in 1..(i + 1) : w[j] = f[j]
      <4>1. i + 1 \in 0..Len(f)
        BY <1>21, <2>2
      <4> QED  BY <1>4, <4>1, FirstOnes
    <3>3. /\ u \in Seq(Seq(Nat)) /\ Len(u) = i + 1 /\ u[i + 1] = b
          /\ \A j \in 1..i : u[j] = fs[j]
      <4>1. b \in Seq(Nat)
        BY <1>11
      <4> HIDE DEF f
      <4> QED  BY <3>1, <4>1, AppendProperties
    <3> HIDE DEF u, w, f
    <3>4. ASSUME NEW j \in 1..(i + 1) PROVE u[j] = w[j]
      <4>1. j \in 1..i \/ j = i + 1
        BY <2>2
      <4> QED  BY <2>1, <3>1, <3>2, <3>3, <4>1
    <3>5. u = w
      BY <3>2, <3>3, <3>4, SeqEqual
    <3> QED  BY <3>5 DEF u, w
  <2>4. n = SizeAfter(t, count, SubSeq(f, 1, i + 1))
    <3>1. SubSeq(f, 1, i + 1) # <<>>
      <4>1. i + 1 \in 0..Len(f) /\ i + 1 # 0
        BY <1>21, <2>2
      <4>2. Len(SubSeq(f, 1, i + 1)) = i + 1
        BY <1>4, <4>1, FirstOnes
      <4>3. Len(<<>>) = 0
        OBVIOUS
      <4> QED  BY <4>1, <4>2, <4>3
    <3> QED  BY <2>3, <3>1 DEF SizeAfter, n
  <2>5. EndOf(f, i + 1) = EndOf(f, i) + Len(b)
    BY <1>4, <2>1, <2>2, EndOfNext
  <2>6. begin + d = Boundary + 4 + EndOf(f, i + 1)
    <3> QED  BY <1>19, <1>20, <2>5
  <2>7. \A x \in 0..Len(f) : i < x => i + 1 <= x
    BY <2>2
  <2> QED  BY <2>1, <2>2, <2>3, <2>4, <2>6, <2>7
<1>15. CASE c /\ n = Bad
  <2>1. Refuse
    BY <1>2, <1>15
  <2>2. ~This.ok
    <3> SUFFICES ASSUME This.ok PROVE FALSE
      OBVIOUS
    <3>1. Whole(t, count, f, k) /\ k = Len(f) /\ SizeAfter(t, count, f) = End
      BY <1>4, <1>7, <1>8, StopFacts
    <3>2. i + 1 <= k /\ n = SizeAfter(t, count, SubSeq(f, 1, i + 1)) /\ i + 1 \in Nat
      BY <1>14, <1>15, <1>21
    <3>3. CASE i + 1 = k
      <4>1. SubSeq(f, 1, i + 1) = f
        BY <1>4, <3>1, <3>3, SubSeqFull
      <4>2. Bad # End
        BY DEF Bad, End
      <4> HIDE DEF f
      <4>3. SizeAfter(t, count, SubSeq(f, 1, i + 1)) = End
        BY <3>1, <4>1
      <4> QED  BY <1>15, <3>2, <4>2, <4>3
    <3>4. CASE i + 1 < k
      BY <1>4, <1>15, <3>1, <3>2, <3>4, FieldEnds
    <3> QED  BY <1>21, <3>2, <3>3, <3>4
  <2>3. UNCHANGED <<sent, stream, end>>
    BY <2>1 DEF Refuse, inputVars
  <2> QED  BY <1>1, <2>1, <2>2, <2>3, RefuseStep
<1>16. CASE c /\ n # Bad /\ n = End
  <2>1. Finish(d, SubSeq(f, 1, i + 1))
    BY <1>2, <1>14, <1>16
  <2>2. SizeAfter(t, count, SubSeq(f, 1, i + 1)) = End
    BY <1>14, <1>16
  <2> HIDE DEF f
  <2> QED  BY <1>1, <1>8, <1>11, <1>14, <1>16, <2>1, <2>2, FinishStep DEF f
<1>17. CASE c /\ n # Bad /\ n # End
  <2>1. /\ begin' = begin + d /\ got' = <<>> /\ p' = n /\ fs' = SubSeq(f, 1, i + 1)
        /\ t' = t /\ state' = state /\ limit' = limit /\ reading' = reading /\ end' = end /\ Still
    BY <1>2, <1>14, <1>17 DEF Still
  <2>2. Buffer' /\ Delivered' /\ This' = This /\ Boundary' = Boundary /\ [F!Next]_(F!vars)
    <3>1. /\ begin' \in Nat /\ end' \in Nat /\ begin' <= end' /\ end' <= Len(stream)
      <4>1. /\ begin \in Nat /\ PieceEnd \in Nat /\ PieceEnd <= end /\ end \in Nat
            /\ end <= Len(stream) /\ d \in Nat /\ begin + d <= PieceEnd
        BY <1>4, <1>6, <1>11
      <4>2. begin' = begin + d /\ end' = end
        BY <2>1
      <4> QED  BY <4>1, <4>2
    <3>2. reading' \in BOOLEAN /\ ~reading' /\ state' \in {"length", "id", "payload"}
      BY <1>1, <1>3, <2>1, Zenon DEF Buffer
    <3>3. got' \in Seq(Nat)
      BY <2>1
    <3> QED  BY <1>1, <1>3, <2>1, <3>1, <3>2, <3>3, StillThere
  <2>3. InPayload'
    <3>1. Len(fs') = i + 1 /\ i + 1 \in 0..Len(f)
      BY <1>4, <1>14, <1>17, <2>1, FirstOnes
    <3>2. Len(<<>>) = 0 /\ begin' = Boundary + 4 + EndOf(f, i + 1) + 0
      BY <1>4, <1>11, <1>14, <1>17, <2>1
    <3>3. ASSUME NEW x \in 0..Len(f), Stops(This, count, x) PROVE InField(f, x, i + 1, <<>>)
      <4>1. i + 1 <= x
        BY <1>14, <1>17, <3>3
      <4>2. Begins(<<>>, Left(f, x))
        BY <1>4, LeftFacts DEF Begins
      <4>3. i + 1 # x => (i + 1) + 1 \in 1..Len(f)
        BY <1>21, <4>1
      <4>4. i + 1 # x => f[(i + 1) + 1] \in Seq(Nat)
        <5> HIDE DEF f
        <5> QED  BY <1>22, <4>3
      <4>5. i + 1 # x => Begins(<<>>, f[(i + 1) + 1])
                         /\ (Len(<<>>) < Len(f[(i + 1) + 1]) \/ f[(i + 1) + 1] = <<>>)
        BY <4>4 DEF Begins
      <4> QED  BY <4>1, <4>2, <4>5 DEF InField
    <3>4. count' = count /\ done' = done /\ sent' = sent
      BY <2>1 DEF Still, inputVars
    <3>5. p' = SizeAfter(t', count', fs')
      BY <1>14, <1>17, <2>1, <3>4
    <3>6. \A x \in 0..Len(f) : Stops(This', count', x) => InField(f, x, Len(fs'), got')
      BY <2>1, <2>2, <3>1, <3>3, <3>4
    <3>8. begin' <= limit'
      BY <1>4, <1>10, <1>11, <2>1
    <3>9. \E x \in 0..Len(f) : Stops(This', count', x)
      BY <1>8, <2>2, <3>4
    <3> HIDE DEF f
    <3>7. /\ begin' = Boundary' + 4 + EndOf(f, Len(fs')) + Len(got')
          /\ fs' = SubSeq(f, 1, Len(fs')) /\ Len(fs') \in 0..Len(f)
      BY <2>1, <2>2, <3>1, <3>2
    <3>10. Len(done') < Len(sent') /\ t' = This'.content.t
           /\ limit' = EndOf(Chunks(sent'), Len(done') + 1) /\ p' # Bad /\ p' # End
      BY <1>4, <1>5, <1>17, <2>1, <2>2, <3>4
    <3> QED  BY <2>2, <3>5, <3>6, <3>7, <3>8, <3>9, <3>10 DEF InPayload, f
  <2>4. Place'
    BY <1>1, <2>1, <2>3 DEF Place
  <2> QED  BY <2>2, <2>4 DEF Good, FramingInv
<1> QED  BY <1>12, <1>13, <1>15, <1>16, <1>17

-----------------------------------------------------------------------------
LEMMA Steps == ASSUME FramingInv, [Next]_vars PROVE Good
<1>1. CASE Next
  BY <1>1, ReadStep, DrainedStep, LengthStep, IdStep, ChooseStep, BodyStep DEF Next
<1>2. CASE UNCHANGED vars
  <2>1. /\ sent' = sent /\ stream' = stream /\ begin' = begin /\ end' = end /\ reading' = reading
        /\ state' = state /\ reader' = reader /\ t' = t /\ p' = p /\ got' = got /\ limit' = limit
        /\ fs' = fs /\ count' = count /\ defs' = defs /\ done' = done /\ malformed' = malformed
    BY <1>2 DEF vars, inputVars
  <2>2. This' = This /\ Boundary' = Boundary
    BY <2>1 DEF This, Boundary
  <2>3. Buffer' /\ Delivered'
    BY <2>1, <2>2 DEF FramingInv, Buffer, Delivered
  <2>4. Place'
    BY <2>1, <2>2 DEF FramingInv, Place, InLength, AtId, AtPayload, InPayload
  <2>5. UNCHANGED F!vars
    BY <2>1 DEF F!vars
  <2> QED  BY <2>3, <2>4, <2>5 DEF Good, FramingInv
<1> QED  BY <1>1, <1>2

(* The reader's invariant: where it is in the stream, in the packet and in *)
(* the field, whatever the reads cut up; and that what it expects next,    *)
(* the number of columns and how many of them are defined are what the     *)
(* packets delivered so far say. *)
THEOREM FramingIsInvariant == Spec => []FramingInv
<1>1. Init => FramingInv
  BY Start
<1>2. FramingInv /\ [Next]_vars => FramingInv'
  BY Steps DEF Good
<1> QED  BY <1>1, <1>2, PTL DEF Spec

(* A parser takes no byte of the next packet and leaves none of its own    *)
(* (basic_packet.hpp, feed), for every stream of packets and every way to  *)
(* cut it up. *)
THEOREM AlwaysOnBoundary == Spec => []OnPacketBoundary
<1>1. FramingInv => OnPacketBoundary
  <2> SUFFICES ASSUME FramingInv PROVE OnPacketBoundary
    OBVIOUS
  <2>1. Buffer /\ Delivered /\ Place
    BY DEF FramingInv
  <2>2. /\ sent \in Streams /\ Len(done) \in 0..Len(sent) /\ begin \in Nat
        /\ state \in {"length", "id", "payload"}
    BY <2>1 DEF Buffer, Delivered
  <2>3. Len(Sent(SubSeq(sent, 1, Len(done)))) = Boundary
    BY <2>2, After DEF Boundary
  <2>4. CASE state = "length"
    BY <2>1, <2>3, <2>4 DEF OnPacketBoundary, Place, InLength
  <2>5. CASE state # "length"
    <3>1. Len(done) < Len(sent)
      BY <2>1, <2>2, <2>5 DEF Place, AtId, AtPayload, InPayload
    <3>2. /\ Len(done) + 1 \in 1..Len(sent) /\ Boundary \in Nat
          /\ EndOf(Chunks(sent), Len(done) + 1) = Boundary + 4 + Len(FlattenSeq(This.content.fs))
          /\ Len(FlattenSeq(This.content.fs)) \in Nat
      BY <2>1, <3>1, ThisPacket
    <3>3. Len(done) + 1 \in 0..Len(sent)
      BY <3>2
    <3>4. Len(Sent(SubSeq(sent, 1, Len(done) + 1))) = EndOf(Chunks(sent), Len(done) + 1)
      BY <2>2, <3>3, After
    <3>5. begin \in Boundary..EndOf(Chunks(sent), Len(done) + 1)
      <4>0. PICK l \in Nat : l = Len(FlattenSeq(This.content.fs))
        BY <3>2
      <4>1. CASE state = "id"
        <5>1. begin = Boundary + 3
          BY <2>1, <4>1 DEF Place, AtId
        <5> QED  BY <3>2, <4>0, <5>1
      <4>2. CASE state = "payload" /\ t = "none"
        <5>1. begin = Boundary + 4
          BY <2>1, <4>2 DEF Place, AtPayload
        <5> QED  BY <3>2, <4>0, <5>1
      <4>3. CASE state = "payload" /\ t # "none"
        <5>1. /\ begin = Boundary + 4 + EndOf(This.content.fs, Len(fs)) + Len(got)
              /\ EndOf(This.content.fs, Len(fs)) \in Nat /\ got \in Seq(Nat)
          BY <4>3, PayloadAt
        <5>2. begin <= EndOf(Chunks(sent), Len(done) + 1)
          BY <2>1, <4>3 DEF Place, InPayload
        <5> QED  BY <3>2, <5>1, <5>2
      <4> QED  BY <2>2, <2>5, <4>1, <4>2, <4>3
    <3> QED  BY <2>3, <2>5, <3>4, <3>5 DEF OnPacketBoundary
  <2> QED  BY <2>4, <2>5
<1> QED  BY <1>1, FramingIsInvariant, PTL

(* What the reader delivers and refuses: the well-formed packets before    *)
(* the first ill-formed one, in order, each with the type and the bytes    *)
(* of every field it was sent with; and never more.  This is               *)
(* CutsDoNotMatter but for its fairness. *)
THEOREM ImplementsFrames == Spec => F!Init /\ [][F!Next]_(F!vars)
<1>1. Init => F!Init
  BY Start
<1>2. FramingInv /\ [Next]_vars => [F!Next]_(F!vars)
  BY Steps DEF Good
<1> QED  BY <1>1, <1>2, FramingIsInvariant, PTL DEF Spec
=============================================================================
