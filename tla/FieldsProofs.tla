---------------------------- MODULE FieldsProofs ----------------------------
(***************************************************************************)
(* Facts about the pieces the readers of both protocols are given: how the *)
(* bytes of a list of fields, or of a list of messages, lie one after the  *)
(* other, and what a field parser takes of a piece.                        *)
(***************************************************************************)
EXTENDS Fields, WellFoundedInduction, SequenceTheorems, TLAPS

-----------------------------------------------------------------------------
(* Induction, as a fact about sets of numbers. *)
LEMMA SetInduction ==
    ASSUME NEW P, 0 \in P, \A n \in Nat : n \in P => n + 1 \in P
    PROVE  \A n \in Nat : n \in P
<1> DEFINE R == OpToRel(<, Nat)
           T == Nat \ P
<1>1. IsWellFoundedOn(R, Nat)
  BY NatLessThanWellFounded
<1>2. \A x, y \in Nat : <<y, x>> \in R <=> y < x
  BY DEF OpToRel
<1> HIDE DEF R
<1> SUFFICES ASSUME T # {} PROVE FALSE
  OBVIOUS
<1>3. T \subseteq Nat
  OBVIOUS
<1>4. PICK x \in T : \A y \in T : ~(<<y, x>> \in R)
  BY <1>1, <1>3, WFMin
<1>5. x # 0 /\ x \in Nat /\ x - 1 \in Nat
  OBVIOUS
<1>6. <<x - 1, x>> \in R
  <2>1. x - 1 < x
    BY <1>5
  <2> QED  BY <1>2, <1>5, <2>1
<1>7. x - 1 \in P /\ (x - 1) + 1 = x
  BY <1>4, <1>5, <1>6
<1> QED  BY <1>5, <1>7

-----------------------------------------------------------------------------
(* FlattenSeq is defined by a function: it exists, and depends on no more  *)
(* of the list than it is given. *)
Flats(f, s, n) == f = [i \in 1..n |-> IF i = 1 THEN s[i] ELSE f[i - 1] \o s[i]]

LEMMA FlatsExist ==
    ASSUME NEW s, NEW n \in Nat
    PROVE  \E f : Flats(f, s, n)
<1> DEFINE P == {k \in Nat : \E f : Flats(f, s, k)}
<1>1. 0 \in P
  <2>1. 1..0 = {}
    OBVIOUS
  <2> DEFINE e == [i \in {} |-> i]
  <2>2. Flats(e, s, 0)
    BY <2>1 DEF Flats
  <2> QED  BY <2>2
<1>2. ASSUME NEW k \in Nat, k \in P PROVE k + 1 \in P
  <2>1. PICK f : Flats(f, s, k)
    BY <1>2
  <2> DEFINE v(i) == IF i <= k THEN f[i] ELSE IF i = 1 THEN s[i] ELSE f[k] \o s[i]
             g == [i \in 1..(k + 1) |-> v(i)]
  <2>2. ASSUME NEW i \in 1..(k + 1)
        PROVE  v(i) = IF i = 1 THEN s[i] ELSE g[i - 1] \o s[i]
    <3>1. CASE i = 1
      <4>1. i <= k => f[i] = s[i]
        BY <2>1, <3>1 DEF Flats
      <4> QED  BY <3>1, <4>1
    <3>2. CASE i # 1
      <4>1. i - 1 \in 1..k /\ i - 1 \in 1..(k + 1)
        BY <3>2
      <4>2. g[i - 1] = f[i - 1]
        BY <4>1
      <4>3. ASSUME i <= k PROVE f[i] = f[i - 1] \o s[i]
        <5>1. i \in 1..k
          BY <4>3
        <5> QED  BY <2>1, <3>2, <5>1 DEF Flats
      <4>4. ~(i <= k) => i - 1 = k
        OBVIOUS
      <4> QED  BY <3>2, <4>2, <4>3, <4>4
    <3> QED  BY <3>1, <3>2
  <2>3. Flats(g, s, k + 1)
    BY <2>2 DEF Flats
  <2> QED  BY <2>3
<1>3. \A k \in Nat : k \in P
  <2> HIDE DEF P
  <2> QED  BY <1>1, <1>2, SetInduction
<1> QED  BY <1>3

Agree(f, g, n) == \A i \in 1..n : f[i] = g[i]

LEMMA FlatsUnique ==
    ASSUME NEW n \in Nat, NEW m \in n..(n + 1), NEW s, NEW t, Agree(s, t, n),
           NEW f, Flats(f, s, n), NEW g, Flats(g, t, m)
    PROVE  Agree(f, g, n)
<1> DEFINE P == {k \in Nat : k \in 1..n => f[k] = g[k]}
<1>1. 0 \in P
  OBVIOUS
<1>2. ASSUME NEW k \in Nat, k \in P PROVE k + 1 \in P
  <2> SUFFICES ASSUME k + 1 \in 1..n PROVE f[k + 1] = g[k + 1]
    OBVIOUS
  <2>1. k + 1 \in 1..n /\ k + 1 \in 1..m /\ (k + 1) - 1 = k
    OBVIOUS
  <2>2. /\ f[k + 1] = IF k + 1 = 1 THEN s[k + 1] ELSE f[k] \o s[k + 1]
        /\ g[k + 1] = IF k + 1 = 1 THEN t[k + 1] ELSE g[k] \o t[k + 1]
    BY <2>1 DEF Flats
  <2>3. k # 0 => f[k] = g[k]
    BY <1>2
  <2>4. s[k + 1] = t[k + 1]
    BY DEF Agree
  <2>5. k + 1 = 1 <=> k = 0
    OBVIOUS
  <2> QED  BY <2>2, <2>3, <2>4, <2>5
<1>3. \A k \in Nat : k \in P
  <2> HIDE DEF P
  <2> QED  BY <1>1, <1>2, SetInduction
<1> QED  BY <1>3 DEF Agree

LEMMA FlattenIsFlats ==
    ASSUME NEW s, Len(s) \in Nat, Len(s) # 0
    PROVE  \E f : Flats(f, s, Len(s)) /\ FlattenSeq(s) = f[Len(s)]
<1> DEFINE C == CHOOSE f : Flats(f, s, Len(s))
<1>1. FlattenSeq(s) = C[Len(s)]
  BY DEF FlattenSeq, Flats
<1>2. \E f : Flats(f, s, Len(s))
  BY FlatsExist
<1>3. Flats(C, s, Len(s))
  BY <1>2, Zenon
<1> QED  BY <1>1, <1>3

(* The bytes of a list are those of its first elements, then those of the  *)
(* next one. *)
LEMMA FlattenNone == FlattenSeq(<<>>) = <<>>
<1>1. Len(<<>>) = 0
  OBVIOUS
<1> QED  BY <1>1 DEF FlattenSeq

LEMMA FirstOnes ==
    ASSUME NEW S, NEW s \in Seq(S), NEW k \in 0..Len(s)
    PROVE  /\ SubSeq(s, 1, k) \in Seq(S) /\ Len(SubSeq(s, 1, k)) = k
           /\ \A i \in 1..k : SubSeq(s, 1, k)[i] = s[i]
OBVIOUS

LEMMA FlattenNext ==
    ASSUME NEW S, NEW s \in Seq(Seq(S)), NEW k \in Nat, k < Len(s)
    PROVE  FlattenSeq(SubSeq(s, 1, k + 1)) = FlattenSeq(SubSeq(s, 1, k)) \o s[k + 1]
<1> DEFINE a == SubSeq(s, 1, k)
           b == SubSeq(s, 1, k + 1)
<1>1. Len(s) \in Nat /\ k \in 0..Len(s) /\ k + 1 \in 0..Len(s)
  OBVIOUS
<1>2. Len(a) = k /\ Len(b) = k + 1
      /\ (\A i \in 1..k : a[i] = s[i]) /\ (\A i \in 1..(k + 1) : b[i] = s[i])
  BY <1>1, FirstOnes
<1>3. s[k + 1] \in Seq(S)
  OBVIOUS
<1> HIDE DEF a, b
<1>4. PICK g : Flats(g, b, k + 1) /\ FlattenSeq(b) = g[k + 1]
  <2>1. Len(b) \in Nat /\ Len(b) # 0
    BY <1>2
  <2> QED  BY <1>2, <2>1, FlattenIsFlats
<1>5. g[k + 1] = IF k = 0 THEN s[k + 1] ELSE g[k] \o s[k + 1]
  <2>1. k + 1 \in 1..(k + 1) /\ (k + 1 = 1 <=> k = 0) /\ (k + 1) - 1 = k
    OBVIOUS
  <2>2. b[k + 1] = s[k + 1]
    BY <1>2, <2>1
  <2> QED  BY <1>4, <2>1, <2>2 DEF Flats
<1>6. CASE k = 0
  <2>1. a = <<>>
    BY <1>6 DEF a
  <2>2. <<>> \o s[k + 1] = s[k + 1]
    BY <1>3, ConcatEmptySeq
  <2> QED  BY <1>4, <1>5, <1>6, <2>1, <2>2, FlattenNone DEF a, b
<1>7. CASE k # 0
  <2>1. PICK f : Flats(f, a, k) /\ FlattenSeq(a) = f[k]
    BY <1>2, <1>7, FlattenIsFlats
  <2>2. Agree(a, b, k) /\ k + 1 \in k..(k + 1)
    <3>1. k + 1 \in k..(k + 1) /\ \A i \in 1..k : i \in 1..(k + 1)
      OBVIOUS
    <3>2. \A i \in 1..k : a[i] = b[i]
      BY <1>2, <3>1, Zenon
    <3> QED  BY <3>1, <3>2, Zenon DEF Agree
  <2>3. Agree(f, g, k)
    BY <1>4, <2>1, <2>2, FlatsUnique
  <2>4. f[k] = g[k]
    BY <1>7, <2>3 DEF Agree
  <2> QED  BY <1>4, <1>5, <1>7, <2>1, <2>4 DEF a, b
<1> QED  BY <1>6, <1>7

LEMMA FlattenType ==
    ASSUME NEW S, NEW s \in Seq(Seq(S)), NEW k \in 0..Len(s)
    PROVE  FlattenSeq(SubSeq(s, 1, k)) \in Seq(S)
<1> DEFINE P == {n \in Nat : n <= Len(s) => FlattenSeq(SubSeq(s, 1, n)) \in Seq(S)}
<1>1. 0 \in P
  <2>1. SubSeq(s, 1, 0) = <<>> /\ <<>> \in Seq(S)
    OBVIOUS
  <2> QED  BY <2>1, FlattenNone
<1>2. ASSUME NEW n \in Nat, n \in P PROVE n + 1 \in P
  <2> SUFFICES ASSUME n + 1 <= Len(s) PROVE FlattenSeq(SubSeq(s, 1, n + 1)) \in Seq(S)
    OBVIOUS
  <2>1. n < Len(s) /\ n <= Len(s) /\ s[n + 1] \in Seq(S)
    OBVIOUS
  <2>2. FlattenSeq(SubSeq(s, 1, n + 1)) = FlattenSeq(SubSeq(s, 1, n)) \o s[n + 1]
    BY <2>1, FlattenNext
  <2>3. FlattenSeq(SubSeq(s, 1, n)) \in Seq(S)
    BY <1>2, <2>1
  <2>4. FlattenSeq(SubSeq(s, 1, n)) \o s[n + 1] \in Seq(S)
    BY <2>1, <2>3, ConcatProperties, Zenon
  <2> QED  BY <2>2, <2>4, Zenon
<1>3. \A n \in Nat : n \in P
  <2> HIDE DEF P
  <2> QED  BY <1>1, <1>2, SetInduction
<1> QED  BY <1>3

(* Where the k-th element of a list ends in its bytes. *)
EndOf(s, k) == Len(FlattenSeq(SubSeq(s, 1, k)))

LEMMA EndOfType ==
    ASSUME NEW S, NEW s \in Seq(Seq(S))
    PROVE  /\ \A k \in 0..Len(s) : EndOf(s, k) \in Nat
           /\ EndOf(s, 0) = 0
           /\ FlattenSeq(s) \in Seq(S)
           /\ EndOf(s, Len(s)) = Len(FlattenSeq(s))
<1>1. \A k \in 0..Len(s) : EndOf(s, k) \in Nat
  BY FlattenType DEF EndOf
<1>2. SubSeq(s, 1, 0) = <<>> /\ SubSeq(s, 1, Len(s)) = s
  <2>1. SubSeq(s, 1, 0) = <<>>
    OBVIOUS
  <2> QED  BY <2>1, SubSeqFull
<1>3. EndOf(s, 0) = 0
  <2>1. Len(<<>>) = 0
    OBVIOUS
  <2> QED  BY <1>2, <2>1, FlattenNone DEF EndOf
<1>4. Len(s) \in 0..Len(s)
  OBVIOUS
<1>5. FlattenSeq(s) \in Seq(S)
  BY <1>2, <1>4, FlattenType
<1> QED  BY <1>1, <1>2, <1>3, <1>5 DEF EndOf

LEMMA EndOfNext ==
    ASSUME NEW S, NEW s \in Seq(Seq(S)), NEW k \in Nat, k < Len(s)
    PROVE  EndOf(s, k + 1) = EndOf(s, k) + Len(s[k + 1])
<1>1. k \in 0..Len(s) /\ s[k + 1] \in Seq(S)
  OBVIOUS
<1>2. FlattenSeq(SubSeq(s, 1, k)) \in Seq(S)
  BY <1>1, FlattenType
<1>3. FlattenSeq(SubSeq(s, 1, k + 1)) = FlattenSeq(SubSeq(s, 1, k)) \o s[k + 1]
  BY FlattenNext
<1>4. Len(FlattenSeq(SubSeq(s, 1, k)) \o s[k + 1])
        = Len(FlattenSeq(SubSeq(s, 1, k))) + Len(s[k + 1])
  BY <1>1, <1>2, ConcatProperties, Zenon
<1> QED  BY <1>3, <1>4, Zenon DEF EndOf

LEMMA JoinSecond ==
    ASSUME NEW S, NEW a \in Seq(S), NEW b \in Seq(S), NEW j \in 1..Len(b)
    PROVE  (a \o b)[Len(a) + j] = b[j]
<1>1. Len(a) \in Nat /\ Len(b) \in Nat
  OBVIOUS
<1>2. /\ Len(a) + j \in 1..(Len(a) + Len(b)) /\ ~(Len(a) + j <= Len(a))
      /\ (Len(a) + j) - Len(a) = j
  BY <1>1
<1>3. \A i \in 1..(Len(a) + Len(b)) :
        (a \o b)[i] = IF i <= Len(a) THEN a[i] ELSE b[i - Len(a)]
  BY ConcatProperties, Zenon
<1> QED  BY <1>2, <1>3

LEMMA FlattenPrefix ==
    ASSUME NEW S, NEW s \in Seq(Seq(S)), NEW k \in 0..Len(s), NEW m \in k..Len(s)
    PROVE  /\ EndOf(s, k) <= EndOf(s, m)
           /\ \A j \in 1..EndOf(s, k) :
                FlattenSeq(SubSeq(s, 1, m))[j] = FlattenSeq(SubSeq(s, 1, k))[j]
<1> DEFINE Same(n) == /\ EndOf(s, k) <= EndOf(s, n)
                      /\ \A j \in 1..EndOf(s, k) :
                           FlattenSeq(SubSeq(s, 1, n))[j] = FlattenSeq(SubSeq(s, 1, k))[j]
           P == {n \in Nat : n \in k..Len(s) => Same(n)}
<1>0. \A n \in 0..Len(s) : EndOf(s, n) \in Nat
  BY EndOfType
<1>1. ASSUME NEW n \in Nat, n \in k..Len(s), n + 1 \in k..Len(s), Same(n) PROVE Same(n + 1)
  <2>1. n < Len(s) /\ n \in 0..Len(s) /\ s[n + 1] \in Seq(S)
    BY <1>1
  <2>2. FlattenSeq(SubSeq(s, 1, n + 1)) = FlattenSeq(SubSeq(s, 1, n)) \o s[n + 1]
    BY <2>1, FlattenNext
  <2>3. EndOf(s, n + 1) = EndOf(s, n) + Len(s[n + 1]) /\ Len(s[n + 1]) \in Nat
    BY <2>1, EndOfNext
  <2>4. EndOf(s, n) \in Nat /\ EndOf(s, k) \in Nat
    BY <1>0, <2>1
  <2>5. FlattenSeq(SubSeq(s, 1, n)) \in Seq(S)
    BY <2>1, FlattenType
  <2>6. ASSUME NEW j \in 1..EndOf(s, n)
        PROVE  FlattenSeq(SubSeq(s, 1, n + 1))[j] = FlattenSeq(SubSeq(s, 1, n))[j]
    BY <2>1, <2>2, <2>5, <2>6, ConcatProperties DEF EndOf
  <2> QED  BY <1>1, <2>3, <2>4, <2>6
<1>2. 0 \in P
  <2>1. 0 \in k..Len(s) => k = 0
    OBVIOUS
  <2> QED  BY <1>0, <2>1
<1>3. ASSUME NEW n \in Nat, n \in P PROVE n + 1 \in P
  <2> SUFFICES ASSUME n + 1 \in k..Len(s) PROVE Same(n + 1)
    OBVIOUS
  <2>1. CASE n + 1 = k
    <3>1. EndOf(s, k) \in Nat
      BY <1>0
    <3> QED  BY <2>1, <3>1
  <2>2. CASE n + 1 # k
    <3>1. n \in k..Len(s)
      BY <2>2
    <3>2. Same(n)
      BY <1>3, <3>1
    <3> HIDE DEF Same
    <3> QED  BY <1>1, <3>1, <3>2
  <2> QED  BY <2>1, <2>2
<1>4. \A n \in Nat : n \in P
  <2> HIDE DEF P
  <2> QED  BY <1>2, <1>3, SetInduction
<1> QED  BY <1>4

(* The bytes of an element of a list, among those of the list. *)
LEMMA FlattenAt ==
    ASSUME NEW S, NEW s \in Seq(Seq(S)), NEW k \in Nat, k < Len(s)
    PROVE  /\ EndOf(s, k) \in Nat /\ EndOf(s, k + 1) \in Nat
           /\ EndOf(s, k + 1) = EndOf(s, k) + Len(s[k + 1])
           /\ EndOf(s, k + 1) <= Len(FlattenSeq(s))
           /\ \A j \in 1..Len(s[k + 1]) : FlattenSeq(s)[EndOf(s, k) + j] = s[k + 1][j]
<1>1. k \in 0..Len(s) /\ k + 1 \in 0..Len(s) /\ Len(s) \in (k + 1)..Len(s)
      /\ s[k + 1] \in Seq(S) /\ Len(s[k + 1]) \in Nat
  OBVIOUS
<1>2. EndOf(s, k) \in Nat /\ EndOf(s, k + 1) \in Nat
      /\ EndOf(s, Len(s)) = Len(FlattenSeq(s)) /\ SubSeq(s, 1, Len(s)) = s
  BY <1>1, EndOfType, SubSeqFull
<1>3. EndOf(s, k + 1) = EndOf(s, k) + Len(s[k + 1])
  BY EndOfNext
<1>4. /\ EndOf(s, k + 1) <= EndOf(s, Len(s))
      /\ \A j \in 1..EndOf(s, k + 1) :
           FlattenSeq(SubSeq(s, 1, Len(s)))[j] = FlattenSeq(SubSeq(s, 1, k + 1))[j]
  BY <1>1, FlattenPrefix
<1>5. FlattenSeq(SubSeq(s, 1, k)) \in Seq(S)
  BY <1>1, FlattenType
<1>6. FlattenSeq(SubSeq(s, 1, k + 1)) = FlattenSeq(SubSeq(s, 1, k)) \o s[k + 1]
  BY FlattenNext
<1>7. ASSUME NEW j \in 1..Len(s[k + 1])
      PROVE  FlattenSeq(s)[EndOf(s, k) + j] = s[k + 1][j]
  <2>1. EndOf(s, k) + j \in 1..EndOf(s, k + 1)
    BY <1>1, <1>2, <1>3
  <2>2. FlattenSeq(SubSeq(s, 1, k + 1))[EndOf(s, k) + j] = s[k + 1][j]
    <3>1. Len(FlattenSeq(SubSeq(s, 1, k))) = EndOf(s, k)
      BY DEF EndOf
    <3>2. (FlattenSeq(SubSeq(s, 1, k)) \o s[k + 1])[Len(FlattenSeq(SubSeq(s, 1, k))) + j]
            = s[k + 1][j]
      BY <1>1, <1>5, <1>7, JoinSecond, Zenon
    <3> QED  BY <1>6, <3>1, <3>2, Zenon
  <2> QED  BY <1>2, <1>4, <2>1, <2>2
<1> QED  BY <1>2, <1>3, <1>4, <1>7

-----------------------------------------------------------------------------
(* What a field parser takes of a piece w when it has g already: what is   *)
(* missing of the field f, or all of it. *)
(* w goes on where g left f, perhaps beyond f. *)
Continues(w, f, g) == \A j \in 1..Len(w) : Len(g) + j <= Len(f) => w[j] = f[Len(g) + j]

Begins(a, b) == Len(a) <= Len(b) /\ \A i \in 1..Len(a) : a[i] = b[i]

LEMMA TargetType == \A x : Target(x) \in Nat
BY DEF Target

LEMMA SizesApart == CStr # LenInt /\ CStr # Rest /\ LenInt # Rest /\ {CStr, LenInt, Rest} \cap Nat = {}
BY DEF CStr, LenInt, Rest

LEMMA StringLenWhole ==
    ASSUME NEW f \in Seq(Nat), WholeField(CStr, f), NEW g \in Seq(Nat), Begins(g, f),
           Len(g) < Len(f), NEW w \in Seq(Nat),
           Continues(w, f, g)
    PROVE  StringLen(w) = Smaller(Len(f) - Len(g), Len(w))
<1>7. Len(f) - Len(g) \in Nat
  OBVIOUS
<1>8. PICK d \in Nat : d = Len(f) - Len(g)
  BY <1>7
<1>1. Len(f) \in Nat /\ Len(g) \in Nat /\ Len(w) \in Nat /\ d \in Nat /\ d > 0
      /\ Len(g) + d = Len(f)
  BY <1>8
<1>2. f[Len(f)] = 0 /\ \A i \in 1..(Len(f) - 1) : f[i] # 0
  BY SizesApart DEF WholeField
<1>3. ASSUME NEW j \in 1..Len(w), j < d PROVE w[j] # 0
  <2>1. Len(g) + j \in 1..(Len(f) - 1) /\ Len(g) + j <= Len(f)
    BY <1>1, <1>3
  <2> QED  BY <1>2, <2>1 DEF Continues
<1>4. ASSUME d <= Len(w) PROVE w[d] = 0 /\ d \in 1..Len(w)
  <2>1. d \in 1..Len(w)
    BY <1>1, <1>4
  <2>2. w[d] = f[Len(g) + d]
    BY <1>1, <2>1 DEF Continues
  <2>3. f[Len(g) + d] = f[Len(f)]
    BY <1>1
  <2> QED  BY <1>2, <2>1, <2>2, <2>3
<1>5. CASE d <= Len(w)
  <2> DEFINE Q(i) == w[i] = 0 /\ \A j \in 1..(i - 1) : w[j] # 0
             c == CHOOSE i \in 1..Len(w) : Q(i)
  <2>1. w[d] = 0 /\ d \in 1..Len(w)
    BY <1>4, <1>5
  <2>2. Q(d)
    BY <1>1, <1>3, <1>5, <2>1
  <2>3. c \in 1..Len(w) /\ Q(c)
    <3> HIDE DEF Q
    <3> QED  BY <2>1, <2>2
  <2>4. ~(c < d) /\ ~(d < c)
    <3>1. c < d => w[c] # 0
      BY <1>3, <2>3
    <3>2. d < c => d \in 1..(c - 1)
      BY <2>1, <2>3
    <3> QED  BY <2>1, <2>3, <3>1, <3>2
  <2>5. c = d
    BY <1>1, <2>1, <2>3, <2>4
  <2>6. StringLen(w) = c
    BY <2>1 DEF StringLen
  <2> QED  BY <1>5, <1>8, <2>5, <2>6 DEF Smaller
<1>6. CASE ~(d <= Len(w))
  <2>1. ~ \E i \in 1..Len(w) : w[i] = 0
    BY <1>1, <1>3, <1>6
  <2>2. StringLen(w) = Len(w)
    BY <2>1 DEF StringLen
  <2> QED  BY <1>6, <1>8, <2>2 DEF Smaller
<1> QED  BY <1>5, <1>6

LEMMA ShareWhole ==
    ASSUME NEW n, n # Rest, NEW f \in Seq(Nat), WholeField(n, f),
           NEW g \in Seq(Nat), Begins(g, f), Len(g) < Len(f) \/ f = <<>>,
           NEW w \in Seq(Nat),
           Continues(w, f, g)
    PROVE  Share(n, g, w) = Smaller(Len(f) - Len(g), Len(w))
<1>0. Len(f) \in Nat /\ Len(g) \in Nat /\ Len(w) \in Nat /\ Len(g) <= Len(f)
      /\ (\A s \in Seq(Nat) : s = <<>> <=> Len(s) = 0)
  BY DEF Begins
<1>1. CASE n = CStr
  <2>1. WholeField(CStr, f) /\ Len(g) < Len(f)
    BY <1>1, SizesApart DEF WholeField
  <2>2. Share(n, g, w) = StringLen(w)
    BY <1>1, SizesApart DEF Share
  <2> QED  BY <2>1, <2>2, StringLenWhole
<1>2. CASE n = LenInt
  <2>1. f # <<>> /\ Len(f) = 1 + Target(f[1]) /\ 1 \in 1..Len(f)
    BY <1>0, <1>2, SizesApart DEF WholeField
  <2>2. Share(n, g, w) = LenIntLen(g, w)
    BY <1>2, SizesApart DEF Share
  <2>3. CASE g # <<>>
    <3>1. g[1] = f[1]
      BY <1>0, <2>3 DEF Begins
    <3>2. LenIntLen(g, w) = Smaller(1 + Target(f[1]) - Len(g), Len(w))
      BY <2>3, <3>1 DEF LenIntLen
    <3>4. PICK c \in Nat : c = Target(f[1])
      BY TargetType
    <3>3. 1 + Target(f[1]) - Len(g) = Len(f) - Len(g)
      BY <1>0, <2>1, <3>4
    <3> QED  BY <2>2, <3>2, <3>3
  <2>4. CASE g = <<>> /\ w = <<>>
    BY <1>0, <2>2, <2>4 DEF LenIntLen, Smaller
  <2>5. CASE g = <<>> /\ w # <<>>
    <3>1. Len(g) = 0 /\ 1 \in 1..Len(w) /\ Len(g) + 1 = 1 /\ 1 <= Len(f)
      BY <1>0, <2>1, <2>5
    <3>2. w[1] = f[1]
      BY <3>1 DEF Continues
    <3>3. LenIntLen(g, w) = Smaller(1 + Target(f[1]), Len(w))
      BY <2>5, <3>2 DEF LenIntLen
    <3> QED  BY <1>0, <2>1, <2>2, <3>1, <3>3
  <2> QED  BY <2>3, <2>4, <2>5
<1>3. CASE n # CStr /\ n # LenInt
  BY <1>3 DEF Share, WholeField
<1> QED  BY <1>1, <1>2, <1>3

LEMMA CompleteWhole ==
    ASSUME NEW n, n # Rest, NEW f \in Seq(Nat), WholeField(n, f),
           NEW g \in Seq(Nat), Begins(g, f), NEW x
    PROVE  Complete(n, g, x) <=> Len(g) = Len(f)
<1>0. Len(f) \in Nat /\ Len(g) \in Nat /\ Len(g) <= Len(f)
      /\ (\A s \in Seq(Nat) : s = <<>> <=> Len(s) = 0)
      /\ (g # <<>> => Len(g) \in 1..Len(g) /\ 1 \in 1..Len(g))
  BY DEF Begins
<1>1. CASE n = CStr
  <2>1. f # <<>> /\ f[Len(f)] = 0 /\ \A i \in 1..(Len(f) - 1) : f[i] # 0
    BY <1>1, SizesApart DEF WholeField
  <2>2. Complete(n, g, x) <=> g # <<>> /\ g[Len(g)] = 0
    BY <1>1, SizesApart DEF Complete
  <2>3. g # <<>> => g[Len(g)] = f[Len(g)]
    BY <1>0 DEF Begins
  <2>4. g # <<>> /\ Len(g) # Len(f) => Len(g) \in 1..(Len(f) - 1)
    BY <1>0
  <2>5. Len(g) = Len(f) => g # <<>>
    BY <1>0, <2>1
  <2> QED  BY <2>1, <2>2, <2>3, <2>4, <2>5
<1>2. CASE n = LenInt
  <2>1. f # <<>> /\ Len(f) = 1 + Target(f[1])
    BY <1>2, SizesApart DEF WholeField
  <2>2. Complete(n, g, x) <=> g # <<>> /\ Len(g) = 1 + Target(g[1])
    BY <1>2, SizesApart DEF Complete
  <2>3. g # <<>> => g[1] = f[1]
    BY <1>0 DEF Begins
  <2>5. Len(g) = Len(f) => g # <<>>
    BY <1>0, <2>1
  <2> QED  BY <2>1, <2>2, <2>3, <2>5
<1>3. CASE n # CStr /\ n # LenInt
  BY <1>3 DEF Complete, WholeField
<1> QED  BY <1>1, <1>2, <1>3

LEMMA ShareShort ==
    ASSUME NEW n, NEW f \in Seq(Nat), TooShort(n, f), NEW g \in Seq(Nat), Begins(g, f),
           NEW w \in Seq(Nat), Len(g) + Len(w) <= Len(f),
           \A j \in 1..Len(w) : w[j] = f[Len(g) + j]
    PROVE  Share(n, g, w) = Len(w)
<1>0. Len(f) \in Nat /\ Len(g) \in Nat /\ Len(w) \in Nat
      /\ (\A s \in Seq(Nat) : s = <<>> <=> Len(s) = 0)
  OBVIOUS
<1>1. CASE n = CStr
  <2>1. \A i \in 1..Len(f) : f[i] # 0
    BY <1>1, SizesApart DEF TooShort
  <2>2. \A j \in 1..Len(w) : Len(g) + j \in 1..Len(f)
    BY <1>0
  <2>3. StringLen(w) = Len(w)
    BY <2>1, <2>2 DEF StringLen
  <2> QED  BY <1>1, <2>3, SizesApart DEF Share
<1>2. CASE n = LenInt
  <2>1. f = <<>> \/ Len(f) < 1 + Target(f[1])
    BY <1>2, SizesApart DEF TooShort
  <2>2. Share(n, g, w) = LenIntLen(g, w)
    BY <1>2, SizesApart DEF Share
  <2>3. CASE g # <<>>
    <3>1. g[1] = f[1] /\ f # <<>>
      BY <1>0, <2>3 DEF Begins
    <3>2. Smaller(1 + Target(f[1]) - Len(g), Len(w)) = Len(w)
      BY <1>0, <2>1, <3>1, TargetType DEF Smaller
    <3> QED  BY <2>2, <2>3, <3>1, <3>2 DEF LenIntLen
  <2>4. CASE g = <<>> /\ w = <<>>
    BY <1>0, <2>2, <2>4 DEF LenIntLen
  <2>5. CASE g = <<>> /\ w # <<>>
    <3>1. Len(g) = 0 /\ 1 \in 1..Len(w) /\ Len(g) + 1 = 1 /\ f # <<>>
      BY <1>0, <2>5
    <3>2. w[1] = f[1]
      BY <3>1
    <3>3. Smaller(1 + Target(f[1]), Len(w)) = Len(w)
      BY <1>0, <2>1, <3>1, TargetType DEF Smaller
    <3> QED  BY <2>2, <2>5, <3>2, <3>3 DEF LenIntLen
  <2> QED  BY <2>3, <2>4, <2>5
<1>3. CASE n # CStr /\ n # LenInt
  <2>1. n # Rest /\ n \in Nat /\ Len(f) < n
    BY <1>3, SizesApart DEF TooShort
  <2>2. Share(n, g, w) = Smaller(n - Len(g), Len(w))
    BY <1>3, <2>1 DEF Share
  <2> QED  BY <1>0, <2>1, <2>2 DEF Smaller
<1> QED  BY <1>1, <1>2, <1>3

LEMMA CompleteShort ==
    ASSUME NEW n, NEW f \in Seq(Nat), TooShort(n, f), NEW g \in Seq(Nat), Begins(g, f), NEW x
    PROVE  ~Complete(n, g, x)
<1>0. Len(f) \in Nat /\ Len(g) \in Nat /\ Len(g) <= Len(f)
      /\ (\A s \in Seq(Nat) : s = <<>> <=> Len(s) = 0)
      /\ (g # <<>> => Len(g) \in 1..Len(g) /\ 1 \in 1..Len(g) /\ f # <<>>)
  BY DEF Begins
<1>1. CASE n = CStr
  <2>1. \A i \in 1..Len(f) : f[i] # 0
    BY <1>1, SizesApart DEF TooShort
  <2>2. Complete(n, g, x) <=> g # <<>> /\ g[Len(g)] = 0
    BY <1>1, SizesApart DEF Complete
  <2>3. g # <<>> => g[Len(g)] = f[Len(g)] /\ Len(g) \in 1..Len(f)
    BY <1>0 DEF Begins
  <2> QED  BY <2>1, <2>2, <2>3
<1>2. CASE n = LenInt
  <2>1. f = <<>> \/ Len(f) < 1 + Target(f[1])
    BY <1>2, SizesApart DEF TooShort
  <2>2. Complete(n, g, x) <=> g # <<>> /\ Len(g) = 1 + Target(g[1])
    BY <1>2, SizesApart DEF Complete
  <2>3. g # <<>> => g[1] = f[1]
    BY <1>0 DEF Begins
  <2> QED  BY <1>0, <2>1, <2>2, <2>3, TargetType
<1>3. CASE n # CStr /\ n # LenInt
  <2>1. n # Rest /\ n \in Nat /\ Len(f) < n
    BY <1>3, SizesApart DEF TooShort
  <2>2. Complete(n, g, x) <=> Len(g) = n
    BY <1>3, <2>1 DEF Complete
  <2> QED  BY <1>0, <2>1, <2>2
<1> QED  BY <1>1, <1>2, <1>3

-----------------------------------------------------------------------------
(* What g lacks of f begins after byte a of s. *)
Follows(s, a, f, g) == \A j \in 1..(Len(f) - Len(g)) : s[a + j] = f[Len(g) + j]

(* A parser at byte a + 1 of s, of which the reader has the bytes up to e: *)
(* what the field has then, and where the parser is. *)
LEMMA PieceFacts ==
    ASSUME NEW s \in Seq(Nat), NEW a \in Nat, NEW e \in Nat, a <= e, e <= Len(s)
    PROVE  /\ SubSeq(s, a + 1, e) \in Seq(Nat) /\ Len(SubSeq(s, a + 1, e)) = e - a
           /\ \A j \in 1..(e - a) : SubSeq(s, a + 1, e)[j] = s[a + j]
<1>1. \A i \in (a + 1)..e : s[i] \in Nat
  OBVIOUS
<1>2. a + 1 \in Int /\ e \in Int
  OBVIOUS
<1>3. /\ SubSeq(s, a + 1, e) \in Seq(Nat)
      /\ Len(SubSeq(s, a + 1, e)) = IF a + 1 <= e THEN e - (a + 1) + 1 ELSE 0
      /\ \A j \in 1..(e - (a + 1) + 1) : SubSeq(s, a + 1, e)[j] = s[(a + 1) + j - 1]
  BY <1>1, <1>2, SubSeqProperties
<1> QED  BY <1>3

(* The bytes after the k-th field. *)
LEMMA LeftFacts ==
    ASSUME NEW f \in Seq(Seq(Nat)), NEW k \in 0..Len(f)
    PROVE  /\ Left(f, k) \in Seq(Nat) /\ EndOf(f, k) \in Nat /\ Len(FlattenSeq(f)) \in Nat
           /\ EndOf(f, k) <= Len(FlattenSeq(f))
           /\ Len(Left(f, k)) = Len(FlattenSeq(f)) - EndOf(f, k)
           /\ \A j \in 1..Len(Left(f, k)) : Left(f, k)[j] = FlattenSeq(f)[EndOf(f, k) + j]
<1>1. EndOf(f, k) \in Nat /\ FlattenSeq(f) \in Seq(Nat) /\ EndOf(f, Len(f)) = Len(FlattenSeq(f))
  BY EndOfType
<1>2. Len(FlattenSeq(f)) \in Nat /\ Len(f) \in k..Len(f)
  BY <1>1
<1>3. EndOf(f, k) <= Len(FlattenSeq(f))
  BY <1>1, <1>2, FlattenPrefix
<1> DEFINE b == FlattenSeq(f)
           a == EndOf(f, k)
           e == Len(b)
<1>4. /\ SubSeq(b, a + 1, e) \in Seq(Nat)
      /\ Len(SubSeq(b, a + 1, e)) = e - a
      /\ \A j \in 1..(e - a) : SubSeq(b, a + 1, e)[j] = b[a + j]
  <2>1. b \in Seq(Nat) /\ a \in Nat /\ e \in Nat /\ a <= e /\ e <= Len(b)
    BY <1>1, <1>2, <1>3
  <2> HIDE DEF a, b, e
  <2> QED  BY <2>1, PieceFacts
<1>5. Left(f, k) = SubSeq(FlattenSeq(f), EndOf(f, k) + 1, Len(FlattenSeq(f)))
  BY DEF Left, EndOf
<1> QED  BY <1>1, <1>2, <1>3, <1>4, <1>5

LEMMA Joined ==
    ASSUME NEW f \in Seq(Nat), NEW g \in Seq(Nat), Begins(g, f), NEW s \in Seq(Nat),
           NEW a \in Nat, NEW k \in Nat, a + k <= Len(s), Len(g) + k <= Len(f),
           Follows(s, a, f, g)
    PROVE  /\ g \o SubSeq(s, a + 1, a + k) \in Seq(Nat)
           /\ Len(g \o SubSeq(s, a + 1, a + k)) = Len(g) + k
           /\ Begins(g \o SubSeq(s, a + 1, a + k), f)
<1> DEFINE v == SubSeq(s, a + 1, a + k)
<1>1. v \in Seq(Nat) /\ Len(v) = k /\ \A j \in 1..k : v[j] = s[a + j]
  <2> HIDE DEF v
  <2>1. a + k \in Nat /\ a <= a + k /\ (a + k) - a = k
    OBVIOUS
  <2>2. /\ SubSeq(s, a + 1, a + k) \in Seq(Nat) /\ Len(SubSeq(s, a + 1, a + k)) = (a + k) - a
        /\ \A j \in 1..((a + k) - a) : SubSeq(s, a + 1, a + k)[j] = s[a + j]
    BY <2>1, PieceFacts, Zenon
  <2>3. /\ SubSeq(s, a + 1, a + k) \in Seq(Nat) /\ Len(SubSeq(s, a + 1, a + k)) = k
        /\ \A j \in 1..k : SubSeq(s, a + 1, a + k)[j] = s[a + j]
    BY <2>1, <2>2, Zenon
  <2> QED  BY <2>3, Zenon DEF v
<1>2. Len(f) \in Nat /\ Len(g) \in Nat
  OBVIOUS
<1> HIDE DEF v
<1>3. /\ g \o v \in Seq(Nat) /\ Len(g \o v) = Len(g) + k
      /\ \A i \in 1..(Len(g) + k) : (g \o v)[i] = IF i <= Len(g) THEN g[i] ELSE v[i - Len(g)]
  BY <1>1, ConcatProperties
<1>4. ASSUME NEW i \in 1..(Len(g) + k) PROVE (g \o v)[i] = f[i]
  <2>1. CASE i <= Len(g)
    <3>1. i \in 1..Len(g)
      BY <1>2, <2>1
    <3>2. (g \o v)[i] = g[i]
      BY <1>3, <2>1
    <3>3. g[i] = f[i]
      BY <3>1 DEF Begins
    <3> QED  BY <3>2, <3>3
  <2>2. CASE ~(i <= Len(g))
    <3>1. PICK j \in 1..k : i = Len(g) + j
      <4>1. i - Len(g) \in 1..k /\ i = Len(g) + (i - Len(g))
        BY <1>2, <2>2
      <4> QED  BY <4>1
    <3>2. j \in 1..(Len(f) - Len(g)) /\ i - Len(g) = j
      BY <1>2, <3>1
    <3>3. v[j] = s[a + j] /\ s[a + j] = f[Len(g) + j]
      BY <1>1, <3>2 DEF Follows
    <3>4. (g \o v)[i] = v[j]
      BY <1>3, <2>2, <3>2
    <3> QED  BY <3>1, <3>3, <3>4
  <2> QED  BY <2>1, <2>2
<1>5. Begins(g \o v, f)
  BY <1>2, <1>3, <1>4 DEF Begins
<1> QED  BY <1>3, <1>5 DEF v

LEMMA BeginsAll ==
    ASSUME NEW f \in Seq(Nat), NEW g \in Seq(Nat), Begins(g, f), Len(g) = Len(f)
    PROVE  g = f
BY SeqEqual DEF Begins

(* How much a parser takes, and what the field has then. *)
Taken(n, g, s, a, e) == Share(n, g, SubSeq(s, a + 1, e))
Grown(n, g, s, a, e) == g \o SubSeq(s, a + 1, a + Taken(n, g, s, a, e))

TakesOf(n, f, g, s, a, e, k, b) ==
    /\ k = Taken(n, g, s, a, e) /\ b = Grown(n, g, s, a, e)
    /\ k \in Nat /\ a + k <= e /\ b \in Seq(Nat) /\ Len(b) = Len(g) + k
    /\ Begins(b, f)
    /\ \A x : Complete(n, b, x) <=> Len(b) = Len(f)
    /\ Len(b) = Len(f) => b = f
    /\ Len(b) # Len(f) => Len(b) < Len(f) /\ a + k = e

LEMMA TakeWhole ==
    ASSUME NEW n, n # Rest, NEW f \in Seq(Nat), WholeField(n, f),
           NEW g \in Seq(Nat), Begins(g, f), Len(g) < Len(f) \/ f = <<>>,
           NEW s \in Seq(Nat), NEW a \in Nat, NEW e \in Nat, a <= e, e <= Len(s),
           Follows(s, a, f, g)
    PROVE  \E k, b : TakesOf(n, f, g, s, a, e, k, b)
<1> DEFINE w == SubSeq(s, a + 1, e)
<1>1. w \in Seq(Nat) /\ Len(w) = e - a /\ \A j \in 1..(e - a) : w[j] = s[a + j]
  BY PieceFacts
<1> HIDE DEF w
<1>2. Len(f) \in Nat /\ Len(g) \in Nat /\ Len(g) <= Len(f) /\ Len(w) \in Nat /\ Len(s) \in Nat
  <2>1. Len(f) \in Nat /\ Len(g) \in Nat /\ Len(s) \in Nat
    OBVIOUS
  <2>2. Len(w) \in Nat
    BY <1>1
  <2>3. Len(g) <= Len(f)
    BY DEF Begins
  <2> QED  BY <2>1, <2>2, <2>3
<1>3. ASSUME NEW j \in 1..Len(w), Len(g) + j <= Len(f) PROVE w[j] = f[Len(g) + j]
  <2>1. j \in 1..(e - a) /\ j \in 1..(Len(f) - Len(g))
    BY <1>1, <1>2, <1>3
  <2> QED  BY <1>1, <2>1 DEF Follows
<1>9. PICK k : k = Share(n, g, w)
  OBVIOUS
<1>10. PICK b : b = g \o SubSeq(s, a + 1, a + k)
  OBVIOUS
<1>4. k = Smaller(Len(f) - Len(g), Len(w))
  <2>2. Continues(w, f, g)
    BY <1>3 DEF Continues
  <2>1. Share(n, g, w) = Smaller(Len(f) - Len(g), Len(w))
    BY <1>1, <2>2, ShareWhole
  <2> QED  BY <1>9, <2>1
<1>5. /\ k \in Nat /\ a + k <= e /\ Len(g) + k <= Len(f)
      /\ Len(g) + k # Len(f) => a + k = e
  <2>1. PICK x \in Nat : x = Len(f)
    BY <1>2
  <2>2. PICK y \in Nat : y = Len(g)
    BY <1>2
  <2>3. k = IF x - y <= e - a THEN x - y ELSE e - a
    BY <1>1, <1>4, <2>1, <2>2 DEF Smaller
  <2>4. y <= x
    BY <1>2, <2>1, <2>2
  <2>5. k \in Nat /\ a + k <= e /\ y + k <= x /\ (y + k # x => a + k = e)
    BY <2>3, <2>4
  <2> QED  BY <2>1, <2>2, <2>5
<1>6. b \in Seq(Nat) /\ Len(b) = Len(g) + k /\ Begins(b, f)
  <2>1. a + k <= Len(s)
    BY <1>2, <1>5
  <2> DEFINE v == g \o SubSeq(s, a + 1, a + k)
  <2>2. v \in Seq(Nat) /\ Len(v) = Len(g) + k /\ Begins(v, f)
    BY <1>5, <2>1, Joined
  <2>3. b = v
    BY <1>10
  <2> HIDE DEF v
  <2> QED  BY <2>2, <2>3
<1>7. \A x : Complete(n, b, x) <=> Len(b) = Len(f)
  BY <1>6, CompleteWhole
<1>8. Len(b) = Len(f) => b = f
  BY <1>6, BeginsAll
<1>11. k = Taken(n, g, s, a, e) /\ b = Grown(n, g, s, a, e)
  BY <1>9, <1>10 DEF Taken, Grown, w
<1>12. Len(b) # Len(f) => Len(b) < Len(f) /\ a + k = e
  BY <1>2, <1>5, <1>6
<1>13. TakesOf(n, f, g, s, a, e, k, b)
  BY <1>5, <1>6, <1>7, <1>8, <1>11, <1>12 DEF TakesOf
<1> QED  BY <1>13

LEMMA TakeShort ==
    ASSUME NEW n, NEW f \in Seq(Nat), TooShort(n, f), NEW g \in Seq(Nat), Begins(g, f),
           NEW s \in Seq(Nat), NEW a \in Nat, NEW e \in Nat, a <= e, e <= Len(s),
           e <= a + (Len(f) - Len(g)),
           Follows(s, a, f, g)
    PROVE  \E k, b :
             /\ k = Taken(n, g, s, a, e) /\ b = Grown(n, g, s, a, e)
             /\ k \in Nat /\ a + k = e /\ b \in Seq(Nat) /\ Len(b) = Len(g) + k
             /\ Begins(b, f)
             /\ \A x : ~Complete(n, b, x)
<1> DEFINE w == SubSeq(s, a + 1, e)
<1>1. w \in Seq(Nat) /\ Len(w) = e - a /\ \A j \in 1..(e - a) : w[j] = s[a + j]
  BY PieceFacts
<1> HIDE DEF w
<1>2. Len(f) \in Nat /\ Len(g) \in Nat /\ Len(g) <= Len(f) /\ Len(w) \in Nat /\ Len(s) \in Nat
  <2>1. Len(f) \in Nat /\ Len(g) \in Nat /\ Len(s) \in Nat
    OBVIOUS
  <2>2. Len(w) \in Nat
    BY <1>1
  <2>3. Len(g) <= Len(f)
    BY DEF Begins
  <2> QED  BY <2>1, <2>2, <2>3
<1>3. ASSUME NEW j \in 1..Len(w) PROVE w[j] = f[Len(g) + j]
  <2>1. j \in 1..(e - a) /\ j \in 1..(Len(f) - Len(g))
    BY <1>1, <1>2
  <2> QED  BY <1>1, <2>1 DEF Follows
<1>9. PICK k : k = Share(n, g, w)
  OBVIOUS
<1>10. PICK b : b = g \o SubSeq(s, a + 1, a + k)
  OBVIOUS
<1>4. k = Len(w)
  <2>1. Len(g) + Len(w) <= Len(f)
    BY <1>1, <1>2
  <2>2. Share(n, g, w) = Len(w)
    BY <1>1, <1>3, <2>1, ShareShort
  <2> QED  BY <1>9, <2>2
<1>5. k \in Nat /\ a + k = e /\ Len(g) + k <= Len(f) /\ a + k <= Len(s)
  <2>1. PICK x \in Nat : x = Len(f)
    BY <1>2
  <2>2. PICK y \in Nat : y = Len(g)
    BY <1>2
  <2>3. k = e - a /\ e <= a + (x - y)
    BY <1>1, <1>4, <2>1, <2>2
  <2>4. k \in Nat /\ a + k = e /\ y + k <= x
    BY <2>3
  <2> QED  BY <2>1, <2>2, <2>4
<1>6. b \in Seq(Nat) /\ Len(b) = Len(g) + k /\ Begins(b, f)
  <2> DEFINE v == g \o SubSeq(s, a + 1, a + k)
  <2>2. v \in Seq(Nat) /\ Len(v) = Len(g) + k /\ Begins(v, f)
    BY <1>5, Joined
  <2>3. b = v
    BY <1>10
  <2> HIDE DEF v
  <2> QED  BY <2>2, <2>3
<1>7. \A x : ~Complete(n, b, x)
  BY <1>6, CompleteShort
<1>11. k = Taken(n, g, s, a, e) /\ b = Grown(n, g, s, a, e)
  BY <1>9, <1>10 DEF Taken, Grown, w
<1> QED  BY <1>5, <1>6, <1>7, <1>11
=============================================================================
