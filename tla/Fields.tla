------------------------------- MODULE Fields -------------------------------
(***************************************************************************)
(* The field parsers shared by the readers of both protocols               *)
(* (postgresql/detail/basic_type.hpp, mysql/detail/packets/basic_types.hpp)*)
(* A field has a size n: a number of bytes, or one of the negative sizes   *)
(* for the fields whose length is in their bytes.  A parser is given a     *)
(* piece of input, takes its share of it, and says whether it is complete. *)
(***************************************************************************)
EXTENDS Naturals, Integers, Sequences, SequencesExt

CStr == -1      \* up to and with the first NUL
LenInt == -2    \* length-encoded integer
Rest == -3      \* everything up to the end of the message

Smaller(a, b) == IF a <= b THEN a ELSE b

(* Value of an integer, most or least significant byte first. *)
BigEndian(b) == FoldLeft(LAMBDA x, y : 256 * x + y, 0, b)
LittleEndian(b) == BigEndian(Reverse(b))

(* string, null_terminated_string: strnlen, and the NUL if there is one. *)
StringLen(piece) ==
    IF \E i \in 1..Len(piece) : piece[i] = 0
    THEN CHOOSE i \in 1..Len(piece) : piece[i] = 0 /\ \A j \in 1..(i - 1) : piece[j] # 0
    ELSE Len(piece)

(* length_encoded_integer: bytes that follow the first one. *)
Target(first) == CASE first = 252 -> 2 [] first = 253 -> 3 [] first = 254 -> 8 [] OTHER -> 0
LenIntLen(got, piece) ==
    IF got # <<>> THEN Smaller(1 + Target(got[1]) - Len(got), Len(piece))
    ELSE IF piece = <<>> THEN 0
    ELSE Smaller(1 + Target(piece[1]), Len(piece))

(* Bytes of the piece a field takes, when it has `got' already. *)
Share(n, got, piece) ==
    CASE n = CStr -> StringLen(piece)
      [] n = LenInt -> LenIntLen(got, piece)
      [] n = Rest -> Len(piece)
      [] OTHER -> Smaller(n - Len(got), Len(piece))

(* Is the field complete?  last: the piece ends the message.  The first    *)
(* form takes any piece for the last one. *)
Complete_AnyPiece(n, got, last) ==
    CASE n = CStr -> got # <<>> /\ got[Len(got)] = 0
      [] n = LenInt -> got # <<>> /\ Len(got) = 1 + Target(got[1])
      [] n = Rest -> TRUE
      [] OTHER -> Len(got) = n
Complete(n, got, last) ==
    CASE n = CStr -> got # <<>> /\ got[Len(got)] = 0
      [] n = LenInt -> got # <<>> /\ Len(got) = 1 + Target(got[1])
      [] n = Rest -> last
      [] OTHER -> Len(got) = n

-----------------------------------------------------------------------------
(* A field: bytes its parser takes whole and no more (of Rest, all there   *)
(* is); and bytes in which it never comes to an end.                       *)
WholeField(n, b) ==
    CASE n = CStr -> b # <<>> /\ b[Len(b)] = 0 /\ \A i \in 1..(Len(b) - 1) : b[i] # 0
      [] n = LenInt -> b # <<>> /\ Len(b) = 1 + Target(b[1])
      [] n = Rest -> TRUE
      [] OTHER -> Len(b) = n
TooShort(n, b) ==
    CASE n = CStr -> \A i \in 1..Len(b) : b[i] # 0
      [] n = LenInt -> b = <<>> \/ Len(b) < 1 + Target(b[1])
      [] n = Rest -> FALSE
      [] OTHER -> n \in Nat /\ Len(b) < n

(* The bytes of the fields f after the k-th. *)
Left(f, k) == SubSeq(FlattenSeq(f), Len(FlattenSeq(SubSeq(f, 1, k))) + 1, Len(FlattenSeq(f)))
=============================================================================
