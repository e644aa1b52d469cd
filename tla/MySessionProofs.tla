---------------------------- MODULE MySessionProofs ----------------------------
(***************************************************************************)
(* Theorems about MySession, for every number of operations, every width   *)
(* of the sequence id, both builds and every server: the types; with a     *)
(* server that gives one result, that a query never fails by itself and    *)
(* delivers the whole answer; and whatever the server sends, that a query  *)
(* reports its own answer, unless a sequence id has wrapped where a result *)
(* ends.                                                                   *)
(***************************************************************************)
EXTENDS MyServer, SequenceTheorems, FiniteSetTheorems, TLAPS

-----------------------------------------------------------------------------
(* Sequences: what is left after the first h items. *)
LEMMA Rest ==
    ASSUME NEW S, NEW s \in Seq(S), NEW h \in 0..Len(s)
    PROVE  /\ SubSeq(s, h + 1, Len(s)) \in Seq(S)
           /\ Len(SubSeq(s, h + 1, Len(s))) = Len(s) - h
<1>1. Len(s) \in Nat /\ h \in Nat /\ h <= Len(s)
  OBVIOUS
<1>2. \A i \in (h + 1)..Len(s) : s[i] \in S
  BY <1>1
<1>3. /\ SubSeq(s, h + 1, Len(s)) \in Seq(S)
      /\ Len(SubSeq(s, h + 1, Len(s))) = IF h + 1 <= Len(s) THEN Len(s) - (h + 1) + 1 ELSE 0
  BY <1>1, <1>2, SubSeqProperties
<1> QED  BY <1>1, <1>3

LEMMA TailOf ==
    ASSUME NEW S, NEW s \in Seq(S), s # <<>>
    PROVE  /\ Head(s) = s[1] /\ s[1] \in S /\ Len(s) \in Nat /\ Len(s) >= 1
           /\ Tail(s) \in Seq(S) /\ Len(Tail(s)) = Len(s) - 1
           /\ \A i \in 1..(Len(s) - 1) : Tail(s)[i] = s[i + 1]
BY HeadTailProperties

(* Sequence ids: the successor of a sequence id. *)
LEMMA Quotient ==
    ASSUME NEW m \in Nat \ {0}, NEW q \in Int, NEW x \in 0..(m - 1)
    PROVE  (q * m + x) % m = x
<1>1. PICK d \in Int : d = (q * m + x) \div m
  OBVIOUS
<1>2. PICK e \in 0..(m - 1) : e = (q * m + x) % m
  OBVIOUS
<1>3. q * m + x = m * d + e
  BY <1>1, <1>2
<1>4. (q - d) * m = e - x
  BY <1>3
<1>5. CASE q - d >= 1
  <2>1. (q - d) * m >= m
    BY <1>5
  <2> QED  BY <1>4, <2>1
<1>6. CASE q - d <= -1
  <2>1. (q - d) * m <= -m
    BY <1>6
  <2> QED  BY <1>4, <2>1
<1>7. CASE q = d
  BY <1>2, <1>3, <1>7
<1> QED  BY <1>5, <1>6, <1>7

LEMMA NextId ==
    ASSUME NEW m \in Nat \ {0}, NEW x \in Nat
    PROVE  ((x % m) + 1) % m = (x + 1) % m
<1>1. PICK q \in Int, d \in 0..(m - 1) : x = q * m + d /\ d = x % m
  <2>1. x = m * (x \div m) + (x % m) /\ x % m \in 0..(m - 1) /\ x \div m \in Int
    OBVIOUS
  <2> QED  BY <2>1
<1>2. CASE d + 1 < m
  <2>1. x + 1 = q * m + (d + 1) /\ d + 1 \in 0..(m - 1)
    BY <1>1, <1>2
  <2>2. (x + 1) % m = d + 1
    BY <2>1, Quotient
  <2>3. (0 * m + (d + 1)) % m = d + 1
    BY <2>1, Quotient
  <2>4. 0 * m + (d + 1) = d + 1
    OBVIOUS
  <2> QED  BY <1>1, <2>2, <2>3, <2>4
<1>3. CASE d + 1 = m
  <2>1. x + 1 = (q + 1) * m + 0 /\ 0 \in 0..(m - 1) /\ q + 1 \in Int
    BY <1>1, <1>3
  <2>2. (x + 1) % m = 0
    BY <2>1, Quotient
  <2>3. (1 * m + 0) % m = 0
    BY <2>1, Quotient
  <2>4. 1 * m + 0 = m
    OBVIOUS
  <2> QED  BY <1>1, <1>3, <2>2, <2>3, <2>4
<1> QED  BY <1>2, <1>3

-----------------------------------------------------------------------------
(* The inductive invariant of the types. *)
Ids == 0..(SeqMod - 1)
Packets == {p \in [t : PacketTypes, n : Int, rq : Nat, seq : Ids] : p.t = "COUNT" => p.n >= 0}
Asked == [kind : RequestKinds, rq : Nat, seq : Nat]
Cells == [n : Int, rq : Nat]

Typed ==
    /\ conn \in {"new", "open", "failed", "lost"}
    /\ io \in {"idle", "sending", "reading", "parsing", "aborted"}
    /\ op \in {"connect", "query"} /\ ops \in 0..MaxOps
    /\ stage \in IF op = "connect" THEN ConnectStages ELSE QueryStages
    /\ begun \in BOOLEAN /\ seq \in Ids /\ count \in Nat /\ ec \in Int /\ outcome \in Int
    /\ defs \in Seq(Nat) /\ rows \in Seq(Cells)
    /\ have \in 0..Len(stream) /\ frag \in BOOLEAN /\ (frag => have < Len(stream))
    /\ stream \in Seq(Packets) /\ inbox \in Seq(Asked)

(* No more definitions than announced, and rows as wide. *)
Columns ==
    /\ Len(defs) <= count
    /\ \A i \in 1..Len(rows) : rows[i].n = count
    /\ stage \in {"InitialGuess", "S2_ColumnCount"} => defs = <<>> /\ rows = <<>>
    /\ begun /\ stage = "S2_ColnumDef" => Len(defs) < count

(* A connect has at most one message on its way, and none for a stage that *)
(* does not read. *)
Connecting ==
    /\ op = "connect" =>
         /\ Len(stream) + Len(inbox) <= 1
         /\ \A i \in 1..Len(inbox) : inbox[i].kind # "query"
         /\ begun => stage \in {"S1_ERR", "S1_Handshake", "S2_OK", "S2_ERR"}
         /\ ~begun /\ stage \notin {"InitialGuess", "S2_Guess"} => stream = <<>> /\ inbox = <<>>
    /\ io = "idle" /\ conn = "new" => op = "connect" /\ stream = <<>> /\ inbox = <<>>
    /\ op = "query" => conn # "new"

MyInv == Typed /\ Columns /\ Connecting

LEMMA MyInit == Init => MyInv
<1> SUFFICES ASSUME Init PROVE MyInv
  OBVIOUS
<1>1. 0 \in Ids /\ 0 \in 0..MaxOps /\ Len(<<>>) = 0
  BY ConstantsAssumption DEF Ids
<1>2. /\ defs \in Seq(Nat) /\ rows \in Seq(Cells) /\ stream \in Seq(Packets) /\ inbox \in Seq(Asked)
  BY DEF Init
<1>3. seq \in Ids /\ ops \in 0..MaxOps /\ have \in 0..Len(stream)
  BY <1>1 DEF Init
<1>4. Typed
  <2>1. /\ conn = "new" /\ io = "idle" /\ op = "connect" /\ stage = "InitialGuess"
        /\ begun = FALSE /\ frag = FALSE /\ ec \in Int /\ outcome \in Int /\ count \in Nat
    BY DEF Init, Ok
  <2>2. stage \in IF op = "connect" THEN ConnectStages ELSE QueryStages
    BY <2>1 DEF ConnectStages
  <2> QED  BY <1>2, <1>3, <2>1, <2>2 DEF Typed
<1>5. Columns /\ Connecting
  BY <1>1 DEF Init, Columns, Connecting
<1> QED  BY <1>4, <1>5 DEF MyInv

(* Where the first byte of a packet leads. *)
LEMMA Guesses ==
    ASSUME op \in {"connect", "query"}, NEW x, NEW t, NEW y, y = Guess(x, t)
    PROVE  /\ op = "connect" /\ x \in {"InitialGuess", "S2_Guess"} =>
                y \in {"S1_ERR", "S1_Handshake", "S2_OK", "S2_ERR", "unknown"}
           /\ op = "query" =>
                y \in {"S1_ERR", "S1_OK", "S2_ColumnCount", "S2_ColnumDef", "S2_ERR",
                       "S2_OK_EOF", "S2_ResultSet"}
           /\ op = "query" /\ y = "S2_ColnumDef" => x = y /\ Len(defs) < count
           /\ op = "query" /\ y = "S2_ColumnCount" => x = "InitialGuess"
<1>1. CASE op = "connect"
  BY <1>1 DEF Guess
<1>2. CASE op = "query" /\ x = "InitialGuess"
  BY <1>2 DEF Guess
<1>3. CASE op = "query" /\ x = "S2_ColnumDef" /\ MoreDefs
  BY <1>3 DEF Guess, MoreDefs
<1>4. CASE op = "query" /\ x # "InitialGuess" /\ ~(x = "S2_ColnumDef" /\ MoreDefs)
  BY <1>4 DEF Guess
<1> QED  BY <1>1, <1>2, <1>3, <1>4

(* An operation completes. *)
LEMMA Completed ==
    ASSUME NEW e, NEW s \in Seq(Packets), NEW h \in 0..Len(s), Complete(e, s, h),
           conn \in {"new", "open", "failed", "lost"}, op \in {"connect", "query"}
    PROVE  /\ io' = "idle" /\ outcome' = e /\ have' = 0 /\ frag' = FALSE
           /\ stream' \in Seq(Packets) /\ Len(stream') = Len(s) - h
           /\ conn' \in {"new", "open", "failed", "lost"}
           /\ op = "connect" => conn' = IF e = Ok THEN "open" ELSE "failed"
           /\ op = "query" => conn' \in {conn, "failed", "lost"}
           /\ inbox' = inbox /\ up' = up /\ answer' = answer
<1>1. stream' = SubSeq(s, h + 1, Len(s))
  BY DEF Complete
<1>2. stream' \in Seq(Packets) /\ Len(stream') = Len(s) - h
  BY <1>1, Rest
<1> QED  BY <1>2 DEF Complete

(* Completion leaves the types as they are: what the operation holds, and  *)
(* a stream that has not grown. *)
LEMMA CompleteKeeps ==
    ASSUME MyInv, io # "idle", NEW e \in Int, NEW s \in Seq(Packets), NEW h \in 0..Len(s),
           Complete(e, s, h), Len(s) <= Len(stream),
           stage' \in IF op = "connect" THEN ConnectStages ELSE QueryStages,
           stage' \notin {"InitialGuess", "S2_ColumnCount"} \/ stage' = stage,
           begun' \in BOOLEAN, begun' => begun /\ stage' = stage,
           stage' \notin {"InitialGuess", "S2_Guess"} /\ ~begun' /\ op = "connect" =>
             Len(s) + Len(inbox) = 0,
           UNCHANGED <<op, ops, count, defs, rows>>, seq' \in Ids, ec' \in Int
    PROVE  MyInv'
<1>1. /\ io' = "idle" /\ outcome' = e /\ have' = 0 /\ frag' = FALSE
      /\ stream' \in Seq(Packets) /\ Len(stream') = Len(s) - h
      /\ conn' \in {"new", "open", "failed", "lost"}
      /\ op = "connect" => conn' = IF e = Ok THEN "open" ELSE "failed"
      /\ op = "query" => conn' \in {conn, "failed", "lost"}
      /\ inbox' = inbox
  BY Completed DEF MyInv, Typed
<1>2. /\ Len(s) \in Nat /\ Len(stream) \in Nat /\ Len(inbox) \in Nat /\ Len(stream') \in Nat
      /\ Len(stream') <= Len(s)
  BY <1>1 DEF MyInv, Typed
<1>3. Typed'
  <2>1. 0 \in 0..Len(stream')
    BY <1>2
  <2> QED  BY <1>1, <2>1, Zenon DEF MyInv, Typed
<1>4. Columns'
  BY DEF MyInv, Columns
<1>5. Connecting'
  <2>1. op = "connect" /\ Len(s) + Len(inbox) = 0 => stream' = <<>> /\ inbox = <<>>
    <3>1. Len(s) + Len(inbox) = 0 => Len(stream') = 0 /\ Len(inbox) = 0
      BY <1>2
    <3>2. stream' \in Seq(Packets) /\ inbox \in Seq(Asked)
      BY <1>1, Zenon DEF MyInv, Typed
    <3> QED  BY <3>1, <3>2, EmptySeq, Zenon
  <2>2. op = "connect" => Len(stream') + Len(inbox') <= 1
    <3>1. op = "connect" => Len(stream) + Len(inbox) <= 1
      BY DEF MyInv, Connecting
    <3> QED  BY <1>1, <1>2, <3>1
  <2>3. op = "connect" => \A i \in 1..Len(inbox') : inbox'[i].kind # "query"
    BY <1>1, Zenon DEF MyInv, Connecting
  <2>4. op = "connect" /\ begun' => stage' \in {"S1_ERR", "S1_Handshake", "S2_OK", "S2_ERR"}
    BY Zenon DEF MyInv, Connecting
  <2>5. /\ op = "connect" /\ ~begun' /\ stage' \notin {"InitialGuess", "S2_Guess"}
             => stream' = <<>> /\ inbox' = <<>>
        /\ op = "query" => conn' # "new"
    BY <1>1, <2>1 DEF MyInv, Connecting
  <2>6. conn' # "new"
    BY <1>1 DEF MyInv, Connecting, Typed
  <2> QED  BY <2>2, <2>3, <2>4, <2>5, <2>6, Zenon DEF Connecting
<1> QED  BY <1>3, <1>4, <1>5 DEF MyInv

-----------------------------------------------------------------------------
(* Each action keeps the types. *)
LEMMA MyFresh ==
    ASSUME MyInv, StartConnect \/ StartQuery
    PROVE  MyInv'
<1>1. /\ io = "idle" /\ ops < MaxOps /\ ops' = ops + 1 /\ stage' = "InitialGuess"
      /\ begun' = FALSE /\ count' = 0 /\ defs' = <<>> /\ rows' = <<>> /\ ec' = Ok /\ outcome' = Ok
      /\ UNCHANGED <<conn, have, frag, stream, up>>
      /\ \/ /\ conn = "new" /\ op' = "connect" /\ io' = "reading" /\ seq' = 0
            /\ Request("greeting", ops + 1, 0)
         \/ /\ conn = "open" /\ op' = "query" /\ io' = "sending" /\ seq' = 1
            /\ Request("query", ops + 1, 1)
  BY DEF StartConnect, StartQuery, Fresh
<1>2. /\ ops' \in 0..MaxOps /\ ops + 1 \in Nat /\ seq' \in Ids /\ 0 \in Int /\ ec' \in Int /\ outcome' \in Int
      /\ defs' \in Seq(Nat) /\ rows' \in Seq(Cells) /\ count' \in Nat
  BY <1>1, ConstantsAssumption DEF MyInv, Typed, Ids, Ok
<1>3. inbox' \in Seq(Asked)
  <2>1. /\ [kind |-> "greeting", rq |-> ops + 1, seq |-> 0] \in Asked
        /\ [kind |-> "query", rq |-> ops + 1, seq |-> 1] \in Asked
    BY <1>2 DEF Asked, RequestKinds
  <2>2. /\ inbox \in Seq(Asked)
        /\ \E m \in Asked : inbox' = IF up THEN Append(inbox, m) ELSE inbox
    BY <1>1, <2>1 DEF Request, MyInv, Typed
  <2> QED  BY <2>2, AppendProperties
<1>4. stage' \in IF op' = "connect" THEN ConnectStages ELSE QueryStages
  BY <1>1 DEF ConnectStages, QueryStages
<1>5. Typed'
  BY <1>1, <1>2, <1>3, <1>4, Zenon DEF MyInv, Typed
<1>6. Columns'
  BY <1>1 DEF Columns
<1>7. CASE conn = "new"
  <2>1. /\ inbox = <<>> /\ stream' = <<>> /\ io' = "reading" /\ op' = "connect"
        /\ Request("greeting", ops + 1, 0)
    BY <1>1, <1>7 DEF MyInv, Connecting
  <2>2. inbox' = <<>> \/ inbox' = <<[kind |-> "greeting", rq |-> ops + 1, seq |-> 0]>>
    BY <2>1 DEF Request
  <2>4. Len(stream') = 0 /\ Len(inbox') \in {0, 1}
    BY <2>1, <2>2
  <2>5. \A i \in 1..Len(inbox') : inbox'[i].kind # "query"
    <3>1. CASE inbox' = <<>>
      BY <3>1
    <3>2. CASE inbox' = <<[kind |-> "greeting", rq |-> ops + 1, seq |-> 0]>>
      <4>1. Len(inbox') = 1 /\ inbox'[1] = [kind |-> "greeting", rq |-> ops + 1, seq |-> 0]
        BY <3>2
      <4> QED  BY <4>1
    <3> QED  BY <2>2, <3>1, <3>2
  <2>3. Len(stream') + Len(inbox') <= 1 /\ \A i \in 1..Len(inbox') : inbox'[i].kind # "query"
    BY <2>4, <2>5
  <2> QED  BY <1>1, <1>5, <1>6, <2>1, <2>3 DEF MyInv, Connecting
<1>8. CASE conn = "open"
  BY <1>1, <1>5, <1>6, <1>8 DEF MyInv, Connecting
<1> QED  BY <1>1, <1>7, <1>8

LEMMA MyWaiting ==
    ASSUME MyInv, SendDone \/ ReadDone \/ NeedMore
    PROVE  MyInv'
<1>1. /\ UNCHANGED <<op, ops, stage, begun, seq, count, defs, rows, ec, conn, outcome>>
      /\ UNCHANGED <<stream, inbox, up>> /\ io' \in {"reading", "parsing"}
      /\ io # "idle"
  BY DEF SendDone, ReadDone, NeedMore, opVars, endVars, netVars
<1>2. have' \in 0..Len(stream) /\ frag' \in BOOLEAN /\ (frag' => have' < Len(stream))
  <2>1. have \in 0..Len(stream) /\ frag \in BOOLEAN /\ (frag => have < Len(stream))
    BY DEF MyInv, Typed
  <2>2. CASE SendDone \/ NeedMore
    <3>1. have' = have /\ (frag' = frag \/ frag' = FALSE)
      BY <2>2 DEF SendDone, NeedMore
    <3>2. CASE frag' = frag
      BY <2>1, <3>1, <3>2, Zenon
    <3>3. CASE frag' = FALSE
      BY <2>1, <3>1, <3>3
    <3> QED  BY <3>1, <3>2, <3>3
  <2>3. CASE ReadDone
    <3>1. PICK h \in 0..Len(stream), f \in BOOLEAN :
            (f => h < Len(stream)) /\ have' = h /\ frag' = f
      BY <2>3 DEF ReadDone
    <3>2. f \in BOOLEAN
      OBVIOUS
    <3> QED  BY <3>1, <3>2
  <2> QED  BY <2>2, <2>3
<1>3. Typed'
  BY <1>1, <1>2, Zenon DEF MyInv, Typed
<1> QED  BY <1>1, <1>3 DEF MyInv, Columns, Connecting

(* A packet that is looked at is there. *)
LEMMA AtHead ==
    ASSUME MyInv, have > 0 \/ frag
    PROVE  /\ stream # <<>> /\ stream \in Seq(Packets) /\ Head(stream) = stream[1]
           /\ stream[1] \in Packets /\ stream[1].t \in PacketTypes /\ stream[1].n \in Int
           /\ stream[1].rq \in Nat /\ (stream[1].t = "COUNT" => stream[1].n \in Nat)
           /\ Len(stream) \in Nat /\ Len(stream) >= 1
           /\ Tail(stream) \in Seq(Packets) /\ Len(Tail(stream)) = Len(stream) - 1
           /\ have \in Nat /\ have <= Len(stream)
<1>1. stream \in Seq(Packets) /\ have \in 0..Len(stream) /\ (frag => have < Len(stream))
  BY DEF MyInv, Typed
<1>2. stream # <<>>
  BY <1>1
<1>3. /\ Head(stream) = stream[1] /\ stream[1] \in Packets /\ Len(stream) \in Nat /\ Len(stream) >= 1
      /\ Tail(stream) \in Seq(Packets) /\ Len(Tail(stream)) = Len(stream) - 1
  BY <1>1, <1>2, TailOf
<1> QED  BY <1>1, <1>2, <1>3 DEF Packets

LEMMA MyHeader ==
    ASSUME MyInv, Header
    PROVE  MyInv'
<1>1. /\ io = "parsing" /\ ~begun /\ (have > 0 \/ frag) /\ Guess(stage, Head(stream).t) # "unknown"
      /\ stage' = Guess(stage, Head(stream).t) /\ begun' = TRUE /\ seq' = (seq + 1) % SeqMod
      /\ UNCHANGED <<op, ops, count, defs, rows, ec, conn, outcome, stream, inbox, up, io, have, frag>>
  BY DEF Header, NextPacket, endVars, netVars
<1>2. stream # <<>>
  BY <1>1, AtHead
<1>3. seq' \in Ids
  BY <1>1, ConstantsAssumption DEF Ids, MyInv, Typed
<1>4. op \in {"connect", "query"} /\ (op = "connect" => stage \in {"InitialGuess", "S2_Guess"})
  BY <1>1, <1>2 DEF MyInv, Typed, Connecting
<1>5. /\ op = "connect" => stage' \in {"S1_ERR", "S1_Handshake", "S2_OK", "S2_ERR"}
      /\ op = "query" => stage' \in {"S1_ERR", "S1_OK", "S2_ColumnCount", "S2_ColnumDef", "S2_ERR",
                                     "S2_OK_EOF", "S2_ResultSet"}
      /\ op = "query" /\ stage' = "S2_ColnumDef" => Len(defs) < count
      /\ op = "query" /\ stage' = "S2_ColumnCount" => stage = "InitialGuess"
  BY <1>1, <1>4, Guesses
<1>6. stage' \in IF op' = "connect" THEN ConnectStages ELSE QueryStages
  BY <1>1, <1>4, <1>5 DEF ConnectStages, QueryStages
<1>7. Typed'
  BY <1>1, <1>3, <1>6, Zenon DEF MyInv, Typed
<1>8. Columns'
  BY <1>1, <1>4, <1>5 DEF MyInv, Columns
<1>9. Connecting'
  BY <1>1, <1>5 DEF MyInv, Connecting
<1> QED  BY <1>7, <1>8, <1>9 DEF MyInv

LEMMA MyFailed ==
    ASSUME MyInv, StreamFail \/ HeaderRefused \/ PayloadMalformed
    PROVE  MyInv'
<1>1. \E e \in {Transport, CR_MALFORMED_PACKET, CR_UNKNOWN_ERROR}, h \in {0, have} :
        Complete(e, stream, h)
  BY DEF StreamFail, HeaderRefused, PayloadMalformed
<1>2. /\ UNCHANGED <<op, ops, stage, begun, seq, count, defs, rows, ec>> /\ io # "idle"
  BY DEF StreamFail, HeaderRefused, PayloadMalformed, opVars, NextPacket
<1>3. PICK s \in Seq(Packets) : s = stream
  BY DEF MyInv, Typed
<1>4. PICK e \in Int, h \in 0..Len(s) : Complete(e, s, h)
  BY <1>1, <1>3 DEF MyInv, Typed, Transport, CR_MALFORMED_PACKET, CR_UNKNOWN_ERROR
<1>5. /\ stage' \in IF op = "connect" THEN ConnectStages ELSE QueryStages
      /\ begun' \in BOOLEAN /\ seq' \in Ids /\ ec' \in Int /\ Len(s) <= Len(stream)
      /\ stage' = stage /\ (begun' => begun)
  BY <1>2, <1>3 DEF MyInv, Typed
<1>6. stage' \notin {"InitialGuess", "S2_Guess"} /\ ~begun' /\ op = "connect" =>
        Len(s) + Len(inbox) = 0
  BY <1>2, <1>3 DEF MyInv, Connecting
<1> QED  BY <1>2, <1>4, <1>5, <1>6, CompleteKeeps

(* The payload of a packet, and the packet is behind. *)
LEMMA MyColumnCount ==
    ASSUME MyInv, ColumnCount
    PROVE  MyInv'
<1>1. /\ io = "parsing" /\ begun /\ have > 0 /\ stage = "S2_ColumnCount" /\ PayloadOK(Head(stream))
      /\ begun' = FALSE /\ count' = Head(stream).n /\ stage' = "S2_ColnumDef"
      /\ stream' = Tail(stream) /\ have' = have - 1
      /\ UNCHANGED <<frag, inbox, io, conn, outcome, op, ops, ec, seq, defs, rows>>
  BY DEF ColumnCount, Payload, Consumed, endVars
<1>2. /\ Head(stream) = stream[1] /\ (stream[1].t = "COUNT" => stream[1].n \in Nat)
      /\ Tail(stream) \in Seq(Packets) /\ Len(Tail(stream)) = Len(stream) - 1
      /\ have \in Nat /\ have <= Len(stream) /\ Len(stream) \in Nat
  BY <1>1, AtHead
<1>3. count' \in Nat
  BY <1>1, <1>2 DEF PayloadOK
<1>4. op = "query"
  BY <1>1 DEF MyInv, Connecting, Typed
<1>5. have' \in 0..Len(stream') /\ (frag => have' < Len(stream'))
  BY <1>1, <1>2 DEF MyInv, Typed
<1>6. stage' \in IF op' = "connect" THEN ConnectStages ELSE QueryStages
  BY <1>1, <1>4 DEF QueryStages
<1>7. Typed'
  BY <1>1, <1>2, <1>3, <1>5, <1>6, Zenon DEF MyInv, Typed
<1>8. Columns'
  BY <1>1, <1>3 DEF MyInv, Columns
<1>9. Connecting'
  BY <1>1, <1>4 DEF MyInv, Connecting
<1> QED  BY <1>7, <1>8, <1>9 DEF MyInv

LEMMA MyColumnDefinition ==
    ASSUME MyInv, ColumnDefinition41
    PROVE  MyInv'
<1>1. /\ io = "parsing" /\ begun /\ have > 0 /\ stage = "S2_ColnumDef"
      /\ begun' = FALSE /\ defs' = Append(defs, Head(stream).rq) /\ stage' = stage
      /\ stream' = Tail(stream) /\ have' = have - 1
      /\ UNCHANGED <<frag, inbox, io, conn, outcome, op, ops, ec, seq, count, rows>>
  BY DEF ColumnDefinition41, Payload, Consumed, endVars
<1>2. /\ Head(stream) = stream[1] /\ stream[1].rq \in Nat
      /\ Tail(stream) \in Seq(Packets) /\ Len(Tail(stream)) = Len(stream) - 1
      /\ have \in Nat /\ have <= Len(stream) /\ Len(stream) \in Nat
  BY <1>1, AtHead
<1>3. defs' \in Seq(Nat) /\ Len(defs') = Len(defs) + 1
  <2>1. defs \in Seq(Nat)
    BY DEF MyInv, Typed
  <2> QED  BY <1>1, <1>2, <2>1, AppendProperties
<1>4. op = "query"
  BY <1>1 DEF MyInv, Connecting, Typed
<1>5. have' \in 0..Len(stream') /\ (frag => have' < Len(stream'))
  BY <1>1, <1>2 DEF MyInv, Typed
<1>6. Typed'
  BY <1>1, <1>2, <1>3, <1>5, Zenon DEF MyInv, Typed
<1>7. Len(defs) < count /\ count \in Nat /\ Len(defs) \in Nat
  BY <1>1 DEF MyInv, Columns, Typed
<1>8. Columns'
  BY <1>1, <1>3, <1>7 DEF MyInv, Columns
<1>9. Connecting'
  BY <1>1, <1>4 DEF MyInv, Connecting
<1> QED  BY <1>6, <1>8, <1>9 DEF MyInv

LEMMA MyResultset ==
    ASSUME MyInv, Resultset
    PROVE  MyInv'
<1>1. /\ io = "parsing" /\ begun /\ have > 0 /\ stage = "S2_ResultSet" /\ PayloadOK(Head(stream))
      /\ begun' = FALSE /\ rows' = Append(rows, [n |-> Head(stream).n, rq |-> Head(stream).rq])
      /\ stage' = "S2_ResultSetRowGuess"
      /\ stream' = Tail(stream) /\ have' = have - 1
      /\ UNCHANGED <<frag, inbox, io, conn, outcome, op, ops, ec, seq, count, defs>>
  BY DEF Resultset, Payload, Consumed, endVars
<1>2. /\ Head(stream) = stream[1] /\ stream[1].rq \in Nat /\ stream[1].n \in Int
      /\ Tail(stream) \in Seq(Packets) /\ Len(Tail(stream)) = Len(stream) - 1
      /\ have \in Nat /\ have <= Len(stream) /\ Len(stream) \in Nat
  BY <1>1, AtHead
<1>3. PICK w : w = [n |-> Head(stream).n, rq |-> Head(stream).rq]
  OBVIOUS
<1>4. w \in Cells /\ w.n = count
  BY <1>1, <1>2, <1>3 DEF Cells, PayloadOK
<1>10. rows \in Seq(Cells) /\ rows' = Append(rows, w)
  BY <1>1, <1>3 DEF MyInv, Typed
<1>11. /\ rows' \in Seq(Cells) /\ Len(rows') = Len(rows) + 1 /\ rows'[Len(rows) + 1] = w
       /\ \A i \in 1..Len(rows) : rows'[i] = rows[i]
  BY <1>4, <1>10, AppendProperties
<1>12. \A i \in 1..Len(rows') : rows'[i].n = count
  <2> SUFFICES ASSUME NEW i \in 1..Len(rows') PROVE rows'[i].n = count
    OBVIOUS
  <2>1. i \in 1..Len(rows) \/ i = Len(rows) + 1
    BY <1>10, <1>11
  <2> QED  BY <1>4, <1>11, <2>1 DEF MyInv, Columns
<1>5. op = "query"
  BY <1>1 DEF MyInv, Connecting, Typed
<1>6. have' \in 0..Len(stream') /\ (frag => have' < Len(stream'))
  BY <1>1, <1>2 DEF MyInv, Typed
<1>13. stage' \in IF op' = "connect" THEN ConnectStages ELSE QueryStages
  BY <1>1, <1>5 DEF QueryStages
<1>7. Typed'
  BY <1>1, <1>2, <1>11, <1>6, <1>13, Zenon DEF MyInv, Typed
<1>8. Columns'
  BY <1>1, <1>12 DEF MyInv, Columns
<1>9. Connecting'
  BY <1>1, <1>5 DEF MyInv, Connecting
<1> QED  BY <1>7, <1>8, <1>9 DEF MyInv

(* The packet was the only one on its way while connecting. *)
LEMMA OnlyPacket ==
    ASSUME MyInv, have > 0, op = "connect"
    PROVE  inbox = <<>> /\ Tail(stream) = <<>> /\ have = 1 /\ Len(stream) = 1
<1>1. /\ Len(stream) \in Nat /\ Len(stream) >= 1 /\ have \in Nat /\ have <= Len(stream)
      /\ Tail(stream) \in Seq(Packets) /\ Len(Tail(stream)) = Len(stream) - 1
  BY AtHead
<1>2. Len(stream) + Len(inbox) <= 1 /\ inbox \in Seq(Asked)
  BY DEF MyInv, Connecting, Typed
<1>3. Len(stream) = 1 /\ Len(inbox) = 0 /\ have = 1
  BY <1>1, <1>2
<1>4. inbox = <<>>
  BY <1>2, <1>3, EmptySeq
<1>5. Tail(stream) = <<>>
  <2>1. Len(Tail(stream)) = 0 /\ Tail(stream) \in Seq(Packets)
    BY <1>1, <1>3
  <2> QED  BY <2>1, EmptySeq
<1> QED  BY <1>3, <1>4, <1>5

LEMMA MyHandshake ==
    ASSUME MyInv, Handshake \/ HandshakePlugin
    PROVE  MyInv'
<1>1. /\ io = "parsing" /\ begun /\ have > 0 /\ stage = "S1_Handshake" /\ begun' = FALSE
      /\ UNCHANGED <<op, ops, count, defs, rows>>
  BY DEF Handshake, HandshakePlugin, Payload
<1>2. op = "connect"
  BY <1>1 DEF MyInv, Typed, QueryStages
<1>3. /\ inbox = <<>> /\ Tail(stream) = <<>> /\ have = 1 /\ Len(stream) = 1
      /\ Tail(stream) \in Seq(Packets) /\ ~frag
  <2>1. inbox = <<>> /\ Tail(stream) = <<>> /\ have = 1 /\ Len(stream) = 1
    BY <1>1, <1>2, OnlyPacket
  <2>2. Tail(stream) \in Seq(Packets)
    BY <1>1, AtHead
  <2>3. ~frag
    BY <2>1 DEF MyInv, Typed
  <2> QED  BY <2>1, <2>2, <2>3
<1>4. CASE Handshake
  <2>1. /\ stage' = "S2_Guess" /\ seq' = (seq + 1) % SeqMod
        /\ io' = "sending" /\ stream' = <<>> /\ have' = 0
        /\ Request(Scramble, ops, (seq + 1) % SeqMod)
        /\ UNCHANGED <<conn, outcome, frag, ec>>
    BY <1>3, <1>4 DEF Handshake, endVars
  <2>2. seq' \in Ids /\ seq' \in Nat
    BY <2>1, ConstantsAssumption DEF Ids, MyInv, Typed
  <2>3. PICK m : m = [kind |-> Scramble, rq |-> ops, seq |-> (seq + 1) % SeqMod]
    OBVIOUS
  <2>4. m \in Asked /\ m.kind # "query"
    BY <2>1, <2>2, <2>3 DEF Asked, RequestKinds, Scramble, MyInv, Typed
  <2>5. inbox' = <<>> \/ inbox' = <<m>>
    BY <1>3, <2>1, <2>3 DEF Request
  <2>6. /\ inbox' \in Seq(Asked) /\ Len(inbox') \in {0, 1}
        /\ \A i \in 1..Len(inbox') : inbox'[i].kind # "query"
    <3>1. CASE inbox' = <<>>
      BY <3>1
    <3>2. CASE inbox' = <<m>>
      <4>1. Len(inbox') = 1 /\ inbox'[1] = m /\ inbox' \in Seq(Asked)
        BY <2>4, <3>2
      <4> QED  BY <2>4, <4>1
    <3> QED  BY <2>5, <3>1, <3>2
  <2>7. stage' \in IF op' = "connect" THEN ConnectStages ELSE QueryStages
    BY <1>1, <1>2, <2>1 DEF ConnectStages
  <2>8. have' \in 0..Len(stream') /\ stream' \in Seq(Packets)
    BY <1>3, <2>1
  <2>9. Typed'
    BY <1>1, <1>3, <2>1, <2>2, <2>6, <2>7, <2>8, Zenon DEF MyInv, Typed
  <2>10. Columns'
    BY <1>1, <2>1 DEF MyInv, Columns
  <2>11. Connecting'
    BY <1>1, <1>2, <2>1, <2>6 DEF MyInv, Connecting
  <2> QED  BY <2>9, <2>10, <2>11 DEF MyInv
<1>5. CASE HandshakePlugin
  <2>1. PICK s \in Seq(Packets) : s = Tail(stream)
    BY <1>3
  <2>5. PICK h \in Int : h = have - 1
    BY <1>3
  <2>2. /\ Complete(CR_AUTH_PLUGIN_ERR, s, h) /\ h \in 0..Len(s) /\ ec' \in Int
        /\ CR_AUTH_PLUGIN_ERR \in Int /\ stage' = stage /\ seq' = seq /\ Len(s) = 0
    BY <1>3, <1>5, <2>1, <2>5 DEF HandshakePlugin, CR_AUTH_PLUGIN_ERR
  <2>3. /\ stage' \in IF op = "connect" THEN ConnectStages ELSE QueryStages
        /\ begun' \in BOOLEAN /\ seq' \in Ids /\ Len(s) <= Len(stream)
    <3>1. stage \in ConnectStages /\ seq \in Ids
      BY <1>2 DEF MyInv, Typed
    <3>2. begun' \in BOOLEAN
      BY <1>1
    <3>3. Len(s) <= Len(stream)
      BY <1>3, <2>2
    <3> QED  BY <1>2, <2>2, <3>1, <3>2, <3>3
  <2>4. Len(s) + Len(inbox) = 0
    BY <1>3, <2>2
  <2> QED  BY <1>1, <2>2, <2>3, <2>4, CompleteKeeps
<1> QED  BY <1>4, <1>5

LEMMA MyInitialErr ==
    ASSUME MyInv, InitialErr
    PROVE  MyInv'
<1>1. /\ io = "parsing" /\ begun /\ have > 0 /\ op = "connect" /\ begun' = FALSE
      /\ ec' = Head(stream).n /\ stage' = "Finished" /\ io' \in {"reading", "aborted"}
      /\ stream' = SubSeq(stream, have + 1, Len(stream)) /\ have' = 0 /\ frag' = FALSE
      /\ UNCHANGED <<op, ops, seq, count, defs, rows, conn, outcome, inbox>>
  BY DEF InitialErr, Payload, endVars
<1>2. inbox = <<>> /\ have = 1 /\ Len(stream) = 1
  BY <1>1, OnlyPacket
<1>3. stream' = <<>>
  BY <1>1, <1>2
<1>4. ec' \in Int /\ stream' \in Seq(Packets) /\ have' \in 0..Len(stream')
  BY <1>1, <1>3, AtHead
<1>5. stage' \in IF op' = "connect" THEN ConnectStages ELSE QueryStages
  BY <1>1 DEF ConnectStages
<1>6. Typed'
  BY <1>1, <1>4, <1>5, Zenon DEF MyInv, Typed
<1>7. Columns' /\ Connecting'
  BY <1>1, <1>2, <1>3 DEF MyInv, Columns, Connecting
<1> QED  BY <1>6, <1>7 DEF MyInv

LEMMA MyFinal ==
    ASSUME MyInv, Final
    PROVE  MyInv'
<1>1. /\ io = "parsing" /\ begun /\ have > 0 /\ begun' = FALSE /\ stage' = "Finished"
      /\ ec' = IF stage \in {"S1_ERR", "S2_ERR"} THEN Head(stream).n ELSE Ok
      /\ Paused(ec')
      /\ UNCHANGED <<op, ops, seq, count, defs, rows>>
  BY DEF Final, Payload
<1>2. /\ ec' \in Int /\ Tail(stream) \in Seq(Packets) /\ Len(Tail(stream)) = Len(stream) - 1
      /\ have - 1 \in 0..Len(Tail(stream)) /\ Len(stream) \in Nat
  BY <1>1, AtHead DEF Ok
<1>3. PICK s \in Seq(Packets) : s = Tail(stream)
  BY <1>2
<1>7. PICK h \in 0..Len(s) : h = have - 1
  BY <1>2, <1>3
<1>8. PICK e \in Int : e = IF have = 1 /\ ~frag THEN ec' ELSE CR_MALFORMED_PACKET
  BY <1>2 DEF CR_MALFORMED_PACKET
<1>4. Complete(e, s, h) /\ Len(s) <= Len(stream)
  BY <1>1, <1>2, <1>3, <1>7, <1>8 DEF Paused
<1>5. op = "connect" => Len(s) + Len(inbox) = 0
  BY <1>1, <1>3, OnlyPacket
<1>6. /\ stage' \in IF op = "connect" THEN ConnectStages ELSE QueryStages
      /\ begun' \in BOOLEAN /\ seq' \in Ids
  BY <1>1 DEF MyInv, Typed, ConnectStages, QueryStages
<1> QED  BY <1>1, <1>2, <1>4, <1>5, <1>6, CompleteKeeps

(* The packets of a reply. *)
LEMMA NumberedReply ==
    ASSUME NEW k \in RequestKinds, NEW a \in Replies(k), NEW q \in Nat, NEW f \in Nat, NEW w,
           w = Number(a, q, f)
    PROVE  /\ w \in Seq(Packets) /\ Len(w) = Len(a) /\ Len(a) \in Nat /\ a \in Seq(RawPackets)
           /\ Len(a) >= 1 /\ (k # "query" => Len(w) = 1)
           /\ \A i \in 1..Len(a) : w[i] = [t |-> a[i].t, n |-> a[i].n, rq |-> q,
                                           seq |-> (f + i - 1) % SeqMod]
<1>1. a \in Seq(RawPackets) /\ a # <<>> /\ (k # "query" => Len(a) = 1)
  <2>1. a \in {x \in Seq(RawPackets) : IF k = "query" THEN x # <<>> ELSE Len(x) = 1}
    BY ReplyAssumption
  <2>2. a \in Seq(RawPackets) /\ IF k = "query" THEN a # <<>> ELSE Len(a) = 1
    BY <2>1
  <2>3. k # "query" => Len(a) = 1
    BY <2>2
  <2>4. a # <<>>
    <3>1. CASE k = "query"
      BY <2>2, <3>1
    <3>2. CASE k # "query"
      BY <2>3, <3>2, EmptySeq
    <3> QED  BY <3>1, <3>2
  <2> QED  BY <2>2, <2>3, <2>4
<1>2. Len(a) \in Nat /\ Len(a) >= 1
  BY <1>1
<1>3. \A i \in 1..Len(a) : [t |-> a[i].t, n |-> a[i].n, rq |-> q,
                            seq |-> (f + i - 1) % SeqMod] \in Packets
  <2> SUFFICES ASSUME NEW i \in 1..Len(a)
               PROVE  [t |-> a[i].t, n |-> a[i].n, rq |-> q, seq |-> (f + i - 1) % SeqMod] \in Packets
    OBVIOUS
  <2>1. a[i] \in RawPackets
    BY <1>1
  <2>2. (f + i - 1) % SeqMod \in Ids
    <3>1. f + i - 1 \in Nat /\ SeqMod \in Nat \ {0}
      BY ConstantsAssumption
    <3> QED  BY <3>1 DEF Ids
  <2> QED  BY <2>1, <2>2 DEF RawPackets, Packets
<1>4. w = [i \in 1..Len(a) |-> [t |-> a[i].t, n |-> a[i].n, rq |-> q,
                                seq |-> (f + i - 1) % SeqMod]]
  BY DEF Number
<1>5. w \in Seq(Packets) /\ Len(w) = Len(a)
  BY <1>2, <1>3, <1>4
<1>6. \A i \in 1..Len(a) : w[i] = [t |-> a[i].t, n |-> a[i].n, rq |-> q,
                                   seq |-> (f + i - 1) % SeqMod]
  BY <1>4
<1> QED  BY <1>1, <1>2, <1>5, <1>6

LEMMA MyReply ==
    ASSUME MyInv, Reply
    PROVE  MyInv'
<1>1. /\ inbox # <<>> /\ UNCHANGED <<op, ops, stage, begun, seq, count, defs, rows, ec>>
      /\ UNCHANGED <<conn, outcome, io, have, frag>>
  BY DEF Reply, opVars, endVars
<1>2. inbox \in Seq(Asked) /\ stream \in Seq(Packets)
  BY DEF MyInv, Typed
<1>3. /\ Head(inbox) = inbox[1] /\ inbox[1] \in Asked /\ Len(inbox) \in Nat /\ Len(inbox) >= 1
      /\ Tail(inbox) \in Seq(Asked) /\ Len(Tail(inbox)) = Len(inbox) - 1
  BY <1>1, <1>2, TailOf
<1>4. PICK k \in RequestKinds, q \in Nat, f \in Nat :
        k = Head(inbox).kind /\ q = Head(inbox).rq /\ f = Head(inbox).seq
  BY <1>3 DEF Asked
<1>5. PICK a \in Replies(k) : stream' = stream \o Number(a, q, f)
  BY <1>4 DEF Reply
<1>6. PICK w : w = Number(a, q, f)
  OBVIOUS
<1>7. w \in Seq(Packets) /\ Len(w) \in Nat /\ (k # "query" => Len(w) = 1)
  BY <1>6, NumberedReply
<1>8. /\ stream' \in Seq(Packets) /\ Len(stream') = Len(stream) + Len(w)
      /\ Len(stream) \in Nat
  BY <1>2, <1>5, <1>6, <1>7, ConcatProperties
<1>9. inbox' \in {Tail(inbox), <<>>}
  BY DEF Reply
<1>10. inbox' \in Seq(Asked) /\ Len(inbox') <= Len(inbox) - 1 /\ Len(inbox') \in Nat
  <2>1. CASE inbox' = Tail(inbox)
    BY <1>3, <2>1
  <2>2. CASE inbox' = <<>>
    BY <1>3, <2>2
  <2> QED  BY <1>9, <2>1, <2>2
<1>11. have \in 0..Len(stream') /\ (frag => have < Len(stream'))
  BY <1>7, <1>8 DEF MyInv, Typed
<1>12. Typed'
  BY <1>1, <1>8, <1>10, <1>11, Zenon DEF MyInv, Typed
<1>13. Columns'
  BY <1>1 DEF MyInv, Columns
<1>14. op = "connect" => Len(stream) = 0 /\ Len(inbox) = 1 /\ k # "query"
  BY <1>3, <1>4, <1>8 DEF MyInv, Connecting
<1>15. op = "connect" => Len(stream') = 1 /\ Len(inbox') = 0 /\ inbox' = <<>>
  BY <1>7, <1>8, <1>10, <1>14, EmptySeq
<1>16. Connecting'
  <2>1. CASE op = "connect"
    <3>1. stage \in {"InitialGuess", "S2_Guess"} \/ begun
      BY <1>1, <2>1 DEF MyInv, Connecting
    <3>2. \A i \in 1..Len(inbox') : inbox'[i].kind # "query"
      BY <1>15, <2>1
    <3> QED  BY <1>1, <1>15, <2>1, <3>1, <3>2 DEF MyInv, Connecting
  <2>2. CASE op # "connect"
    BY <1>1, <2>2 DEF MyInv, Connecting
  <2> QED  BY <2>1, <2>2
<1> QED  BY <1>12, <1>13, <1>16 DEF MyInv

LEMMA MyNext == MyInv /\ [Next]_vars => MyInv'
<1> SUFFICES ASSUME MyInv, [Next]_vars PROVE MyInv'
  OBVIOUS
<1>1. CASE UNCHANGED vars
  BY <1>1 DEF MyInv, Typed, Columns, Connecting, vars, opVars, endVars, netVars
<1> QED
  BY <1>1, MyFresh, MyWaiting, MyHeader, MyFailed, MyColumnCount, MyColumnDefinition,
     MyResultset, MyHandshake, MyInitialErr, MyFinal, MyReply DEF Next, Client

LEMMA MyTypeFollows == MyInv => MyTypeOK
<1> SUFFICES ASSUME MyInv PROVE MyTypeOK
  OBVIOUS
<1>1. \A i \in 1..Len(stream) : stream[i] \in Packets
  BY DEF MyInv, Typed
<1>2. \A i \in 1..Len(stream) : stream[i].t \in PacketTypes /\ stream[i].seq \in 0..(SeqMod - 1)
  BY <1>1 DEF Packets, Ids
<1>3. stage \in ConnectStages \cup QueryStages
  BY DEF MyInv, Typed
<1> QED  BY <1>2, <1>3 DEF MyInv, Typed, Columns, MyTypeOK, Ids

(* Every variable keeps its type, whatever the server sends: no more       *)
(* definitions are taken than were announced, every row has as many        *)
(* columns, and the sequence id stays within its width. *)
THEOREM MyTypeCorrect == Spec => []MyTypeOK
BY MyInit, MyNext, MyTypeFollows, PTL DEF Spec

-----------------------------------------------------------------------------
(* With a server that gives one result: where the operation is in it.      *)
Succ(id) == (id + 1) % SeqMod

(* The packets are numbered from the one the client expects. *)
Consecutive ==
    /\ \A i \in 1..(Len(stream) - 1) : stream[i + 1].seq = Succ(stream[i].seq)
    /\ seq = IF begun THEN Succ(stream[1].seq) ELSE stream[1].seq

(* What is left fits the stage. *)
Early == {"InitialGuess", "S1_ERR", "S1_OK", "S2_ColumnCount"}
Place ==
    /\ stage # "Finished"
    /\ stage = "InitialGuess" => ~begun /\ SingleResult(stream)
    /\ stage = "S1_OK" => begun /\ Len(stream) = 1 /\ stream[1].t = "OK"
    /\ stage \in {"S1_ERR", "S2_ERR"} =>
         begun /\ Len(stream) = 1 /\ stream[1].t = "ERR" /\ stream[1].n >= 0
    /\ stage = "S2_OK_EOF" => begun /\ Len(stream) = 1 /\ stream[1].t = "EOF"
    /\ stage = "S2_ColumnCount" => begun /\ stream[1].t = "COUNT" /\ SingleResult(stream)
    /\ stage \in {"S2_ColnumDef", "S2_ResultSetRowGuess", "S2_ResultSet"} =>
         Remaining(stream, count, Len(defs))
    /\ stage \in {"S2_ResultSetRowGuess", "S2_ResultSet", "S2_ERR", "S2_OK_EOF"} =>
         Len(defs) = count
    /\ stage = "S2_ResultSetRowGuess" => ~begun
    /\ stage = "S2_ResultSet" => begun /\ stream[1].t = "ROW"

(* What is taken and what is left are the answer to this request. *)
Whole ==
    /\ \A i \in 1..Len(stream) : stream[i].rq = ops
    /\ \A i \in 1..Len(defs) : defs[i] = ops
    /\ \A i \in 1..Len(rows) : rows[i].rq = ops
    /\ Len(answer) = Len(stream) + (IF stage \in Early THEN 0 ELSE 1 + Len(defs) + Len(rows))
    /\ answer[Len(answer)].t = stream[Len(stream)].t /\ answer[Len(answer)].n = stream[Len(stream)].n
    /\ stage \in Early => answer[1].t = stream[1].t /\ answer[1].n = stream[1].n
    /\ stage \notin Early => answer[1].t = "COUNT" /\ answer[1].n = count

Expected == stream = <<>> \/ (Consecutive /\ Place /\ Whole)
Query(q) == [kind |-> "query", rq |-> q, seq |-> 1]

Answering ==
    /\ op = "query" /\ io # "idle" =>
         /\ conn = "open"
         /\ \/ inbox = <<>> /\ Expected
            \/ /\ ~begun /\ stage = "InitialGuess" /\ seq = 1 /\ stream = <<>>
               /\ inbox = <<Query(ops)>>
    /\ op = "connect" /\ io # "idle" => conn # "open"
    /\ io = "idle" /\ conn = "open" => stream = <<>> /\ inbox = <<>>

(* The second inductive invariant. *)
Served == Answering /\ WholeOrLost

(* What is left of a result once its first packet is taken. *)
LEMMA RemainingTail ==
    ASSUME NEW s \in Seq(Packets), s # <<>>, NEW c \in Nat, NEW d \in Nat, Remaining(s, c, d)
    PROVE  /\ d <= c
           /\ d < c => s[1].t = "DEF" /\ Tail(s) # <<>> /\ Remaining(Tail(s), c, d + 1)
           /\ d = c /\ s[1].t = "ROW" =>
                s[1].n = c /\ Tail(s) # <<>> /\ Remaining(Tail(s), c, c)
           /\ d = c /\ s[1].t # "ROW" => Len(s) = 1 /\ EndsResult(s[1])
<1>1. /\ Len(s) \in Nat /\ Len(s) >= 1 /\ Tail(s) \in Seq(Packets) /\ Len(Tail(s)) = Len(s) - 1
      /\ \A i \in 1..(Len(s) - 1) : Tail(s)[i] = s[i + 1]
  BY TailOf
<1>2. PICK m \in Nat, u \in Seq(Packets) :
        m = Len(s) /\ m >= 1 /\ u = Tail(s) /\ Len(u) = m - 1
  BY <1>1
<1>3. d <= c /\ c - d < m
  BY <1>2 DEF Remaining
<1>4. ASSUME NEW i \in 1..m
      PROVE  /\ i <= c - d => s[i].t = "DEF"
             /\ c - d < i /\ i < m => s[i].t = "ROW" /\ s[i].n = c
             /\ i = m => EndsResult(s[i])
  BY <1>2 DEF Remaining
<1>5. ASSUME NEW i \in 1..(m - 1)
      PROVE  /\ i + 1 <= c - d => u[i].t = "DEF"
             /\ c - d < i + 1 /\ i + 1 < m => u[i].t = "ROW" /\ u[i].n = c
             /\ i + 1 = m => EndsResult(u[i])
  <2>1. i + 1 \in 1..m /\ u[i] = s[i + 1]
    BY <1>1, <1>2
  <2> QED  BY <1>4, <2>1
<1>6. ASSUME NEW e \in Nat, e <= c, c - e < m - 1,
             \A i \in 1..(m - 1) : /\ i <= c - e => u[i].t = "DEF"
                                   /\ c - e < i /\ i < m - 1 => u[i].t = "ROW" /\ u[i].n = c
                                   /\ i = m - 1 => EndsResult(u[i])
      PROVE  Tail(s) # <<>> /\ Remaining(Tail(s), c, e)
  <2>1. Len(u) = m - 1
    BY <1>2
  <2>2. \A i \in 1..Len(u) : /\ i <= c - e => u[i].t = "DEF"
                             /\ c - e < i /\ i < Len(u) => u[i].t = "ROW" /\ u[i].n = c
                             /\ i = Len(u) => EndsResult(u[i])
    BY <1>6, <2>1, Zenon
  <2>3. e <= c /\ c - e < Len(u)
    BY <1>6, <2>1
  <2>4. Remaining(u, c, e)
    BY <2>2, <2>3, Zenon DEF Remaining
  <2>5. u # <<>>
    BY <1>6, <2>1
  <2> QED  BY <1>2, <2>4, <2>5
<1>7. CASE d < c
  <2>1. c - d >= 1 /\ m > 1 /\ 1 \in 1..m
    BY <1>2, <1>3, <1>7
  <2>2. s[1].t = "DEF"
    BY <1>4, <2>1
  <2>3. d + 1 \in Nat /\ d + 1 <= c /\ c - (d + 1) < m - 1
    BY <1>3, <1>7
  <2>4. ASSUME NEW i \in 1..(m - 1)
        PROVE  /\ i <= c - (d + 1) => u[i].t = "DEF"
               /\ c - (d + 1) < i /\ i < m - 1 => u[i].t = "ROW" /\ u[i].n = c
               /\ i = m - 1 => EndsResult(u[i])
    <3>1. /\ i <= c - (d + 1) => i + 1 <= c - d
          /\ c - (d + 1) < i => c - d < i + 1
          /\ i < m - 1 => i + 1 < m
          /\ i = m - 1 => i + 1 = m
      OBVIOUS
    <3> QED  BY <1>5, <3>1
  <2>5. Tail(s) # <<>> /\ Remaining(Tail(s), c, d + 1)
    BY <1>6, <2>3, <2>4
  <2> QED  BY <1>7, <2>2, <2>5
<1>8. CASE d = c /\ s[1].t = "ROW"
  <2>1. 1 \in 1..m /\ (m = 1 => EndsResult(s[1]))
    BY <1>2, <1>4
  <2>2. m > 1
    BY <1>2, <1>8, <2>1 DEF EndsResult
  <2>3. s[1].n = c
    BY <1>4, <1>8, <2>1, <2>2
  <2>4. ASSUME NEW i \in 1..(m - 1)
        PROVE  /\ i <= c - c => u[i].t = "DEF"
               /\ c - c < i /\ i < m - 1 => u[i].t = "ROW" /\ u[i].n = c
               /\ i = m - 1 => EndsResult(u[i])
    <3>1. /\ ~(i <= c - c) /\ c - d < i + 1
          /\ i < m - 1 => i + 1 < m
          /\ i = m - 1 => i + 1 = m
      BY <1>8
    <3> QED  BY <1>5, <3>1
  <2>5. Tail(s) # <<>> /\ Remaining(Tail(s), c, c)
    <3>1. c <= c /\ c - c < m - 1
      BY <2>2
    <3> QED  BY <1>6, <2>4, <3>1
  <2> QED  BY <1>8, <2>3, <2>5
<1>9. CASE d = c /\ s[1].t # "ROW"
  <2>1. c - d < 1 /\ 1 \in 1..m
    BY <1>2, <1>9
  <2>2. m = 1
    BY <1>2, <1>4, <1>9, <2>1
  <2>3. EndsResult(s[1])
    BY <1>4, <2>1, <2>2
  <2> QED  BY <1>2, <1>9, <2>2, <2>3
<1>10. d < c \/ d = c
  BY <1>3
<1> QED  BY <1>3, <1>7, <1>8, <1>9, <1>10

(* A result that is numbered and sent is the same result. *)
LEMMA SameShape ==
    ASSUME NEW a \in Seq(RawPackets), NEW w \in Seq(Packets), Len(w) = Len(a),
           \A i \in 1..Len(a) : w[i].t = a[i].t /\ w[i].n = a[i].n,
           SingleResult(a)
    PROVE  SingleResult(w)
<1>1. Len(a) \in Nat /\ Len(w) \in Nat
  OBVIOUS
<1>2. CASE Len(a) = 1 /\ (a[1].t = "OK" \/ (a[1].t = "ERR" /\ a[1].n >= 0))
  <2>1. w[1].t = a[1].t /\ w[1].n = a[1].n
    BY <1>2
  <2> QED  BY <1>2, <2>1 DEF SingleResult
<1>3. CASE a # <<>> /\ a[1].t = "COUNT" /\ Remaining(Tail(a), a[1].n, 0)
  <2>1. /\ Len(a) >= 1 /\ Len(Tail(a)) = Len(a) - 1
        /\ \A i \in 1..(Len(a) - 1) : Tail(a)[i] = a[i + 1]
    BY <1>3, TailOf
  <2>2. w # <<>>
    BY <2>1
  <2>3. Len(Tail(w)) = Len(w) - 1 /\ \A i \in 1..(Len(w) - 1) : Tail(w)[i] = w[i + 1]
    BY <2>2, TailOf
  <2>4. w[1].t = a[1].t /\ w[1].n = a[1].n
    BY <2>1
  <2>5. PICK c : c = a[1].n
    OBVIOUS
  <2>6. Len(Tail(w)) = Len(Tail(a))
    BY <2>1, <2>3
  <2>7. \A i \in 1..Len(Tail(a)) : Tail(w)[i].t = Tail(a)[i].t /\ Tail(w)[i].n = Tail(a)[i].n
    <3> SUFFICES ASSUME NEW i \in 1..Len(Tail(a))
                 PROVE  Tail(w)[i].t = Tail(a)[i].t /\ Tail(w)[i].n = Tail(a)[i].n
      OBVIOUS
    <3>1. i \in 1..(Len(a) - 1) /\ i + 1 \in 1..Len(a) /\ i \in 1..(Len(w) - 1)
      BY <1>1, <2>1
    <3> QED  BY <2>1, <2>3, <3>1
  <2>8. Remaining(Tail(w), c, 0)
    BY <1>3, <2>5, <2>6, <2>7 DEF Remaining, EndsResult
  <2> QED  BY <1>3, <2>2, <2>4, <2>5, <2>8 DEF SingleResult
<1> QED  BY <1>2, <1>3 DEF SingleResult

(* A packet that is looked at while a query runs: the answer is there. *)
LEMMA Looking ==
    ASSUME MyInv, Served, op = "query", io # "idle", have > 0 \/ frag
    PROVE  inbox = <<>> /\ conn = "open" /\ Consecutive /\ Place /\ Whole
<1>1. stream # <<>>
  BY AtHead
<1> QED  BY <1>1 DEF Served, Answering, Expected

(* Nothing is asked of a step of a connect but that it opens the           *)
(* connection with nothing on its way. *)
LEMMA ServedConnect ==
    ASSUME op' = "connect", io' # "idle" => conn' # "open",
           io' = "idle" /\ conn' = "open" => stream' = <<>> /\ inbox' = <<>>
    PROVE  Served'
BY DEF Served, Answering, WholeOrLost

LEMMA ServedFresh ==
    ASSUME MyInv, Served, StartConnect \/ StartQuery
    PROVE  Served'
<1>1. CASE StartConnect
  BY <1>1, ServedConnect DEF StartConnect, Fresh
<1>2. CASE StartQuery
  <2>1. /\ io = "idle" /\ conn = "open" /\ op' = "query" /\ ops' = ops + 1
        /\ stage' = "InitialGuess" /\ begun' = FALSE /\ seq' = 1 /\ io' = "sending"
        /\ conn' = conn /\ stream' = stream
        /\ Request("query", ops + 1, 1)
    BY <1>2 DEF StartQuery, Fresh
  <2>2. stream = <<>> /\ inbox = <<>>
    BY <2>1 DEF Served, Answering
  <2>3. inbox' = <<>> \/ inbox' = <<[kind |-> "query", rq |-> ops', seq |-> 1]>>
    BY <2>1, <2>2 DEF Request
  <2> QED  BY <2>1, <2>2, <2>3 DEF Served, Answering, WholeOrLost, Expected, Query
<1> QED  BY <1>1, <1>2

LEMMA ServedWaiting ==
    ASSUME MyInv, Served, SendDone \/ ReadDone \/ NeedMore \/ UNCHANGED vars
    PROVE  Served'
<1>1. /\ UNCHANGED <<op, ops, stage, begun, seq, count, defs, rows, conn, outcome, endRq>>
      /\ UNCHANGED <<stream, inbox, answer>>
      /\ io' = io \/ (io # "idle" /\ io' # "idle")
  BY DEF SendDone, ReadDone, NeedMore, vars, opVars, endVars, netVars
<1>2. Expected' = Expected /\ Delivered' = Delivered
  BY <1>1 DEF Expected, Consecutive, Place, Whole, Delivered
<1> QED  BY <1>1, <1>2 DEF Served, Answering, WholeOrLost

(* A header is always the expected one, and its packet fits. *)
LEMMA ServedHeader ==
    ASSUME MyInv, Served, Header
    PROVE  Served'
<1>1. /\ io = "parsing" /\ ~begun /\ (have > 0 \/ frag)
      /\ stage' = Guess(stage, Head(stream).t) /\ begun' = TRUE /\ seq' = (seq + 1) % SeqMod
      /\ UNCHANGED <<op, ops, count, defs, rows, ec, conn, outcome, stream, inbox, answer, io>>
  BY DEF Header, NextPacket, endVars, netVars
<1>2. CASE op = "connect"
  BY <1>1, <1>2, ServedConnect DEF Served, Answering
<1>3. CASE op = "query"
  <2>1. inbox = <<>> /\ conn = "open" /\ Consecutive /\ Place /\ Whole
    BY <1>1, <1>3, Looking
  <2>2. /\ stream # <<>> /\ stream \in Seq(Packets) /\ Head(stream) = stream[1]
        /\ count \in Nat /\ Len(defs) \in Nat
        /\ stage \in QueryStages
    BY <1>1, <1>3, AtHead DEF MyInv, Typed
  <2>3. stage \in {"InitialGuess", "S2_ColnumDef", "S2_ResultSetRowGuess"}
    BY <1>1, <2>1, <2>2 DEF Place, QueryStages
  <2>4. stage' = Guess(stage, stream[1].t)
    BY <1>1, <2>2
  <2>5. Consecutive'
    BY <1>1, <2>1 DEF Consecutive, Succ
  <2>6. CASE stage = "InitialGuess"
    <3>1. /\ SingleResult(stream)
          /\ \/ Len(stream) = 1 /\ stream[1].t = "OK" /\ stage' = "S1_OK"
             \/ Len(stream) = 1 /\ stream[1].t = "ERR" /\ stream[1].n >= 0 /\ stage' = "S1_ERR"
             \/ stream[1].t = "COUNT" /\ stage' = "S2_ColumnCount"
      BY <1>3, <2>1, <2>4, <2>6 DEF Place, SingleResult, Guess
    <3>2. Place'
      BY <1>1, <3>1 DEF Place
    <3>3. Whole'
      <4>1. stage \in Early /\ stage' \in Early
        BY <2>6, <3>1 DEF Early
      <4> QED  BY <1>1, <2>1, <4>1 DEF Whole
    <3> QED  BY <1>1, <1>3, <2>1, <2>5, <3>2, <3>3 DEF Served, Answering, WholeOrLost, Expected
  <2>7. CASE stage # "InitialGuess"
    <3>1. Remaining(stream, count, Len(defs)) /\ (stage = "S2_ResultSetRowGuess" => Len(defs) = count)
      BY <2>1, <2>3, <2>7 DEF Place
    <3>2. /\ Len(defs) <= count
          /\ Len(defs) < count => stream[1].t = "DEF"
          /\ Len(defs) = count /\ stream[1].t # "ROW" => Len(stream) = 1 /\ EndsResult(stream[1])
      BY <2>2, <3>1, RemainingTail
    <3>3. \/ Len(defs) < count /\ stage' = "S2_ColnumDef"
          \/ Len(defs) = count /\ stream[1].t = "ROW" /\ stage' = "S2_ResultSet"
          \/ /\ Len(defs) = count /\ Len(stream) = 1 /\ stream[1].t = "ERR" /\ stream[1].n >= 0
             /\ stage' = "S2_ERR"
          \/ Len(defs) = count /\ Len(stream) = 1 /\ stream[1].t = "EOF" /\ stage' = "S2_OK_EOF"
      <4>1. CASE Len(defs) < count
        <5>1. stage = "S2_ColnumDef" /\ MoreDefs
          BY <2>3, <2>7, <3>1, <4>1 DEF MoreDefs
        <5> QED  BY <1>3, <2>4, <4>1, <5>1 DEF Guess
      <4>2. CASE Len(defs) = count
        <5>1. ~MoreDefs
          BY <2>2, <4>2 DEF MoreDefs
        <5> QED  BY <1>3, <2>4, <2>7, <3>2, <4>2, <5>1 DEF Guess, EndsResult
      <4> QED  BY <2>2, <3>2, <4>1, <4>2
    <3>4. Place'
      BY <1>1, <3>1, <3>3 DEF Place
    <3>5. Whole'
      <4>1. stage \notin Early /\ stage' \notin Early
        BY <2>3, <2>7, <3>3 DEF Early
      <4> QED  BY <1>1, <2>1, <4>1 DEF Whole
    <3> QED  BY <1>1, <1>3, <2>1, <2>5, <3>4, <3>5 DEF Served, Answering, WholeOrLost, Expected
  <2> QED  BY <2>6, <2>7
<1> QED  BY <1>2, <1>3 DEF MyInv, Typed

(* Every payload of the answer is one its parser accepts. *)
LEMMA Accepted ==
    ASSUME MyInv, Served, op = "query", io # "idle", begun, have > 0 \/ frag
    PROVE  PayloadOK(Head(stream))
<1>1. Place
  BY Looking
<1>2. /\ stream # <<>> /\ stream \in Seq(Packets) /\ Head(stream) = stream[1]
      /\ count \in Nat /\ Len(defs) \in Nat /\ stage \in QueryStages
  BY AtHead DEF MyInv, Typed
<1>3. stage = "S2_ColnumDef" => stream[1].t = "DEF"
  <2> SUFFICES ASSUME stage = "S2_ColnumDef" PROVE stream[1].t = "DEF"
    OBVIOUS
  <2>1. Len(defs) < count /\ Remaining(stream, count, Len(defs))
    BY <1>1 DEF Place, MyInv, Columns
  <2> QED  BY <1>2, <2>1, RemainingTail
<1>4. stage = "S2_ResultSet" => stream[1].t = "ROW" /\ stream[1].n = count
  <2> SUFFICES ASSUME stage = "S2_ResultSet" PROVE stream[1].t = "ROW" /\ stream[1].n = count
    OBVIOUS
  <2>1. Len(defs) = count /\ Remaining(stream, count, Len(defs)) /\ stream[1].t = "ROW"
    BY <1>1 DEF Place
  <2> QED  BY <1>2, <2>1, RemainingTail
<1> QED  BY <1>1, <1>2, <1>3, <1>4 DEF Place, PayloadOK, QueryStages

LEMMA ServedFailed ==
    ASSUME MyInv, Served, StreamFail \/ HeaderRefused \/ PayloadMalformed
    PROVE  Served'
<1>1. /\ UNCHANGED <<op, stage, begun, seq>> /\ io # "idle" /\ io' = "idle"
  BY DEF StreamFail, HeaderRefused, PayloadMalformed, opVars, NextPacket, Complete
<1>2. CASE op = "connect"
  <2>1. \E e \in {Transport, CR_MALFORMED_PACKET, CR_UNKNOWN_ERROR}, h \in {0, have} :
          Complete(e, stream, h)
    BY DEF StreamFail, HeaderRefused, PayloadMalformed
  <2>2. conn' = "failed"
    BY <1>2, <2>1 DEF Complete, Transport, CR_MALFORMED_PACKET, CR_UNKNOWN_ERROR, Ok
  <2> QED  BY <1>1, <1>2, <2>2, ServedConnect
<1>3. CASE op = "query" /\ StreamFail
  <2>1. outcome' = Transport /\ conn' = "failed"
    BY <1>3 DEF StreamFail, Complete
  <2> QED  BY <1>1, <1>3, <2>1 DEF Served, Answering, WholeOrLost
<1>4. CASE op = "query" /\ HeaderRefused
  <2>1. ~begun /\ (have > 0 \/ frag)
    BY <1>4 DEF HeaderRefused, NextPacket
  <2>2. Consecutive /\ Head(stream) = stream[1]
    BY <1>1, <1>4, <2>1, Looking, AtHead
  <2>3. Numbered(Head(stream))
    BY <2>1, <2>2 DEF Consecutive, Numbered
  <2>4. Guess(stage, Head(stream).t) # "unknown"
    BY <1>4, Guesses
  <2> QED  BY <1>4, <2>3, <2>4 DEF HeaderRefused
<1>5. CASE op = "query" /\ PayloadMalformed
  <2>1. begun /\ (have > 0 \/ frag) /\ ~PayloadOK(Head(stream))
    BY <1>5 DEF PayloadMalformed
  <2> QED  BY <1>1, <1>5, <2>1, Accepted
<1> QED  BY <1>2, <1>3, <1>4, <1>5 DEF MyInv, Typed

LEMMA ServedHandshake ==
    ASSUME MyInv, Served, Handshake \/ HandshakePlugin \/ InitialErr
    PROVE  Served'
<1>1. op = "connect" /\ op' = op /\ have > 0 /\ io = "parsing"
  BY DEF Handshake, HandshakePlugin, InitialErr, Payload, MyInv, Typed, QueryStages
<1>2. have = 1 /\ ~frag
  <2>1. have = 1 /\ Len(stream) = 1
    BY <1>1, OnlyPacket
  <2> QED  BY <2>1 DEF MyInv, Typed
<1>3. conn # "open"
  BY <1>1 DEF Served, Answering
<1>4. CASE Handshake
  <2>1. io' = "sending" /\ conn' = conn
    BY <1>2, <1>4 DEF Handshake, endVars
  <2> QED  BY <1>1, <1>3, <2>1, ServedConnect
<1>5. CASE HandshakePlugin
  <2>1. conn' = "failed" /\ io' = "idle"
    BY <1>1, <1>5 DEF HandshakePlugin, Complete, CR_AUTH_PLUGIN_ERR, Ok
  <2> QED  BY <1>1, <2>1, ServedConnect
<1>6. CASE InitialErr
  <2>1. io' # "idle" /\ conn' = conn
    BY <1>6 DEF InitialErr, endVars
  <2> QED  BY <1>1, <1>3, <2>1, ServedConnect
<1> QED  BY <1>4, <1>5, <1>6

(* A packet of the answer is taken, and it was not the last. *)
LEMMA Taken ==
    ASSUME MyInv, Consecutive, begun, have > 0, begun' = FALSE, seq' = seq,
           Tail(stream) # <<>>, stream' = Tail(stream),
           \A i \in 1..Len(stream) : stream[i].rq = ops
    PROVE  /\ Consecutive' /\ Len(stream) \in Nat /\ Len(stream') = Len(stream) - 1
           /\ Len(stream) >= 2 /\ stream'[Len(stream')] = stream[Len(stream)]
           /\ \A i \in 1..Len(stream') : stream'[i].rq = ops
<1>1. /\ stream # <<>> /\ stream \in Seq(Packets) /\ Tail(stream) \in Seq(Packets)
      /\ Len(stream) \in Nat /\ Len(Tail(stream)) = Len(stream) - 1
      /\ \A i \in 1..(Len(stream) - 1) : Tail(stream)[i] = stream[i + 1]
  <2>1. stream # <<>> /\ stream \in Seq(Packets)
    BY AtHead
  <2> QED  BY <2>1, TailOf
<1>2. Len(stream) >= 2
  BY <1>1, EmptySeq
<1>3. PICK m \in Nat : m = Len(stream) /\ m >= 2 /\ Len(stream') = m - 1
  BY <1>1, <1>2
<1>4. \A i \in 1..(m - 1) : stream'[i] = stream[i + 1]
  BY <1>1, <1>3
<1>5. stream'[m - 1] = stream[m]
  <2>1. m - 1 \in 1..(m - 1) /\ (m - 1) + 1 = m
    BY <1>3
  <2> QED  BY <1>4, <2>1
<1>6. \A i \in 1..(m - 1) : stream'[i].rq = ops
  <2> SUFFICES ASSUME NEW i \in 1..(m - 1) PROVE stream'[i].rq = ops
    OBVIOUS
  <2>1. i + 1 \in 1..Len(stream)
    BY <1>3
  <2> QED  BY <1>4, <2>1
<1>7. \A i \in 1..(m - 2) : stream'[i + 1].seq = Succ(stream'[i].seq)
  <2> SUFFICES ASSUME NEW i \in 1..(m - 2) PROVE stream'[i + 1].seq = Succ(stream'[i].seq)
    OBVIOUS
  <2>1. /\ i \in 1..(m - 1) /\ i + 1 \in 1..(m - 1) /\ i + 1 \in 1..(Len(stream) - 1)
    BY <1>3
  <2>2. stream'[i] = stream[i + 1] /\ stream'[i + 1] = stream[(i + 1) + 1]
    BY <1>4, <2>1
  <2>3. stream[(i + 1) + 1].seq = Succ(stream[i + 1].seq)
    BY <2>1 DEF Consecutive
  <2> QED  BY <2>2, <2>3
<1>8. seq' = stream'[1].seq
  <2>1. 1 \in 1..(m - 1) /\ 1 \in 1..(Len(stream) - 1)
    BY <1>3
  <2>2. stream'[1] = stream[1 + 1] /\ stream[1 + 1].seq = Succ(stream[1].seq)
    BY <1>4, <2>1 DEF Consecutive
  <2>3. seq = Succ(stream[1].seq)
    BY DEF Consecutive
  <2> QED  BY <2>2, <2>3
<1>9. Consecutive'
  <2>1. Len(stream') - 1 = m - 2
    BY <1>3
  <2>2. \A i \in 1..(Len(stream') - 1) : stream'[i + 1].seq = Succ(stream'[i].seq)
    BY <1>7, <2>1, Zenon
  <2> QED  BY <1>8, <2>2 DEF Consecutive, Succ
<1> QED  BY <1>3, <1>5, <1>6, <1>9

LEMMA ServedColumnCount ==
    ASSUME MyInv, Served, ColumnCount
    PROVE  Served'
<1>1. /\ io = "parsing" /\ begun /\ have > 0 /\ stage = "S2_ColumnCount" /\ begun' = FALSE
      /\ count' = Head(stream).n /\ stage' = "S2_ColnumDef" /\ stream' = Tail(stream)
      /\ UNCHANGED <<inbox, io, conn, op, ops, seq, defs, rows, answer>>
  BY DEF ColumnCount, Payload, Consumed, endVars
<1>2. op = "query"
  BY <1>1 DEF MyInv, Connecting, Typed
<1>3. inbox = <<>> /\ conn = "open" /\ Consecutive /\ Place /\ Whole
  BY <1>1, <1>2, Looking
<1>4. /\ stream[1].t = "COUNT" /\ SingleResult(stream) /\ defs = <<>> /\ rows = <<>>
  BY <1>1, <1>3 DEF Place, MyInv, Columns
<1>5. /\ Head(stream) = stream[1] /\ stream[1].n \in Nat /\ Tail(stream) \in Seq(Packets)
  BY <1>1, <1>4, AtHead
<1>6. Remaining(Tail(stream), count', 0) /\ count' \in Nat
  BY <1>1, <1>4, <1>5 DEF SingleResult
<1>7. Tail(stream) # <<>>
  BY <1>5, <1>6 DEF Remaining
<1>8. /\ Consecutive' /\ Len(stream) \in Nat /\ Len(stream') = Len(stream) - 1
      /\ stream'[Len(stream')] = stream[Len(stream)]
      /\ \A i \in 1..Len(stream') : stream'[i].rq = ops
  BY <1>1, <1>3, <1>7, Taken DEF Whole
<1>9. Place'
  <2>1. Len(defs') = 0
    BY <1>1, <1>4
  <2> QED  BY <1>1, <1>6, <2>1 DEF Place
<1>10. Whole'
  <2>1. stage \in Early /\ stage' \notin Early
    BY <1>1 DEF Early
  <2>2. Len(answer) = Len(stream) /\ answer[1].t = "COUNT" /\ answer[1].n = count'
    BY <1>1, <1>3, <1>4, <1>5, <2>1 DEF Whole
  <2>3. Len(defs) = 0 /\ Len(rows) = 0
    BY <1>4
  <2>4. Len(answer) = Len(stream') + (1 + Len(defs) + Len(rows))
    BY <1>8, <2>2, <2>3
  <2> QED  BY <1>1, <1>3, <1>8, <2>1, <2>2, <2>4 DEF Whole
<1> QED  BY <1>1, <1>2, <1>3, <1>8, <1>9, <1>10 DEF Served, Answering, WholeOrLost, Expected

LEMMA ServedColumnDefinition ==
    ASSUME MyInv, Served, ColumnDefinition41
    PROVE  Served'
<1>1. /\ io = "parsing" /\ begun /\ have > 0 /\ stage = "S2_ColnumDef" /\ begun' = FALSE
      /\ defs' = Append(defs, Head(stream).rq) /\ stage' = stage /\ stream' = Tail(stream)
      /\ UNCHANGED <<inbox, io, conn, op, ops, seq, count, rows, answer>>
  BY DEF ColumnDefinition41, Payload, Consumed, endVars
<1>2. op = "query"
  BY <1>1 DEF MyInv, Connecting, Typed
<1>3. inbox = <<>> /\ conn = "open" /\ Consecutive /\ Place /\ Whole
  BY <1>1, <1>2, Looking
<1>4. /\ Len(defs) < count /\ count \in Nat /\ Len(defs) \in Nat /\ defs \in Seq(Nat)
      /\ Remaining(stream, count, Len(defs)) /\ Len(rows) \in Nat
  BY <1>1, <1>3 DEF Place, MyInv, Columns, Typed
<1>5. /\ Head(stream) = stream[1] /\ stream \in Seq(Packets) /\ stream # <<>> /\ stream[1].rq \in Nat
      /\ Len(stream) \in Nat /\ Len(stream) >= 1
  BY <1>1, AtHead
<1>6. stream[1].rq = ops
  BY <1>3, <1>5 DEF Whole
<1>7. Tail(stream) # <<>> /\ Remaining(Tail(stream), count, Len(defs) + 1)
  BY <1>4, <1>5, RemainingTail
<1>8. /\ Consecutive' /\ Len(stream') = Len(stream) - 1
      /\ stream'[Len(stream')] = stream[Len(stream)]
      /\ \A i \in 1..Len(stream') : stream'[i].rq = ops
  BY <1>1, <1>3, <1>7, Taken DEF Whole
<1>9. /\ Len(defs') = Len(defs) + 1 /\ defs'[Len(defs) + 1] = ops
      /\ \A i \in 1..Len(defs) : defs'[i] = defs[i]
  BY <1>1, <1>4, <1>5, <1>6, AppendProperties
<1>10. \A i \in 1..Len(defs') : defs'[i] = ops
  <2> SUFFICES ASSUME NEW i \in 1..Len(defs') PROVE defs'[i] = ops
    OBVIOUS
  <2>1. i \in 1..Len(defs) \/ i = Len(defs) + 1
    BY <1>4, <1>9
  <2> QED  BY <1>3, <1>9, <2>1 DEF Whole
<1>11. Place'
  BY <1>1, <1>7, <1>9 DEF Place
<1>12. Whole'
  <2>1. stage \notin Early /\ stage' \notin Early
    BY <1>1 DEF Early
  <2>2. Len(answer) = Len(stream) + (1 + Len(defs) + Len(rows))
    BY <1>3, <2>1 DEF Whole
  <2>3. Len(answer) = Len(stream') + (1 + Len(defs') + Len(rows))
    BY <1>4, <1>5, <1>8, <1>9, <2>2
  <2> QED  BY <1>1, <1>3, <1>8, <1>10, <2>1, <2>3 DEF Whole
<1> QED  BY <1>1, <1>2, <1>3, <1>8, <1>11, <1>12 DEF Served, Answering, WholeOrLost, Expected

LEMMA ServedResultset ==
    ASSUME MyInv, Served, Resultset
    PROVE  Served'
<1>1. /\ io = "parsing" /\ begun /\ have > 0 /\ stage = "S2_ResultSet" /\ begun' = FALSE
      /\ rows' = Append(rows, [n |-> Head(stream).n, rq |-> Head(stream).rq])
      /\ stage' = "S2_ResultSetRowGuess" /\ stream' = Tail(stream)
      /\ UNCHANGED <<inbox, io, conn, op, ops, seq, count, defs, answer>>
  BY DEF Resultset, Payload, Consumed, endVars
<1>2. op = "query"
  BY <1>1 DEF MyInv, Connecting, Typed
<1>3. inbox = <<>> /\ conn = "open" /\ Consecutive /\ Place /\ Whole
  BY <1>1, <1>2, Looking
<1>4. /\ Len(defs) = count /\ count \in Nat /\ Len(defs) \in Nat /\ rows \in Seq(Cells)
      /\ Remaining(stream, count, Len(defs)) /\ Len(rows) \in Nat /\ stream[1].t = "ROW"
  BY <1>1, <1>3 DEF Place, MyInv, Typed
<1>5. /\ Head(stream) = stream[1] /\ stream \in Seq(Packets) /\ stream # <<>> /\ stream[1].rq \in Nat
      /\ stream[1].n \in Int /\ Len(stream) \in Nat /\ Len(stream) >= 1
  BY <1>1, AtHead
<1>6. stream[1].rq = ops
  BY <1>3, <1>5 DEF Whole
<1>7. Tail(stream) # <<>> /\ Remaining(Tail(stream), count, Len(defs))
  BY <1>4, <1>5, RemainingTail
<1>8. /\ Consecutive' /\ Len(stream') = Len(stream) - 1
      /\ stream'[Len(stream')] = stream[Len(stream)]
      /\ \A i \in 1..Len(stream') : stream'[i].rq = ops
  BY <1>1, <1>3, <1>7, Taken DEF Whole
<1>13. PICK w \in Cells : w = [n |-> Head(stream).n, rq |-> Head(stream).rq] /\ w.rq = ops
  <2>1. [n |-> stream[1].n, rq |-> stream[1].rq] \in Cells
    BY <1>5 DEF Cells
  <2> QED  BY <1>5, <1>6, <2>1
<1>9. /\ Len(rows') = Len(rows) + 1 /\ rows'[Len(rows) + 1] = w
      /\ \A i \in 1..Len(rows) : rows'[i] = rows[i]
  BY <1>1, <1>4, <1>13, AppendProperties
<1>10. \A i \in 1..Len(rows') : rows'[i].rq = ops
  <2> SUFFICES ASSUME NEW i \in 1..Len(rows') PROVE rows'[i].rq = ops
    OBVIOUS
  <2>1. i \in 1..Len(rows) \/ i = Len(rows) + 1
    BY <1>4, <1>9
  <2> QED  BY <1>3, <1>9, <1>13, <2>1 DEF Whole
<1>11. Place'
  BY <1>1, <1>4, <1>7 DEF Place
<1>12. Whole'
  <2>1. stage \notin Early /\ stage' \notin Early
    BY <1>1 DEF Early
  <2>2. Len(answer) = Len(stream) + (1 + Len(defs) + Len(rows))
    BY <1>3, <2>1 DEF Whole
  <2>3. Len(answer) = Len(stream') + (1 + Len(defs) + Len(rows'))
    BY <1>4, <1>5, <1>8, <1>9, <2>2
  <2> QED  BY <1>1, <1>3, <1>8, <1>10, <2>1, <2>3 DEF Whole
<1> QED  BY <1>1, <1>2, <1>3, <1>8, <1>11, <1>12 DEF Served, Answering, WholeOrLost, Expected

(* The packet that ends the operation is the last of the answer. *)
LEMMA ServedFinal ==
    ASSUME MyInv, Served, Final
    PROVE  Served'
<1>1. /\ io = "parsing" /\ begun /\ have > 0 /\ endRq' = Head(stream).rq
      /\ stage \in {"S1_ERR", "S2_ERR", "S1_OK", "S2_OK", "S2_OK_EOF"}
      /\ ec' = IF stage \in {"S1_ERR", "S2_ERR"} THEN Head(stream).n ELSE Ok
      /\ Paused(ec') /\ UNCHANGED <<op, ops, count, defs, rows>>
  BY DEF Final, Payload
<1>2. /\ Head(stream) = stream[1] /\ stream[1].n \in Int /\ Len(stream) \in Nat /\ Len(stream) >= 1
  BY <1>1, AtHead
<1>3. /\ Len(stream) = 1 => have = 1 /\ ~frag /\ Tail(stream) = <<>>
  <2>1. have \in 0..Len(stream) /\ (frag => have < Len(stream))
    BY DEF MyInv, Typed
  <2>2. Tail(stream) \in Seq(Packets) /\ Len(Tail(stream)) = Len(stream) - 1
    BY <1>1, AtHead
  <2> QED  BY <1>1, <1>2, <2>1, <2>2, EmptySeq
<1>4. ASSUME have = 1, ~frag, Tail(stream) = <<>>
      PROVE  /\ io' = "idle" /\ outcome' = ec' /\ stream' = <<>> /\ UNCHANGED <<inbox, answer>>
             /\ op = "query" /\ ec' # Transport => conn' = conn
  <2>1. Complete(ec', Tail(stream), 0)
    BY <1>1, <1>4 DEF Paused
  <2>2. stream' = SubSeq(<<>>, 1, 0)
    BY <1>4, <2>1 DEF Complete
  <2>3. stream' = <<>>
    BY <2>2
  <2> QED  BY <1>4, <2>1, <2>3 DEF Complete
<1>5. CASE op = "connect"
  <2>1. Len(stream) = 1 /\ inbox = <<>>
    BY <1>1, <1>5, OnlyPacket
  <2>2. io' = "idle" /\ stream' = <<>> /\ inbox' = <<>>
    BY <1>3, <1>4, <2>1
  <2> QED  BY <1>1, <1>5, <2>2, ServedConnect
<1>6. CASE op = "query"
  <2>1. inbox = <<>> /\ conn = "open" /\ Consecutive /\ Place /\ Whole
    BY <1>1, <1>6, Looking
  <2>2. stage \in {"S1_ERR", "S2_ERR", "S1_OK", "S2_OK_EOF"}
    BY <1>1, <1>6 DEF MyInv, Typed, QueryStages
  <2>3. /\ Len(stream) = 1
        /\ stage \in {"S1_ERR", "S2_ERR"} => stream[1].t = "ERR" /\ stream[1].n >= 0
        /\ stage = "S1_OK" => stream[1].t = "OK"
        /\ stage = "S2_OK_EOF" => stream[1].t = "EOF"
        /\ stage \in {"S2_ERR", "S2_OK_EOF"} => Len(defs) = count
    BY <2>1, <2>2 DEF Place
  <2>4. ec' = IF stream[1].t = "ERR" THEN stream[1].n ELSE Ok
    BY <1>1, <1>2, <2>2, <2>3
  <2>5. ec' >= Ok /\ ec' # Transport
    BY <1>2, <2>2, <2>3, <2>4 DEF Ok, Transport
  <2>6. /\ io' = "idle" /\ outcome' = ec' /\ stream' = <<>> /\ inbox' = <<>> /\ answer' = answer
        /\ conn' = "open"
    BY <1>3, <1>4, <1>6, <2>1, <2>3, <2>5
  <2>7. /\ stream[1].rq = ops
        /\ answer[Len(answer)].t = stream[1].t /\ answer[Len(answer)].n = stream[1].n
        /\ \A i \in 1..Len(defs) : defs[i] = ops
        /\ \A i \in 1..Len(rows) : rows[i].rq = ops /\ rows[i].n = count
    BY <2>1, <2>3 DEF Whole, MyInv, Columns
  <2>8. answer[1].t = "COUNT" =>
          Len(defs) = answer[1].n /\ count = answer[1].n /\ Len(answer) = Len(defs) + Len(rows) + 2
    <3>1. CASE stage \in {"S1_ERR", "S1_OK"}
      <4>1. answer[1].t # "COUNT"
        BY <2>1, <2>3, <3>1 DEF Whole, Early
      <4> QED  BY <4>1
    <3>2. CASE stage \in {"S2_ERR", "S2_OK_EOF"}
      <4>1. stage \notin Early
        BY <3>2 DEF Early
      <4>2. Len(defs) \in Nat /\ Len(rows) \in Nat
        BY DEF MyInv, Typed
      <4> QED  BY <2>1, <2>3, <3>2, <4>1, <4>2 DEF Whole
    <3> QED  BY <2>2, <3>1, <3>2
  <2>9. Delivered'
    BY <1>1, <1>2, <2>4, <2>5, <2>6, <2>7, <2>8 DEF Delivered, Ok
  <2> QED  BY <1>1, <1>6, <2>6, <2>9 DEF Served, Answering, WholeOrLost
<1> QED  BY <1>5, <1>6 DEF MyInv, Typed

(* The answer to a query arrives in one piece. *)
LEMMA ServedReply ==
    ASSUME MyInv, Served, Reply, OneResult
    PROVE  Served'
<1>1. /\ inbox # <<>> /\ UNCHANGED <<op, ops, stage, begun, seq, count, defs, rows, conn, outcome>>
      /\ UNCHANGED <<io, endRq>>
  BY DEF Reply, opVars, endVars
<1>2. CASE op = "connect"
  <2>1. ~(io = "idle" /\ conn = "open") /\ (io # "idle" => conn # "open")
    BY <1>1, <1>2 DEF Served, Answering
  <2> QED  BY <1>1, <1>2, <2>1, ServedConnect
<1>3. CASE op = "query" /\ io = "idle"
  <2>1. conn # "open" /\ outcome = Transport
    BY <1>1, <1>3 DEF Served, Answering, WholeOrLost, Delivered
  <2> QED  BY <1>1, <1>3, <2>1 DEF Served, Answering, WholeOrLost
<1>4. CASE op = "query" /\ io # "idle"
  <2>1. /\ conn = "open" /\ ~begun /\ stage = "InitialGuess" /\ seq = 1 /\ stream = <<>>
        /\ inbox = <<Query(ops)>>
    BY <1>1, <1>4 DEF Served, Answering
  <2>2. /\ Head(inbox).kind = "query" /\ Head(inbox).rq = ops /\ Head(inbox).seq = 1
        /\ Tail(inbox) = <<>>
    BY <2>1 DEF Query
  <2>3. PICK a \in Replies("query") : stream' = stream \o Number(a, ops, 1) /\ answer' = a
    BY <2>2 DEF Reply
  <2>4. ops \in Nat /\ 1 \in Nat /\ "query" \in RequestKinds
    BY ConstantsAssumption DEF MyInv, Typed, RequestKinds
  <2>5. PICK w : w = Number(a, ops, 1)
    OBVIOUS
  <2>6. /\ w \in Seq(Packets) /\ Len(w) = Len(a) /\ Len(a) \in Nat /\ a \in Seq(RawPackets)
        /\ Len(a) >= 1
        /\ \A i \in 1..Len(a) : w[i] = [t |-> a[i].t, n |-> a[i].n, rq |-> ops,
                                        seq |-> (1 + i - 1) % SeqMod]
    BY <2>4, <2>5, NumberedReply
  <2>7. stream' = w
    BY <2>1, <2>3, <2>5, <2>6
  <2>8. \A i \in 1..Len(a) : /\ w[i].t = a[i].t /\ w[i].n = a[i].n /\ w[i].rq = ops
                             /\ w[i].seq = i % SeqMod
    <3> SUFFICES ASSUME NEW i \in 1..Len(a)
                 PROVE  /\ w[i].t = a[i].t /\ w[i].n = a[i].n /\ w[i].rq = ops
                        /\ w[i].seq = i % SeqMod
      OBVIOUS
    <3>1. 1 + i - 1 = i
      OBVIOUS
    <3>2. w[i] = [t |-> a[i].t, n |-> a[i].n, rq |-> ops, seq |-> (1 + i - 1) % SeqMod]
      BY <2>6
    <3>3. w[i].seq = (1 + i - 1) % SeqMod
      BY <3>2
    <3>4. w[i].t = a[i].t /\ w[i].n = a[i].n /\ w[i].rq = ops
      BY <3>2
    <3> QED  BY <3>1, <3>3, <3>4, Zenon
  <2>9. SingleResult(w)
    <3>1. SingleResult(a)
      BY DEF OneResult
    <3> QED  BY <2>6, <2>8, <3>1, SameShape
  <2>10. Consecutive'
    <3>1. \A i \in 1..(Len(w) - 1) : w[i + 1].seq = Succ(w[i].seq)
      <4> SUFFICES ASSUME NEW i \in 1..(Len(w) - 1) PROVE w[i + 1].seq = Succ(w[i].seq)
        OBVIOUS
      <4>1. i \in 1..Len(a) /\ i + 1 \in 1..Len(a) /\ i \in Nat
        BY <2>6
      <4>2. ((i % SeqMod) + 1) % SeqMod = (i + 1) % SeqMod
        BY <4>1, NextId, ConstantsAssumption
      <4>3. w[i].seq = i % SeqMod /\ w[i + 1].seq = (i + 1) % SeqMod
        BY <2>8, <4>1
      <4> QED  BY <4>2, <4>3 DEF Succ
    <3>2. 1 = w[1].seq
      <4>1. w[1].seq = 1 % SeqMod
        BY <2>6, <2>8
      <4>2. 1 % SeqMod = 1
        <5>1. (0 * SeqMod + 1) % SeqMod = 1 /\ 0 * SeqMod + 1 = 1
          BY Quotient, ConstantsAssumption
        <5> QED  BY <5>1
      <4> QED  BY <4>1, <4>2
    <3> QED  BY <1>1, <2>1, <2>7, <3>1, <3>2 DEF Consecutive, Succ
  <2>11. Place'
    BY <1>1, <2>1, <2>7, <2>9 DEF Place
  <2>12. Whole'
    <3>1. stage \in Early /\ defs = <<>> /\ rows = <<>>
      BY <2>1 DEF Early, MyInv, Columns
    <3> QED  BY <1>1, <2>3, <2>6, <2>7, <2>8, <3>1 DEF Whole
  <2>13. inbox' = <<>>
    BY <2>2 DEF Reply
  <2> QED  BY <1>1, <1>4, <2>1, <2>10, <2>11, <2>12, <2>13 DEF Served, Answering, WholeOrLost, Expected
<1> QED  BY <1>2, <1>3, <1>4 DEF MyInv, Typed

LEMMA ServedInit == Init => Served
BY DEF Init, Served, Answering, WholeOrLost

LEMMA ServedNext == ASSUME OneResult PROVE MyInv /\ Served /\ [Next]_vars => Served'
<1> SUFFICES ASSUME MyInv, Served, [Next]_vars PROVE Served'
  OBVIOUS
<1> QED
  BY ServedFresh, ServedWaiting, ServedHeader, ServedFailed, ServedColumnCount,
     ServedColumnDefinition, ServedResultset, ServedHandshake, ServedFinal, ServedReply
  DEF Next, Client

LEMMA ServedFollows == Served => ReadSplitsDoNotMatter
BY DEF Served, WholeOrLost, Delivered, ReadSplitsDoNotMatter

(* With a server that gives one result, a query that returns either lost   *)
(* its stream or took its own answer to the last packet, and reports how   *)
(* it ends: however reads cut the packets up, and for every width of the   *)
(* sequence id above one.                                                  *)
THEOREM QueryTakesWholeAnswer ==
    ASSUME OneResult PROVE Spec => []WholeOrLost
<1>1. MyInv /\ Served /\ [Next]_vars => MyInv' /\ Served'
  BY MyNext, ServedNext
<1>2. Served => WholeOrLost
  BY DEF Served
<1> QED  BY MyInit, ServedInit, <1>1, <1>2, PTL DEF Spec

(* With such a server no query ends with an error of the client's own. *)
THEOREM ReadSplitsNeverMatter ==
    ASSUME OneResult PROVE Spec => []ReadSplitsDoNotMatter
<1>1. MyInv /\ Served /\ [Next]_vars => MyInv' /\ Served'
  BY MyNext, ServedNext
<1> QED  BY MyInit, ServedInit, <1>1, ServedFollows, PTL DEF Spec

-----------------------------------------------------------------------------
(* Any server whose results do not end where the sequence id has wrapped.  *)
(* A connection is opened with nothing on its way. *)
Opening ==
    /\ op = "connect" /\ io # "idle" => conn # "open"
    /\ op = "connect" /\ io = "idle" /\ conn = "open" => stream = <<>> /\ inbox = <<>>

LEMMA OpeningKept ==
    ASSUME MyInv, Opening,
           UNCHANGED <<op, conn>>, io # "idle", io' # "idle"
    PROVE  Opening'
BY DEF Opening

LEMMA OpeningFails ==
    ASSUME MyInv, NEW e, NEW s, NEW h, Complete(e, s, h), e # Ok, op' = op
    PROVE  Opening'
<1>1. op = "connect" => conn' = "failed"
  BY DEF Complete
<1>2. io' = "idle"
  BY DEF Complete
<1> QED  BY <1>1, <1>2 DEF Opening

LEMMA OpeningFailed ==
    ASSUME MyInv, StreamFail \/ HeaderRefused \/ PayloadMalformed
    PROVE  Opening'
<1>1. op' = op
  BY DEF StreamFail, HeaderRefused, PayloadMalformed, opVars
<1>2. \E e \in {Transport, CR_MALFORMED_PACKET, CR_UNKNOWN_ERROR}, h \in {0, have} :
        Complete(e, stream, h)
  BY DEF StreamFail, HeaderRefused, PayloadMalformed
<1>3. \A e \in {Transport, CR_MALFORMED_PACKET, CR_UNKNOWN_ERROR} : e # Ok
  BY DEF Transport, CR_MALFORMED_PACKET, CR_UNKNOWN_ERROR, Ok
<1> QED  BY <1>1, <1>2, <1>3, OpeningFails

LEMMA OpeningHandshake ==
    ASSUME MyInv, Opening, Handshake \/ HandshakePlugin \/ InitialErr
    PROVE  Opening'
<1>1. op = "connect" /\ op' = op /\ have > 0 /\ io = "parsing"
  BY DEF Handshake, HandshakePlugin, InitialErr, Payload, MyInv, Typed, QueryStages
<1>2. have = 1 /\ ~frag
  <2>1. have = 1 /\ Len(stream) = 1
    BY <1>1, OnlyPacket
  <2> QED  BY <2>1 DEF MyInv, Typed
<1>3. CASE Handshake
  <2>1. io' = "sending" /\ conn' = conn
    BY <1>2, <1>3 DEF Handshake, endVars
  <2> QED  BY <1>1, <2>1, OpeningKept
<1>4. CASE HandshakePlugin
  <2>1. Complete(CR_AUTH_PLUGIN_ERR, Tail(stream), have - 1)
    BY <1>4 DEF HandshakePlugin
  <2>2. CR_AUTH_PLUGIN_ERR # Ok
    BY DEF CR_AUTH_PLUGIN_ERR, Ok
  <2> QED  BY <1>1, <2>1, <2>2, OpeningFails
<1>5. CASE InitialErr
  <2>1. io' # "idle" /\ conn' = conn
    BY <1>5 DEF InitialErr, endVars
  <2> QED  BY <1>1, <2>1, OpeningKept
<1> QED  BY <1>3, <1>4, <1>5

LEMMA OpeningFinal ==
    ASSUME MyInv, Opening, Final
    PROVE  Opening'
<1>1. have > 0 /\ op' = op /\ Paused(ec')
  BY DEF Final, Payload
<1>2. CASE op = "connect"
  <2>1. inbox = <<>> /\ Tail(stream) = <<>> /\ have = 1 /\ Len(stream) = 1
    BY <1>1, <1>2, OnlyPacket
  <2>2. PICK e : Complete(e, Tail(stream), have - 1)
    BY <1>1, Zenon DEF Paused
  <2>3. /\ io' = "idle" /\ inbox' = inbox
        /\ stream' = SubSeq(Tail(stream), (have - 1) + 1, Len(Tail(stream)))
    BY <2>2 DEF Complete
  <2>4. stream' = <<>>
    BY <2>1, <2>3
  <2> QED  BY <2>1, <2>3, <2>4 DEF Opening
<1>3. CASE op # "connect"
  BY <1>1, <1>3 DEF Opening
<1> QED  BY <1>2, <1>3

LEMMA OpeningNext ==
    ASSUME MyInv, Opening, [Next]_vars
    PROVE  Opening'
<1>1. CASE StartConnect
  BY <1>1 DEF StartConnect, Fresh, Opening
<1>2. CASE StartQuery
  BY <1>2 DEF StartQuery, Fresh, Opening
<1>3. CASE SendDone \/ ReadDone \/ NeedMore
  <2>1. UNCHANGED <<op, conn>> /\ io # "idle" /\ io' # "idle"
    BY <1>3 DEF SendDone, ReadDone, NeedMore, opVars, endVars
  <2> QED  BY <2>1, OpeningKept
<1>4. CASE Header \/ ColumnCount \/ ColumnDefinition41 \/ Resultset
  <2>1. UNCHANGED <<op, conn>> /\ io # "idle" /\ io' # "idle"
    BY <1>4 DEF Header, NextPacket, ColumnCount, ColumnDefinition41, Resultset, Payload,
                Consumed, endVars
  <2> QED  BY <2>1, OpeningKept
<1>5. CASE Reply
  <2>1. UNCHANGED <<op, conn, io>> /\ inbox # <<>>
    BY <1>5 DEF Reply, opVars, endVars
  <2> QED  BY <2>1 DEF Opening
<1>6. CASE UNCHANGED vars
  BY <1>6 DEF vars, opVars, endVars, netVars, Opening
<1> QED
  BY <1>1, <1>2, <1>3, <1>4, <1>5, <1>6, OpeningFailed, OpeningHandshake, OpeningFinal
  DEF Next, Client

-----------------------------------------------------------------------------
(* The unread packets are the answer without its first j.                  *)
LeftFrom(j) ==
    /\ Len(stream) = Len(answer) - j
    /\ \A i \in 1..Len(stream) :
         /\ stream[i].t = answer[j + i].t /\ stream[i].n = answer[j + i].n
         /\ stream[i].rq = ops /\ stream[i].seq = (j + i) % SeqMod

(* What was taken are these j: the count, definitions, then rows.          *)
TakenTo(j) ==
    /\ stage \in Early => j = 0 /\ defs = <<>> /\ rows = <<>>
    /\ stage \notin Early =>
         /\ j = 1 + Len(defs) + Len(rows) /\ answer[1].t = "COUNT" /\ answer[1].n = count
         /\ \A i \in 2..(1 + Len(defs)) : answer[i].t = "DEF"
         /\ \A i \in (2 + Len(defs))..j : answer[i].t = "ROW"
    /\ \A i \in 1..Len(defs) : defs[i] = ops
    /\ \A i \in 1..Len(rows) : rows[i].rq = ops

(* The packet whose header was accepted goes with the stage. *)
Fits ==
    /\ stage # "Finished" /\ (stage = "S2_ColnumDef" => rows = <<>>)
    /\ ~begun => stage \in {"InitialGuess", "S2_ColnumDef", "S2_ResultSetRowGuess"}
    /\ begun => stream # <<>> /\ stage \notin {"InitialGuess", "S2_ResultSetRowGuess"}
    /\ stage \in {"S1_ERR", "S2_ERR"} => stream[1].t = "ERR"
    /\ stage = "S1_OK" => stream[1].t = "OK"
    /\ stage = "S2_OK_EOF" => stream[1].t = "EOF"

(* The first packet is of an earlier answer, and its header gives it away. *)
Alien == ~begun /\ stream # <<>> /\ stream[1].seq # seq
OnAnswer ==
    /\ \/ answer \in Replies("query") /\ inbox = <<>>
       \/ answer = <<>> /\ inbox \in {<<>>, <<Query(ops)>>}
    /\ \E j \in Nat : LeftFrom(j) /\ TakenTo(j)
    /\ Fits

(* The third inductive invariant. *)
Reporting ==
    /\ op = "query" /\ io # "idle" /\ clean => Alien \/ OnAnswer
    /\ io = "idle" /\ op = "query" /\ clean /\ outcome >= Ok =>
         inbox = <<>> /\ (stream # <<>> => stream[1].seq # 1)
    /\ QueryReportsOwnAnswer

LEMMA Unconcerned ==
    ASSUME op' # "query" \/ ~clean' \/ (io' = "idle" /\ ~(outcome' >= Ok))
    PROVE  Reporting'
BY DEF Reporting, QueryReportsOwnAnswer

LEMMA ReportingFresh ==
    ASSUME MyInv, Opening, Reporting, StartConnect \/ StartQuery
    PROVE  Reporting'
<1>1. CASE StartConnect
  BY <1>1, Unconcerned DEF StartConnect, Fresh
<1>2. CASE StartQuery /\ ~clean'
  BY <1>2, Unconcerned
<1>3. CASE StartQuery /\ clean'
  <2>1. /\ io = "idle" /\ conn = "open" /\ op' = "query" /\ ops' = ops + 1
        /\ stage' = "InitialGuess" /\ begun' = FALSE /\ seq' = 1 /\ io' = "sending"
        /\ stream' = stream /\ defs' = <<>> /\ rows' = <<>> /\ answer' = <<>>
        /\ clean /\ outcome >= Ok /\ Request("query", ops + 1, 1)
    BY <1>3 DEF StartQuery, Fresh
  <2>2. inbox = <<>> /\ (stream # <<>> => stream[1].seq # 1)
    BY <2>1 DEF Reporting, Opening, MyInv, Typed
  <2>3. inbox' \in {<<>>, <<Query(ops')>>}
    BY <2>1, <2>2 DEF Request, Query
  <2>4. CASE stream # <<>>
    BY <2>1, <2>2, <2>4 DEF Reporting, Alien, QueryReportsOwnAnswer
  <2>5. CASE stream = <<>>
    <3>1. LeftFrom(0)'
      BY <2>1, <2>5 DEF LeftFrom
    <3>2. TakenTo(0)'
      BY <2>1 DEF TakenTo, Early
    <3>3. Fits'
      BY <2>1 DEF Fits
    <3>4. OnAnswer'
      BY <2>1, <2>3, <3>1, <3>2, <3>3 DEF OnAnswer
    <3> QED  BY <2>1, <3>4 DEF Reporting, QueryReportsOwnAnswer
  <2> QED  BY <2>4, <2>5
<1> QED  BY <1>1, <1>2, <1>3

LEMMA ReportingWaiting ==
    ASSUME Reporting, SendDone \/ ReadDone \/ NeedMore \/ UNCHANGED vars
    PROVE  Reporting'
<1>1. /\ UNCHANGED <<op, ops, stage, begun, seq, count, defs, rows, outcome, clean, endRq>>
      /\ UNCHANGED <<stream, inbox, answer>>
      /\ io' = io \/ (io # "idle" /\ io' # "idle")
  BY DEF SendDone, ReadDone, NeedMore, vars, opVars, endVars, netVars
<1>2. Alien' = Alien /\ OnAnswer' = OnAnswer
  BY <1>1 DEF Alien, OnAnswer, LeftFrom, TakenTo, Fits
<1> QED  BY <1>1, <1>2 DEF Reporting, QueryReportsOwnAnswer

LEMMA ReportingFailed ==
    ASSUME MyInv, StreamFail \/ HeaderRefused \/ PayloadMalformed
    PROVE  Reporting'
<1>1. \E e \in {Transport, CR_MALFORMED_PACKET, CR_UNKNOWN_ERROR}, h \in {0, have} :
        Complete(e, stream, h)
  BY DEF StreamFail, HeaderRefused, PayloadMalformed
<1>2. io' = "idle" /\ outcome' \in {Transport, CR_MALFORMED_PACKET, CR_UNKNOWN_ERROR}
  BY <1>1 DEF Complete
<1>3. ~(outcome' >= Ok)
  BY <1>2 DEF Transport, CR_MALFORMED_PACKET, CR_UNKNOWN_ERROR, Ok
<1> QED  BY <1>2, <1>3, Unconcerned

(* A packet of an earlier answer is refused, so one that is looked at, and *)
(* whose header is accepted, is of the query's own.                        *)
LEMMA Own ==
    ASSUME MyInv, Reporting, op = "query", clean, io # "idle", have > 0 \/ frag,
           begun \/ Numbered(Head(stream))
    PROVE  /\ inbox = <<>> /\ answer \in Replies("query") /\ Fits
           /\ \E j \in Nat : LeftFrom(j) /\ TakenTo(j)
<1>1. stream # <<>> /\ Head(stream) = stream[1] /\ Len(stream) \in Nat /\ Len(stream) >= 1
  BY AtHead
<1>2. ~Alien
  BY <1>1 DEF Alien, Numbered
<1>3. OnAnswer
  BY <1>2 DEF Reporting
<1>4. PICK j \in Nat : LeftFrom(j) /\ TakenTo(j)
  BY <1>3 DEF OnAnswer
<1>5. answer # <<>>
  BY <1>1, <1>4 DEF LeftFrom
<1> QED  BY <1>3, <1>4, <1>5 DEF OnAnswer

LEMMA ReportingHeader ==
    ASSUME MyInv, Reporting, Header
    PROVE  Reporting'
<1>1. /\ io = "parsing" /\ ~begun /\ (have > 0 \/ frag) /\ Numbered(Head(stream))
      /\ stage' = Guess(stage, Head(stream).t) /\ begun' = TRUE
      /\ UNCHANGED <<op, ops, count, defs, rows, clean, stream, inbox, answer, io>>
  BY DEF Header, NextPacket, endVars, netVars
<1>2. CASE op # "query" \/ ~clean
  BY <1>1, <1>2, Unconcerned
<1>3. CASE op = "query" /\ clean
  <2>1. inbox = <<>> /\ answer \in Replies("query") /\ Fits
    BY <1>1, <1>3, Own
  <2>2. PICK j \in Nat : LeftFrom(j) /\ TakenTo(j)
    BY <1>1, <1>3, Own
  <2>3. stream # <<>> /\ Head(stream) = stream[1] /\ Len(rows) \in Nat
    BY <1>1, AtHead DEF MyInv, Typed
  <2>4. stage \in {"InitialGuess", "S2_ColnumDef", "S2_ResultSetRowGuess"}
    BY <1>1, <2>1 DEF Fits
  <2>5. \/ stage = "InitialGuess" /\ stream[1].t = "ERR" /\ stage' = "S1_ERR"
        \/ stage = "InitialGuess" /\ stream[1].t = "OK" /\ stage' = "S1_OK"
        \/ stage = "InitialGuess" /\ stage' = "S2_ColumnCount"
        \/ stage = "S2_ColnumDef" /\ stage' = stage
        \/ stage # "InitialGuess" /\ stream[1].t = "ERR" /\ stage' = "S2_ERR"
        \/ stage # "InitialGuess" /\ stream[1].t = "EOF" /\ stage' = "S2_OK_EOF"
        \/ stage # "InitialGuess" /\ stage' = "S2_ResultSet"
    BY <1>1, <1>3, <2>3, <2>4 DEF Guess
  <2>6. Fits'
    BY <1>1, <2>1, <2>3, <2>5 DEF Fits
  <2>7. stage' \in Early <=> stage \in Early
    BY <2>4, <2>5 DEF Early
  <2>8. LeftFrom(j)' /\ TakenTo(j)'
    BY <1>1, <2>2, <2>7 DEF LeftFrom, TakenTo
  <2>9. OnAnswer'
    BY <1>1, <2>1, <2>6, <2>8 DEF OnAnswer
  <2> QED  BY <1>1, <1>3, <2>9 DEF Reporting, QueryReportsOwnAnswer
<1> QED  BY <1>2, <1>3

(* A packet is taken: the rest of the answer is one shorter. *)
LEMMA NextLeft ==
    ASSUME MyInv, have > 0, NEW j \in Nat, LeftFrom(j), answer' = answer, ops' = ops,
           stream' = Tail(stream)
    PROVE  /\ LeftFrom(j + 1)' /\ stream[1].t = answer[j + 1].t /\ stream[1].n = answer[j + 1].n
           /\ stream[1].rq = ops
<1>1. /\ stream # <<>> /\ stream \in Seq(Packets) /\ Len(stream) \in Nat /\ Len(stream) >= 1
      /\ Len(Tail(stream)) = Len(stream) - 1
      /\ \A i \in 1..(Len(stream) - 1) : Tail(stream)[i] = stream[i + 1]
  <2>1. stream # <<>> /\ stream \in Seq(Packets)
    BY AtHead
  <2> QED  BY <2>1, TailOf
<1>2. PICK m \in Nat : m = Len(stream) /\ m >= 1 /\ Len(stream') = m - 1
  BY <1>1
<1>3. \A i \in 1..(m - 1) : stream'[i] = stream[i + 1]
  BY <1>1, <1>2
<1>4. ASSUME NEW i \in 1..(m - 1)
      PROVE  /\ stream'[i].t = answer[(j + 1) + i].t /\ stream'[i].n = answer[(j + 1) + i].n
             /\ stream'[i].rq = ops /\ stream'[i].seq = ((j + 1) + i) % SeqMod
  <2>1. i + 1 \in 1..Len(stream) /\ j + (i + 1) = (j + 1) + i
    BY <1>2
  <2>2. /\ stream[i + 1].t = answer[j + (i + 1)].t /\ stream[i + 1].n = answer[j + (i + 1)].n
        /\ stream[i + 1].rq = ops /\ stream[i + 1].seq = (j + (i + 1)) % SeqMod
    BY <2>1 DEF LeftFrom
  <2> QED  BY <1>3, <2>1, <2>2
<1>5. Len(stream') = Len(answer) - (j + 1)
  <2>1. m = Len(answer) - j
    BY <1>2 DEF LeftFrom
  <2>2. Len(answer) \in Int
    BY <1>2, <2>1
  <2> QED  BY <1>2, <2>1, <2>2
<1>6. LeftFrom(j + 1)'
  BY <1>2, <1>4, <1>5 DEF LeftFrom
<1> QED  BY <1>1, <1>6 DEF LeftFrom

LEMMA ReportingColumnCount ==
    ASSUME MyInv, Reporting, ColumnCount
    PROVE  Reporting'
<1>1. /\ io = "parsing" /\ begun /\ have > 0 /\ begun' = FALSE /\ stage = "S2_ColumnCount"
      /\ PayloadOK(Head(stream)) /\ stream' = Tail(stream)
      /\ count' = Head(stream).n /\ stage' = "S2_ColnumDef"
      /\ UNCHANGED <<op, ops, defs, rows, clean, inbox, answer, io>>
  BY DEF ColumnCount, Payload, Consumed, endVars
<1>2. CASE op # "query" \/ ~clean
  BY <1>1, <1>2, Unconcerned
<1>3. CASE op = "query" /\ clean
  <2>1. inbox = <<>> /\ answer \in Replies("query")
    BY <1>1, <1>3, Own
  <2>2. PICK j \in Nat : LeftFrom(j) /\ TakenTo(j)
    BY <1>1, <1>3, Own
  <2>3. /\ LeftFrom(j + 1)' /\ stream[1].t = answer[j + 1].t /\ stream[1].n = answer[j + 1].n
    BY <1>1, <2>2, NextLeft
  <2>4. Head(stream) = stream[1] /\ stream[1].t = "COUNT"
    BY <1>1, AtHead DEF PayloadOK
  <2>5. j = 0 /\ defs = <<>> /\ rows = <<>>
    BY <1>1, <2>2 DEF TakenTo, Early, MyInv, Columns
  <2>6. TakenTo(1)'
    <3>1. Len(defs') = 0 /\ Len(rows') = 0 /\ stage' \notin Early
      BY <1>1, <2>5 DEF Early
    <3>2. answer'[1].t = "COUNT" /\ answer'[1].n = count'
      <4>1. j + 1 = 1
        BY <2>5
      <4>2. stream[1].t = answer[1].t /\ stream[1].n = answer[1].n
        BY <2>3, <4>1, Zenon
      <4> QED  BY <1>1, <2>4, <4>2, Zenon
    <3> QED  BY <3>1, <3>2 DEF TakenTo
  <2>7. Fits'
    BY <1>1, <2>5 DEF Fits
  <2>8. OnAnswer'
    BY <1>1, <2>1, <2>3, <2>5, <2>6, <2>7 DEF OnAnswer
  <2> QED  BY <1>1, <1>3, <2>8 DEF Reporting, QueryReportsOwnAnswer
<1> QED  BY <1>2, <1>3

LEMMA ReportingColumnDefinition ==
    ASSUME MyInv, Reporting, ColumnDefinition41
    PROVE  Reporting'
<1>1. /\ io = "parsing" /\ begun /\ have > 0 /\ begun' = FALSE /\ stage = "S2_ColnumDef"
      /\ PayloadOK(Head(stream)) /\ stream' = Tail(stream)
      /\ defs' = Append(defs, Head(stream).rq) /\ stage' = stage
      /\ UNCHANGED <<op, ops, count, rows, clean, inbox, answer, io>>
  BY DEF ColumnDefinition41, Payload, Consumed, endVars
<1>2. CASE op # "query" \/ ~clean
  BY <1>1, <1>2, Unconcerned
<1>3. CASE op = "query" /\ clean
  <2>1. inbox = <<>> /\ answer \in Replies("query") /\ Fits
    BY <1>1, <1>3, Own
  <2>2. PICK j \in Nat : LeftFrom(j) /\ TakenTo(j)
    BY <1>1, <1>3, Own
  <2>3. /\ LeftFrom(j + 1)' /\ stream[1].t = answer[j + 1].t /\ stream[1].rq = ops
    BY <1>1, <2>2, NextLeft
  <2>4. Head(stream) = stream[1] /\ stream[1].t = "DEF"
    BY <1>1, AtHead DEF PayloadOK
  <2>5. rows = <<>> /\ stage \notin Early
    BY <1>1, <2>1 DEF Fits, Early
  <2>6. PICK d \in Nat : d = Len(defs) /\ Len(defs') = d + 1
    BY <1>1, <2>3, <2>4 DEF MyInv, Typed
  <2>7. j = 1 + d /\ Len(rows) = 0
    BY <2>2, <2>5, <2>6 DEF TakenTo
  <2>8. \A i \in 1..(d + 1) : defs'[i] = ops
    BY <1>1, <2>2, <2>3, <2>4, <2>6 DEF TakenTo, MyInv, Typed
  <2>9. \A i \in 2..(1 + (d + 1)) : answer[i].t = "DEF"
    <3>1. \A i \in 2..(1 + d) : answer[i].t = "DEF"
      BY <2>2, <2>5, <2>6 DEF TakenTo
    <3>2. j + 1 = 2 + d /\ answer[j + 1].t = "DEF"
      BY <2>3, <2>4, <2>7
    <3> QED  BY <2>6, <3>1, <3>2
  <2>10. j + 1 = 1 + (d + 1) + 0 /\ \A i \in (2 + (d + 1))..(j + 1) : answer[i].t = "ROW"
    BY <2>6, <2>7
  <2>11. TakenTo(j + 1)'
    BY <1>1, <2>2, <2>5, <2>6, <2>7, <2>8, <2>9, <2>10 DEF TakenTo
  <2>12. Fits'
    BY <1>1, <2>5 DEF Fits
  <2>13. OnAnswer'
    BY <1>1, <2>1, <2>3, <2>11, <2>12 DEF OnAnswer
  <2> QED  BY <1>1, <1>3, <2>13 DEF Reporting, QueryReportsOwnAnswer
<1> QED  BY <1>2, <1>3

LEMMA ReportingResultset ==
    ASSUME MyInv, Reporting, Resultset
    PROVE  Reporting'
<1>1. /\ io = "parsing" /\ begun /\ have > 0 /\ begun' = FALSE /\ stage = "S2_ResultSet"
      /\ PayloadOK(Head(stream)) /\ stream' = Tail(stream)
      /\ rows' = Append(rows, [n |-> Head(stream).n, rq |-> Head(stream).rq])
      /\ stage' = "S2_ResultSetRowGuess"
      /\ UNCHANGED <<op, ops, count, defs, clean, inbox, answer, io>>
  BY DEF Resultset, Payload, Consumed, endVars
<1>2. CASE op # "query" \/ ~clean
  BY <1>1, <1>2, Unconcerned
<1>3. CASE op = "query" /\ clean
  <2>1. inbox = <<>> /\ answer \in Replies("query")
    BY <1>1, <1>3, Own
  <2>2. PICK j \in Nat : LeftFrom(j) /\ TakenTo(j)
    BY <1>1, <1>3, Own
  <2>3. /\ LeftFrom(j + 1)' /\ stream[1].t = answer[j + 1].t /\ stream[1].rq = ops
    BY <1>1, <2>2, NextLeft
  <2>4. Head(stream) = stream[1] /\ stream[1].t = "ROW" /\ stream[1].n \in Int
    BY <1>1, AtHead DEF PayloadOK
  <2>5. stage \notin Early /\ stage' \notin Early
    BY <1>1 DEF Early
  <2>6. PICK c : c = [n |-> stream[1].n, rq |-> ops]
    OBVIOUS
  <2>7. rows' = Append(rows, c) /\ c.rq = ops /\ c \in Cells
    <3>1. ops \in Nat
      BY ConstantsAssumption DEF MyInv, Typed
    <3> QED  BY <1>1, <2>3, <2>4, <2>6, <3>1 DEF Cells
  <2>8. PICK d \in Nat, w \in Nat : d = Len(defs) /\ w = Len(rows) /\ Len(rows') = w + 1
    BY <2>7 DEF MyInv, Typed
  <2>9. j = 1 + d + w
    BY <2>2, <2>5, <2>8 DEF TakenTo
  <2>10. \A i \in 1..(w + 1) : rows'[i].rq = ops
    BY <2>2, <2>7, <2>8 DEF TakenTo, MyInv, Typed
  <2>11. \A i \in (2 + d)..(j + 1) : answer[i].t = "ROW"
    <3>1. \A i \in (2 + d)..j : answer[i].t = "ROW"
      BY <2>2, <2>5, <2>8 DEF TakenTo
    <3>2. answer[j + 1].t = "ROW"
      BY <2>3, <2>4
    <3> QED  BY <2>8, <3>1, <3>2
  <2>12. j + 1 = 1 + d + (w + 1)
    BY <2>9
  <2>13. TakenTo(j + 1)'
    BY <1>1, <2>2, <2>5, <2>8, <2>10, <2>11, <2>12 DEF TakenTo
  <2>14. Fits'
    BY <1>1 DEF Fits
  <2>15. OnAnswer'
    BY <1>1, <2>1, <2>3, <2>13, <2>14 DEF OnAnswer
  <2> QED  BY <1>1, <1>3, <2>15 DEF Reporting, QueryReportsOwnAnswer
<1> QED  BY <1>2, <1>3

LEMMA ReportingHandshake ==
    ASSUME MyInv, Handshake \/ HandshakePlugin \/ InitialErr
    PROVE  Reporting'
<1>1. op' = "connect"
  BY DEF Handshake, HandshakePlugin, InitialErr, Payload, MyInv, Typed, QueryStages
<1> QED  BY <1>1, Unconcerned

(* The first result of an answer, from what was taken of it. *)
LEMMA IntervalSize ==
    ASSUME NEW a \in Nat, NEW b \in Nat, NEW n \in Nat, a + n = b + 1
    PROVE  Cardinality(a..b) = n
<1>1. Cardinality(a..b) = IF a > b THEN 0 ELSE b - a + 1
  BY FS_Interval
<1> QED  BY <1>1

LEMMA FirstResult ==
    ASSUME NEW r, NEW k \in Nat, NEW x \in Nat, NEW y \in Nat,
           r[k].t \in {"OK", "ERR", "EOF"},
           \/ k = 1 /\ x = 0 /\ y = 0
           \/ /\ k = 2 + x + y /\ r[1].t = "COUNT"
              /\ \A i \in 2..(1 + x) : r[i].t = "DEF"
              /\ \A i \in (2 + x)..(k - 1) : r[i].t = "ROW"
    PROVE  FirstEnd(r, k) /\ CountOf(r, "DEF", k) = x /\ CountOf(r, "ROW", k) = y
<1>1. CASE k = 1 /\ x = 0 /\ y = 0
  <2>1. FirstEnd(r, k)
    BY <1>1 DEF FirstEnd
  <2>2. ASSUME NEW t \in {"DEF", "ROW"} PROVE CountOf(r, t, 1) = 0
    <3>1. {i \in 1..1 : r[i].t = t} = 1..0
      BY <1>1
    <3>2. CountOf(r, t, 1) = Cardinality(1..0)
      BY <3>1, Zenon DEF CountOf
    <3>3. Cardinality(1..0) = 0
      <4>1. PICK a \in Nat, e \in Nat, n \in Nat : a = 1 /\ e = 0 /\ n = 0 /\ a + n = e + 1
        OBVIOUS
      <4>2. Cardinality(a..e) = n
        BY <4>1, IntervalSize
      <4> QED  BY <4>1, <4>2, Zenon
    <3> QED  BY <3>2, <3>3
  <2>3. CountOf(r, "DEF", 1) = 0 /\ CountOf(r, "ROW", 1) = 0
    BY <2>2
  <2> QED  BY <1>1, <2>1, <2>3
<1>2. CASE /\ k = 2 + x + y /\ r[1].t = "COUNT"
           /\ \A i \in 2..(1 + x) : r[i].t = "DEF"
           /\ \A i \in (2 + x)..(k - 1) : r[i].t = "ROW"
  <2>1. ASSUME NEW i \in 1..k
        PROVE  \/ i = 1 /\ i < k /\ r[i].t = "COUNT"
               \/ i \in 2..(1 + x) /\ i < k /\ r[i].t = "DEF"
               \/ i \in (2 + x)..(1 + x + y) /\ i < k /\ r[i].t = "ROW"
               \/ i = k /\ r[i].t \in {"OK", "ERR", "EOF"}
    <3>1. i = 1 \/ i \in 2..(1 + x) \/ i \in (2 + x)..(k - 1) \/ i = k
      BY <1>2
    <3>2. 1 < k /\ 1 + x < k /\ k - 1 = 1 + x + y
      BY <1>2
    <3>3. CASE i = 1
      BY <1>2, <3>2, <3>3
    <3>4. CASE i \in 2..(1 + x)
      BY <1>2, <3>2, <3>4
    <3>5. CASE i \in (2 + x)..(k - 1)
      <4>1. r[i].t = "ROW"
        BY <1>2, <3>5
      <4> QED  BY <3>2, <3>5, <4>1
    <3>6. CASE i = k
      BY <3>6
    <3> QED  BY <3>1, <3>3, <3>4, <3>5, <3>6
  <2>2. FirstEnd(r, k)
    BY <2>1 DEF FirstEnd
  <2>3. {i \in 1..k : r[i].t = "DEF"} = 2..(1 + x)
    <3>1. ASSUME NEW i \in 1..k, r[i].t = "DEF" PROVE i \in 2..(1 + x)
      BY <2>1, <3>1
    <3>2. ASSUME NEW i \in 2..(1 + x) PROVE i \in 1..k /\ r[i].t = "DEF"
      BY <1>2
    <3> QED  BY <3>1, <3>2
  <2>4. {i \in 1..k : r[i].t = "ROW"} = (2 + x)..(1 + x + y)
    <3>1. ASSUME NEW i \in 1..k, r[i].t = "ROW" PROVE i \in (2 + x)..(1 + x + y)
      BY <2>1, <3>1
    <3>2. ASSUME NEW i \in (2 + x)..(1 + x + y) PROVE i \in 1..k /\ r[i].t = "ROW"
      BY <1>2
    <3> QED  BY <3>1, <3>2
  <2>5. CountOf(r, "DEF", k) = x
    <3>1. CountOf(r, "DEF", k) = Cardinality(2..(1 + x))
      BY <2>3, Zenon DEF CountOf
    <3>2. Cardinality(2..(1 + x)) = x
      <4>1. PICK a \in Nat, e \in Nat, n \in Nat : a = 2 /\ e = (1 + x) /\ n = x /\ a + n = e + 1
        OBVIOUS
      <4>2. Cardinality(a..e) = n
        BY <4>1, IntervalSize
      <4> QED  BY <4>1, <4>2, Zenon
    <3> QED  BY <3>1, <3>2
  <2>6. CountOf(r, "ROW", k) = y
    <3>1. CountOf(r, "ROW", k) = Cardinality((2 + x)..(1 + x + y))
      BY <2>4, Zenon DEF CountOf
    <3>2. Cardinality((2 + x)..(1 + x + y)) = y
      <4>1. PICK a \in Nat, e \in Nat, n \in Nat :
              a = 2 + x /\ e = 1 + x + y /\ n = y /\ a + n = e + 1
        OBVIOUS
      <4>2. Cardinality(a..e) = n
        BY <4>1, IntervalSize
      <4> QED  BY <4>1, <4>2, Zenon
    <3> QED  BY <3>1, <3>2
  <2> QED  BY <1>2, <2>2, <2>5, <2>6
<1> QED  BY <1>1, <1>2

(* What follows a result that does not end where the id wraps has not the  *)
(* id of an answer's first packet. *)
LEMMA NotFirstId ==
    ASSUME NEW k \in Nat, k % SeqMod # 0
    PROVE  (k + 1) % SeqMod # 1
<1>1. SeqMod \in Nat \ {0} /\ SeqMod > 1
  BY ConstantsAssumption
<1>2. PICK m \in Nat \ {0} : m = SeqMod /\ m > 1
  BY <1>1
<1>7. PICK d \in 1..(m - 1) : d = k % m
  BY <1>2
<1>3. (d + 1) % m = (k + 1) % m
  BY <1>7, NextId
<1>4. CASE d + 1 < m
  <2>1. (0 * m + (d + 1)) % m = d + 1 /\ 0 * m + (d + 1) = d + 1
    BY <1>2, <1>4, Quotient
  <2> QED  BY <1>2, <1>3, <2>1
<1>5. CASE d + 1 = m
  <2>1. (1 * m + 0) % m = 0 /\ 1 * m + 0 = d + 1
    BY <1>2, <1>5, Quotient
  <2> QED  BY <1>2, <1>3, <2>1
<1> QED  BY <1>2, <1>4, <1>5

LEMMA ReportingFinal ==
    ASSUME MyInv, Reporting, Final, NoEndWraps
    PROVE  Reporting'
<1>1. /\ io = "parsing" /\ begun /\ have > 0 /\ endRq' = Head(stream).rq
      /\ stage \in {"S1_ERR", "S2_ERR", "S1_OK", "S2_OK", "S2_OK_EOF"}
      /\ ec' = IF stage \in {"S1_ERR", "S2_ERR"} THEN Head(stream).n ELSE Ok
      /\ Paused(ec') /\ UNCHANGED <<op, ops, defs, rows>>
  BY DEF Final, Payload
<1>2. PICK e : /\ e = IF have = 1 /\ ~frag THEN ec' ELSE CR_MALFORMED_PACKET
               /\ Complete(e, Tail(stream), have - 1)
  BY <1>1, Zenon DEF Paused
<1>3. io' = "idle" /\ outcome' = e /\ UNCHANGED <<inbox, answer, clean>>
      /\ stream' = SubSeq(Tail(stream), (have - 1) + 1, Len(Tail(stream)))
  BY <1>2 DEF Complete
<1>4. CASE op # "query" \/ ~clean
  BY <1>1, <1>3, <1>4, Unconcerned
<1>5. CASE ~(have = 1 /\ ~frag)
  <2>1. outcome' = CR_MALFORMED_PACKET
    BY <1>2, <1>3, <1>5
  <2>2. ~(outcome' >= Ok)
    BY <2>1 DEF CR_MALFORMED_PACKET, Ok
  <2> QED  BY <1>3, <2>2, Unconcerned
<1>6. CASE op = "query" /\ clean /\ have = 1 /\ ~frag
  <2>1. inbox = <<>> /\ answer \in Replies("query") /\ Fits
    BY <1>1, <1>6, Own
  <2>2. PICK j \in Nat : LeftFrom(j) /\ TakenTo(j)
    BY <1>1, <1>6, Own
  <2>3. stream' = Tail(stream)
    <3>1. Tail(stream) \in Seq(Packets)
      BY <1>1, AtHead
    <3>2. stream' = SubSeq(Tail(stream), 1, Len(Tail(stream)))
      BY <1>3, <1>6
    <3> QED  BY <3>1, <3>2
  <2>4. /\ LeftFrom(j + 1)' /\ stream[1].t = answer[j + 1].t /\ stream[1].n = answer[j + 1].n
        /\ stream[1].rq = ops
    BY <1>1, <1>3, <2>2, <2>3, NextLeft
  <2>5. PICK k \in Nat : k = j + 1
    OBVIOUS
  <2>6. /\ LeftFrom(k)' /\ answer[k].t = stream[1].t /\ answer[k].n = stream[1].n
    BY <2>4, <2>5
  <2>7. Head(stream) = stream[1] /\ Len(stream) \in Nat /\ Len(stream) >= 1
    BY <1>1, AtHead
  <2>8. stage \in {"S1_ERR", "S2_ERR", "S1_OK", "S2_OK_EOF"}
    BY <1>1, <1>6 DEF MyInv, Typed, QueryStages
  <2>9. /\ answer[k].t \in {"OK", "ERR", "EOF"}
        /\ answer[k].t = "ERR" <=> stage \in {"S1_ERR", "S2_ERR"}
    BY <2>1, <2>6, <2>8 DEF Fits
  <2>10. outcome' = IF answer[k].t = "ERR" THEN answer[k].n ELSE Ok
    BY <1>1, <1>2, <1>3, <1>6, <2>6, <2>7, <2>9
  <2>11. k \in 1..Len(answer)
    <3>1. Len(answer) \in Nat
      BY <2>1, ReplyAssumption DEF RequestKinds
    <3>2. Len(stream) = Len(answer) - j
      BY <2>2 DEF LeftFrom
    <3> QED  BY <2>5, <2>7, <3>1, <3>2
  <2>12. defs \in Seq(Nat) /\ rows \in Seq(Cells) /\ Len(defs) \in Nat /\ Len(rows) \in Nat
    BY DEF MyInv, Typed
  <2>13. /\ \A i \in 1..Len(defs) : defs[i] = ops
         /\ \A i \in 1..Len(rows) : rows[i].rq = ops /\ rows[i].n = count
    BY <2>2 DEF TakenTo, MyInv, Columns
  <2>14. \/ k = 1 /\ Len(defs) = 0 /\ Len(rows) = 0
         \/ /\ k = 2 + Len(defs) + Len(rows) /\ answer[1].t = "COUNT" /\ answer[1].n = count
            /\ \A i \in 2..(1 + Len(defs)) : answer[i].t = "DEF"
            /\ \A i \in (2 + Len(defs))..(k - 1) : answer[i].t = "ROW"
    <3>1. CASE stage \in Early
      BY <2>2, <2>5, <3>1 DEF TakenTo
    <3>2. CASE stage \notin Early
      <4>1. k - 1 = j
        BY <2>5
      <4> QED  BY <2>2, <2>5, <2>12, <3>2, <4>1 DEF TakenTo
    <3> QED  BY <3>1, <3>2
  <2>15. /\ FirstEnd(answer, k)
         /\ defs = [i \in 1..CountOf(answer, "DEF", k) |-> ops]
         /\ rows = [i \in 1..CountOf(answer, "ROW", k) |-> [n |-> answer[1].n, rq |-> ops]]
    <3>1. PICK x \in Nat, y \in Nat : x = Len(defs) /\ y = Len(rows)
      BY <2>12
    <3>2. /\ answer[k].t \in {"OK", "ERR", "EOF"}
          /\ \/ k = 1 /\ x = 0 /\ y = 0
             \/ /\ k = 2 + x + y /\ answer[1].t = "COUNT"
                /\ \A i \in 2..(1 + x) : answer[i].t = "DEF"
                /\ \A i \in (2 + x)..(k - 1) : answer[i].t = "ROW"
      BY <2>9, <2>14, <3>1, Zenon
    <3>3. FirstEnd(answer, k) /\ CountOf(answer, "DEF", k) = x /\ CountOf(answer, "ROW", k) = y
      BY <3>2, FirstResult
    <3>4. defs = [i \in 1..x |-> ops]
      BY <2>12, <2>13, <3>1
    <3>5. rows = [i \in 1..y |-> [n |-> answer[1].n, rq |-> ops]]
      <4>1. rows = [i \in 1..y |-> rows[i]]
        BY <2>12, <3>1
      <4>2. ASSUME NEW i \in 1..y PROVE rows[i] = [n |-> answer[1].n, rq |-> ops]
        <5>1. rows[i] \in Cells /\ rows[i].rq = ops /\ rows[i].n = count
          BY <2>12, <2>13, <3>1
        <5>2. answer[1].n = count
          BY <2>14, <3>1
        <5> QED  BY <5>1, <5>2 DEF Cells
      <4> QED  BY <4>1, <4>2
    <3> QED  BY <3>3, <3>4, <3>5, Zenon
  <2>16. QueryReportsOwnAnswer'
    BY <1>1, <1>3, <2>4, <2>7, <2>10, <2>11, <2>15 DEF QueryReportsOwnAnswer
  <2>17. stream' # <<>> => stream'[1].seq # 1
    <3> SUFFICES ASSUME stream' # <<>> PROVE stream'[1].seq # 1
      OBVIOUS
    <3>1. Tail(stream) \in Seq(Packets)
      BY <1>1, AtHead
    <3>2. Len(stream') \in Nat /\ Len(stream') >= 1
      BY <2>3, <3>1
    <3>3. Len(stream') = Len(answer) - k /\ stream'[1].seq = (k + 1) % SeqMod
      <4>1. 1 \in 1..Len(stream')
        BY <3>2
      <4>2. /\ Len(stream') = Len(answer') - k
            /\ \A i \in 1..Len(stream') : stream'[i].seq = (k + i) % SeqMod
        BY <2>6 DEF LeftFrom
      <4> QED  BY <1>3, <4>1, <4>2, Zenon
    <3>4. k \in 1..(Len(answer) - 1)
      BY <2>11, <3>2, <3>3
    <3>5. k % SeqMod # 0
      BY <2>1, <2>15, <3>4 DEF NoEndWraps
    <3> QED  BY <3>3, <3>5, NotFirstId
  <2> QED  BY <1>3, <2>1, <2>16, <2>17 DEF Reporting
<1> QED  BY <1>4, <1>5, <1>6

LEMMA ReportingReply ==
    ASSUME MyInv, Reporting, Reply
    PROVE  Reporting'
<1>1. /\ inbox # <<>> /\ UNCHANGED <<op, ops, stage, begun, seq, count, defs, rows, outcome, clean>>
      /\ UNCHANGED <<io, endRq>>
  BY DEF Reply, opVars, endVars
<1>2. CASE op # "query" \/ ~clean
  BY <1>1, <1>2, Unconcerned
<1>3. CASE op = "query" /\ clean /\ io = "idle"
  <2>1. ~(outcome >= Ok)
    BY <1>1, <1>3 DEF Reporting
  <2> QED  BY <1>1, <1>3, <2>1, Unconcerned
<1>4. CASE op = "query" /\ clean /\ io # "idle" /\ Alien
  <2>1. stream \in Seq(Packets) /\ inbox \in Seq(Asked)
    BY DEF MyInv, Typed
  <2>2. inbox[1] \in Asked /\ Head(inbox) = inbox[1]
    BY <1>1, <2>1, TailOf
  <2>3. PICK k \in RequestKinds, q \in Nat, f \in Nat :
          k = Head(inbox).kind /\ q = Head(inbox).rq /\ f = Head(inbox).seq
    BY <2>2 DEF Asked
  <2>4. PICK a \in Replies(k) : stream' = stream \o Number(a, q, f)
    BY <2>3 DEF Reply
  <2>5. PICK w : w = Number(a, q, f)
    OBVIOUS
  <2>6. w \in Seq(Packets)
    BY <2>5, NumberedReply
  <2>7. stream' = stream \o w
    BY <2>4, <2>5
  <2>8. stream' # <<>> /\ stream'[1] = stream[1]
    BY <1>4, <2>1, <2>6, <2>7 DEF Alien
  <2>9. Alien'
    BY <1>1, <1>4, <2>8 DEF Alien
  <2> QED  BY <1>1, <1>4, <2>9 DEF Reporting, QueryReportsOwnAnswer
<1>5. CASE op = "query" /\ clean /\ io # "idle" /\ OnAnswer
  <2>1. answer = <<>> /\ inbox = <<Query(ops)>> /\ Fits
    BY <1>1, <1>5 DEF OnAnswer
  <2>2. PICK j \in Nat : LeftFrom(j) /\ TakenTo(j)
    BY <1>5 DEF OnAnswer
  <2>3. stream \in Seq(Packets) /\ Len(stream) \in Nat /\ Len(defs) \in Nat /\ Len(rows) \in Nat
    BY DEF MyInv, Typed
  <2>4. j = 0 /\ stream = <<>>
    <3>1. Len(stream) = 0 - j
      BY <2>1, <2>2 DEF LeftFrom
    <3>2. Len(stream) = 0 /\ j = 0
      BY <2>3, <3>1
    <3> QED  BY <2>3, <3>2, EmptySeq
  <2>5. stage \in Early /\ ~begun /\ stage = "InitialGuess"
    <3>1. stage \in Early
      BY <2>2, <2>3, <2>4 DEF TakenTo
    <3>2. ~begun
      BY <2>1, <2>4 DEF Fits
    <3> QED  BY <2>1, <3>1, <3>2 DEF Fits, Early
  <2>6. /\ Head(inbox).kind = "query" /\ Head(inbox).rq = ops /\ Head(inbox).seq = 1
        /\ Tail(inbox) = <<>>
    BY <2>1 DEF Query
  <2>7. PICK a \in Replies("query") : stream' = stream \o Number(a, ops, 1) /\ answer' = a
    BY <2>6 DEF Reply
  <2>8. ops \in Nat /\ 1 \in Nat /\ "query" \in RequestKinds
    BY ConstantsAssumption DEF MyInv, Typed, RequestKinds
  <2>9. PICK w : w = Number(a, ops, 1)
    OBVIOUS
  <2>10. /\ w \in Seq(Packets) /\ Len(w) = Len(a) /\ Len(a) \in Nat
         /\ \A i \in 1..Len(a) : w[i] = [t |-> a[i].t, n |-> a[i].n, rq |-> ops,
                                         seq |-> (1 + i - 1) % SeqMod]
    BY <2>8, <2>9, NumberedReply
  <2>11. stream' = w
    BY <2>4, <2>7, <2>9, <2>10
  <2>12. ASSUME NEW i \in 1..Len(w)
         PROVE  /\ w[i].t = a[0 + i].t /\ w[i].n = a[0 + i].n /\ w[i].rq = ops
                /\ w[i].seq = (0 + i) % SeqMod
    <3>1. 1 + i - 1 = 0 + i /\ 0 + i = i
      OBVIOUS
    <3>2. w[i] = [t |-> a[i].t, n |-> a[i].n, rq |-> ops, seq |-> (1 + i - 1) % SeqMod]
      BY <2>10
    <3>3. w[i].seq = (1 + i - 1) % SeqMod
      BY <3>2
    <3>4. w[i].t = a[i].t /\ w[i].n = a[i].n /\ w[i].rq = ops
      BY <3>2
    <3> QED  BY <3>1, <3>3, <3>4, Zenon
  <2>13. LeftFrom(0)'
    <3>1. Len(w) = Len(a) - 0
      BY <2>10
    <3> QED  BY <1>1, <2>7, <2>11, <2>12, <3>1, Zenon DEF LeftFrom
  <2>14. TakenTo(0)'
    BY <1>1, <2>2, <2>4, <2>5 DEF TakenTo
  <2>15. Fits'
    BY <1>1, <2>5 DEF Fits
  <2>16. inbox' = <<>>
    BY <2>6 DEF Reply
  <2>17. OnAnswer'
    BY <2>7, <2>13, <2>14, <2>15, <2>16 DEF OnAnswer
  <2> QED  BY <1>1, <1>5, <2>17 DEF Reporting, QueryReportsOwnAnswer
<1> QED  BY <1>2, <1>3, <1>4, <1>5 DEF Reporting

LEMMA ReportingInit == Init => Opening /\ Reporting
BY DEF Init, Opening, Reporting, QueryReportsOwnAnswer

LEMMA ReportingNext ==
    ASSUME NoEndWraps PROVE MyInv /\ Opening /\ Reporting /\ [Next]_vars => Reporting'
<1> SUFFICES ASSUME MyInv, Opening, Reporting, [Next]_vars PROVE Reporting'
  OBVIOUS
<1> QED
  BY ReportingFresh, ReportingWaiting, ReportingHeader, ReportingFailed, ReportingColumnCount,
     ReportingColumnDefinition, ReportingResultset, ReportingHandshake, ReportingFinal,
     ReportingReply
  DEF Next, Client

(* Until an operation fails by itself every query that returns reports the *)
(* first result of its own answer and nothing else, whatever the server    *)
(* sends, if no result that another one follows ends where the sequence id *)
(* has wrapped. (Where it has, what follows it looks like the start of the *)
(* next query's answer.) *)
THEOREM QueryAlwaysReportsOwnAnswer ==
    ASSUME NoEndWraps PROVE Spec => []QueryReportsOwnAnswer
<1>1. MyInv /\ Opening /\ Reporting /\ [Next]_vars => MyInv' /\ Opening' /\ Reporting'
  BY MyNext, OpeningNext, ReportingNext
<1>2. Reporting => QueryReportsOwnAnswer
  BY DEF Reporting
<1> QED  BY MyInit, ReportingInit, <1>1, <1>2, PTL DEF Spec
=============================================================================
