----------------------------- MODULE PqExecProofs -----------------------------
(***************************************************************************)
(* Theorems about PqExec: for every number of queries, run one after the   *)
(* other or any number of them at a time, the poll loop of                 *)
(* async_exec_params leaves libpq idle and delivers a query's own result.  *)
(***************************************************************************)
EXTENDS PqExec, SequenceTheorems, TLAPS

-----------------------------------------------------------------------------
(* What libpq has received and the server has sent, in this order. *)
Received == [k : Items, rq : Nat]
Results == [k : Items \cup {"none"}, rq : Nat]
Conns == [status : {"ok", "bad"}, async : {"idle", "busy", "copy"}, res : Results,
          out : Nat, inb : Seq(Received)]
Unread == pg.inb \o wire

(* PQgetResult without waiting: it returns v and leaves libpq in c. *)
Fetched(v, c) ==
    /\ c.status = pg.status /\ c.out = pg.out
    /\ \/ /\ pg.async = "busy" /\ pg.inb # <<>>
          /\ v = Head(pg.inb) /\ v.k # "Z"
          /\ c.inb = Tail(pg.inb) /\ c.res = v
          /\ c.async = (IF v.k = "copy" THEN "copy" ELSE "busy")
       \/ pg.async = "copy" /\ v = pg.res /\ c = pg

(* It gives up on a lost connection. *)
Lost(c) ==
    /\ pg.status = "bad" /\ c.status = "bad" /\ c.out = pg.out /\ c.async = "idle"
    /\ \/ pg.async = "copy" /\ c.inb = pg.inb
       \/ pg.async = "busy" /\ pg.inb = <<>> /\ c.inb = <<>>
       \/ pg.async = "busy" /\ pg.inb # <<>> /\ Head(pg.inb).k = "copy" /\ c.inb = Tail(pg.inb)

(* It finds the query at its end. *)
Over(c) ==
    \/ pg.async = "idle" /\ c = pg
    \/ /\ pg.async = "busy" /\ pg.inb # <<>> /\ Head(pg.inb).k = "Z"
       /\ c.status = pg.status /\ c.out = pg.out /\ c.async = "idle" /\ c.inb = <<>>
    \/ pg.async = "copy" /\ pg.res = Nothing /\ c = pg

(* Records of libpq's fields, and what EXCEPT makes of them. *)
Conn(s, a, v, o, b) == [status |-> s, async |-> a, res |-> v, out |-> o, inb |-> b]

LEMMA ConnForm ==
    ASSUME NEW c \in Conns
    PROVE  c = Conn(c.status, c.async, c.res, c.out, c.inb)
BY DEF Conn, Conns

LEMMA SetAsync ==
    ASSUME NEW s, NEW a, NEW v, NEW o, NEW b, NEW x
    PROVE  [Conn(s, a, v, o, b) EXCEPT !["async"] = x] = Conn(s, x, v, o, b)
BY DEF Conn

LEMMA SetOut ==
    ASSUME NEW s, NEW a, NEW v, NEW o, NEW b, NEW x
    PROVE  [Conn(s, a, v, o, b) EXCEPT !["out"] = x] = Conn(s, a, v, x, b)
BY DEF Conn

LEMMA SetBad ==
    ASSUME NEW s, NEW a, NEW v, NEW o, NEW b
    PROVE  [Conn(s, a, v, o, b) EXCEPT !["status"] = "bad", !["out"] = 0]
             = Conn("bad", a, v, 0, b)
BY DEF Conn

LEMMA SetInb ==
    ASSUME NEW s, NEW a, NEW v, NEW o, NEW b, NEW x
    PROVE  [Conn(s, a, v, o, b) EXCEPT !["inb"] = x] = Conn(s, a, v, o, x)
BY DEF Conn

LEMMA HeadReceived ==
    ASSUME pg \in Conns, pg.inb # <<>>
    PROVE  /\ Head(pg.inb) \in Received /\ Head(pg.inb) \in Results
           /\ Head(pg.inb).k \in Items /\ Head(pg.inb) # Nothing
           /\ Tail(pg.inb) \in Seq(Received)
<1>1. pg.inb \in Seq(Received)
  BY DEF Conns
<1>2. Head(pg.inb) \in Received /\ Tail(pg.inb) \in Seq(Received)
  BY <1>1, HeadTailProperties
<1>3. Head(pg.inb).k \in Items /\ Head(pg.inb).k # "none"
  BY <1>2 DEF Received, Items
<1>4. Nothing.k = "none"
  BY DEF Nothing, Item
<1> QED  BY <1>2, <1>3, <1>4 DEF Received, Results

(* What parsing makes of the first item. *)
Parsing(m) ==
    Conn(pg.status,
         CASE m.k = "Z" -> "idle" [] m.k = "copy" -> "copy" [] OTHER -> "ready",
         m, pg.out, IF m.k = "Z" THEN <<>> ELSE Tail(pg.inb))

LEMMA ParseForm ==
    ASSUME pg \in Conns
    PROVE  IF pg.async # "busy" \/ pg.inb = <<>> THEN ParseInput(pg) = pg
           ELSE ParseInput(pg) = Parsing(Head(pg.inb))
BY DEF ParseInput, Conns, Conn, Parsing

LEMMA GetForms ==
    ASSUME pg \in Conns, ~IsBusy(pg), NEW g, g = GetResult(pg)
    PROVE  /\ g.c \in Conns
           /\ \/ g.v = Nothing /\ Over(g.c)
              \/ g.v \in Results /\ Fetched(g.v, g.c)
              \/ g.v = Item("closed", 0) /\ Lost(g.c)
<1> DEFINE p == ParseInput(pg)
<1>0. /\ pg.status \in {"ok", "bad"} /\ pg.async \in {"idle", "busy", "copy"}
      /\ pg.res \in Results /\ pg.out \in Nat /\ pg.inb \in Seq(Received)
      /\ pg = Conn(pg.status, pg.async, pg.res, pg.out, pg.inb)
  BY ConnForm DEF Conns
<1>1. CASE pg.async = "idle"
  <2>1. p = pg /\ p.async = "idle"
    BY <1>1, ParseForm
  <2>2. g = [v |-> Nothing, c |-> pg]
    BY <2>1 DEF GetResult
  <2> QED  BY <1>1, <2>2 DEF Over
<1>2. CASE pg.async = "copy" /\ pg.status = "ok"
  <2>1. p = pg /\ p.async = "copy"
    BY <1>2, ParseForm
  <2>2. g = [v |-> pg.res, c |-> pg]
    BY <1>2, <2>1 DEF GetResult
  <2> QED  BY <1>0, <1>2, <2>2 DEF Fetched
<1>3. CASE pg.status = "bad" /\ (pg.async = "copy" \/ (pg.async = "busy" /\ pg.inb = <<>>))
  <2>1. p = pg /\ p.async \in {"copy", "busy"}
    BY <1>3, ParseForm
  <2>2. g = [v |-> Item("closed", 0), c |-> [pg EXCEPT !["async"] = "idle"]]
    BY <1>3, <2>1 DEF GetResult
  <2>5. [pg EXCEPT !["async"] = "idle"] = Conn(pg.status, "idle", pg.res, pg.out, pg.inb)
    BY <1>0, SetAsync
  <2>3. g.c = Conn(pg.status, "idle", pg.res, pg.out, pg.inb)
    BY <2>2, <2>5
  <2>4. /\ g.c \in Conns /\ g.c.status = "bad" /\ g.c.out = pg.out /\ g.c.async = "idle"
        /\ g.c.inb = pg.inb
    BY <1>0, <1>3, <2>3 DEF Conn, Conns
  <2> QED  BY <1>3, <2>2, <2>4 DEF Lost
<1>4. CASE pg.async = "busy" /\ pg.inb # <<>>
  <2> DEFINE m == Head(pg.inb)
  <2>1. m \in Results /\ m # Nothing /\ Tail(pg.inb) \in Seq(Received) /\ <<>> \in Seq(Received)
    BY <1>4, HeadReceived
  <2>2. p = Parsing(m)
    BY <1>4, ParseForm
  <2> HIDE DEF m, p
  <2>3. CASE m.k = "Z"
    <3>1. p = Conn(pg.status, "idle", m, pg.out, <<>>)
      BY <2>2, <2>3 DEF Parsing
    <3>2. /\ p \in Conns /\ p.status = pg.status /\ p.async = "idle" /\ p.out = pg.out
          /\ p.inb = <<>>
      BY <1>0, <2>1, <3>1 DEF Conn, Conns
    <3>3. g = [v |-> Nothing, c |-> p]
      BY <3>2 DEF GetResult, p
    <3> QED  BY <1>4, <2>3, <3>2, <3>3 DEF Over, m
  <2>4. CASE m.k = "copy" /\ pg.status = "ok"
    <3>1. p = Conn(pg.status, "copy", m, pg.out, Tail(pg.inb))
      BY <2>2, <2>4 DEF Parsing
    <3>2. /\ p \in Conns /\ p.status = pg.status /\ p.async = "copy" /\ p.out = pg.out
          /\ p.inb = Tail(pg.inb) /\ p.res = m
      BY <1>0, <2>1, <3>1 DEF Conn, Conns
    <3>3. g = [v |-> m, c |-> p]
      BY <2>4, <3>2 DEF GetResult, p
    <3> QED  BY <1>4, <2>1, <2>4, <3>2, <3>3 DEF Fetched, m
  <2>5. CASE m.k = "copy" /\ pg.status = "bad"
    <3>1. p = Conn(pg.status, "copy", m, pg.out, Tail(pg.inb))
      BY <2>2, <2>5 DEF Parsing
    <3>2. p.async = "copy" /\ p.status = "bad"
      BY <1>0, <2>1, <2>5, <3>1 DEF Conn, Conns
    <3>3. g = [v |-> Item("closed", 0), c |-> [p EXCEPT !["async"] = "idle"]]
      BY <3>2 DEF GetResult, p
    <3>4. g.c = Conn(pg.status, "idle", m, pg.out, Tail(pg.inb))
      BY <3>1, <3>3, SetAsync
    <3>5. /\ g.c \in Conns /\ g.c.status = "bad" /\ g.c.async = "idle" /\ g.c.out = pg.out
          /\ g.c.inb = Tail(pg.inb)
      BY <1>0, <2>1, <2>5, <3>4 DEF Conn, Conns
    <3> QED  BY <1>4, <2>5, <3>3, <3>5 DEF Lost, m
  <2>6. CASE m.k \notin {"Z", "copy"}
    <3>1. p = Conn(pg.status, "ready", m, pg.out, Tail(pg.inb))
      BY <2>2, <2>6 DEF Parsing
    <3>2. p.async = "ready" /\ p.res = m
      BY <3>1 DEF Conn
    <3>3. g = [v |-> m, c |-> [p EXCEPT !["async"] = "busy"]]
      BY <3>2 DEF GetResult, p
    <3>4. g.c = Conn(pg.status, "busy", m, pg.out, Tail(pg.inb))
      BY <3>1, <3>3, SetAsync
    <3>5. /\ g.c \in Conns /\ g.c.status = pg.status /\ g.c.async = "busy"
          /\ g.c.out = pg.out /\ g.c.inb = Tail(pg.inb) /\ g.c.res = m
      BY <1>0, <2>1, <3>4 DEF Conn, Conns
    <3> QED  BY <1>4, <2>1, <2>6, <3>3, <3>5 DEF Fetched, m
  <2> QED  BY <1>0, <2>3, <2>4, <2>5, <2>6
<1>5. CASE pg.async = "busy" /\ pg.inb = <<>>
  <2>1. pg.status = "bad"
    BY <1>0, <1>5, ParseForm DEF IsBusy
  <2> QED  BY <1>3, <1>5, <2>1
<1>6. \/ pg.async = "idle"
      \/ pg.async = "copy" /\ pg.status = "ok"
      \/ pg.status = "bad" /\ (pg.async = "copy" \/ (pg.async = "busy" /\ pg.inb = <<>>))
      \/ pg.async = "busy" /\ pg.inb # <<>>
      \/ pg.async = "busy" /\ pg.inb = <<>>
  BY <1>0
<1> HIDE DEF p
<1> QED  BY <1>1, <1>2, <1>3, <1>4, <1>5, <1>6, Zenon

(* A connection that is busy has nothing to parse: PollAgain changes only  *)
(* the operation. *)
LEMMA BusyForm ==
    ASSUME pg \in Conns, IsBusy(pg)
    PROVE  ParseInput(pg) = pg /\ pg.async = "busy" /\ pg.status = "ok"
<1>1. CASE pg.async # "busy" \/ pg.inb = <<>>
  BY <1>1, ParseForm DEF IsBusy
<1>2. CASE pg.async = "busy" /\ pg.inb # <<>>
  BY <1>2, ParseForm DEF IsBusy, Parsing, Conn
<1> QED  BY <1>1, <1>2

(* Reading moves the boundary between what libpq has and what it has not. *)
Cat(s, t) == s \o t
LEMMA CatFacts ==
    ASSUME NEW S, NEW s \in Seq(S), NEW x \in Seq(S), NEW y \in Seq(S)
    PROVE  Cat(s, x) \in Seq(S) /\ Cat(Cat(s, x), y) = Cat(s, Cat(x, y))
BY ConcatAssociative DEF Cat

LEMMA JoinSplit ==
    ASSUME NEW S, NEW s \in Seq(S), NEW t \in Seq(S), NEW k \in 1..Len(t)
    PROVE  /\ (s \o SubSeq(t, 1, k)) \o SubSeq(t, k + 1, Len(t)) = s \o t
           /\ s \o SubSeq(t, 1, k) \in Seq(S) /\ SubSeq(t, k + 1, Len(t)) \in Seq(S)
<1> DEFINE x == SubSeq(t, 1, k)
           y == SubSeq(t, k + 1, Len(t))
<1>1. Len(t) \in Nat /\ k \in Nat /\ k <= Len(t)
  OBVIOUS
<1>2. x \in Seq(S) /\ y \in Seq(S)
  BY <1>1, SubSeqProperties
<1>3. x \o y = SubSeq(t, 1, Len(t))
  BY <1>1, ConcatAdjacentSubSeq
<1>4. x \o y = t
  BY <1>3, SubSeqFull
<1> HIDE DEF x, y
<1>5. Cat(x, y) = t
  BY <1>4, Zenon DEF Cat
<1>6. Cat(Cat(s, x), y) = Cat(s, t) /\ Cat(s, x) \in Seq(S)
  <2>1. Cat(Cat(s, x), y) = Cat(s, Cat(x, y)) /\ Cat(s, x) \in Seq(S)
    BY <1>2, CatFacts
  <2> QED  BY <1>5, <2>1, Zenon
<1>7. Cat(Cat(s, x), y) = (s \o x) \o y /\ Cat(s, t) = s \o t /\ Cat(s, x) = s \o x
  BY DEF Cat
<1> QED  BY <1>2, <1>6, <1>7, Zenon DEF x, y

LEMMA ConsumeForms ==
    ASSUME NEW c \in Conns, wire \in Seq(Received), NEW w \in BOOLEAN, Consume(c, w)
    PROVE  /\ pg' \in Conns /\ wire' \in Seq(Received)
           /\ pg'.async = c.async /\ pg'.res = c.res
           /\ Unread' = c.inb \o wire
           /\ pg'.out \in {0, c.out} /\ (w => pg'.out = 0)
           /\ wire' # <<>> => wire # <<>>
           /\ \/ pg'.status = c.status /\ (~w => pg'.out = c.out)
              \/ pg'.status = "bad" /\ ~up /\ wire' = <<>> /\ pg'.out = 0
           /\ asked' = IF w /\ c.out # 0 /\ up THEN c.out ELSE asked
<1> DEFINE f == [c EXCEPT !["out"] = IF w THEN 0 ELSE @]
<1>1. /\ asked' = IF w /\ c.out # 0 /\ up THEN c.out ELSE asked
      /\ \/ ~Readable /\ pg' = f /\ UNCHANGED wire
         \/ /\ wire = <<>> /\ ~up /\ UNCHANGED wire
            /\ pg' = [f EXCEPT !["status"] = "bad", !["out"] = 0]
         \/ \E k \in 1..Len(wire) :
              /\ pg' = [f EXCEPT !["inb"] = @ \o SubSeq(wire, 1, k)]
              /\ wire' = SubSeq(wire, k + 1, Len(wire))
  BY DEF Consume
<1> DEFINE o == IF w THEN 0 ELSE c.out
<1>3. /\ c.status \in {"ok", "bad"} /\ c.async \in {"idle", "busy", "copy"}
      /\ c.res \in Results /\ c.out \in Nat /\ c.inb \in Seq(Received) /\ o \in Nat
      /\ c = Conn(c.status, c.async, c.res, c.out, c.inb)
  BY ConnForm DEF Conns
<1>2. f = Conn(c.status, c.async, c.res, o, c.inb)
  <2>1. f = [c EXCEPT !["out"] = o]
    BY <1>3 DEF Conn
  <2> QED  BY <1>3, <2>1, SetOut
<1> HIDE DEF f, o
<1>4. CASE pg' = f /\ UNCHANGED wire
  <2>1. /\ pg' \in Conns /\ pg'.status = c.status /\ pg'.async = c.async /\ pg'.res = c.res
        /\ pg'.out = o /\ pg'.inb = c.inb
    BY <1>2, <1>3, <1>4 DEF Conn, Conns
  <2> QED  BY <1>1, <1>3, <1>4, <2>1 DEF Unread, o
<1>5. CASE /\ wire = <<>> /\ ~up /\ UNCHANGED wire
           /\ pg' = [f EXCEPT !["status"] = "bad", !["out"] = 0]
  <2>1. pg' = Conn("bad", c.async, c.res, 0, c.inb)
    BY <1>2, <1>5, SetBad
  <2>2. /\ pg' \in Conns /\ pg'.status = "bad" /\ pg'.async = c.async /\ pg'.res = c.res
        /\ pg'.out = 0 /\ pg'.inb = c.inb
    BY <1>3, <2>1 DEF Conn, Conns
  <2> QED  BY <1>1, <1>3, <1>5, <2>2 DEF Unread
<1>6. ASSUME NEW k \in 1..Len(wire),
             pg' = [f EXCEPT !["inb"] = @ \o SubSeq(wire, 1, k)],
             wire' = SubSeq(wire, k + 1, Len(wire))
      PROVE  /\ pg' \in Conns /\ wire' \in Seq(Received)
             /\ pg'.async = c.async /\ pg'.res = c.res /\ pg'.status = c.status
             /\ pg'.out = o
             /\ Unread' = c.inb \o wire /\ wire # <<>>
  <2> DEFINE b == c.inb \o SubSeq(wire, 1, k)
  <2>7. /\ b \o SubSeq(wire, k + 1, Len(wire)) = c.inb \o wire /\ b \in Seq(Received)
        /\ SubSeq(wire, k + 1, Len(wire)) \in Seq(Received)
    <3>1. c.inb \in Seq(Received)
      BY <1>3
    <3>2. /\ (c.inb \o SubSeq(wire, 1, k)) \o SubSeq(wire, k + 1, Len(wire)) = c.inb \o wire
          /\ c.inb \o SubSeq(wire, 1, k) \in Seq(Received)
          /\ SubSeq(wire, k + 1, Len(wire)) \in Seq(Received)
      BY <1>1, <3>1, JoinSplit
    <3> QED  BY <3>2
  <2>1. b \o wire' = c.inb \o wire /\ b \in Seq(Received) /\ wire' \in Seq(Received)
    BY <1>6, <2>7, Zenon
  <2>2. pg' = [f EXCEPT !["inb"] = b]
    BY <1>2, <1>6 DEF Conn
  <2> HIDE DEF b
  <2>3. pg' = Conn(c.status, c.async, c.res, o, b)
    BY <1>2, <2>2, SetInb
  <2>4. /\ pg' \in Conns /\ pg'.status = c.status /\ pg'.async = c.async /\ pg'.res = c.res
        /\ pg'.out = o /\ pg'.inb = b
    BY <1>3, <2>1, <2>3 DEF Conn, Conns
  <2>5. Unread' = c.inb \o wire
    BY <2>1, <2>4 DEF Unread
  <2>6. wire # <<>>
    OBVIOUS
  <2> QED  BY <2>1, <2>4, <2>5, <2>6
<1>7. CASE \E k \in 1..Len(wire) : /\ pg' = [f EXCEPT !["inb"] = @ \o SubSeq(wire, 1, k)]
                                   /\ wire' = SubSeq(wire, k + 1, Len(wire))
  <2>1. /\ pg' \in Conns /\ wire' \in Seq(Received)
        /\ pg'.async = c.async /\ pg'.res = c.res /\ pg'.status = c.status
        /\ pg'.out = o
        /\ Unread' = c.inb \o wire /\ wire # <<>>
    BY <1>6, <1>7
  <2> QED  BY <1>1, <2>1 DEF o
<1> QED  BY <1>1, <1>4, <1>5, <1>7

-----------------------------------------------------------------------------
(* What each action does to libpq, in these terms. *)
LEMMA Typed ==
    ASSUME PqTypeOK
    PROVE  /\ pg \in Conns /\ pg.out \in 0..ops /\ wire \in Seq(Received)
           /\ pg.inb \in Seq(Received) /\ Unread \in Seq(Received)
           /\ r \in [Op -> Results] /\ ops \in Nat
<1>1. pg.out \in 0..ops /\ pg.inb \in Seq(Received) /\ wire \in Seq(Received) /\ ops \in Nat
  BY PqBoundAssumption DEF PqTypeOK, Received
<1>2. pg \in Conns
  BY <1>1 DEF PqTypeOK, Conns, Received, Results
<1>3. Unread \in Seq(Received)
  BY <1>1, ConcatProperties DEF Unread
<1> QED  BY <1>1, <1>2, <1>3 DEF PqTypeOK, Results

(* Some of the unread items were read; c is libpq before that. *)
Reads(c) ==
    /\ pg' \in Conns /\ wire' \in Seq(Received)
    /\ pg'.async = c.async /\ pg'.res = c.res
    /\ Unread' = c.inb \o wire
    /\ pg'.out \in {0, c.out}
    /\ wire' # <<>> => wire # <<>>
    /\ \/ pg'.status = c.status
       \/ pg'.status = "bad" /\ ~up /\ wire' = <<>> /\ pg'.out = 0

LEMMA PollStep ==
    ASSUME PqTypeOK, NEW i \in Op, NEW w \in BOOLEAN, PollDone(i, w)
    PROVE  /\ st[i] = "polling" /\ strm[i] /\ ~ \E j \in Op : OnStack(j)
           /\ st' = [st EXCEPT ![i] = "first"]
           /\ UNCHANGED <<up, ops, strm, r, ec, histVars>>
           /\ Reads(pg)
           /\ \/ asked' = asked /\ (pg'.out = 0 \/ ~w)
              \/ asked' = pg.out /\ pg.out # 0 /\ up /\ pg'.out = 0
<1>1. PICK c \in Conns : c = pg
  BY Typed
<1>2. wire \in Seq(Received) /\ Consume(c, w)
  BY <1>1, Typed DEF PollDone
<1>3. /\ Reads(c) /\ (w => pg'.out = 0)
      /\ asked' = IF w /\ c.out # 0 /\ up THEN c.out ELSE asked
  BY <1>2, ConsumeForms DEF Reads
<1> QED  BY <1>1, <1>3 DEF PollDone, Reads

LEMMA KeepStep ==
    ASSUME PqTypeOK, NEW i \in Op, Keep(i)
    PROVE  /\ OnStack(i)
           /\ st' = [st EXCEPT ![i] = "loop"] /\ asked' = asked
           /\ UNCHANGED <<up, ops, strm, ec, histVars>>
           /\ \E v \in Results, c \in Conns :
                /\ Fetched(v, c) \/ (v = Item("closed", 0) /\ Lost(c))
                /\ r' = [r EXCEPT ![i] = v]
                /\ Reads(c)
<1>1. PICK g : g = GetResult(pg)
  OBVIOUS
<1>2. /\ OnStack(i) /\ ~IsBusy(pg) /\ g.v # Nothing
      /\ r' = [r EXCEPT ![i] = g.v]
      /\ st' = [st EXCEPT ![i] = "loop"]
      /\ IF st[i] = "loop" THEN Consume(g.c, FALSE) ELSE pg' = g.c /\ UNCHANGED <<wire, asked>>
      /\ UNCHANGED <<up, ops, strm, ec, histVars>>
  BY <1>1 DEF Keep
<1>3. /\ g.c \in Conns
      /\ \/ g.v \in Results /\ Fetched(g.v, g.c)
         \/ g.v = Item("closed", 0) /\ Lost(g.c)
  BY <1>1, <1>2, Typed, GetForms
<1>4. g.v \in Results
  BY <1>3 DEF Item, Results, Items
<1>5. PICK c \in Conns : c = g.c
  BY <1>3
<1>6. Reads(c) /\ asked' = asked
  <2>1. CASE st[i] = "loop"
    <3>1. Consume(c, FALSE) /\ wire \in Seq(Received)
      BY <1>2, <1>5, <2>1, Typed
    <3> QED  BY <3>1, ConsumeForms DEF Reads
  <2>2. CASE st[i] # "loop"
    <3>1. pg' = c /\ wire' = wire /\ asked' = asked /\ wire \in Seq(Received)
      BY <1>2, <1>5, <2>2, Typed
    <3> QED  BY <3>1 DEF Reads, Unread
  <2> QED  BY <2>1, <2>2
<1> QED  BY <1>2, <1>3, <1>4, <1>5, <1>6

LEMMA FinishStep ==
    ASSUME PqTypeOK, NEW i \in Op, Finish(i)
    PROVE  /\ OnStack(i) /\ pg' \in Conns /\ Over(pg')
           /\ st' = [st EXCEPT ![i] = "done"]
           /\ UNCHANGED <<wire, asked, up, ops, strm, r, ec, histVars>>
<1>1. PICK g : g = GetResult(pg)
  OBVIOUS
<1>2. /\ OnStack(i) /\ ~IsBusy(pg) /\ g.v = Nothing /\ pg' = g.c
      /\ st' = [st EXCEPT ![i] = "done"]
      /\ UNCHANGED <<wire, asked, up, ops, strm, r, ec, histVars>>
  BY <1>1 DEF Finish
<1>3. /\ g.c \in Conns
      /\ \/ Over(g.c)
         \/ Fetched(g.v, g.c)
         \/ g.v = Item("closed", 0)
  BY <1>1, <1>2, Typed, GetForms
<1>4. g.v # Item("closed", 0)
  BY <1>2 DEF Nothing, Item
<1>5. Fetched(g.v, g.c) => Over(g.c)
  <2> SUFFICES ASSUME Fetched(g.v, g.c) PROVE Over(g.c)
    OBVIOUS
  <2>1. CASE pg.async = "busy" /\ pg.inb # <<>> /\ g.v = Head(pg.inb)
    BY <1>2, <2>1, Typed, HeadReceived
  <2>2. CASE pg.async = "copy" /\ g.v = pg.res /\ g.c = pg
    BY <1>2, <2>2 DEF Over
  <2> QED  BY <2>1, <2>2 DEF Fetched
<1>6. Over(g.c)
  BY <1>3, <1>4, <1>5
<1>7. PICK c \in Conns : c = g.c
  BY <1>3
<1>8. Over(c) /\ pg' = c
  BY <1>2, <1>6, <1>7
<1> QED  BY <1>2, <1>8 DEF Over

LEMMA AgainStep ==
    ASSUME PqTypeOK, NEW i \in Op, PollAgain(i)
    PROVE  /\ OnStack(i) /\ pg' = pg /\ st' = [st EXCEPT ![i] = "polling"]
           /\ UNCHANGED <<wire, asked, up, ops, strm, r, ec, histVars>>
BY Typed, BusyForm DEF PollAgain

LEMMA AskStep ==
    ASSUME PqTypeOK, AsyncExecParams
    PROVE  LET i == ops + 1 IN
           /\ i \in Op /\ i # 0 /\ ops' = i /\ ~ \E j \in Op : OnStack(j)
           /\ IF pg.status = "ok" /\ pg.async = "idle"
              THEN /\ pg' \in Conns /\ pg'.status = "ok" /\ pg'.async = "busy"
                   /\ pg'.res = pg.res /\ pg'.out = i /\ pg'.inb = pg.inb
              ELSE pg' = pg
           /\ st' = [st EXCEPT ![i] = "polling"] /\ strm' = [strm EXCEPT ![i] = pg.status = "ok"]
           /\ alone' = IF Running = {} THEN alone \cup {i} ELSE alone \ Running
           /\ UNCHANGED <<wire, asked, up, r, ec, cut>>
<1> DEFINE i == ops + 1
<1>1. i \in Op /\ i # 0 /\ i \in Nat
  BY Typed, PqBoundAssumption DEF AsyncExecParams, Op
<1>2. CASE pg.status = "ok" /\ pg.async = "idle"
  <2>1. pg' = [pg EXCEPT !["async"] = "busy", !["out"] = i]
    BY <1>2 DEF AsyncExecParams, Accepts
  <2>2. /\ pg = Conn("ok", "idle", pg.res, pg.out, pg.inb)
        /\ pg.res \in Results /\ pg.inb \in Seq(Received)
    BY <1>2, Typed, ConnForm DEF Conns
  <2>3. PICK b, v, o : b = pg.inb /\ v = pg.res /\ o = pg.out
    OBVIOUS
  <2>4. pg' = [Conn("ok", "idle", v, o, b) EXCEPT !["async"] = "busy", !["out"] = i]
    BY <2>1, <2>2, <2>3
  <2>5. [Conn("ok", "idle", v, o, b) EXCEPT !["async"] = "busy", !["out"] = i]
          = Conn("ok", "busy", v, i, b)
    BY DEF Conn
  <2>6. pg' = Conn("ok", "busy", v, i, b) /\ v \in Results /\ b \in Seq(Received)
    BY <2>2, <2>3, <2>4, <2>5
  <2> HIDE DEF i
  <2>7. /\ pg' \in Conns /\ pg'.status = "ok" /\ pg'.async = "busy"
        /\ pg'.res = v /\ pg'.out = i /\ pg'.inb = b
    BY <1>1, <2>6 DEF Conn, Conns
  <2> QED  BY <1>1, <1>2, <2>3, <2>6, <2>7 DEF AsyncExecParams, i
<1>3. CASE ~(pg.status = "ok" /\ pg.async = "idle")
  BY <1>1, <1>3 DEF AsyncExecParams, Accepts
<1> QED  BY <1>2, <1>3

-----------------------------------------------------------------------------
(* Types. *)
LEMMA PqInitTyped == PqInit => PqTypeOK
<1> SUFFICES ASSUME PqInit PROVE PqTypeOK
  OBVIOUS
<1>1. \A i \in Op : ~OnStack(i)
  BY DEF PqInit, OnStack
<1>2. /\ ops \in 0..MaxOps /\ cut \in Nat /\ alone \subseteq 1..ops /\ up \in BOOLEAN
      /\ asked \in 0..ops /\ wire \in Seq([k : Items, rq : Nat])
  BY PqBoundAssumption DEF PqInit
<1>3. Nothing \in [k : Items \cup {"none"}, rq : Nat]
  BY DEF Nothing, Item
<1>4. pg \in [status : {"ok", "bad"}, async : {"idle", "busy", "copy"},
             res : [k : Items \cup {"none"}, rq : Nat], out : 0..ops,
             inb : Seq([k : Items, rq : Nat])]
  BY <1>2, <1>3 DEF PqInit
<1>5. /\ st \in [Op -> {"new", "polling", "first", "loop", "done"}]
      /\ strm \in [Op -> BOOLEAN] /\ ec \in [Op -> {"ok", "poll"}]
      /\ r \in [Op -> [k : Items \cup {"none"}, rq : Nat]]
  BY <1>3 DEF PqInit
<1> QED  BY <1>1, <1>2, <1>4, <1>5 DEF PqTypeOK

(* The type invariant from its parts. *)
LEMMA TypeParts ==
    ASSUME pg' \in Conns, pg'.out \in 0..ops', wire' \in Seq(Received), asked' \in 0..ops',
           up' \in BOOLEAN, ops' \in 0..MaxOps, cut' \in Nat, alone' \subseteq 1..ops',
           st' \in [Op -> {"new", "polling", "first", "loop", "done"}],
           strm' \in [Op -> BOOLEAN], ec' \in [Op -> {"ok", "poll"}], r' \in [Op -> Results],
           \A i, j \in Op : st'[i] \in {"first", "loop"} /\ st'[j] \in {"first", "loop"} => i = j
    PROVE  PqTypeOK'
<1>1. pg' \in [status : {"ok", "bad"}, async : {"idle", "busy", "copy"},
              res : [k : Items \cup {"none"}, rq : Nat], out : 0..ops',
              inb : Seq([k : Items, rq : Nat])]
  BY DEF Conns, Results, Received
<1> QED  BY <1>1 DEF PqTypeOK, Results, Received, OnStack

(* An operation moves from one state to another.  No two handlers overlap. *)
LEMMA Moves ==
    ASSUME PqTypeOK, NEW i \in Op, NEW x \in {"new", "polling", "first", "loop", "done"},
           st' = [st EXCEPT ![i] = x],
           OnStack(i) \/ x \notin {"first", "loop"} \/ ~ \E j \in Op : OnStack(j)
    PROVE  /\ st' \in [Op -> {"new", "polling", "first", "loop", "done"}]
           /\ \A k, j \in Op : /\ st'[k] \in {"first", "loop"}
                              /\ st'[j] \in {"first", "loop"} => k = j
<1>1. st \in [Op -> {"new", "polling", "first", "loop", "done"}]
  BY DEF PqTypeOK
<1>2. st'[i] = x /\ \A k \in Op : k # i => st'[k] = st[k]
  BY <1>1
<1>3. st' \in [Op -> {"new", "polling", "first", "loop", "done"}]
  BY <1>1
<1>4. ASSUME NEW k \in Op, NEW j \in Op, k # j,
             st'[k] \in {"first", "loop"}, st'[j] \in {"first", "loop"}
      PROVE  FALSE
  BY <1>2, <1>4 DEF PqTypeOK, OnStack
<1> QED  BY <1>3, <1>4

LEMMA PqTypeNext == PqTypeOK /\ [PqNext]_pqVars => PqTypeOK'
<1> SUFFICES ASSUME PqTypeOK, [PqNext]_pqVars PROVE PqTypeOK'
  OBVIOUS
<1>0. /\ pg \in Conns /\ pg.out \in 0..ops /\ wire \in Seq(Received) /\ r \in [Op -> Results]
      /\ ops \in Nat /\ ops \in 0..MaxOps /\ asked \in 0..ops /\ up \in BOOLEAN /\ cut \in Nat
      /\ alone \subseteq 1..ops /\ strm \in [Op -> BOOLEAN] /\ ec \in [Op -> {"ok", "poll"}]
      /\ st \in [Op -> {"new", "polling", "first", "loop", "done"}]
      /\ \A i, j \in Op : st[i] \in {"first", "loop"} /\ st[j] \in {"first", "loop"} => i = j
  BY Typed DEF PqTypeOK, OnStack
<1>1. CASE AsyncExecParams
  <2> DEFINE i == ops + 1
  <2>1. /\ i \in Op /\ ops' = i /\ ~ \E j \in Op : OnStack(j)
        /\ pg' \in Conns /\ pg'.out \in {i, pg.out}
        /\ st' = [st EXCEPT ![i] = "polling"] /\ strm' = [strm EXCEPT ![i] = pg.status = "ok"]
        /\ alone' = IF Running = {} THEN alone \cup {i} ELSE alone \ Running
        /\ UNCHANGED <<wire, asked, up, r, ec, cut>>
    BY <1>0, <1>1, AskStep
  <2>2. /\ i \in 0..MaxOps /\ pg'.out \in 0..i /\ asked \in 0..i /\ alone \subseteq 1..i
        /\ i \in 1..i
    BY <1>0, <2>1, PqBoundAssumption DEF Op
  <2>3. alone' \subseteq 1..i
    BY <2>1, <2>2
  <2>4. strm' \in [Op -> BOOLEAN]
    BY <1>0, <2>1
  <2> HIDE DEF i
  <2> QED  BY <1>0, <2>1, <2>2, <2>3, <2>4, Moves, TypeParts
<1>2. ASSUME NEW i \in Op, NEW w \in BOOLEAN, PollDone(i, w) PROVE PqTypeOK'
  <2>1. /\ ~ \E j \in Op : OnStack(j)
        /\ st' = [st EXCEPT ![i] = "first"]
        /\ UNCHANGED <<up, ops, strm, r, ec, cut, alone>>
        /\ pg' \in Conns /\ wire' \in Seq(Received)
        /\ pg'.out \in {0, pg.out} /\ asked' \in {asked, pg.out}
    BY <1>2, PollStep DEF Reads, histVars
  <2>2. pg'.out \in 0..ops /\ asked' \in 0..ops
    BY <1>0, <2>1
  <2> QED  BY <1>0, <2>1, <2>2, Moves, TypeParts
<1>3. ASSUME NEW i \in Op, Keep(i) PROVE PqTypeOK'
  <2>1. /\ OnStack(i) /\ st' = [st EXCEPT ![i] = "loop"] /\ asked' = asked
        /\ UNCHANGED <<up, ops, strm, ec, cut, alone>>
    BY <1>3, KeepStep DEF histVars
  <2>2. PICK v \in Results, c \in Conns :
          /\ Fetched(v, c) \/ (v = Item("closed", 0) /\ Lost(c))
          /\ r' = [r EXCEPT ![i] = v]
          /\ Reads(c)
    BY <1>3, KeepStep
  <2>3. c.out = pg.out
    BY <2>2 DEF Fetched, Lost
  <2>4. /\ pg' \in Conns /\ wire' \in Seq(Received) /\ pg'.out \in 0..ops
        /\ r' \in [Op -> Results]
    BY <1>0, <2>2, <2>3 DEF Reads
  <2> QED  BY <1>0, <2>1, <2>4, Moves, TypeParts
<1>4. ASSUME NEW i \in Op, Finish(i) PROVE PqTypeOK'
  <2>1. /\ OnStack(i) /\ pg' \in Conns /\ Over(pg')
        /\ st' = [st EXCEPT ![i] = "done"]
        /\ UNCHANGED <<wire, asked, up, ops, strm, r, ec, cut, alone>>
    BY <1>4, FinishStep DEF histVars
  <2>2. pg'.out = pg.out
    BY <2>1 DEF Over
  <2> QED  BY <1>0, <2>1, <2>2, Moves, TypeParts
<1>5. ASSUME NEW i \in Op, PollAgain(i) PROVE PqTypeOK'
  <2>1. /\ OnStack(i) /\ pg' = pg /\ st' = [st EXCEPT ![i] = "polling"]
        /\ UNCHANGED <<wire, asked, up, ops, strm, r, ec, cut, alone>>
    BY <1>5, AgainStep DEF histVars
  <2> QED  BY <1>0, <2>1, Moves, TypeParts
<1>6. ASSUME NEW i \in Op, PollFail(i) PROVE PqTypeOK'
  <2>1. /\ st' = [st EXCEPT ![i] = "done"] /\ ec' = [ec EXCEPT ![i] = "poll"]
        /\ r' = [r EXCEPT ![i] = Nothing] /\ cut' \in {cut, cut + 1}
        /\ UNCHANGED <<pg, wire, asked, up, ops, strm, alone>>
    BY <1>6 DEF PollFail
  <2>2. Nothing \in Results
    BY DEF Nothing, Item, Results
  <2>3. /\ ec' \in [Op -> {"ok", "poll"}] /\ r' \in [Op -> Results] /\ cut' \in Nat
    BY <1>0, <2>1, <2>2
  <2> QED  BY <1>0, <2>1, <2>3, Moves, TypeParts
<1>7. CASE Reply
  <2>1. PICK a \in Answers : wire' = wire \o [n \in 1..Len(a) |-> Item(a[n], asked)]
    BY <1>7 DEF Reply
  <2>2. a \in Seq({"result", "copy", "Z", "fatal"})
    BY AnswerAssumption
  <2>3. \A n \in 1..Len(a) : Item(a[n], asked) \in Received
    BY <1>0, <2>2 DEF Item, Received, Items
  <2>4. [n \in 1..Len(a) |-> Item(a[n], asked)] \in Seq(Received)
    BY <2>2, <2>3
  <2>5. wire' \in Seq(Received)
    BY <1>0, <2>1, <2>4, ConcatProperties
  <2>6. asked' = 0 /\ up' \in BOOLEAN /\ UNCHANGED <<pg, ops, st, strm, r, ec, cut, alone>>
    BY <1>7 DEF Reply, opVars, histVars
  <2> QED  BY <1>0, <2>5, <2>6, TypeParts
<1>8. CASE Die
  <2>1. PICK k \in 0..Len(wire) : wire' = SubSeq(wire, 1, k)
    BY <1>8 DEF Die
  <2>2. wire' \in Seq(Received)
    BY <1>0, <2>1
  <2>3. /\ asked' = 0 /\ asked' \in 0..ops /\ up' = FALSE
        /\ UNCHANGED <<pg, ops, st, strm, r, ec, cut, alone>>
    BY <1>0, <1>8 DEF Die, opVars, histVars
  <2> QED  BY <1>0, <2>2, <2>3, TypeParts
<1>9. CASE UNCHANGED pqVars
  <2>1. UNCHANGED <<pg, wire, asked, up, ops, st, strm, r, ec, cut, alone>>
    BY <1>9 DEF pqVars, opVars, histVars
  <2> QED  BY <1>0, <2>1, TypeParts
<1> QED
  BY <1>1, <1>2, <1>3, <1>4, <1>5, <1>6, <1>7, <1>8, <1>9 DEF PqNext, Handler

(* Every variable keeps its type, no two handlers overlap, and no handler  *)
(* leaves a result in libpq that is there to be fetched: for any answers. *)
THEOREM PqTypeCorrect == PqSpec => []PqTypeOK
BY PqInitTyped, PqTypeNext, PTL DEF PqSpec

-----------------------------------------------------------------------------
(* How an answer is read. *)
EndsWell(s) ==
    \A n \in 1..Len(s) :
      s[n].k = "Z" => n = Len(s) /\ (n > 1 => s[n - 1].k = "result")

LEMMA TailJoin ==
    ASSUME NEW S, NEW s \in Seq(S), NEW t \in Seq(S), s # <<>>
    PROVE  s \o t # <<>> /\ (s \o t)[1] = Head(s) /\ Tail(s) \o t = Tail(s \o t)
<1>1. s \o t # <<>> /\ (s \o t)[1] = Head(s)
  OBVIOUS
<1>2. /\ Tail(s) \in Seq(S) /\ Len(Tail(s)) = Len(s) - 1
      /\ \A n \in 1..Len(Tail(s)) : Tail(s)[n] = s[n + 1]
  OBVIOUS
<1>3. /\ s \o t \in Seq(S) /\ Len(s \o t) = Len(s) + Len(t)
      /\ \A n \in 1..Len(s \o t) :
           (s \o t)[n] = IF n <= Len(s) THEN s[n] ELSE t[n - Len(s)]
  BY ConcatProperties
<1>4. /\ Tail(s \o t) \in Seq(S) /\ Len(Tail(s \o t)) = Len(s) + Len(t) - 1
      /\ \A n \in 1..Len(Tail(s \o t)) : Tail(s \o t)[n] = (s \o t)[n + 1]
  BY <1>1, <1>3
<1>5. /\ Tail(s) \o t \in Seq(S) /\ Len(Tail(s) \o t) = Len(s) - 1 + Len(t)
      /\ \A n \in 1..Len(Tail(s) \o t) :
           (Tail(s) \o t)[n] = IF n <= Len(s) - 1 THEN Tail(s)[n] ELSE t[n - (Len(s) - 1)]
  BY <1>2, ConcatProperties
<1>6. Len(Tail(s) \o t) = Len(Tail(s \o t))
  BY <1>4, <1>5
<1>7. \A n \in 1..Len(Tail(s) \o t) : (Tail(s) \o t)[n] = Tail(s \o t)[n]
  <2> TAKE n \in 1..Len(Tail(s) \o t)
  <2>1. /\ n \in 1..(Len(s) + Len(t) - 1) /\ n + 1 \in 1..Len(s \o t)
        /\ n \in 1..Len(Tail(s \o t)) /\ Len(s) \in Nat /\ Len(t) \in Nat
    BY <1>3, <1>4, <1>5
  <2>2. Tail(s \o t)[n] = IF n + 1 <= Len(s) THEN s[n + 1] ELSE t[n + 1 - Len(s)]
    BY <1>3, <1>4, <2>1
  <2>3. CASE n <= Len(s) - 1
    BY <1>2, <1>5, <2>1, <2>2, <2>3
  <2>4. CASE ~(n <= Len(s) - 1)
    <3>1. n - (Len(s) - 1) = n + 1 - Len(s) /\ ~(n + 1 <= Len(s))
      BY <2>1, <2>4
    <3> QED  BY <1>5, <2>2, <2>4, <3>1
  <2> QED  BY <2>3, <2>4
<1>8. Tail(s) \o t = Tail(s \o t)
  BY <1>4, <1>5, <1>6, <1>7, SeqEqual
<1> QED  BY <1>1, <1>8

LEMMA EndsTail ==
    ASSUME NEW s \in Seq(Received), s # <<>>, EndsWell(s)
    PROVE  /\ EndsWell(Tail(s))
           /\ s[1].k = "Z" => Len(s) = 1
           /\ Tail(s) # <<>> /\ Tail(s)[1].k = "Z" => s[1].k = "result"
<1>1. /\ Len(s) \in Nat /\ Len(s) >= 1 /\ Tail(s) \in Seq(Received)
      /\ Len(Tail(s)) = Len(s) - 1
      /\ \A n \in 1..Len(Tail(s)) : Tail(s)[n] = s[n + 1]
  OBVIOUS
<1>2. ASSUME NEW n \in 1..Len(Tail(s)), Tail(s)[n].k = "Z"
      PROVE  n = Len(Tail(s)) /\ (n > 1 => Tail(s)[n - 1].k = "result") /\ s[n].k = "result"
  <2>1. n + 1 \in 1..Len(s) /\ s[n + 1].k = "Z" /\ n + 1 > 1 /\ n + 1 - 1 = n
    BY <1>1, <1>2
  <2>2. n + 1 = Len(s) /\ s[n].k = "result"
    BY <2>1 DEF EndsWell
  <2>3. n > 1 => Tail(s)[n - 1] = s[n - 1 + 1] /\ n - 1 + 1 = n
    BY <1>1
  <2>4. n > 1 => Tail(s)[n - 1].k = "result"
    BY <2>2, <2>3
  <2>5. n = Len(Tail(s))
    BY <1>1, <2>2
  <2> QED  BY <2>2, <2>4, <2>5
<1>3. EndsWell(Tail(s))
  BY <1>2 DEF EndsWell
<1>4. s[1].k = "Z" => Len(s) = 1
  <2>1. 1 \in 1..Len(s)
    BY <1>1
  <2>2. s[1].k = "Z" => 1 = Len(s)
    BY <2>1 DEF EndsWell
  <2> QED  BY <2>2
<1>5. Tail(s) # <<>> => 1 \in 1..Len(Tail(s))
  BY <1>1
<1> QED  BY <1>2, <1>3, <1>4, <1>5

(* What is left of s \o t when t loses its end. *)
LEMMA Shortened ==
    ASSUME NEW s \in Seq(Received), NEW t \in Seq(Received), NEW k \in 0..Len(t),
           NEW u \in {s \o SubSeq(t, 1, k)}
    PROVE  /\ u \in Seq(Received) /\ Len(u) <= Len(s \o t)
           /\ \A n \in 1..Len(u) : u[n] = (s \o t)[n]
           /\ EndsWell(s \o t) => EndsWell(u)
<1>0. u = s \o SubSeq(t, 1, k)
  OBVIOUS
<1>1. /\ SubSeq(t, 1, k) \in Seq(Received) /\ Len(SubSeq(t, 1, k)) = k
      /\ \A n \in 1..k : SubSeq(t, 1, k)[n] = t[n]
      /\ Len(t) \in Nat /\ k \in Nat /\ k <= Len(t) /\ Len(s) \in Nat
  OBVIOUS
<1>2. /\ Len(s \o t) = Len(s) + Len(t)
      /\ \A n \in 1..Len(s \o t) :
           (s \o t)[n] = IF n <= Len(s) THEN s[n] ELSE t[n - Len(s)]
  BY ConcatProperties
<1>3. /\ u \in Seq(Received) /\ Len(u) = Len(s) + k
      /\ \A n \in 1..Len(u) :
           u[n] = IF n <= Len(s) THEN s[n] ELSE SubSeq(t, 1, k)[n - Len(s)]
  BY <1>0, <1>1, ConcatProperties
<1>4. \A n \in 1..Len(u) : n \in 1..Len(s \o t) /\ u[n] = (s \o t)[n]
  <2> TAKE n \in 1..Len(u)
  <2>1. n \in 1..Len(s \o t) /\ (~(n <= Len(s)) => n - Len(s) \in 1..k)
    BY <1>1, <1>2, <1>3
  <2> QED  BY <1>1, <1>2, <1>3, <2>1
<1>5. ASSUME EndsWell(s \o t), NEW n \in 1..Len(u), u[n].k = "Z"
      PROVE  n = Len(u) /\ (n > 1 => u[n - 1].k = "result")
  <2>1. n = Len(s \o t) /\ (n > 1 => (s \o t)[n - 1].k = "result")
    BY <1>4, <1>5 DEF EndsWell
  <2>2. n > 1 => n - 1 \in 1..Len(u)
    BY <1>1, <1>3
  <2>3. n = Len(u)
    <3>1. n \in 1..(Len(s) + k) /\ n = Len(s) + Len(t)
      BY <1>2, <1>3, <2>1
    <3> QED  BY <1>1, <1>3, <3>1
  <2> QED  BY <1>4, <2>1, <2>2, <2>3
<1>6. EndsWell(s \o t) => EndsWell(u)
  BY <1>5 DEF EndsWell
<1>7. Len(u) <= Len(s \o t)
  BY <1>1, <1>2, <1>3
<1> QED  BY <1>3, <1>4, <1>6, <1>7

(* Nothing to read, then an answer: how it begins and ends. *)
Tagged(a, q) == [n \in 1..Len(a) |-> Item(a[n], q)]

LEMMA Answered ==
    ASSUME ReadyLast, NEW a \in Answers, NEW q, NEW u \in {Tagged(a, q)}
    PROVE  /\ EndsWell(u) /\ (u # <<>> => u[1].k # "Z")
           /\ \A n \in 1..Len(u) : u[n].rq = q
<1>1. a \in Seq({"result", "copy", "Z", "fatal"})
  BY AnswerAssumption
<1>2. Len(a) \in Nat /\ Len(u) = Len(a) /\ \A n \in 1..Len(a) : u[n].k = a[n] /\ u[n].rq = q
  BY <1>1 DEF Item, Tagged
<1>3. \A n \in 1..Len(a) : n > 1 => n - 1 \in 1..Len(a)
  BY <1>2
<1>4. EndsWell(u)
  <2> SUFFICES ASSUME NEW n \in 1..Len(u), u[n].k = "Z"
               PROVE  n = Len(u) /\ (n > 1 => u[n - 1].k = "result")
    BY DEF EndsWell
  <2>1. n \in 1..Len(a) /\ a[n] = "Z"
    BY <1>2
  <2>2. n = Len(a) /\ a[n - 1] = "result"
    BY <2>1 DEF ReadyLast
  <2>3. n > 1 => u[n - 1].k = a[n - 1]
    BY <1>2, <1>3, <2>1
  <2> QED  BY <1>2, <2>2, <2>3
<1>5. u # <<>> => 1 \in 1..Len(a)
  <2>1. Len(a) = 0 => u = <<>>
    BY <1>1 DEF Tagged
  <2> QED  BY <1>2, <2>1
<1>6. u # <<>> => u[1].k # "Z"
  BY <1>2, <1>5 DEF ReadyLast
<1> QED  BY <1>2, <1>4, <1>6

-----------------------------------------------------------------------------
(* The inductive invariant, one answer at a time: nothing is left to read  *)
(* while a request is on its way or the server has it; ReadyForQuery comes *)
(* last, after a result; a connection that broke has nothing left; and     *)
(* libpq goes idle only when the answer is over. *)
Flow ==
    /\ pg.status = "bad" => ~up /\ pg.out = 0 /\ wire = <<>>
    /\ ~up => asked = 0
    /\ pg.async = "idle" /\ pg.status = "ok" => pg.out = 0 /\ asked = 0 /\ Unread = <<>>
    /\ pg.out # 0 => asked = 0 /\ Unread = <<>>
    /\ asked # 0 => Unread = <<>>
    /\ pg.async = "copy" => pg.res.k = "copy" /\ (Unread # <<>> => Unread[1].k # "Z")
    /\ EndsWell(Unread)

(* Every operation waits for libpq to be idle, unless its poll failed. *)
Waited == cut = 0 /\ Running = {} => pg.async = "idle"

(* An unread answer begins in libpq. *)
LEMMA UnreadFirst ==
    ASSUME PqTypeOK, pg.inb # <<>>
    PROVE  /\ Unread # <<>> /\ Unread[1] = Head(pg.inb)
           /\ Tail(pg.inb) \o wire = Tail(Unread)
<1>1. pg.inb \in Seq(Received) /\ wire \in Seq(Received)
  BY Typed
<1> QED  BY <1>1, TailJoin DEF Unread

(* Reading libpq's items leaves the broken connection with nothing. *)
LEMMA FlowReads ==
    ASSUME PqTypeOK, NEW c \in Conns, Reads(c), up' = up,
           c.status = "bad" => ~up /\ c.out = 0 /\ wire = <<>>
    PROVE  /\ pg'.status = "bad" => ~up' /\ pg'.out = 0 /\ wire' = <<>>
           /\ c.status = "bad" => pg'.status = "bad"
<1>1. wire \in Seq(Received) /\ wire' \in Seq(Received)
  BY Typed DEF Reads
<1> QED  BY <1>1 DEF Reads, Conns

LEMMA FlowInit == PqInit => Flow /\ Waited
<1> SUFFICES ASSUME PqInit PROVE Flow /\ Waited
  OBVIOUS
<1>1. /\ pg.status = "ok" /\ pg.async = "idle" /\ pg.out = 0 /\ pg.inb = <<>>
      /\ wire = <<>> /\ asked = 0 /\ up = TRUE
  BY DEF PqInit
<1>2. Unread = <<>>
  BY <1>1 DEF Unread
<1>3. EndsWell(<<>>)
  BY DEF EndsWell
<1> QED  BY <1>1, <1>2, <1>3 DEF Flow, Waited

LEMMA FlowPoll ==
    ASSUME PqTypeOK, Flow, NEW i \in Op, NEW w \in BOOLEAN, PollDone(i, w)
    PROVE  Flow'
<1>1. /\ Reads(pg) /\ up' = up
      /\ \/ asked' = asked
         \/ asked' = pg.out /\ pg.out # 0 /\ up /\ pg'.out = 0
  BY PollStep
<1>2. pg \in Conns /\ pg'.async = pg.async /\ pg'.res = pg.res /\ Unread' = Unread
  BY <1>1, Typed DEF Reads, Unread
<1>3. pg'.out \in {0, pg.out} /\ pg'.status \in {"ok", "bad"} /\ pg.status \in {"ok", "bad"}
  BY <1>1, <1>2 DEF Reads, Conns
<1>4. PICK c \in Conns : c = pg
  BY <1>2
<1>5. /\ pg'.status = "bad" => ~up' /\ pg'.out = 0 /\ wire' = <<>>
      /\ pg.status = "bad" => pg'.status = "bad"
  <2>1. Reads(c) /\ (c.status = "bad" => ~up /\ c.out = 0 /\ wire = <<>>)
    BY <1>1, <1>4 DEF Flow, Reads
  <2> QED  BY <1>1, <1>4, <2>1, FlowReads
<1>6. ~up' => asked' = 0
  BY <1>1 DEF Flow
<1>7. pg'.async = "idle" /\ pg'.status = "ok" => pg'.out = 0 /\ asked' = 0 /\ Unread' = <<>>
  BY <1>1, <1>2, <1>3, <1>5 DEF Flow
<1>8. pg'.out # 0 => asked' = 0 /\ Unread' = <<>>
  BY <1>1, <1>2, <1>3 DEF Flow
<1>9. asked' # 0 => Unread' = <<>>
  BY <1>1, <1>2 DEF Flow
<1>10. /\ pg'.async = "copy" => pg'.res.k = "copy" /\ (Unread' # <<>> => Unread'[1].k # "Z")
       /\ EndsWell(Unread')
  BY <1>2 DEF Flow
<1> QED  BY <1>5, <1>6, <1>7, <1>8, <1>9, <1>10 DEF Flow

LEMMA FlowKeep ==
    ASSUME PqTypeOK, Flow, NEW i \in Op, Keep(i)
    PROVE  Flow'
<1>1. PICK v \in Results, c \in Conns :
        /\ Fetched(v, c) \/ (v = Item("closed", 0) /\ Lost(c))
        /\ Reads(c)
  BY KeepStep
<1>2. asked' = asked /\ up' = up
  BY KeepStep
<1>3. /\ c.out = pg.out /\ c.status = pg.status
      /\ pg.inb \in Seq(Received) /\ wire \in Seq(Received) /\ Unread \in Seq(Received)
  BY <1>1, Typed DEF Fetched, Lost
<1>4. /\ pg'.status = "bad" => ~up' /\ pg'.out = 0 /\ wire' = <<>>
      /\ pg.status = "bad" => pg'.status = "bad"
  BY <1>1, <1>2, <1>3, FlowReads DEF Flow
<1>5. /\ pg'.out \in {0, pg.out} /\ pg'.async = c.async /\ pg'.res = c.res
      /\ Unread' = c.inb \o wire /\ pg'.status \in {"ok", "bad"} /\ pg.status \in {"ok", "bad"}
  BY <1>1, <1>3, Typed DEF Reads, Conns
<1>6. ~up' => asked' = 0
  BY <1>2 DEF Flow
<1>7. CASE Fetched(v, c) /\ pg.async = "busy"
  <2>1. /\ pg.inb # <<>> /\ v = Head(pg.inb) /\ c.inb = Tail(pg.inb) /\ c.res = v
        /\ c.async = (IF v.k = "copy" THEN "copy" ELSE "busy")
    BY <1>7 DEF Fetched
  <2>2. Unread # <<>> /\ Unread[1] = v /\ Unread' = Tail(Unread)
    BY <1>5, <2>1, UnreadFirst
  <2>3. /\ EndsWell(Unread')
        /\ Unread' # <<>> /\ Unread'[1].k = "Z" => v.k = "result"
    BY <1>3, <2>2, EndsTail DEF Flow
  <2>4. pg'.out = 0 /\ asked' = 0
    BY <1>2, <1>5, <2>2 DEF Flow
  <2>5. /\ pg'.async # "idle"
        /\ pg'.async = "copy" => pg'.res.k = "copy" /\ (Unread' # <<>> => Unread'[1].k # "Z")
    BY <1>5, <2>1, <2>3
  <2> QED  BY <1>4, <1>6, <2>3, <2>4, <2>5 DEF Flow
<1>8. CASE Fetched(v, c) /\ pg.async = "copy"
  <2>1. c = pg
    BY <1>8 DEF Fetched
  <2>2. pg'.async = "copy" /\ pg'.res = pg.res /\ Unread' = Unread
    BY <1>5, <1>8, <2>1 DEF Unread
  <2> QED  BY <1>2, <1>4, <1>5, <1>6, <1>8, <2>2 DEF Flow
<1>9. CASE Lost(c)
  <2>1. /\ pg.status = "bad" /\ pg'.status = "bad" /\ pg'.out = 0 /\ asked' = 0
        /\ pg'.async = "idle" /\ wire = <<>>
    BY <1>2, <1>4, <1>5, <1>9 DEF Lost, Flow
  <2>2. \/ c.inb \in {pg.inb, <<>>}
        \/ pg.inb # <<>> /\ c.inb = Tail(pg.inb)
    BY <1>9 DEF Lost
  <2>3. Unread = pg.inb /\ Unread' = c.inb
    <3>1. c.inb \in Seq(Received)
      BY <1>1 DEF Conns
    <3> QED  BY <1>3, <1>5, <2>1, <3>1 DEF Unread
  <2>4. EndsWell(<<>>)
    BY DEF EndsWell
  <2>5. EndsWell(Unread')
    BY <1>3, <2>2, <2>3, <2>4, EndsTail DEF Flow
  <2> QED  BY <1>4, <1>6, <2>1, <2>5 DEF Flow
<1> QED  BY <1>1, <1>7, <1>8, <1>9 DEF Fetched

LEMMA FlowFinish ==
    ASSUME PqTypeOK, Flow, NEW i \in Op, Finish(i)
    PROVE  Flow' /\ pg'.async = "idle" /\ (pg.async = "idle" \/ Unread[1].k = "Z")
           /\ (pg.async = "busy" => Unread # <<>>)
<1>1. Over(pg') /\ UNCHANGED <<wire, asked, up>>
  BY FinishStep
<1>2. CASE pg.async = "idle" /\ pg' = pg
  BY <1>1, <1>2 DEF Flow, Unread
<1>3. CASE /\ pg.async = "busy" /\ pg.inb # <<>> /\ Head(pg.inb).k = "Z"
           /\ pg'.status = pg.status /\ pg'.out = pg.out /\ pg'.async = "idle" /\ pg'.inb = <<>>
  <2>1. Unread # <<>> /\ Unread[1].k = "Z" /\ Unread \in Seq(Received)
    BY <1>3, UnreadFirst, Typed
  <2>2. Len(Unread) = 1 /\ pg.inb \in Seq(Received) /\ wire \in Seq(Received)
    BY <2>1, EndsTail, Typed DEF Flow
  <2>3. Len(pg.inb) >= 1 /\ Len(Unread) = Len(pg.inb) + Len(wire)
    BY <1>3, <2>2, ConcatProperties DEF Unread
  <2>4. Len(wire) = 0
    BY <2>2, <2>3
  <2>5. wire = <<>>
    BY <2>2, <2>4, EmptySeq
  <2>6. Unread' = <<>> /\ EndsWell(<<>>)
    BY <1>1, <1>3, <2>5 DEF Unread, EndsWell
  <2>7. pg.out = 0 /\ asked = 0
    BY <2>1 DEF Flow
  <2> QED  BY <1>1, <1>3, <2>1, <2>6, <2>7 DEF Flow
<1>4. CASE pg.async = "copy" /\ pg.res = Nothing
  <2>1. pg.res.k = "none"
    BY <1>4 DEF Nothing, Item
  <2> QED  BY <1>4, <2>1 DEF Flow
<1> QED  BY <1>1, <1>2, <1>3, <1>4 DEF Over

LEMMA FlowReply ==
    ASSUME ReadyLast, PqTypeOK, Flow, Reply
    PROVE  /\ Flow' /\ asked # 0 /\ asked' = 0 /\ pg' = pg
           /\ \A n \in 1..Len(Unread') : Unread'[n].rq = asked
           /\ Unread' # <<>> => Unread'[1].k # "Z"
<1>1. asked # 0 /\ asked' = 0 /\ pg' = pg /\ up
  BY DEF Reply
<1>2. PICK a \in Answers : wire' = wire \o [n \in 1..Len(a) |-> Item(a[n], asked)]
  BY DEF Reply
<1>3. PICK q : q = asked
  OBVIOUS
<1>4. PICK u : u = [n \in 1..Len(a) |-> Item(a[n], q)]
  OBVIOUS
<1>5. /\ Unread = <<>> /\ pg.inb \in Seq(Received) /\ wire \in Seq(Received)
  BY <1>1, Typed DEF Flow
<1>6. pg.inb = <<>> /\ wire = <<>>
  <2>1. Len(Unread) = Len(pg.inb) + Len(wire)
    BY <1>5, ConcatProperties DEF Unread
  <2>2. Len(pg.inb) = 0 /\ Len(wire) = 0
    BY <1>5, <2>1
  <2> QED  BY <1>5, <2>2, EmptySeq
<1>7. Unread' = u
  <2>1. a \in Seq({"result", "copy", "Z", "fatal"})
    BY AnswerAssumption
  <2>2. \A n \in 1..Len(a) : u[n] \in {Item(a[m], q) : m \in 1..Len(a)}
    BY <1>4
  <2>3. u \in Seq({Item(a[m], q) : m \in 1..Len(a)})
    BY <1>4, <2>1, <2>2
  <2>4. wire' = <<>> \o u
    BY <1>2, <1>3, <1>4, <1>6
  <2>5. wire' = u
    BY <2>3, <2>4
  <2> QED  BY <1>1, <1>6, <2>3, <2>5 DEF Unread
<1>8. /\ EndsWell(u) /\ (u # <<>> => u[1].k # "Z")
      /\ \A n \in 1..Len(u) : u[n].rq = q
  <2>1. ReadyLast /\ a \in Answers
    OBVIOUS
  <2>2. u \in {Tagged(a, q)}
    BY <1>4 DEF Tagged
  <2> QED  BY <2>1, <2>2, Answered, Zenon
<1>9. pg.out = 0 /\ pg.status # "bad" /\ pg.async # "idle"
  BY <1>1, Typed DEF Flow, Conns
<1>10. Flow'
  BY <1>1, <1>7, <1>8, <1>9 DEF Flow
<1> QED  BY <1>1, <1>3, <1>7, <1>8, <1>10

LEMMA FlowDie ==
    ASSUME PqTypeOK, Flow, Die
    PROVE  /\ Flow' /\ asked' = 0 /\ pg' = pg
           /\ Len(Unread') <= Len(Unread)
           /\ \A n \in 1..Len(Unread') : n \in 1..Len(Unread) /\ Unread'[n] = Unread[n]
           /\ Unread' # <<>> => Unread # <<>> /\ Unread'[1] = Unread[1]
<1>1. up /\ up' = FALSE /\ asked' = 0 /\ pg' = pg
  BY DEF Die
<1>2. PICK k \in 0..Len(wire) : wire' = SubSeq(wire, 1, k)
  BY DEF Die
<1>3. pg.inb \in Seq(Received) /\ wire \in Seq(Received) /\ Unread \in Seq(Received)
  BY Typed
<1>4. PICK u : u = pg.inb \o SubSeq(wire, 1, k)
  OBVIOUS
<1>5. /\ u \in Seq(Received) /\ Len(u) <= Len(Unread)
      /\ \A n \in 1..Len(u) : u[n] = Unread[n]
      /\ EndsWell(u)
  <2>1. PICK s \in Seq(Received), t \in Seq(Received) : s = pg.inb /\ t = wire
    BY <1>3
  <2>2. k \in 0..Len(t) /\ u = s \o SubSeq(t, 1, k) /\ Unread = s \o t
    BY <1>2, <1>4, <2>1 DEF Unread
  <2>3. /\ u \in Seq(Received) /\ Len(u) <= Len(s \o t)
        /\ \A n \in 1..Len(u) : u[n] = (s \o t)[n]
        /\ EndsWell(s \o t) => EndsWell(u)
    <3>1. u \in {s \o SubSeq(t, 1, k)}
      BY <2>2
    <3> QED  BY <2>2, <3>1, Shortened, Zenon
  <2> QED  BY <2>2, <2>3 DEF Flow
<1>6. Unread' = u
  BY <1>1, <1>2, <1>4 DEF Unread
<1>7. \A n \in 1..Len(u) : n \in 1..Len(Unread)
  BY <1>3, <1>5
<1>8. u # <<>> => 1 \in 1..Len(u) /\ Unread # <<>>
  BY <1>3, <1>5
<1>9. u # <<>> => Unread # <<>> /\ u[1] = Unread[1]
  BY <1>5, <1>8
<1>10. Flow'
  BY <1>1, <1>5, <1>6, <1>9 DEF Flow
<1> QED  BY <1>1, <1>5, <1>6, <1>7, <1>9, <1>10

(* Which operations run after one of them moves. *)
LEMMA Runs ==
    ASSUME PqTypeOK, NEW i \in Op, NEW x, st' = [st EXCEPT ![i] = x]
    PROVE  /\ x \in {"polling", "first", "loop"} => Running' = Running \cup {i} /\ i \in Running'
           /\ x \notin {"polling", "first", "loop"} => Running' = Running \ {i}
BY DEF Running, PqTypeOK

LEMMA FlowNext ==
    ASSUME ReadyLast, PqTypeOK, Flow, Waited, [PqNext]_pqVars
    PROVE  Flow' /\ Waited'
<1>1. CASE AsyncExecParams
  <2> DEFINE i == ops + 1
  <2>1. /\ i \in Op /\ i # 0 /\ st' = [st EXCEPT ![i] = "polling"]
        /\ UNCHANGED <<wire, asked, up, cut>>
        /\ IF pg.status = "ok" /\ pg.async = "idle"
           THEN /\ pg'.status = "ok" /\ pg'.async = "busy" /\ pg'.out = i
                /\ pg'.inb = pg.inb
           ELSE pg' = pg
    BY <1>1, AskStep
  <2> HIDE DEF i
  <2>2. Waited'
    BY <2>1, Runs DEF Waited
  <2>3. pg'.inb = pg.inb /\ Unread' = Unread
    BY <2>1 DEF Unread
  <2>4. CASE pg' = pg
    BY <2>1, <2>2, <2>3, <2>4 DEF Flow
  <2>5. CASE pg.status = "ok" /\ pg.async = "idle"
    BY <2>1, <2>2, <2>3, <2>5 DEF Flow
  <2> QED  BY <2>1, <2>4, <2>5
<1>2. ASSUME NEW i \in Op, NEW w \in BOOLEAN, PollDone(i, w) PROVE Flow' /\ Waited'
  BY <1>2, PollStep, Runs, FlowPoll DEF Waited
<1>3. ASSUME NEW i \in Op, Keep(i) PROVE Flow' /\ Waited'
  BY <1>3, KeepStep, Runs, FlowKeep DEF Waited
<1>4. ASSUME NEW i \in Op, Finish(i) PROVE Flow' /\ Waited'
  BY <1>4, FlowFinish DEF Waited
<1>5. ASSUME NEW i \in Op, PollAgain(i) PROVE Flow' /\ Waited'
  <2>1. UNCHANGED <<pg, wire, asked, up>> /\ st' = [st EXCEPT ![i] = "polling"]
    BY <1>5, AgainStep
  <2> QED  BY <2>1, Runs DEF Flow, Waited, Unread
<1>6. ASSUME NEW i \in Op, PollFail(i) PROVE Flow' /\ Waited'
  <2>1. /\ UNCHANGED <<pg, wire, asked, up>> /\ cut \in Nat
        /\ cut' = IF pg.async # "idle" THEN cut + 1 ELSE cut
    BY <1>6 DEF PollFail, PqTypeOK
  <2> QED  BY <2>1 DEF Flow, Waited, Unread
<1>7. CASE Reply
  <2>1. UNCHANGED <<st, cut>>
    BY <1>7 DEF Reply, opVars, histVars
  <2> QED  BY <1>7, <2>1, FlowReply DEF Waited, Running
<1>8. CASE Die
  <2>1. UNCHANGED <<st, cut>>
    BY <1>8 DEF Die, opVars, histVars
  <2> QED  BY <1>8, <2>1, FlowDie DEF Waited, Running
<1>9. CASE UNCHANGED pqVars
  BY <1>9 DEF Flow, Waited, Unread, Running, pqVars, opVars, histVars
<1> QED
  BY <1>1, <1>2, <1>3, <1>4, <1>5, <1>6, <1>7, <1>8, <1>9 DEF PqNext, Handler

LEMMA RestFollows ==
    ASSUME PqTypeOK, Flow, Waited PROVE AtRest
<1> SUFFICES ASSUME Running = {}, cut = 0
             PROVE  /\ pg.async = "idle" /\ pg.out = 0 /\ asked = 0
                    /\ up => pg.status = "ok" /\ pg.inb = <<>> /\ wire = <<>>
  BY DEF AtRest
<1>1. /\ pg.async = "idle" /\ pg.status \in {"ok", "bad"} /\ up \in BOOLEAN
      /\ pg.inb \in Seq(Received) /\ wire \in Seq(Received)
  BY Typed DEF Waited, Conns, PqTypeOK
<1>2. Unread = <<>> => pg.inb = <<>> /\ wire = <<>>
  <2>1. Len(Unread) = Len(pg.inb) + Len(wire)
    BY <1>1, ConcatProperties DEF Unread
  <2>2. Unread = <<>> => Len(pg.inb) = 0 /\ Len(wire) = 0
    BY <1>1, <2>1
  <2> QED  BY <1>1, <2>2, EmptySeq
<1> QED  BY <1>1, <1>2 DEF Flow

(* When no operation runs and every poll succeeded, libpq is idle and      *)
(* nothing is left of an answer: the next query is never refused, however  *)
(* many operations polled for the ones before it. *)
THEOREM AlwaysAtRest ==
    ASSUME ReadyLast
    PROVE  PqSpec => []AtRest
<1>1. PqInit => PqTypeOK /\ Flow /\ Waited
  BY PqInitTyped, FlowInit
<1>2. /\ PqTypeOK /\ Flow /\ Waited /\ [PqNext]_pqVars
      => (PqTypeOK /\ Flow /\ Waited)'
  BY PqTypeNext, FlowNext
<1>3. PqTypeOK /\ Flow /\ Waited => AtRest
  BY RestFollows
<1> QED  BY <1>1, <1>2, <1>3, PTL DEF PqSpec

-----------------------------------------------------------------------------
(* The inductive invariant of an operation that no other one overlaps:     *)
(* every item on its way is its own, and it holds its result when only     *)
(* ReadyForQuery is left. *)
OwnOnly(i) ==
    /\ pg.out \in {0, i} /\ asked \in {0, i}
    /\ \A n \in 1..Len(Unread) : Unread[n].rq = i
    /\ Unread # <<>> /\ Unread[1].k = "Z" => r[i] = Item("result", i)
    /\ pg.async = "idle" => r[i] = Item("closed", 0)

(* The socket may be missing when the operation starts: it then has        *)
(* nothing to poll, and can only fail.  cut = 0 as in OwnResult. *)
OwnRun(i) ==
    /\ i \in Running => /\ Running = {i}
                        /\ strm[i] => OwnOnly(i)
                        /\ OnStack(i) => strm[i]
    /\ st[i] = "done" /\ ec[i] = "ok" => r[i] \in {Item("result", i), Item("closed", 0)}
Own == cut = 0 => \A i \in alone : OwnRun(i)

(* An operation moves: it was alone, or the one that runs alone is another *)
(* one and has ended. *)
LEMMA OwnMove ==
    ASSUME PqTypeOK, Own, NEW i \in Op, i \in Running, NEW x, st' = [st EXCEPT ![i] = x],
           alone' = alone, cut' = cut \/ cut' # 0, strm' = strm,
           \A j \in Op \ {i} : r'[j] = r[j] /\ ec'[j] = ec[j],
           cut = 0 /\ i \in alone =>
             /\ x \in {"polling", "first", "loop"} => (strm[i] => OwnOnly(i)')
             /\ x \in {"first", "loop"} => strm[i]
             /\ x = "done" /\ ec'[i] = "ok" =>
                  r'[i] \in {Item("result", i), Item("closed", 0)}
    PROVE  Own'
<1> SUFFICES ASSUME cut = 0, cut' = cut, NEW j \in alone PROVE OwnRun(j)'
  BY DEF Own
<1>1. j \in Op /\ OwnRun(j)
  BY PqBoundAssumption DEF Own, PqTypeOK, Op
<1>2. st'[i] = x /\ \A k \in Op : k # i => st'[k] = st[k]
  BY DEF PqTypeOK
<1>3. CASE j = i
  <2>1. Running = {i}
    BY <1>1, <1>3 DEF OwnRun
  <2>2. i \in Running' => Running' = {i} /\ x \in {"polling", "first", "loop"}
    BY <2>1, Runs
  <2>3. i \in Running' => (strm'[i] => OwnOnly(i)') /\ (OnStack(i)' => strm'[i])
    BY <1>2, <1>3, <2>2 DEF OnStack
  <2> QED  BY <1>2, <1>3, <2>2, <2>3 DEF OwnRun
<1>4. CASE j # i
  <2>1. j \notin Running
    BY <1>1, <1>4 DEF OwnRun
  <2>2. j \notin Running' /\ st'[j] = st[j] /\ r'[j] = r[j] /\ ec'[j] = ec[j]
    BY <1>1, <1>2, <1>4, <2>1 DEF Running
  <2> QED  BY <1>1, <2>2 DEF OwnRun
<1> QED  BY <1>3, <1>4

(* The operations stay as they are. *)
LEMMA OwnStay ==
    ASSUME PqTypeOK, Own, UNCHANGED <<opVars, histVars>>,
           \A i \in Op : OwnOnly(i) => OwnOnly(i)'
    PROVE  Own'
<1> SUFFICES ASSUME cut = 0, NEW j \in alone PROVE OwnRun(j)'
  BY DEF Own, opVars, histVars
<1>1. j \in Op /\ OwnRun(j)
  BY PqBoundAssumption DEF Own, PqTypeOK, Op
<1>2. st' = st /\ strm' = strm /\ r' = r /\ ec' = ec
  BY DEF opVars
<1> QED  BY <1>1, <1>2 DEF OwnRun, Running, OnStack

LEMMA OwnAsk ==
    ASSUME PqTypeOK, Flow, Waited, Own, AsyncExecParams
    PROVE  Own'
<1>0. PICK i \in Op : i = ops + 1
  BY AskStep
<1>1. /\ i \in Op /\ i # 0 /\ st' = [st EXCEPT ![i] = "polling"]
      /\ strm' = [strm EXCEPT ![i] = pg.status = "ok"]
      /\ UNCHANGED <<wire, asked, up, r, ec, cut>>
      /\ alone' = IF Running = {} THEN alone \cup {i} ELSE alone \ Running
      /\ IF pg.status = "ok" /\ pg.async = "idle"
         THEN /\ pg'.status = "ok" /\ pg'.async = "busy" /\ pg'.out = i
              /\ pg'.inb = pg.inb
         ELSE pg' = pg
  BY <1>0, AskStep
<1>2. i \notin alone /\ alone \subseteq Op
  BY <1>0, PqBoundAssumption DEF PqTypeOK, Op
<1> SUFFICES ASSUME cut = 0, NEW j \in alone' PROVE OwnRun(j)'
  BY <1>1 DEF Own
<1>3. /\ st'[i] = "polling" /\ \A k \in Op : k # i => st'[k] = st[k] /\ strm'[k] = strm[k]
      /\ strm'[i] = (pg.status = "ok")
  BY <1>1 DEF PqTypeOK
<1>4. CASE j = i
  <2>1. Running = {}
    BY <1>1, <1>2, <1>4
  <2>2. Running' = {i}
    BY <1>1, <2>1, Runs
  <2>3. pg.async = "idle"
    BY <2>1 DEF Waited
  <2>4. ASSUME pg.status = "ok" PROVE OwnOnly(i)'
    <3>1. Unread = <<>> /\ asked = 0
      BY <2>3, <2>4 DEF Flow
    <3>2. Unread' = <<>> /\ asked' = 0 /\ pg'.out = i /\ pg'.async = "busy"
      BY <1>1, <2>3, <2>4, <3>1 DEF Unread
    <3>3. \A n \in 1..Len(Unread') : Unread'[n].rq = i
      BY <3>2
    <3> QED  BY <3>2, <3>3 DEF OwnOnly
  <2>5. OwnOnly(j)' \/ ~strm'[j]
    BY <1>3, <1>4, <2>4
  <2>6. ~OnStack(j)' /\ st'[j] # "done" /\ Running' = {j}
    BY <1>3, <1>4, <2>2 DEF OnStack
  <2> QED  BY <2>5, <2>6 DEF OwnRun
<1>5. CASE j # i
  <2>1. j \in alone /\ j \in Op
    BY <1>1, <1>2, <1>5
  <2>2. OwnRun(j) /\ j \notin Running
    BY <1>1, <1>5, <2>1 DEF Own
  <2>3. j \notin Running' /\ st'[j] = st[j] /\ r' = r /\ ec' = ec
    BY <1>1, <1>3, <1>5, <2>1, <2>2 DEF Running
  <2> QED  BY <2>2, <2>3 DEF OwnRun
<1> QED  BY <1>4, <1>5

LEMMA OwnPoll ==
    ASSUME PqTypeOK, Own, NEW i \in Op, NEW w \in BOOLEAN, PollDone(i, w)
    PROVE  Own'
<1>1. /\ st[i] = "polling" /\ strm[i] /\ st' = [st EXCEPT ![i] = "first"]
      /\ UNCHANGED <<up, ops, strm, r, ec, cut, alone>>
      /\ Reads(pg)
      /\ asked' \in {asked, pg.out}
  BY PollStep DEF histVars
<1>2. pg'.out \in {0, pg.out} /\ Unread' = Unread /\ pg'.async = pg.async
  BY <1>1 DEF Reads, Unread
<1>3. i \in Running
  BY <1>1 DEF Running
<1>4. cut = 0 /\ i \in alone => OwnOnly(i)
  BY <1>1, <1>3 DEF Own, OwnRun
<1>5. OwnOnly(i) => OwnOnly(i)'
  BY <1>1, <1>2 DEF OwnOnly
<1> QED  BY <1>1, <1>3, <1>4, <1>5, OwnMove

LEMMA OwnKeep ==
    ASSUME PqTypeOK, Flow, Own, NEW i \in Op, Keep(i)
    PROVE  Own'
<1>1. /\ OnStack(i) /\ st' = [st EXCEPT ![i] = "loop"] /\ asked' = asked
      /\ UNCHANGED <<up, ops, strm, ec, cut, alone>>
  BY KeepStep DEF histVars
<1>2. PICK v \in Results, c \in Conns :
        /\ Fetched(v, c) \/ (v = Item("closed", 0) /\ Lost(c))
        /\ r' = [r EXCEPT ![i] = v]
        /\ Reads(c)
  BY KeepStep
<1>3. /\ c.out = pg.out /\ pg.inb \in Seq(Received) /\ wire \in Seq(Received)
      /\ Unread \in Seq(Received) /\ r \in [Op -> Results]
  BY <1>2, Typed DEF Fetched, Lost
<1>4. /\ pg'.out \in {0, pg.out} /\ pg'.async = c.async /\ Unread' = c.inb \o wire
      /\ r'[i] = v /\ \A j \in Op \ {i} : r'[j] = r[j]
  BY <1>2, <1>3 DEF Reads
<1>5. i \in Running
  BY <1>1 DEF Running, OnStack
<1>6. ASSUME OwnOnly(i) PROVE OwnOnly(i)'
  <2>0. pg'.out \in {0, i} /\ asked' \in {0, i}
    BY <1>1, <1>4, <1>6 DEF OwnOnly
  <2>1. CASE Fetched(v, c) /\ pg.async = "busy"
    <3>1. pg.inb # <<>> /\ v = Head(pg.inb) /\ c.inb = Tail(pg.inb) /\ c.async # "idle"
      BY <2>1 DEF Fetched
    <3>2. Unread # <<>> /\ Unread[1] = v /\ Unread' = Tail(Unread)
      BY <1>4, <3>1, UnreadFirst
    <3>3. Unread' # <<>> /\ Unread'[1].k = "Z" => v.k = "result"
      BY <1>3, <3>2, EndsTail DEF Flow
    <3>4. \A n \in 1..Len(Unread') : n + 1 \in 1..Len(Unread) /\ Unread'[n] = Unread[n + 1]
      BY <1>3, <3>2
    <3>5. 1 \in 1..Len(Unread)
      BY <1>3, <3>2
    <3>6. v.rq = i /\ \A n \in 1..Len(Unread') : Unread'[n].rq = i
      BY <1>6, <3>2, <3>4, <3>5 DEF OwnOnly
    <3>7. v.k = "result" => v = Item("result", i)
      BY <3>6 DEF Results, Item
    <3> QED  BY <1>4, <2>0, <3>1, <3>3, <3>6, <3>7 DEF OwnOnly
  <2>2. CASE Fetched(v, c) /\ pg.async = "copy"
    <3>1. c = pg
      BY <2>2 DEF Fetched
    <3>2. Unread' = Unread /\ pg'.async = "copy"
      BY <1>4, <2>2, <3>1 DEF Unread
    <3>3. Unread' # <<>> => Unread'[1].k # "Z"
      BY <2>2, <3>2 DEF Flow
    <3> QED  BY <1>6, <2>0, <3>2, <3>3 DEF OwnOnly
  <2>3. CASE v = Item("closed", 0) /\ Lost(c)
    <3>1. wire = <<>> /\ c.inb \in Seq(Received)
      BY <1>2, <2>3 DEF Lost, Flow, Conns
    <3>2. Unread = pg.inb /\ Unread' = c.inb
      BY <1>3, <1>4, <3>1 DEF Unread
    <3>3. CASE c.inb = pg.inb /\ pg.async = "copy"
      <4>1. Unread' # <<>> => Unread'[1].k # "Z"
        BY <3>2, <3>3 DEF Flow
      <4> QED  BY <1>4, <1>6, <2>0, <2>3, <3>2, <3>3, <4>1 DEF OwnOnly
    <3>4. CASE c.inb = <<>>
      BY <1>4, <2>0, <2>3, <3>2, <3>4 DEF OwnOnly
    <3>5. CASE pg.inb # <<>> /\ Head(pg.inb).k = "copy" /\ c.inb = Tail(pg.inb)
      <4>1. Unread # <<>> /\ Unread' = Tail(Unread) /\ Unread[1].k = "copy"
        BY <3>2, <3>5, UnreadFirst
      <4>2. Unread' # <<>> => Unread'[1].k # "Z"
        BY <1>3, <4>1, EndsTail DEF Flow
      <4>3. \A n \in 1..Len(Unread') : n + 1 \in 1..Len(Unread) /\ Unread'[n] = Unread[n + 1]
        BY <1>3, <4>1
      <4>4. \A n \in 1..Len(Unread') : Unread'[n].rq = i
        BY <1>6, <4>3 DEF OwnOnly
      <4> QED  BY <1>4, <2>0, <2>3, <4>2, <4>4 DEF OwnOnly
    <3> QED  BY <2>3, <3>3, <3>4, <3>5 DEF Lost
  <2> QED  BY <1>2, <2>1, <2>2, <2>3 DEF Fetched
<1>7. cut = 0 /\ i \in alone => strm[i] /\ OwnOnly(i)
  BY <1>1, <1>5 DEF Own, OwnRun
<1> QED  BY <1>1, <1>4, <1>5, <1>6, <1>7, OwnMove

LEMMA OwnFinish ==
    ASSUME PqTypeOK, Flow, Own, NEW i \in Op, Finish(i)
    PROVE  Own'
<1>1. /\ OnStack(i) /\ st' = [st EXCEPT ![i] = "done"]
      /\ UNCHANGED <<strm, r, ec, cut, alone>>
  BY FinishStep DEF histVars
<1>2. pg.async = "idle" \/ (Unread # <<>> /\ Unread[1].k = "Z")
  <2>1. pg.async \in {"idle", "busy", "copy"}
    BY Typed DEF Conns
  <2>2. /\ pg.async = "idle" \/ Unread[1].k = "Z"
        /\ pg.async = "busy" => Unread # <<>>
    BY FlowFinish
  <2>3. pg.async # "copy"
    <3>1. Over(pg') /\ pg'.async = "idle"
      BY FinishStep, FlowFinish
    <3> QED  BY <3>1 DEF Over
  <2> QED  BY <2>1, <2>2, <2>3
<1>3. i \in Running
  BY <1>1 DEF Running, OnStack
<1>4. cut = 0 /\ i \in alone => r[i] \in {Item("result", i), Item("closed", 0)}
  BY <1>1, <1>2, <1>3 DEF Own, OwnRun, OwnOnly
<1> QED  BY <1>1, <1>3, <1>4, OwnMove

LEMMA OwnNext ==
    ASSUME ReadyLast, PqTypeOK, Flow, Waited, Own, [PqNext]_pqVars
    PROVE  Own'
<1>1. CASE AsyncExecParams
  BY <1>1, OwnAsk
<1>2. ASSUME NEW i \in Op, NEW w \in BOOLEAN, PollDone(i, w) PROVE Own'
  BY <1>2, OwnPoll
<1>3. ASSUME NEW i \in Op, Keep(i) PROVE Own'
  BY <1>3, OwnKeep
<1>4. ASSUME NEW i \in Op, Finish(i) PROVE Own'
  BY <1>4, OwnFinish
<1>5. ASSUME NEW i \in Op, PollAgain(i) PROVE Own'
  <2>1. /\ OnStack(i) /\ st' = [st EXCEPT ![i] = "polling"]
        /\ UNCHANGED <<pg, wire, asked, strm, r, ec, cut, alone>>
    BY <1>5, AgainStep DEF histVars
  <2>2. i \in Running
    BY <2>1 DEF Running, OnStack
  <2>3. cut = 0 /\ i \in alone => (strm[i] => OwnOnly(i))
    BY <2>2 DEF Own, OwnRun
  <2>4. OwnOnly(i) => OwnOnly(i)'
    BY <2>1 DEF OwnOnly, Unread
  <2> QED  BY <2>1, <2>2, <2>3, <2>4, OwnMove
<1>6. ASSUME NEW i \in Op, PollFail(i) PROVE Own'
  <2>1. /\ st[i] = "polling" /\ st' = [st EXCEPT ![i] = "done"]
        /\ ec' = [ec EXCEPT ![i] = "poll"] /\ r' = [r EXCEPT ![i] = Nothing]
        /\ strm' = strm /\ alone' = alone /\ cut \in Nat
        /\ cut' = IF pg.async # "idle" THEN cut + 1 ELSE cut
    BY <1>6 DEF PollFail, PqTypeOK
  <2>2. cut' = cut \/ cut' # 0
    BY <2>1
  <2>3. i \in Running
    BY <2>1 DEF Running
  <2>4. ec'[i] = "poll" /\ \A j \in Op \ {i} : r'[j] = r[j] /\ ec'[j] = ec[j]
    BY <2>1 DEF PqTypeOK
  <2> QED  BY <2>1, <2>2, <2>3, <2>4, OwnMove
<1>7. CASE Reply
  <2>1. UNCHANGED <<opVars, histVars>>
    BY <1>7 DEF Reply
  <2>2. /\ asked # 0 /\ asked' = 0 /\ pg' = pg
        /\ \A n \in 1..Len(Unread') : Unread'[n].rq = asked
        /\ Unread' # <<>> => Unread'[1].k # "Z"
    BY <1>7, FlowReply
  <2>3. \A i \in Op : OwnOnly(i) => OwnOnly(i)'
    <3> SUFFICES ASSUME NEW i \in Op, OwnOnly(i) PROVE OwnOnly(i)'
      OBVIOUS
    <3>1. asked = i /\ r' = r
      BY <2>1, <2>2 DEF OwnOnly, opVars
    <3> QED  BY <2>2, <3>1 DEF OwnOnly
  <2> QED  BY <2>1, <2>3, OwnStay
<1>8. CASE Die
  <2>1. UNCHANGED <<opVars, histVars>>
    BY <1>8 DEF Die
  <2>2. /\ asked' = 0 /\ pg' = pg
        /\ \A n \in 1..Len(Unread') : n \in 1..Len(Unread) /\ Unread'[n] = Unread[n]
        /\ Unread' # <<>> => Unread # <<>> /\ Unread'[1] = Unread[1]
    BY <1>8, FlowDie
  <2>3. \A i \in Op : OwnOnly(i) => OwnOnly(i)'
    <3> SUFFICES ASSUME NEW i \in Op, OwnOnly(i) PROVE OwnOnly(i)'
      OBVIOUS
    <3>1. r' = r
      BY <2>1 DEF opVars
    <3> QED  BY <2>2, <3>1 DEF OwnOnly
  <2> QED  BY <2>1, <2>3, OwnStay
<1>9. CASE UNCHANGED pqVars
  <2>1. UNCHANGED <<opVars, histVars>> /\ UNCHANGED <<pg, wire, asked, r>>
    BY <1>9 DEF pqVars, opVars
  <2>2. \A i \in Op : OwnOnly(i) => OwnOnly(i)'
    BY <2>1 DEF OwnOnly, Unread
  <2> QED  BY <2>1, <2>2, OwnStay
<1> QED
  BY <1>1, <1>2, <1>3, <1>4, <1>5, <1>6, <1>7, <1>8, <1>9 DEF PqNext, Handler

LEMMA OwnFollows ==
    ASSUME PqTypeOK, Own PROVE OwnResult
<1> SUFFICES ASSUME NEW i \in alone, st[i] = "done", ec[i] = "ok", cut = 0
             PROVE  r[i] \in {Item("result", i), Item("closed", 0)}
  BY DEF OwnResult
<1> QED  BY DEF Own, OwnRun

(* An operation that no other one overlapped and that reports success      *)
(* delivers the result of its own query, or libpq's own when the           *)
(* connection was lost: never what the server said before it hung up. *)
THEOREM AlwaysOwnResult ==
    ASSUME ReadyLast
    PROVE  PqSpec => []OwnResult
<1>1. PqInit => PqTypeOK /\ Flow /\ Waited /\ Own
  <2>1. PqInit => Own
    BY DEF PqInit, Own
  <2> QED  BY <2>1, PqInitTyped, FlowInit
<1>2. /\ PqTypeOK /\ Flow /\ Waited /\ Own /\ [PqNext]_pqVars
      => (PqTypeOK /\ Flow /\ Waited /\ Own)'
  BY PqTypeNext, FlowNext, OwnNext
<1>3. PqTypeOK /\ Own => OwnResult
  BY OwnFollows
<1> QED  BY <1>1, <1>2, <1>3, PTL DEF PqSpec
=============================================================================
