------------------------------ MODULE MyServer ------------------------------
(***************************************************************************)
(* External: the replies of a MySQL server to this client (which asks for  *)
(* CLIENT_DEPRECATE_EOF and CLIENT_MULTI_RESULTS), and the properties of   *)
(* MySession with such a server.                                           *)
(***************************************************************************)
EXTENDS MySession, FiniteSets

CONSTANTS MaxRows,    \* bound: rows of a result set
          Greetings   \* greetings the server may open with

P(t, n) == [t |-> t, n |-> n]
Err == P("ERR", 1)

RowPackets(c) == {[i \in 1..k |-> P("ROW", c)] : k \in 0..MaxRows}
Resultsets(c) == {<<P("COUNT", c)>> \o [i \in 1..c |-> P("DEF", 0)] \o r \o <<e>> :
                    r \in RowPackets(c), e \in {P("EOF", 0), Err}}
SingleAnswers == {<<P("OK", 0)>>, <<Err>>} \cup Resultsets(1) \cup Resultsets(2)
(* CALL: a result set, then the status of the call. *)
CallAnswers == {<<P("COUNT", 1), P("DEF", 0)>> \o r \o <<P("EOF", 0), P("OK", 0)>> :
                  r \in RowPackets(1)}

AllGreetings == {<<P("HS", 1)>>, <<P("HS", 0)>>, <<Err>>, <<P("ERR", -1)>>}
Responses == {<<P("OK", 0)>>, <<Err>>, <<P("EOF", 0)>>}

(* External: a server that answers a query with one result: OK or an error, *)
(* or a count, as many definitions, rows of as many columns, and an end.   *)
(* What is left of it when d of c definitions have been sent: *)
EndsResult(p) == p.t = "EOF" \/ (p.t = "ERR" /\ p.n >= 0)
Remaining(s, c, d) ==
    /\ d <= c /\ c - d < Len(s)
    /\ \A i \in 1..Len(s) :
         /\ i <= c - d => s[i].t = "DEF"
         /\ c - d < i /\ i < Len(s) => s[i].t = "ROW" /\ s[i].n = c
         /\ i = Len(s) => EndsResult(s[i])
SingleResult(s) ==
    \/ Len(s) = 1 /\ (s[1].t = "OK" \/ (s[1].t = "ERR" /\ s[1].n >= 0))
    \/ s # <<>> /\ s[1].t = "COUNT" /\ Remaining(Tail(s), s[1].n, 0)
OneResult == \A r \in Replies("query") : SingleResult(r)

-----------------------------------------------------------------------------
(* The first result of an answer ends with its first OK, ERR or EOF packet. *)
FirstEnd(r, k) ==
    /\ r[k].t \in {"OK", "ERR", "EOF"}
    /\ \A i \in 1..(k - 1) : r[i].t \notin {"OK", "ERR", "EOF"}
CountOf(r, t, k) == Cardinality({i \in 1..k : r[i].t = t})

(* No result that another one follows ends where the sequence id has       *)
(* wrapped: the packet after it would have the id of an answer's first one. *)
NoEndWraps ==
    \A r \in Replies("query") : \A k \in 1..(Len(r) - 1) :
      FirstEnd(r, k) => k % SeqMod # 0

MyTypeOK ==
    /\ conn \in {"new", "open", "failed", "lost"}
    /\ io \in {"idle", "sending", "reading", "parsing", "aborted"}
    /\ op \in {"connect", "query"} /\ ops \in 0..MaxOps
    /\ stage \in ConnectStages \cup QueryStages
    /\ begun \in BOOLEAN /\ seq \in 0..(SeqMod - 1) /\ count \in Nat
    /\ Len(defs) <= count
    /\ \A i \in 1..Len(rows) : rows[i].n = count
    /\ have \in 0..Len(stream) /\ frag \in BOOLEAN /\ (frag => have < Len(stream))
    /\ \A i \in 1..Len(stream) : stream[i].t \in PacketTypes /\ stream[i].seq \in 0..(SeqMod - 1)

(* As long as no operation reported an error of the client's own making, a *)
(* query that returns reports its own answer: the server's error code, or  *)
(* success with every column definition and row of the answer's first      *)
(* result.  The end of a second result that a CALL leaves unread is never  *)
(* taken for the next query's answer: its sequence id gives it away,       *)
(* unless it has wrapped. *)
QueryReportsOwnAnswer ==
    io = "idle" /\ op = "query" /\ clean /\ outcome >= Ok
      => /\ endRq = ops
         /\ \E k \in 1..Len(answer) :
              /\ FirstEnd(answer, k)
              /\ outcome = IF answer[k].t = "ERR" THEN answer[k].n ELSE Ok
              /\ defs = [i \in 1..CountOf(answer, "DEF", k) |-> ops]
              /\ rows = [i \in 1..CountOf(answer, "ROW", k) |->
                           [n |-> answer[1].n, rq |-> ops]]

(* However reads cut the stream up, and however far the sequence id has    *)
(* wrapped, an answer with one result never makes a query fail: the only   *)
(* errors are the server's and the stream's.                               *)
ReadSplitsDoNotMatter == io = "idle" /\ op = "query" => outcome >= Ok \/ outcome = Transport

(* An answer with one result is taken to its last packet by its own query, *)
(* or the stream is lost: every definition and row of it and nothing of    *)
(* another answer, as many as announced, and the code it ends with.        *)
Delivered ==
    /\ endRq = ops /\ inbox = <<>>
    /\ outcome = IF answer[Len(answer)].t = "ERR" THEN answer[Len(answer)].n ELSE Ok
    /\ outcome >= Ok
    /\ \A i \in 1..Len(defs) : defs[i] = ops
    /\ \A i \in 1..Len(rows) : rows[i].rq = ops /\ rows[i].n = count
    /\ answer[1].t = "COUNT" =>
         Len(defs) = answer[1].n /\ count = answer[1].n /\ Len(answer) = Len(defs) + Len(rows) + 2
WholeOrLost == io = "idle" /\ op = "query" => outcome = Transport \/ Delivered

(* The source says `assert(false)' for a pause of the first reading stage  *)
(* in any stage but S2_Guess and S1_ERR: it is never executed.             *)
AssertionsHold == io # "aborted"

(* Every operation ends, unless an assertion ends the program. *)
EveryOperationEnds == (io # "idle") ~> (io \in {"idle", "aborted"})
=============================================================================
