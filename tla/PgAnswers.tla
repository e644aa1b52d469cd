------------------------------ MODULE PgAnswers ------------------------------
(***************************************************************************)
(* What an answer of the server says, message by message, and what the     *)
(* operations of PgSession must therefore report.  An answer to a query is *)
(* the messages of its commands one after the other, each with a           *)
(* CommandComplete at its end; a command that returns rows describes them  *)
(* first.                                                                  *)
(***************************************************************************)
EXTENDS PgSession

(* External: a backend reports one error for a request at most. It skips   *)
(* what is left of the query string, or every message up to Sync.          *)
OneError ==
    \A k \in Kinds \cup {"password"} : \A r \in Replies(k) :
      \A i, j \in 1..Len(r) : r[i].t = "E" /\ r[j].t = "E" => i = j

(* External: it sends the key data before it is ready for the first query. *)
KeyBeforeReady ==
    \A k \in {"connect", "password"} : \A r \in Replies(k) :
      r[Len(r)].t = "Z" => \E i \in 1..Len(r) : r[i].t = "K"

-----------------------------------------------------------------------------
(* How many of the messages after b, up to c, have type t. *)
Count(r, t, b, c) == Cardinality({i \in (b + 1)..c : r[i].t = t})

(* The messages after b, up to c, are those of one command: all that       *)
(* follow the command before, and in them c is the first to end one.       *)
Since(r, b, c) ==
    /\ b <= c /\ (b = 0 \/ r[b].t = "C")
    /\ \A i \in (b + 1)..c : r[i].t # "C"
Command(r, b, c) == b < c /\ Since(r, b, c - 1) /\ r[c].t = "C"

(* e is the error in the first k messages of r, or there is none. *)
ErrorIs(e, r, k) ==
    /\ \A i \in 1..k : r[i].t = "E" => e = r[i].n
    /\ e = Ok \/ \E i \in 1..k : r[i].t = "E"

(* s holds the rows after b, up to c, in order, under their description;   *)
(* it is no set if there is no description.  q is the request. *)
SetIs(s, r, b, c, q) ==
    IF \A i \in (b + 1)..c : r[i].t # "T" THEN s = NoSet
    ELSE /\ s.rq = q /\ \A i \in (b + 1)..c : r[i].t = "T" => s.cols = r[i].n
         /\ Len(s.rows) = Count(r, "D", b, c)
         /\ \A i \in (b + 1)..c :
              r[i].t = "D" => s.rows[Count(r, "D", b, i)] = [n |-> r[i].n, rq |-> q]

(* res has the set of each command of the first k messages, in order. *)
ResultIs(res, r, k, q) ==
    /\ Len(res) = Count(r, "C", 0, k)
    /\ \A b \in 0..k, c \in 1..k :
         Command(r, b, c) => SetIs(res[Count(r, "C", 0, c)], r, b, c, q)

-----------------------------------------------------------------------------
(* How many answers the operation that last ended was behind when it began *)
Behind == IF endZ = 0 THEN missed - 1 ELSE missed

(* What an operation that started in sync delivers is the result sets of   *)
(* the commands of its own answer, each of them whole: all of them if it   *)
(* read to ReadyForQuery, those before the error if it stopped there, and  *)
(* those it had got when it was cut short.  Unless it was cut short it     *)
(* reports the server's error, or success if there is none.                *)
OwnAnswer ==
    io = "idle" /\ ops > 1 /\ Behind = 0
      => /\ \E k \in 0..Len(answer) :
              /\ ResultIs(result, answer, k, ops)
              /\ endZ # 0 => k = Len(answer)
              /\ endZ = 0 /\ outcome >= Ok => k > 0 /\ answer[k].t = "E"
         /\ outcome >= Ok => ErrorIs(outcome, answer, Len(answer))
=============================================================================
