------------------------------ MODULE PgServer ------------------------------
(***************************************************************************)
(* External: the replies of a conforming PostgreSQL backend to the         *)
(* requests this client writes, in the shapes the parsers under            *)
(* postgresql/detail/msg tell apart.  NoticeResponse and ParameterStatus   *)
(* may be sent at any time; they appear here where they change what the    *)
(* client does.                                                            *)
(***************************************************************************)
EXTENDS PgAnswers

CONSTANTS MaxRows,   \* bound: rows of one result set
          Cols       \* numbers of columns of a result set

(* The answers of each run are what the theorems about PgSession and        *)
(* PgOneshot ask for. *)
ASSUME ConformingAssumption == WholeAnswers /\ OneError /\ KeyBeforeReady

M(t) == Msg(t, 0)
E1 == Msg("E", 1)

Startup == {<<Msg("R", n)>> : n \in {CleartextPassword, MD5Password, SASL}}
           \cup {<<M("N"), Msg("R", CleartextPassword)>>, <<E1>>}
           \cup {<<Msg("R", TrustOrFinished), M("S"), M("K"), M("Z")>>}
Password == {<<Msg("R", TrustOrFinished), M("S"), M("K"), M("N"), M("Z")>>,
             <<M("N"), Msg("R", TrustOrFinished), M("K"), M("Z")>>,
             <<E1>>,
             <<Msg("R", TrustOrFinished), E1>>}

RowsOf(n) == {[i \in 1..k |-> Msg("D", n)] : k \in 0..MaxRows}
Selects == UNION {{<<Msg("T", n)>> \o d : d \in RowsOf(n)} : n \in Cols}

(* Simple query: statements one after the other; an error ends the string. *)
Statements == {s \o <<M("C")>> : s \in Selects} \cup {<<M("C")>>, <<M("C"), M("S")>>}
SimpleAnswers ==
    {<<M("I"), M("Z")>>, <<E1, M("Z")>>}
    \cup {s \o e \o <<M("Z")>> :
            s \in Statements, e \in {<<>>, <<E1>>, <<M("N"), M("C")>>} \cup Statements}
    \cup {s \o <<E1, M("Z")>> : s \in Selects}

ParseAnswers == {<<M("1"), M("Z")>>, <<M("N"), M("1"), M("Z")>>, <<E1, M("Z")>>,
                 <<M("S"), M("1"), M("Z")>>}

(* Bind, Describe, Execute, Sync. *)
ExecuteAnswers ==
    {<<E1, M("Z")>>, <<M("2"), E1, M("Z")>>,
     <<M("2"), M("n"), M("I"), M("Z")>>, <<M("2"), M("n"), M("C"), M("Z")>>}
    \cup {<<M("2")>> \o s \o e \o <<M("Z")>> :
            s \in Selects, e \in {<<M("C")>>, <<E1>>, <<M("N"), M("C")>>}}

(* Parse, Bind, Describe, Execute, Sync. *)
OneshotAnswers == {<<M("1")>> \o r : r \in ExecuteAnswers} \cup {<<E1, M("Z")>>}

ServerReplies(kind) ==
    CASE kind = "connect" -> Startup
      [] kind = "password" -> Password
      [] kind = "simple" -> SimpleAnswers
      [] kind = "parse" -> ParseAnswers
      [] kind = "execute" -> ExecuteAnswers
      [] kind = "oneshot" -> OneshotAnswers

(* Every operation ends: the server answers, or its end of file does. *)
EveryOperationEnds == (io # "idle") ~> (io = "idle")
=============================================================================
