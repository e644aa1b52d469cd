-------------------------------- MODULE PqExec --------------------------------
(***************************************************************************)
(* pq::async_exec_params (pq/impl/async_exec.ipp): the poll loop that runs *)
(* a query on a non-blocking PGconn of libpq (pq/connection.hpp).          *)
(*                                                                         *)
(* The query is handed to libpq when the function is called and its result *)
(* is fetched by a handler that runs after every poll of the socket.  A    *)
(* handler runs to its end, but while it loops the server goes on sending  *)
(* and PQconsumeInput reads more of it: each turn is a step.               *)
(*                                                                         *)
(* External, modelled from how this code calls it: libpq (version 14 and   *)
(* later), as the state pg of the PGconn and one operator for each         *)
(* function called; the kernel; the server.  An item is what libpq makes   *)
(* of the messages of an answer:                                           *)
(*   "result"  a PGresult          "Z"      ReadyForQuery                  *)
(*   "copy"    COPY IN/OUT began   "fatal"  an error before a hang-up      *)
(* and "closed" is the result libpq itself makes of a lost connection.     *)
(***************************************************************************)
EXTENDS Integers, Sequences, FiniteSets

CONSTANTS
    MaxOps,       \* bound: queries the application issues
    MaxRunning,   \* how many of them it runs at a time on one connection
    Answers       \* external: what the server may answer, as kinds of items

Items == {"result", "copy", "Z", "fatal", "closed"}
ASSUME PqBoundAssumption == MaxOps \in Nat /\ MaxRunning \in Nat \ {0}
ASSUME AnswerAssumption == Answers \subseteq Seq({"result", "copy", "Z", "fatal"})

(* External: ReadyForQuery ends an answer and follows a result. *)
ReadyLast ==
    \A a \in Answers : \A n \in 1..Len(a) :
      a[n] = "Z" => n = Len(a) /\ n > 1 /\ a[n - 1] = "result"

VARIABLES
    pg,       \* the PGconn: status "ok" or "bad"; async "idle", "busy",
              \* "copy" or, within a call, "ready" (res is parsed); res; out,
              \* the request not flushed; inb, the items received, not parsed
    wire,     \* items the server has sent
    asked,    \* the request the server has to answer, or 0
    up,       \* is the server there?
    ops,      \* operations started
    st,       \* each operation: "new", "polling", "first" and "loop" (its
              \* handler is on the stack), "done"
    strm,     \* its stream_base: has it a socket?
    r,        \* its __M_r, Nothing when empty
    ec,       \* its error code when done: "ok" or "poll"
    cut,      \* history: polls that failed while libpq had a query under way
    alone     \* history: operations that no other one overlapped

opVars == <<ops, st, strm, r, ec>>
histVars == <<cut, alone>>
pqVars == <<pg, wire, asked, up, opVars, histVars>>

Op == 1..MaxOps
Item(k, q) == [k |-> k, rq |-> q]
Nothing == Item("none", 0)
OnStack(i) == st[i] \in {"first", "loop"}
Running == {i \in Op : st[i] \in {"polling", "first", "loop"}}

(* connectdb: a connection that is open, made non-blocking. *)
PqInit ==
    /\ pg = [status |-> "ok", async |-> "idle", res |-> Nothing, out |-> 0, inb |-> <<>>]
    /\ wire = <<>> /\ asked = 0 /\ up = TRUE /\ ops = 0 /\ cut = 0 /\ alone = {}
    /\ st = [i \in Op |-> "new"] /\ strm = [i \in Op |-> FALSE]
    /\ r = [i \in Op |-> Nothing] /\ ec = [i \in Op |-> "ok"]

-----------------------------------------------------------------------------
(* External: parseInput, up to the next result or the end of the query.    *)
(* What follows ReadyForQuery is a notice. *)
ParseInput(c) ==
    IF c.async # "busy" \/ c.inb = <<>> THEN c
    ELSE LET m == Head(c.inb) IN
         [c EXCEPT !["res"] = m,
                   !["inb"] = IF m.k = "Z" THEN <<>> ELSE Tail(c.inb),
                   !["async"] = CASE m.k = "Z" -> "idle" [] m.k = "copy" -> "copy"
                                  [] OTHER -> "ready"]

(* External: PQisBusy, and PQgetResult when it does not wait: the result,  *)
(* Nothing for a null pointer, and the connection after it. *)
IsBusy(c) == ParseInput(c).async = "busy" /\ c.status = "ok"
GetResult(c) ==
    LET p == ParseInput(c) IN
    CASE p.async = "ready" -> [v |-> p.res, c |-> [p EXCEPT !["async"] = "busy"]]
      [] p.async = "copy" /\ p.status = "ok" -> [v |-> p.res, c |-> p]
      [] p.async = "idle" -> [v |-> Nothing, c |-> p]
      [] OTHER -> [v |-> Item("closed", 0), c |-> [p EXCEPT !["async"] = "idle"]]

(* External: PQconsumeInput reads some of what has arrived, or finds the   *)
(* end of file and drops the connection; it also flushes.  PQflush loses   *)
(* the request when the server is gone. *)
Readable == wire # <<>> \/ ~up
Consume(c, writable) ==
    /\ asked' = IF writable /\ c.out # 0 /\ up THEN c.out ELSE asked
    /\ LET f == [c EXCEPT !["out"] = IF writable THEN 0 ELSE @] IN
       \/ ~Readable /\ pg' = f /\ UNCHANGED wire
       \/ wire = <<>> /\ ~up /\ pg' = [f EXCEPT !["status"] = "bad", !["out"] = 0] /\ UNCHANGED wire
       \/ \E k \in 1..Len(wire) :
            /\ pg' = [f EXCEPT !["inb"] = @ \o SubSeq(wire, 1, k)]
            /\ wire' = SubSeq(wire, k + 1, Len(wire))

-----------------------------------------------------------------------------
(* async_exec_params: PQsendQueryParams, whose result is not looked at,    *)
(* refuses the query on a connection that is lost or has one under way.    *)
(* The operation then starts to poll. *)
Accepts(c) == c.status = "ok" /\ c.async = "idle"
AsyncExecParams ==
    LET i == ops + 1 IN
    /\ ops < MaxOps /\ Cardinality(Running) < MaxRunning
    /\ ~ \E j \in Op : OnStack(j)
    /\ ops' = i
    /\ pg' = IF Accepts(pg) THEN [pg EXCEPT !["async"] = "busy", !["out"] = i] ELSE pg
    /\ st' = [st EXCEPT ![i] = "polling"] /\ strm' = [strm EXCEPT ![i] = pg.status = "ok"]
    /\ alone' = IF Running = {} THEN alone \cup {i} ELSE alone \ Running
    /\ UNCHANGED <<wire, asked, up, r, ec, cut>>

(* ev_poll without an error, up to the test of PQisBusy. *)
PollDone_OnlyInput(i, writable) ==
    /\ st[i] = "polling" /\ strm[i] /\ ~ \E j \in Op : OnStack(j)
    /\ Readable
    /\ Consume(pg, writable)
    /\ st' = [st EXCEPT ![i] = "first"]
    /\ UNCHANGED <<up, ops, strm, r, ec, histVars>>
PollDone(i, writable) ==
    /\ st[i] = "polling" /\ strm[i] /\ ~ \E j \in Op : OnStack(j)
    /\ writable \/ Readable
    /\ Consume(pg, writable)
    /\ st' = [st EXCEPT ![i] = "first"]
    /\ UNCHANGED <<up, ops, strm, r, ec, histVars>>

(* ev_poll with an error: the socket is gone, or the poll was cancelled. *)
PollFail(i) ==
    /\ st[i] = "polling" /\ ~ \E j \in Op : OnStack(j)
    /\ st' = [st EXCEPT ![i] = "done"] /\ ec' = [ec EXCEPT ![i] = "poll"]
    /\ r' = [r EXCEPT ![i] = Nothing]
    /\ cut' = IF pg.async # "idle" THEN cut + 1 ELSE cut
    /\ UNCHANGED <<pg, wire, asked, up, ops, strm, alone>>

(* Busy, before the first result or after one: do_poll. *)
PollAgain_CompletesEarly(i) ==
    /\ OnStack(i) /\ IsBusy(pg)
    /\ pg' = ParseInput(pg)
    /\ st' = [st EXCEPT ![i] = IF st[i] = "loop" THEN "done" ELSE "polling"]
    /\ UNCHANGED <<wire, asked, up, ops, strm, r, ec, histVars>>
PollAgain_AtOnce(i) ==
    /\ OnStack(i)
    /\ pg' = ParseInput(pg)
    /\ st' = [st EXCEPT ![i] = "polling"]
    /\ UNCHANGED <<wire, asked, up, ops, strm, r, ec, histVars>>
PollAgain(i) ==
    /\ OnStack(i) /\ IsBusy(pg)
    /\ pg' = ParseInput(pg)
    /\ st' = [st EXCEPT ![i] = "polling"]
    /\ UNCHANGED <<wire, asked, up, ops, strm, r, ec, histVars>>

(* A result replaces the one before it; from the second on the loop also   *)
(* reads what has arrived meanwhile. *)
Keep(i) ==
    LET g == GetResult(pg) IN
    /\ OnStack(i) /\ ~IsBusy(pg) /\ g.v # Nothing
    /\ r' = [r EXCEPT ![i] = g.v]
    /\ st' = [st EXCEPT ![i] = "loop"]
    /\ IF st[i] = "loop" THEN Consume(g.c, FALSE) ELSE pg' = g.c /\ UNCHANGED <<wire, asked>>
    /\ UNCHANGED <<up, ops, strm, ec, histVars>>

(* A null pointer: the query is over, complete(ec, __M_r). *)
Finish(i) ==
    LET g == GetResult(pg) IN
    /\ OnStack(i) /\ ~IsBusy(pg) /\ g.v = Nothing
    /\ pg' = g.c
    /\ st' = [st EXCEPT ![i] = "done"]
    /\ UNCHANGED <<wire, asked, up, ops, strm, r, ec, histVars>>

(* External: the server answers, and hangs up after "fatal"; it may go     *)
(* away at any time, and what it sent may be lost with it. *)
Reply ==
    /\ up /\ asked # 0 /\ asked' = 0
    /\ \E a \in Answers :
         /\ wire' = wire \o [n \in 1..Len(a) |-> Item(a[n], asked)]
         /\ up' = (\A n \in 1..Len(a) : a[n] # "fatal")
    /\ UNCHANGED <<pg, opVars, histVars>>
Die ==
    /\ up /\ up' = FALSE /\ asked' = 0
    /\ \E k \in 0..Len(wire) : wire' = SubSeq(wire, 1, k)
    /\ UNCHANGED <<pg, opVars, histVars>>

Handler(i) == PollAgain(i) \/ Keep(i) \/ Finish(i)
PqNext ==
    \/ AsyncExecParams
    \/ \E i \in Op : Handler(i) \/ PollFail(i) \/ \E w \in BOOLEAN : PollDone(i, w)
    \/ Reply \/ Die

(* Handlers run, polls complete, the socket becomes writable again and the *)
(* server answers.                                                         *)
PqFairness ==
    /\ \A i \in Op : /\ WF_pqVars(Handler(i)) /\ WF_pqVars(PollDone(i, TRUE))
                     /\ WF_pqVars(~strm[i] /\ PollFail(i))
    /\ WF_pqVars(Reply)
PqSpec == PqInit /\ [][PqNext]_pqVars /\ PqFairness
-----------------------------------------------------------------------------
(* The type invariant.  It also says that handlers do not overlap, and     *)
(* that no handler leaves a result in libpq that is there to be fetched.   *)
PqTypeOK ==
    /\ pg \in [status : {"ok", "bad"}, async : {"idle", "busy", "copy"},
               res : [k : Items \cup {"none"}, rq : Nat], out : 0..ops,
               inb : Seq([k : Items, rq : Nat])]
    /\ wire \in Seq([k : Items, rq : Nat]) /\ asked \in 0..ops /\ up \in BOOLEAN
    /\ ops \in 0..MaxOps /\ cut \in Nat /\ alone \subseteq 1..ops
    /\ st \in [Op -> {"new", "polling", "first", "loop", "done"}]
    /\ strm \in [Op -> BOOLEAN] /\ ec \in [Op -> {"ok", "poll"}]
    /\ r \in [Op -> [k : Items \cup {"none"}, rq : Nat]]
    /\ \A i, j \in Op : OnStack(i) /\ OnStack(j) => i = j

(* Between operations libpq is idle and nothing of an answer is left, so   *)
(* that PQsendQueryParams, whose refusal nobody would notice, does not     *)
(* refuse the next query: an operation ends only when its query is over,   *)
(* or its poll failed, even when several of them poll for the same query.  *)
AtRest ==
    Running = {} /\ cut = 0
      => /\ pg.async = "idle" /\ pg.out = 0 /\ asked = 0
         /\ up => pg.status = "ok" /\ pg.inb = <<>> /\ wire = <<>>

(* An operation that ran alone and reports success delivers the result of *)
(* its own query, or, once the connection is lost, libpq's own: what the   *)
(* server said before it hung up is never reported.                        *)
OwnResult ==
    \A i \in alone : st[i] = "done" /\ ec[i] = "ok" /\ cut = 0
      => r[i] \in {Item("result", i), Item("closed", 0)}

(* Every operation ends, unless its query is a COPY: PQgetResult then      *)
(* returns a result every time, and the handler never returns.             *)
ExecEnds ==
    \A i \in Op : st[i] = "polling" ~> st[i] = "done" \/ pg.async = "copy"
=============================================================================
