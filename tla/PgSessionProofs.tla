--------------------------- MODULE PgSessionProofs ---------------------------
(***************************************************************************)
(* Theorems about PgSession for every bound MaxOps.  The first part is     *)
(* about every server (every Replies that sends messages at all, in any    *)
(* order and with any bodies): types, and rows and their descriptions.     *)
(* The second is about every server that answers whole (WholeAnswers):     *)
(* requests and answers stay together, so that what an operation reports   *)
(* comes from the answer it should come from, and a connection whose       *)
(* operations told of no answer left unread is in sync.                    *)
(***************************************************************************)
EXTENDS PgSession, FiniteSetTheorems, TLAPS

-----------------------------------------------------------------------------
(* The dispatch ladders move between known stages on known types; a row is *)
(* accepted only where a description has been parsed, and execute leaves   *)
(* the row stage as soon as it sees CommandComplete.                       *)
LEMMA ArcsLemma ==
    ASSUME NEW k \in Kinds, NEW a \in Arcs[k]
    PROVE  /\ a.to \in Stages /\ a.t \in Types
           /\ a.t = "D" => \/ k = "simple" /\ a.to = "WithDataWithDef" /\ a.at = a.to
                           \/ k \in {"execute", "oneshot"} /\ a.to = "DataRow" /\ a.at = a.to
           /\ k \in {"execute", "oneshot"} /\ a.to = "DataRow" => a.t = "T" \/ a.at = "DataRow"
           /\ k \in {"execute", "oneshot"} /\ a.t = "C" => a.to = "ReadyForQuery"
           /\ k = "simple" /\ a.to = "WithDataWithDef" => a.at = a.to
           /\ k = "simple" /\ a.t = "I" => a.to = "Empty"
           /\ k = "simple" /\ a.t = "T" => a.to = "WithDataNoDef"
           /\ a.t = "R" => k = "connect"
<1>1. CASE k = "connect"
  <2>1. a \in ConnectArcs
    BY <1>1 DEF Arcs
  <2> QED
    BY <1>1, <2>1 DEF ConnectArcs, AnyStage, Arc, Stages, ConnectStages, Types
<1>2. CASE k = "simple"
  <2>1. a \in SimpleArcs
    BY <1>2 DEF Arcs
  <2> QED
    BY <1>2, <2>1 DEF SimpleArcs, AnyStage, Arc, Stages, SimpleStages, Types
<1>3. CASE k = "parse"
  <2>1. a \in ParseArcs
    BY <1>3 DEF Arcs
  <2> QED
    BY <1>3, <2>1 DEF ParseArcs, AnyStage, Arc, Stages, ParseStages, Types
<1>4. CASE k = "execute"
  <2>1. a \in ExecuteArcs
    BY <1>4 DEF Arcs
  <2> QED
    BY <1>4, <2>1 DEF ExecuteArcs, AnyStage, Arc, Stages, OneshotStages,
                      ExecuteStages, Types
<1>5. CASE k = "oneshot"
  <2>1. a \in OneshotArcs
    BY <1>5 DEF Arcs
  <2> QED
    BY <1>5, <2>1 DEF OneshotArcs, ExecuteArcs, AnyStage, Arc, Stages, OneshotStages,
                      ExecuteStages, Types
<1> QED  BY <1>1, <1>2, <1>3, <1>4, <1>5 DEF Kinds

(* Each effect is for the message types it is named after. *)
LEMMA EffectsLemma ==
    ASSUME NEW k \in Kinds
    PROVE  /\ Effects[k]["desc"] \subseteq {"T"} /\ Effects[k]["keep"] \subseteq {"E"}
           /\ Effects[k]["row"] \subseteq {"D"}
           /\ Effects[k]["push"] \subseteq {"C"}
           /\ Effects[k]["auth"] \subseteq {"R"}
           /\ Effects[k]["dismiss"] \subseteq {"1", "2", "n", "I", "K", "N", "S"}
<1>1. CASE k = "connect"
  <2>1. Effects[k] = ConnectEffects
    BY <1>1 DEF Effects
  <2> QED  BY <2>1 DEF ConnectEffects, NoEffect
<1>2. CASE k = "simple"
  <2>1. Effects[k] = SimpleEffects
    BY <1>2 DEF Effects
  <2> QED  BY <2>1 DEF SimpleEffects, NoEffect
<1>3. CASE k = "parse"
  <2>1. Effects[k] = ParseEffects
    BY <1>3 DEF Effects
  <2> QED  BY <2>1 DEF ParseEffects, NoEffect
<1>4. CASE k = "execute"
  <2>1. Effects[k] = ExecuteEffects
    BY <1>4 DEF Effects
  <2> QED  BY <2>1 DEF ExecuteEffects, NoEffect
<1>5. CASE k = "oneshot"
  <2>1. Effects[k] = OneshotEffects
    BY <1>5 DEF Effects
  <2> QED  BY <2>1 DEF OneshotEffects, NoEffect
<1> QED  BY <1>1, <1>2, <1>3, <1>4, <1>5 DEF Kinds

(* What ends an operation; execute and oneshot keep an error instead.      *)
LEMMA EndingsLemma ==
    ASSUME NEW k \in Kinds
    PROVE  /\ Effects[k]["ready"] \subseteq {"Z"} /\ Effects[k]["fail"] \subseteq {"E"}
           /\ Effects[k][IF k \in {"execute", "oneshot"} THEN "fail" ELSE "keep"] = {}
<1>1. CASE k = "connect"
  <2>1. Effects[k] = ConnectEffects
    BY <1>1 DEF Effects
  <2>2. ConnectEffects["ready"] \subseteq {"Z"} /\ ConnectEffects["fail"] \subseteq {"E"}
    BY DEF ConnectEffects, NoEffect
  <2>3. ConnectEffects["keep"] = {}
    BY DEF ConnectEffects, NoEffect
  <2> QED  BY <1>1, <2>1, <2>2, <2>3
<1>2. CASE k = "simple"
  <2>1. Effects[k] = SimpleEffects
    BY <1>2 DEF Effects
  <2>2. SimpleEffects["ready"] \subseteq {"Z"} /\ SimpleEffects["fail"] \subseteq {"E"}
    BY DEF SimpleEffects, NoEffect
  <2>3. SimpleEffects["keep"] = {}
    BY DEF SimpleEffects, NoEffect
  <2> QED  BY <1>2, <2>1, <2>2, <2>3
<1>3. CASE k = "parse"
  <2>1. Effects[k] = ParseEffects
    BY <1>3 DEF Effects
  <2>2. ParseEffects["ready"] \subseteq {"Z"} /\ ParseEffects["fail"] \subseteq {"E"}
    BY DEF ParseEffects, NoEffect
  <2>3. ParseEffects["keep"] = {}
    BY DEF ParseEffects, NoEffect
  <2> QED  BY <1>3, <2>1, <2>2, <2>3
<1>4. CASE k = "execute"
  <2>1. Effects[k] = ExecuteEffects
    BY <1>4 DEF Effects
  <2>2. ExecuteEffects["ready"] \subseteq {"Z"} /\ ExecuteEffects["fail"] \subseteq {"E"}
    BY DEF ExecuteEffects, NoEffect
  <2>3. ExecuteEffects["fail"] = {}
    BY DEF ExecuteEffects, NoEffect
  <2> QED  BY <1>4, <2>1, <2>2, <2>3
<1>5. CASE k = "oneshot"
  <2>1. Effects[k] = OneshotEffects
    BY <1>5 DEF Effects
  <2>2. OneshotEffects["ready"] \subseteq {"Z"} /\ OneshotEffects["fail"] \subseteq {"E"}
    BY DEF OneshotEffects, NoEffect
  <2>3. OneshotEffects["fail"] = {}
    BY DEF OneshotEffects, NoEffect
  <2> QED  BY <1>5, <2>1, <2>2, <2>3
<1> QED  BY <1>1, <1>2, <1>3, <1>4, <1>5 DEF Kinds

(* A finished body moves to a known stage. *)
LEMMA BodyStageLemma ==
    ASSUME NEW k, NEW x \in Stages, NEW t
    PROVE  BodyStage(k, x, t) \in Stages
BY DEF BodyStage, Stages, ConnectStages, SimpleStages, ParseStages, OneshotStages,
       ExecuteStages

-----------------------------------------------------------------------------
(* Steps that share a shape: what Complete, Parsed and Continue keep. *)
EndTyped ==
    /\ conn \in {"new", "open", "early", "dropped"}
    /\ io \in {"idle", "sending", "reading", "parsing"}
    /\ outcome \in Int /\ missed \in Nat /\ told \in BOOLEAN /\ endZ \in Nat

LEMMA CompleteType ==
    ASSUME TypeOK, NEW e, NEW q, NEW lost, e \in Int, q \in Nat, Complete(e, q, lost)
    PROVE  EndTyped'
BY DEF TypeOK, Complete, Closes, EndTyped

LEMMA OwnErrors == Malformed \in Int /\ Unable \in Int /\ Transport \in Int /\ Ok \in Int
BY DEF Malformed, Unable, Transport, Ok

LEMMA RequestType ==
    ASSUME TypeOK, NEW k \in Kinds \cup {"password"}, NEW q \in Nat, Request(k, q)
    PROVE  inbox' \in Seq(Requests)
<1>1. [kind |-> k, rq |-> q] \in Requests
  BY DEF Requests
<1> QED  BY <1>1 DEF Request, TypeOK

LEMMA NoSetType == NoSet \in ResultSets
<1>1. <<>> \in Seq(Rows)
  OBVIOUS
<1> QED  BY <1>1 DEF NoSet, ResultSets

LEMMA ParsedType ==
    ASSUME TypeOK, NEW e, Parsed(e)
    PROVE  /\ Head(stream) \in Tagged /\ stream # <<>>
           /\ stream' \in Seq(Tagged) /\ have' \in 0..Len(stream')
           /\ frag' \in BOOLEAN /\ (frag' => have' < Len(stream'))
           /\ inbox' \in Seq(Requests) /\ up' \in BOOLEAN
           /\ answer' \in Seq(RawMessages)
           /\ op' \in Kinds /\ ops' \in 0..MaxOps
<1>1. stream # <<>> /\ Len(stream) > 0
  BY DEF TypeOK, Parsed
<1>2. Head(stream) \in Tagged /\ Tail(stream) \in Seq(Tagged)
      /\ Len(Tail(stream)) = Len(stream) - 1
  BY <1>1 DEF TypeOK
<1> QED  BY <1>1, <1>2 DEF TypeOK, Parsed

LEMMA HeadType ==
    ASSUME TypeOK, have > 0 \/ frag
    PROVE  Head(stream) \in Tagged
<1>1. Len(stream) > 0
  BY DEF TypeOK
<1> QED  BY <1>1 DEF TypeOK

(* TypeOK holds initially and is kept by every step. *)
LEMMA InitTyped == Init => TypeOK
<1>1. "read_s1" \in Stages /\ "connect" \in Kinds
  BY DEF Kinds, Stages, ConnectStages
<1>2. Init => /\ have \in 0..Len(stream) /\ (frag => have < Len(stream))
              /\ ops \in 0..MaxOps
  BY BoundAssumption DEF Init
<1>3. <<>> \in Seq(ResultSets) /\ <<>> \in Seq(Tagged) /\ <<>> \in Seq(Requests)
      /\ <<>> \in Seq(RawMessages)
  OBVIOUS
<1> SUFFICES ASSUME Init PROVE TypeOK
  OBVIOUS
<1>4. outcome \in Int /\ err \in Int /\ curr \in ResultSets
  BY NoSetType, OwnErrors DEF Init
<1>5. /\ stream \in Seq(Tagged) /\ inbox \in Seq(Requests)
      /\ result \in Seq(ResultSets) /\ answer \in Seq(RawMessages)
  BY <1>3 DEF Init
<1>6. op \in Kinds /\ expect \in Stages
  BY <1>1 DEF Init
<1>7. frag \in BOOLEAN /\ up \in BOOLEAN
  BY DEF Init
<1> QED  BY <1>2, <1>4, <1>5, <1>6, <1>7 DEF Init, TypeOK

LEMMA NextTyped == TypeOK /\ [Next]_vars => TypeOK'
<1> SUFFICES ASSUME TypeOK, [Next]_vars PROVE TypeOK'
  OBVIOUS
<1>1. ASSUME NEW k \in Kinds, Start(k) PROVE TypeOK'
  <2>1. InitStage[k] \in Stages
    BY DEF InitStage, Kinds, Stages, ConnectStages, SimpleStages, ParseStages,
           OneshotStages, ExecuteStages
  <2>2. inbox' \in Seq(Requests)
    BY <1>1, RequestType, BoundAssumption DEF Start, Fresh, TypeOK
  <2> QED  BY <1>1, <2>1, <2>2, NoSetType, OwnErrors, BoundAssumption
           DEF Start, Fresh, TypeOK, bufVars
<1>2. CASE SendDone
  BY <1>2 DEF SendDone, TypeOK, opVars, endVars, bufVars, netVars
<1>3. CASE SendFail
  <2>1. Complete(Transport, 0, TRUE)
    BY <1>3 DEF SendFail
  <2>2. EndTyped'
    BY <2>1, CompleteType, OwnErrors
  <2> QED  BY <1>3, <2>2 DEF SendFail, EndTyped, TypeOK, opVars, bufVars, netVars
<1>4. CASE Peek
  <2>1. PICK a \in Arcs[op] : /\ a.t = Head(stream).t /\ expect' = a.to /\ parsers' = a.t
                              /\ curr' = IF op = "simple" /\ a.t = "T"
                                  THEN [cols |-> 0, rq |-> Head(stream).rq, rows |-> <<>>]
                                  ELSE IF op = "simple" /\ a.t = "I" THEN NoSet ELSE curr
    BY <1>4 DEF Peek
  <2>2. a.to \in Stages /\ a.t \in Types
    BY ArcsLemma DEF TypeOK
  <2>3. Head(stream).rq \in Nat
    BY <1>4, HeadType DEF Peek, Tagged
  <2>4. curr' \in ResultSets
    BY <2>1, <2>3 DEF TypeOK, ResultSets, NoSet
  <2> QED  BY <1>4, <2>1, <2>2, <2>4 DEF Peek, TypeOK, endVars, bufVars, netVars
<1>5. CASE PeekMalformed
  <2>1. Complete(Malformed, 0, FALSE)
    BY <1>5 DEF PeekMalformed
  <2>2. EndTyped'
    BY <2>1, CompleteType, OwnErrors
  <2> QED  BY <1>5, <2>2 DEF PeekMalformed, NotExpected, EndTyped, TypeOK, opVars, bufVars, netVars
<1>6. CASE NeedMore
  BY <1>6 DEF NeedMore, OutOfInput, TypeOK, opVars, endVars, netVars
<1>7. CASE ReadDone
  BY <1>7 DEF ReadDone, TypeOK, opVars, endVars, netVars
<1>8. CASE ReadFail
  <2>1. Complete(Transport, 0, TRUE)
    BY <1>8 DEF ReadFail
  <2>2. EndTyped'
    BY <2>1, CompleteType, OwnErrors
  <2> QED  BY <1>8, <2>2 DEF ReadFail, EndTyped, TypeOK, opVars, bufVars, netVars
<1>9. CASE BodyMalformed
  <2>1. Complete(Malformed, 0, TRUE)
    BY <1>9 DEF BodyMalformed
  <2>2. EndTyped'
    BY <2>1, CompleteType, OwnErrors
  <2> QED  BY <1>9, <2>2 DEF BodyMalformed, Refused, EndTyped, TypeOK, opVars, bufVars, netVars
<1>10. CASE Dismissed
  BY <1>10, ParsedType, BodyStageLemma DEF Dismissed, Continue, TypeOK, endVars
<1>11. CASE RowDescription
  <2>1. curr' \in ResultSets
    <3>1. Head(stream) \in Tagged
      BY <1>11, ParsedType DEF RowDescription
    <3>2. Head(stream).n \in Int /\ Head(stream).rq \in Nat
      BY <3>1 DEF Tagged
    <3>3. <<>> \in Seq(Rows)
      OBVIOUS
    <3> QED  BY <1>11, <3>2, <3>3 DEF RowDescription, ResultSets
  <2> QED  BY <1>11, <2>1, ParsedType, BodyStageLemma
           DEF RowDescription, Continue, TypeOK, endVars
<1>12. CASE DataRow
  <2>1. [n |-> Head(stream).n, rq |-> Head(stream).rq] \in Rows
    BY <1>12, ParsedType DEF DataRow, Parsed, BodyOK, Rows, Tagged
  <2>2. curr' \in ResultSets
    <3>1. Append(curr.rows, [n |-> Head(stream).n, rq |-> Head(stream).rq]) \in Seq(Rows)
      BY <2>1 DEF ResultSets, TypeOK
    <3> QED  BY <1>12, <3>1 DEF DataRow, ResultSets, TypeOK
  <2> QED  BY <1>12, <2>2, ParsedType, BodyStageLemma
           DEF DataRow, Continue, TypeOK, endVars
<1>13. CASE CommandComplete
  <2>1. curr' \in ResultSets /\ result' \in Seq(ResultSets)
    BY <1>13 DEF CommandComplete, NoSet, ResultSets, TypeOK
  <2> QED  BY <1>13, <2>1, ParsedType, BodyStageLemma
           DEF CommandComplete, Continue, TypeOK, endVars
<1>14. CASE ErrorKept
  BY <1>14, ParsedType, BodyStageLemma DEF ErrorKept, Continue, TypeOK, endVars, Tagged
<1>15. CASE ErrorReported
  <2>1. Head(stream).n \in Int /\ Complete(Head(stream).n, 0, FALSE)
    BY <1>15, ParsedType DEF ErrorReported, Tagged
  <2>2. EndTyped'
    BY <2>1, CompleteType
  <2> QED  BY <1>15, <2>2, ParsedType DEF ErrorReported, EndTyped, TypeOK
<1>16. CASE ReadyForQuery
  <2>1. Head(stream).rq \in Nat /\ err \in Int /\ Complete(err, Head(stream).rq, FALSE)
    BY <1>16, ParsedType DEF ReadyForQuery, Tagged, TypeOK
  <2>2. EndTyped'
    BY <2>1, CompleteType
  <2> QED  BY <1>16, <2>2, ParsedType DEF ReadyForQuery, EndTyped, TypeOK
<1>17. CASE AuthFinal
  <2>1. CASE expect = "read_s1"
    <3>1. Complete(Ok, 0, FALSE)
      BY <1>17, <2>1 DEF AuthFinal
    <3>2. EndTyped'
      BY <3>1, CompleteType, OwnErrors
    <3> QED  BY <1>17, <2>1, <3>2, ParsedType DEF AuthFinal, EndTyped, TypeOK
  <2>2. CASE expect # "read_s1"
    BY <1>17, <2>2, ParsedType, BodyStageLemma DEF AuthFinal, Continue, TypeOK, endVars
  <2> QED  BY <2>1, <2>2
<1>18. CASE AuthCleartext
  <2>1. /\ Len(stream) > 0
        /\ Tail(stream) \in Seq(Tagged) /\ Len(Tail(stream)) = Len(stream) - 1
    BY <1>18 DEF AuthCleartext, TypeOK
  <2>2. inbox' \in Seq(Requests)
    <3>1. Request("password", ops) /\ ops \in Nat
      BY <1>18, BoundAssumption DEF AuthCleartext, TypeOK
    <3> QED  BY <3>1, RequestType
  <2>3. "wait_success" \in Stages
    BY DEF Stages, ConnectStages
  <2> QED  BY <1>18, <2>1, <2>2, <2>3 DEF AuthCleartext, TypeOK, endVars
<1>19. CASE AuthRefused
  <2>1. Complete(Unable, 0, FALSE) \/ Complete(Malformed, 0, FALSE)
    BY <1>19 DEF AuthRefused
  <2>2. EndTyped'
    BY <2>1, CompleteType, OwnErrors
  <2> QED  BY <1>19, <2>2, ParsedType DEF AuthRefused, EndTyped, TypeOK
<1>20. CASE Reply
  <2>1. Len(inbox) > 0 /\ Head(inbox) \in Requests
    BY <1>20 DEF Reply, TypeOK
  <2>2. PICK r \in Replies(Head(inbox).kind) :
          /\ stream' = stream \o Tag(r, Head(inbox).rq)
          /\ answer' = IF Head(inbox).rq = ops THEN r ELSE answer
          /\ up' = (r[Len(r)].t \in {"Z", "R"})
          /\ inbox' = IF up' THEN Tail(inbox) ELSE <<>>
    BY <1>20 DEF Reply
  <2>3. r \in Seq(RawMessages) /\ Head(inbox).rq \in Nat
    BY <2>1, <2>2, ReplyAssumption DEF Requests
  <2>4. Tag(r, Head(inbox).rq) \in Seq(Tagged)
    <3>1. ASSUME NEW i \in 1..Len(r)
          PROVE  [t |-> r[i].t, n |-> r[i].n, rq |-> Head(inbox).rq] \in Tagged
      <4>1. r[i] \in RawMessages
        BY <2>3
      <4> QED  BY <2>3, <4>1 DEF Tagged, RawMessages
    <3>2. Len(r) \in Nat
      BY <2>3
    <3> QED  BY <3>1, <3>2 DEF Tag
  <2>5. stream' \in Seq(Tagged) /\ Len(stream') >= Len(stream)
    BY <2>2, <2>4 DEF TypeOK
  <2>6. inbox' \in Seq(Requests)
    BY <2>1, <2>2 DEF TypeOK
  <2>7. up' \in BOOLEAN /\ answer' \in Seq(RawMessages)
    BY <2>2, <2>3 DEF TypeOK
  <2>8. have' \in 0..Len(stream') /\ frag' \in BOOLEAN /\ (frag' => have' < Len(stream'))
    BY <1>20, <2>5 DEF Reply, TypeOK, bufVars
  <2> QED  BY <1>20, <2>5, <2>6, <2>7, <2>8 DEF Reply, TypeOK, opVars, endVars
<1>21. CASE Die
  <2>1. PICK k \in have..Len(stream) :
          (frag => k > have) /\ stream' = SubSeq(stream, 1, k)
    BY <1>21 DEF Die
  <2>2. stream' \in Seq(Tagged) /\ Len(stream') = k
    BY <2>1 DEF TypeOK
  <2>3. have' \in 0..Len(stream') /\ frag' \in BOOLEAN /\ (frag' => have' < Len(stream'))
    BY <1>21, <2>1, <2>2 DEF Die, TypeOK, bufVars
  <2>4. inbox' = <<>> /\ up' = FALSE
    BY <1>21 DEF Die
  <2>5. inbox' \in Seq(Requests)
    BY <2>4
  <2> QED  BY <1>21, <2>2, <2>3, <2>4, <2>5 DEF Die, TypeOK, opVars, endVars
<1>22. CASE UNCHANGED vars
  BY <1>22 DEF vars, opVars, endVars, bufVars, netVars, TypeOK
<1> QED
  BY <1>1, <1>2, <1>3, <1>4, <1>5, <1>6, <1>7, <1>8, <1>9, <1>10, <1>11, <1>12,
     <1>13, <1>14, <1>15, <1>16, <1>17, <1>18, <1>19, <1>20, <1>21, <1>22
  DEF Next, Client, Body, AsyncConnect, AsyncSimpleQuery, AsyncParse, AsyncExecute, Kinds

(* The type invariant holds of every reachable state. *)
THEOREM TypeCorrect == Spec => []TypeOK
BY InitTyped, NextTyped, PTL DEF Spec

-----------------------------------------------------------------------------
(* RowsMatchDescription is not inductive by itself: a row parser is safe   *)
(* because of the stage it was accepted in, so the stages that accept rows *)
(* must imply that __M_curr holds a description.  The exceptions are    *)
(* execute and oneshot between seeing a RowDescription and its end.        *)
RowsInv ==
    /\ RowsMatchDescription
    /\ parsers = "D" => curr.cols >= 0
    /\ op \in {"execute", "oneshot"} /\ expect = "DataRow" => parsers = "T" \/ curr.cols >= 0
    /\ op \in {"execute", "oneshot"} /\ parsers = "C" => expect = "ReadyForQuery"
    /\ op = "simple" /\ expect = "WithDataWithDef" => curr.cols >= 0

rowVars == <<op, expect, parsers, curr, result>>

LEMMA RowsInvStutter == RowsInv /\ UNCHANGED rowVars => RowsInv'
BY DEF RowsInv, RowsMatchDescription, Described, rowVars

(* The stage part of RowsInv after a body that started no result set. *)
LEMMA ContinueStage ==
    ASSUME RowsInv, Continue, op' = op, parsers # "T", curr' = curr \/ parsers = "C"
    PROVE  /\ parsers' = "none"
           /\ op' \in {"execute", "oneshot"} /\ expect' = "DataRow" => curr'.cols >= 0
           /\ op' = "simple" /\ expect' = "WithDataWithDef" => curr'.cols >= 0
BY DEF RowsInv, Continue, BodyStage

(* RowsInv holds initially and is kept by every step. *)
LEMMA RowsInit == Init => RowsInv
BY DEF Init, RowsInv, RowsMatchDescription, Described, NoSet

LEMMA RowsNext == TypeOK /\ RowsInv /\ [Next]_vars => RowsInv'
<1> SUFFICES ASSUME TypeOK, RowsInv, [Next]_vars PROVE RowsInv'
  OBVIOUS
<1>0. Described(NoSet) /\ NoSet.cols = -1
  BY DEF Described, NoSet
<1>1. ASSUME NEW k \in Kinds, Start(k) PROVE RowsInv'
  <2>1. InitStage[k] \notin {"DataRow", "WithDataWithDef"}
    BY DEF InitStage, Kinds
  <2>2. /\ expect' = InitStage[k] /\ parsers' = "none"
        /\ curr' = NoSet /\ result' = <<>>
    BY <1>1 DEF Start, Fresh
  <2> QED  BY <2>1, <2>2, <1>0 DEF RowsInv, RowsMatchDescription, Described
<1>2. CASE Peek
  <2>1. PICK a \in Arcs[op] :
          /\ a.at = expect /\ expect' = a.to /\ parsers' = a.t
          /\ curr' = IF op = "simple" /\ a.t = "T"
                     THEN [cols |-> 0, rq |-> Head(stream).rq, rows |-> <<>>]
                     ELSE IF op = "simple" /\ a.t = "I" THEN NoSet ELSE curr
    BY <1>2 DEF Peek
  <2>2. parsers = "none" /\ op' = op /\ result' = result /\ op \in Kinds
    BY <1>2 DEF Peek, TypeOK
  <2>3. /\ a.t = "D" => \/ op = "simple" /\ a.to = "WithDataWithDef" /\ a.at = a.to
                        \/ op \in {"execute", "oneshot"} /\ a.to = "DataRow" /\ a.at = a.to
        /\ op \in {"execute", "oneshot"} /\ a.to = "DataRow" => a.t = "T" \/ a.at = "DataRow"
        /\ op \in {"execute", "oneshot"} /\ a.t = "C" => a.to = "ReadyForQuery"
        /\ op = "simple" /\ a.to = "WithDataWithDef" => a.at = a.to
        /\ op = "simple" /\ a.t = "I" => a.to = "Empty"
        /\ op = "simple" /\ a.t = "T" => a.to = "WithDataNoDef"
    BY <2>1, <2>2, ArcsLemma
  <2>4. Described(curr')
    BY <2>1, <1>0 DEF RowsInv, RowsMatchDescription, Described
  <2>5. /\ parsers' = "D" => curr'.cols >= 0
        /\ op' \in {"execute", "oneshot"} /\ expect' = "DataRow" => parsers' = "T" \/ curr'.cols >= 0
        /\ op' \in {"execute", "oneshot"} /\ parsers' = "C" => expect' = "ReadyForQuery"
        /\ op' = "simple" /\ expect' = "WithDataWithDef" => curr'.cols >= 0
    BY <2>1, <2>2, <2>3 DEF RowsInv
  <2>6. ASSUME parsers' = "D" PROVE curr' # NoSet
    <3>1. curr'.cols >= 0
      BY <2>5, <2>6
    <3>2. ASSUME curr' = NoSet PROVE curr'.cols = NoSet.cols
      BY <3>2
    <3> QED  BY <3>1, <3>2, <1>0
  <2> QED  BY <2>2, <2>4, <2>5, <2>6 DEF RowsInv, RowsMatchDescription
<1>3. CASE Dismissed
  <2>1. parsers \notin {"T", "C"} /\ op' = op
    BY <1>3, EffectsLemma DEF Dismissed, Parsed, TypeOK
  <2>2. Continue /\ curr' = curr /\ result' = result
    BY <1>3 DEF Dismissed
  <2> QED  BY <2>1, <2>2, ContinueStage DEF RowsInv, RowsMatchDescription
<1>4. CASE RowDescription
  <2>1. parsers = "T" /\ op' = op /\ Head(stream).n >= 0
    BY <1>4, EffectsLemma DEF RowDescription, Parsed, BodyOK, TypeOK
  <2>2. /\ curr' = [cols |-> Head(stream).n, rq |-> Head(stream).rq, rows |-> <<>>]
        /\ result' = result /\ parsers' = "none"
    BY <1>4 DEF RowDescription, Continue
  <2>3. Described(curr') /\ curr'.cols >= 0
    BY <2>1, <2>2 DEF Described
  <2> QED  BY <2>2, <2>3 DEF RowsInv, RowsMatchDescription
<1>5. CASE DataRow
  <2> DEFINE r == [n |-> Head(stream).n, rq |-> Head(stream).rq]
  <2>1. parsers = "D" /\ op' = op
    BY <1>5, EffectsLemma DEF DataRow, Parsed, TypeOK
  <2>2. curr.cols >= 0 /\ r.n = curr.cols
    BY <1>5, <2>1 DEF RowsInv, DataRow, Parsed, BodyOK
  <2>3. Continue /\ result' = result
    BY <1>5 DEF DataRow
  <2>4. curr'.cols = curr.cols /\ curr'.rows = Append(curr.rows, r)
    BY <1>5 DEF DataRow, TypeOK, ResultSets
  <2>5. Described(curr')
    <3>1. curr.rows \in Seq(Rows)
      BY DEF TypeOK, ResultSets
    <3>2. \A i \in 1..Len(curr.rows) : curr.rows[i].n = curr.cols
      BY DEF RowsInv, RowsMatchDescription, Described
    <3> HIDE DEF r
    <3>3. ASSUME NEW i \in 1..Len(Append(curr.rows, r))
          PROVE  Append(curr.rows, r)[i].n = curr.cols
      <4>1. CASE i = Len(curr.rows) + 1
        BY <4>1, <3>1, <2>2
      <4>2. CASE i # Len(curr.rows) + 1
        <5>1. i \in 1..Len(curr.rows) /\ Append(curr.rows, r)[i] = curr.rows[i]
          BY <4>2, <3>1
        <5> QED  BY <5>1, <3>2
      <4> QED  BY <4>1, <4>2
    <3> QED  BY <2>2, <2>4, <3>3 DEF Described
  <2>6. /\ parsers' = "none"
        /\ op \in {"simple", "execute", "oneshot"} => expect' = expect
    BY <2>1, <2>3 DEF Continue, BodyStage
  <2> QED  BY <2>1, <2>2, <2>3, <2>4, <2>5, <2>6 DEF RowsInv, RowsMatchDescription
<1>6. CASE CommandComplete
  <2>1. parsers = "C" /\ op' = op /\ Continue
    BY <1>6, EffectsLemma DEF CommandComplete, Parsed, TypeOK
  <2>2. curr' = NoSet /\ result' = Append(result, curr)
    BY <1>6 DEF CommandComplete
  <2>3. \A i \in 1..Len(result') : Described(result'[i])
    <3>1. result \in Seq(ResultSets) /\ curr \in ResultSets
      BY DEF TypeOK
    <3>2. Described(curr) /\ \A i \in 1..Len(result) : Described(result[i])
      BY DEF RowsInv, RowsMatchDescription
    <3>3. ASSUME NEW i \in 1..Len(Append(result, curr))
          PROVE  Described(Append(result, curr)[i])
      <4>1. CASE i = Len(result) + 1
        BY <4>1, <3>1, <3>2
      <4>2. CASE i # Len(result) + 1
        <5>1. i \in 1..Len(result) /\ Append(result, curr)[i] = result[i]
          BY <4>2, <3>1
        <5> QED  BY <5>1, <3>2
      <4> QED  BY <4>1, <4>2
    <3> QED  BY <2>2, <3>3
  <2> QED  BY <2>1, <2>2, <2>3, <1>0, ContinueStage DEF RowsInv, RowsMatchDescription
<1>7. CASE ErrorKept
  <2>1. op' = op /\ Continue /\ curr' = curr /\ result' = result
    BY <1>7 DEF ErrorKept, Parsed
  <2>2. parsers \notin {"T", "C"}
    BY <1>7, EffectsLemma DEF ErrorKept, Parsed, TypeOK
  <2> QED  BY <2>1, <2>2, ContinueStage DEF RowsInv, RowsMatchDescription
<1>8. CASE AuthFinal
  <2>1. CASE expect = "read_s1"
    BY <1>8, <2>1, RowsInvStutter DEF AuthFinal, Parsed, rowVars
  <2>2. CASE expect # "read_s1"
    <3>1. op' = op /\ Continue /\ curr' = curr /\ result' = result
      BY <1>8, <2>2 DEF AuthFinal, Parsed
    <3>2. parsers = "R"
      BY <1>8, EffectsLemma DEF AuthFinal, Parsed, TypeOK
    <3> QED  BY <3>1, <3>2, ContinueStage DEF RowsInv, RowsMatchDescription
  <2> QED  BY <2>1, <2>2
<1>9. CASE AuthCleartext
  BY <1>9 DEF AuthCleartext, RowsInv, RowsMatchDescription
<1>10. CASE \/ SendDone \/ SendFail \/ PeekMalformed \/ NeedMore \/ ReadDone \/ ReadFail
            \/ BodyMalformed \/ Reply \/ Die \/ UNCHANGED vars
  BY <1>10, RowsInvStutter
     DEF SendDone, SendFail, PeekMalformed, NeedMore, OutOfInput, ReadDone, ReadFail,
         BodyMalformed, Reply, Die, vars, opVars, rowVars
<1>11. CASE ErrorReported \/ ReadyForQuery \/ AuthRefused
  BY <1>11, RowsInvStutter DEF ErrorReported, ReadyForQuery, AuthRefused, Parsed, rowVars
<1> QED
  BY <1>1, <1>2, <1>3, <1>4, <1>5, <1>6, <1>7, <1>8, <1>9, <1>10, <1>11
  DEF Next, Client, Body, AsyncConnect, AsyncSimpleQuery, AsyncParse, AsyncExecute, Kinds

(* No operation parses a row without a description, and every row of a     *)
(* result set has as many columns as its description announced, whatever   *)
(* the server sends. *)
THEOREM RowsAlwaysMatch == Spec => []RowsMatchDescription
<1>1. RowsInv => RowsMatchDescription
  BY DEF RowsInv
<1> QED  BY <1>1, RowsInit, RowsNext, TypeCorrect, PTL DEF Spec

-----------------------------------------------------------------------------
(* Where answers end in s, and how many have not been read to their end:   *)
(* those, the requests x, and a password asked for that is not sent yet.   *)
ReadyAt(s) == {i \in 1..Len(s) : s[i].t = "Z"}
Tally(s, x) ==
    Cardinality(ReadyAt(s)) + Len(x) + (IF s # <<>> /\ s[Len(s)].t # "Z" THEN 1 ELSE 0)

(* The messages s that are not read and the requests x that are not        *)
(* answered belong to the requests b, ..., l in this order; u: the server  *)
(* is there to answer them all. *)
Pending(s, x, u, b, l) ==
    /\ s # <<>> => s[1].rq = b
    /\ \A i \in 1..Len(s) : s[i].rq <= l
    /\ \A i \in 1..(Len(s) - 1) :
         s[i + 1].rq = IF s[i].t = "Z" THEN s[i].rq + 1 ELSE s[i].rq
    /\ \A j \in 1..Len(x) : x[j].rq = l - Len(x) + j
    /\ u => IF s = <<>> THEN b = l - Len(x) + 1 ELSE s[Len(s)].rq = l - Len(x)
    /\ u => Tally(s, x) = l - b + 1

(* Where the messages are that decide what happens next: an answer goes on *)
(* until its ReadyForQuery, or until it asks for a password, which it does *)
(* only on a new connection (n). *)
Shape(s, x, u, n) ==
    /\ ~u => x = <<>>
    /\ \A i \in 1..Len(s) : s[i].t = "E" => s[i].n # Ok
    /\ \A i \in 1..(Len(s) - 1) : s[i].t = "R" => s[i].n = TrustOrFinished
    /\ u /\ s # <<>> /\ s[Len(s)].t # "Z"
         => /\ s[Len(s)].t = "R" /\ n /\ x = <<>>
            /\ \A i \in 1..Len(s) : /\ s[i].t # "Z"
                                    /\ s[i].t = "R" => s[i].n # TrustOrFinished
    /\ \A j \in 1..Len(x) : x[j].kind \in {"connect", "password"}
         => n /\ s = <<>> /\ Len(x) = 1

(* Facts about sequences in the form the lemmas below use them. *)
LEMMA TailFacts ==
    ASSUME NEW S, NEW s \in Seq(S), s # <<>>
    PROVE  /\ Len(s) \in Nat /\ Len(s) > 0 /\ Head(s) = s[1]
           /\ Tail(s) \in Seq(S) /\ Len(Tail(s)) = Len(s) - 1
           /\ \A i \in 1..(Len(s) - 1) : Tail(s)[i] = s[i + 1] /\ i + 1 \in 1..Len(s)
           /\ Tail(s) = <<>> <=> Len(s) = 1
<1>1. Len(s) \in Nat /\ Len(s) > 0 /\ Tail(s) \in Seq(S) /\ Len(Tail(s)) = Len(s) - 1
  OBVIOUS
<1>3. \A t \in Seq(S) : t = <<>> <=> Len(t) = 0
  OBVIOUS
<1>2. Tail(s) = <<>> <=> Len(Tail(s)) = 0
  BY <1>1, <1>3
<1> QED  BY <1>1, <1>2

(* Counting the ends of answers. *)
LEMMA ReadyFinite ==
    ASSUME NEW s \in Seq(Tagged)
    PROVE  IsFiniteSet(ReadyAt(s)) /\ Cardinality(ReadyAt(s)) \in Nat
<1>1. IsFiniteSet(1..Len(s))
  BY FS_Interval
<1>2. ReadyAt(s) \in SUBSET (1..Len(s))
  BY DEF ReadyAt
<1> QED  BY <1>1, <1>2, FS_Subset, FS_CardinalityType

LEMMA ReadyNone == ReadyAt(<<>>) = {} /\ Cardinality({}) = 0
<1>1. Len(<<>>) = 0
  OBVIOUS
<1> QED  BY <1>1, FS_EmptySet DEF ReadyAt

LEMMA ReadyTail ==
    ASSUME NEW s \in Seq(Tagged), s # <<>>
    PROVE  Cardinality(ReadyAt(Tail(s))) =
             Cardinality(ReadyAt(s)) - (IF s[1].t = "Z" THEN 1 ELSE 0)
<1> DEFINE t == Tail(s)
           T == ReadyAt(s) \ {1}
           f == [i \in ReadyAt(t) |-> i + 1]
<1>1. /\ Len(s) \in Nat /\ Len(s) > 0 /\ t \in Seq(Tagged) /\ Len(t) = Len(s) - 1
      /\ \A i \in 1..Len(t) : t[i] = s[i + 1] /\ i + 1 \in 1..Len(s)
  BY TailFacts
<1> HIDE DEF t
<1>2. /\ IsFiniteSet(ReadyAt(t)) /\ Cardinality(ReadyAt(t)) \in Nat
      /\ IsFiniteSet(ReadyAt(s)) /\ Cardinality(ReadyAt(s)) \in Nat
  BY <1>1, ReadyFinite
<1>3. ASSUME NEW i \in ReadyAt(t) PROVE i \in Nat /\ i + 1 \in T
  <2>1. i \in 1..Len(t) /\ t[i].t = "Z"
    BY DEF ReadyAt
  <2>2. i + 1 \in 1..Len(s) /\ s[i + 1].t = "Z" /\ i + 1 # 1
    BY <1>1, <2>1
  <2> QED  BY <2>1, <2>2 DEF ReadyAt
<1>4. ASSUME NEW j \in T PROVE \E i \in ReadyAt(t) : i + 1 = j
  <2>1. j \in 1..Len(s) /\ s[j].t = "Z" /\ j # 1
    BY DEF ReadyAt
  <2>2. j - 1 \in 1..Len(t) /\ (j - 1) + 1 = j
    BY <1>1, <2>1
  <2>3. t[j - 1] = s[j]
    BY <1>1, <2>2
  <2>4. j - 1 \in ReadyAt(t)
    BY <2>1, <2>2, <2>3 DEF ReadyAt
  <2> QED  BY <2>2, <2>4
<1>5. f \in [ReadyAt(t) -> T]
  BY <1>3
<1>6. \A i, j \in ReadyAt(t) : f[i] = f[j] => i = j
  BY <1>3
<1>7. \A j \in T : \E i \in ReadyAt(t) : f[i] = j
  BY <1>4
<1> HIDE DEF f, T
<1>8. f \in Bijection(ReadyAt(t), T)
  BY <1>5, <1>6, <1>7 DEF Bijection, Injection, Surjection, IsInjective
<1>9. Cardinality(T) = Cardinality(ReadyAt(t))
  BY <1>2, <1>8, FS_Bijection DEF ExistsBijection
<1>10. Cardinality(T) = IF 1 \in ReadyAt(s) THEN Cardinality(ReadyAt(s)) - 1
                       ELSE Cardinality(ReadyAt(s))
  BY <1>2, FS_RemoveElement DEF T
<1>11. 1 \in ReadyAt(s) <=> s[1].t = "Z"
  BY <1>1 DEF ReadyAt
<1> QED  BY <1>2, <1>9, <1>10, <1>11 DEF t

(* Reading the first message. *)
LEMMA TailPending ==
    ASSUME NEW s \in Seq(Tagged), NEW x \in Seq(Requests), NEW u \in BOOLEAN,
           NEW b \in Int, NEW l \in Int, Pending(s, x, u, b, l), s # <<>>,
           u /\ Len(s) = 1 => s[1].t = "Z"
    PROVE  Pending(Tail(s), x, u, IF s[1].t = "Z" THEN b + 1 ELSE b, l)
<1> DEFINE t == Tail(s)
           c == IF s[1].t = "Z" THEN b + 1 ELSE b
<1>1. /\ Len(s) \in Nat /\ Len(s) > 0 /\ t \in Seq(Tagged) /\ Len(t) = Len(s) - 1
      /\ \A i \in 1..Len(t) : t[i] = s[i + 1] /\ i + 1 \in 1..Len(s)
      /\ t = <<>> <=> Len(s) = 1
  BY TailFacts
<1>2. Len(x) \in Nat /\ c \in Int
  OBVIOUS
<1>3. Len(s) > 1 => s[2].rq = c
  BY <1>1 DEF Pending
<1>4. Len(s) = 1 /\ u => c = l - Len(x) + 1
  BY <1>1, <1>2 DEF Pending
<1> HIDE DEF t, c
<1>5. t # <<>> => t[1].rq = c
  BY <1>1, <1>3
<1>6. \A i \in 1..Len(t) : t[i].rq <= l
  BY <1>1 DEF Pending
<1>7. \A i \in 1..(Len(t) - 1) :
        t[i + 1].rq = IF t[i].t = "Z" THEN t[i].rq + 1 ELSE t[i].rq
  <2> TAKE i \in 1..(Len(t) - 1)
  <2>1. i \in 1..Len(t) /\ i + 1 \in 1..Len(t) /\ i + 1 \in 1..(Len(s) - 1)
    BY <1>1
  <2>2. t[i] = s[i + 1] /\ t[i + 1] = s[(i + 1) + 1]
    BY <1>1, <2>1
  <2> QED  BY <2>1, <2>2 DEF Pending
<1>8. u => IF t = <<>> THEN c = l - Len(x) + 1 ELSE t[Len(t)].rq = l - Len(x)
  <2>1. t # <<>> => t[Len(t)] = s[Len(s)]
    BY <1>1
  <2> QED  BY <1>1, <1>4, <2>1 DEF Pending
<1>10. u => Tally(t, x) = l - c + 1
  <2> SUFFICES ASSUME u PROVE Tally(t, x) = l - c + 1
    OBVIOUS
  <2>1. Tally(s, x) = l - b + 1 /\ (Len(s) = 1 => s[1].t = "Z")
    BY DEF Pending
  <2>2. /\ Cardinality(ReadyAt(t)) = Cardinality(ReadyAt(s)) - (IF s[1].t = "Z" THEN 1 ELSE 0)
        /\ Cardinality(ReadyAt(s)) \in Nat
    BY ReadyTail, ReadyFinite DEF t
  <2>3. t # <<>> => t[Len(t)] = s[Len(s)]
    BY <1>1
  <2>4. c = IF s[1].t = "Z" THEN b + 1 ELSE b
    BY DEF c
  <2>5. (IF t # <<>> /\ t[Len(t)].t # "Z" THEN 1 ELSE 0)
          = (IF s # <<>> /\ s[Len(s)].t # "Z" THEN 1 ELSE 0)
    BY <1>1, <2>1, <2>3
  <2>6. PICK z \in {0, 1} : /\ z = (IF t # <<>> /\ t[Len(t)].t # "Z" THEN 1 ELSE 0)
                            /\ z = (IF s # <<>> /\ s[Len(s)].t # "Z" THEN 1 ELSE 0)
    BY <2>5
  <2>7. Tally(s, x) = Cardinality(ReadyAt(s)) + Len(x) + z
    BY <2>6 DEF Tally
  <2>8. Tally(t, x) = Cardinality(ReadyAt(t)) + Len(x) + z
    BY <2>6 DEF Tally
  <2> QED  BY <1>2, <2>1, <2>2, <2>4, <2>7, <2>8
<1>9. Pending(t, x, u, c, l)
  BY <1>5, <1>6, <1>7, <1>8, <1>10 DEF Pending
<1> QED  BY <1>9 DEF t, c

(* Reading it keeps the shape; the connection may become used by a         *)
(* ReadyForQuery or a final authentication message. *)
LEMMA TailShape ==
    ASSUME NEW s \in Seq(Tagged), NEW x \in Seq(Requests), NEW u \in BOOLEAN,
           NEW n \in BOOLEAN, NEW m \in BOOLEAN, Shape(s, x, u, n), s # <<>>,
           \/ n => m
           \/ s[1].t = "Z"
           \/ s[1].t = "R" /\ s[1].n = TrustOrFinished
    PROVE  Shape(Tail(s), x, u, m)
<1> DEFINE t == Tail(s)
<1>1. /\ Len(s) \in Nat /\ Len(s) > 0 /\ t \in Seq(Tagged) /\ Len(t) = Len(s) - 1
      /\ \A i \in 1..Len(t) : t[i] = s[i + 1] /\ i + 1 \in 1..Len(s)
      /\ t = <<>> <=> Len(s) = 1
  BY TailFacts
<1> HIDE DEF t
<1>2. t # <<>> => t[Len(t)] = s[Len(s)]
  BY <1>1
<1>3. \A i \in 1..Len(t) : t[i].t = "E" => t[i].n # Ok
  BY <1>1 DEF Shape
<1>4. \A i \in 1..(Len(t) - 1) : t[i].t = "R" => t[i].n = TrustOrFinished
  <2> TAKE i \in 1..(Len(t) - 1)
  <2>1. t[i] = s[i + 1] /\ i + 1 \in 1..(Len(s) - 1)
    BY <1>1
  <2> QED  BY <2>1 DEF Shape
<1>5. ASSUME u, t # <<>>, t[Len(t)].t # "Z"
      PROVE  /\ t[Len(t)].t = "R" /\ m /\ x = <<>>
             /\ \A i \in 1..Len(t) : /\ t[i].t # "Z"
                                     /\ t[i].t = "R" => t[i].n # TrustOrFinished
  <2>1. /\ s[Len(s)].t = "R" /\ n /\ x = <<>>
        /\ \A i \in 1..Len(s) : /\ s[i].t # "Z"
                                /\ s[i].t = "R" => s[i].n # TrustOrFinished
    BY <1>2, <1>5 DEF Shape
  <2>2. 1 \in 1..Len(s)
    BY <1>1
  <2>3. m
    BY <2>1, <2>2
  <2> QED  BY <1>1, <1>2, <1>5, <2>1, <2>3
<1>6. \A j \in 1..Len(x) : x[j].kind \notin {"connect", "password"}
  BY DEF Shape
<1>7. ~u => x = <<>>
  BY DEF Shape
<1>8. Shape(t, x, u, m)
  BY <1>3, <1>4, <1>5, <1>6, <1>7 DEF Shape
<1> QED  BY <1>8 DEF t

(* Sending a request.  On a new connection it is the first one. *)
LEMMA AskPending ==
    ASSUME NEW s \in Seq(Tagged), NEW x \in Seq(Requests), NEW u \in BOOLEAN,
           NEW b \in Int, NEW l \in Int, Pending(s, x, u, b, l), ~u => x = <<>>,
           NEW y \in Seq(Requests), NEW a \in Requests, a.rq = l + 1,
           u => y = Append(x, a), ~u => y = x
    PROVE  Pending(s, y, u, b, l + 1)
<1>3. \A i \in 1..Len(s) : s[i].rq <= l + 1
  <2> TAKE i \in 1..Len(s)
  <2>1. s[i] \in Tagged /\ s[i].rq <= l
    BY DEF Pending
  <2>2. s[i].rq \in Nat
    BY <2>1 DEF Tagged
  <2> QED  BY <2>1, <2>2
<1>1. CASE ~u
  <2>1. y = <<>> /\ Len(y) = 0
    BY <1>1
  <2> QED  BY <1>1, <1>3, <2>1 DEF Pending
<1>2. CASE u
  <2>1. Len(y) = Len(x) + 1 /\ Len(x) \in Nat
    BY <1>2
  <2>2. \A j \in 1..Len(y) : \/ j = Len(y) /\ y[j] = a
                             \/ j \in 1..Len(x) /\ y[j] = x[j]
    BY <1>2, <2>1
  <2>3. ASSUME NEW j \in 1..Len(y) PROVE y[j].rq = (l + 1) - Len(y) + j
    <3>1. CASE j = Len(y) /\ y[j] = a
      <4>1. y[j].rq = l + 1
        BY <3>1
      <4>2. l + 1 = (l + 1) - Len(y) + j
        BY <2>1, <3>1
      <4> QED  BY <4>1, <4>2
    <3>2. CASE j \in 1..Len(x) /\ y[j] = x[j]
      <4>1. x[j].rq = l - Len(x) + j
        BY <3>2 DEF Pending
      <4>2. l - Len(x) + j = (l + 1) - Len(y) + j
        BY <2>1
      <4> QED  BY <3>2, <4>1, <4>2
    <3> QED  BY <2>2, <3>1, <3>2
  <2>4. IF s = <<>> THEN b = (l + 1) - Len(y) + 1 ELSE s[Len(s)].rq = (l + 1) - Len(y)
    BY <1>2, <2>1 DEF Pending
  <2>5. Tally(s, y) = (l + 1) - b + 1
    <3>1. PICK z \in {0, 1} : z = (IF s # <<>> /\ s[Len(s)].t # "Z" THEN 1 ELSE 0)
      OBVIOUS
    <3>2. /\ Tally(s, x) = Cardinality(ReadyAt(s)) + Len(x) + z
          /\ Tally(s, y) = Cardinality(ReadyAt(s)) + Len(y) + z
      BY <3>1 DEF Tally
    <3>3. Tally(s, x) = l - b + 1
      BY <1>2 DEF Pending
    <3>4. PICK c \in Nat : c = Cardinality(ReadyAt(s))
      BY ReadyFinite
    <3>5. c + Len(x) + z = l - b + 1 /\ Tally(s, y) = c + Len(y) + z
      BY <3>2, <3>3, <3>4
    <3> QED  BY <2>1, <3>5
  <2> QED  BY <1>2, <1>3, <2>3, <2>4, <2>5 DEF Pending
<1> QED  BY <1>1, <1>2

LEMMA AskShape ==
    ASSUME NEW s \in Seq(Tagged), NEW x \in Seq(Requests), NEW u \in BOOLEAN,
           NEW n \in BOOLEAN, Shape(s, x, u, n), NEW a,
           IF a.kind \in {"connect", "password"} THEN n /\ s = <<>> /\ x = <<>> ELSE ~n,
           NEW y \in Seq(Requests), u => y = Append(x, a), ~u => y = x
    PROVE  Shape(s, y, u, n)
<1>1. CASE ~u
  BY <1>1 DEF Shape
<1>2. CASE u
  <2>1. Len(y) = Len(x) + 1 /\ Len(x) \in Nat
        /\ \A j \in 1..Len(y) : y[j] = IF j = Len(x) + 1 THEN a ELSE x[j]
    BY <1>2
  <2>4. \A i \in 1..Len(s) : s[i].t = "E" => s[i].n # Ok
    BY DEF Shape
  <2>5. \A i \in 1..(Len(s) - 1) : s[i].t = "R" => s[i].n = TrustOrFinished
    BY DEF Shape
  <2>2. CASE a.kind \in {"connect", "password"}
    <3>1. n /\ s = <<>> /\ Len(y) = 1
      BY <2>1, <2>2
    <3> QED  BY <1>2, <2>4, <2>5, <3>1 DEF Shape
  <2>3. CASE a.kind \notin {"connect", "password"}
    <3>1. \A j \in 1..Len(x) : x[j].kind \notin {"connect", "password"}
      BY <2>3 DEF Shape
    <3>2. \A j \in 1..Len(y) : y[j].kind \notin {"connect", "password"}
      BY <2>1, <2>3, <3>1
    <3>3. s # <<>> => s[Len(s)].t = "Z"
      BY <1>2, <2>3 DEF Shape
    <3> QED  BY <1>2, <2>4, <2>5, <3>2, <3>3 DEF Shape
  <2> QED  BY <2>2, <2>3
<1> QED  BY <1>1, <1>2

(* The end of a stream is lost. *)
LEMMA CutOrder ==
    ASSUME NEW s \in Seq(Tagged), NEW x \in Seq(Requests), NEW u \in BOOLEAN,
           NEW n \in BOOLEAN, NEW b \in Int, NEW l \in Int,
           Pending(s, x, u, b, l), Shape(s, x, u, n), NEW k \in 0..Len(s)
    PROVE  /\ Pending(SubSeq(s, 1, k), <<>>, FALSE, b, l)
           /\ Shape(SubSeq(s, 1, k), <<>>, FALSE, n)
<1> DEFINE t == SubSeq(s, 1, k)
<1>1. /\ Len(t) = k /\ Len(s) \in Nat /\ k \in Nat /\ k <= Len(s) /\ t \in Seq(Tagged)
      /\ \A i \in 1..Len(t) : t[i] = s[i] /\ i \in 1..Len(s)
      /\ \A i \in 1..(Len(t) - 1) : /\ i \in 1..Len(t) /\ i + 1 \in 1..Len(t)
                                     /\ i \in 1..(Len(s) - 1)
      /\ t # <<>> => 1 \in 1..Len(t) /\ s # <<>>
  OBVIOUS
<1> HIDE DEF t
<1>2. Len(<<>>) = 0
  OBVIOUS
<1>3. Pending(t, <<>>, FALSE, b, l)
  <2>1. t # <<>> => t[1].rq = b
    BY <1>1 DEF Pending
  <2>2. ASSUME NEW i \in 1..Len(t) PROVE t[i].rq <= l
    BY <1>1 DEF Pending
  <2>3. ASSUME NEW i \in 1..(Len(t) - 1)
        PROVE  t[i + 1].rq = IF t[i].t = "Z" THEN t[i].rq + 1 ELSE t[i].rq
    <3>1. i \in 1..Len(t) /\ i + 1 \in 1..Len(t) /\ i \in 1..(Len(s) - 1)
      BY <1>1
    <3>2. t[i] = s[i] /\ t[i + 1] = s[i + 1]
      BY <1>1, <3>1
    <3> QED  BY <3>1, <3>2 DEF Pending
  <2> QED  BY <1>2, <2>1, <2>2, <2>3 DEF Pending
<1>4. Shape(t, <<>>, FALSE, n)
  <2>1. ASSUME NEW i \in 1..Len(t) PROVE t[i].t = "E" => t[i].n # Ok
    <3>1. t[i] = s[i] /\ i \in 1..Len(s)
      BY <1>1
    <3> QED  BY <3>1 DEF Shape
  <2>2. ASSUME NEW i \in 1..(Len(t) - 1)
        PROVE  t[i].t = "R" => t[i].n = TrustOrFinished
    <3>1. i \in 1..Len(t) /\ i \in 1..(Len(s) - 1)
      BY <1>1
    <3>2. t[i] = s[i]
      BY <1>1, <3>1
    <3> QED  BY <3>1, <3>2 DEF Shape
  <2> QED  BY <1>2, <2>1, <2>2 DEF Shape
<1> QED  BY <1>3, <1>4 DEF t

(* Sequences one after the other. *)
LEMMA ConcatFacts ==
    ASSUME NEW S, NEW s \in Seq(S), NEW w \in Seq(S), w # <<>>
    PROVE  /\ s \o w \in Seq(S) /\ s \o w # <<>>
           /\ Len(s) \in Nat /\ Len(w) \in Nat /\ Len(w) > 0
           /\ Len(s \o w) = Len(s) + Len(w)
           /\ (s \o w)[Len(s \o w)] = w[Len(w)]
           /\ (s \o w)[1] = IF s = <<>> THEN w[1] ELSE s[1]
           /\ \A i \in 1..Len(s \o w) :
                \/ i \in 1..Len(s) /\ (s \o w)[i] = s[i]
                \/ i - Len(s) \in 1..Len(w) /\ (s \o w)[i] = w[i - Len(s)]
<1>1. Len(s) \in Nat /\ Len(w) \in Nat /\ Len(w) > 0
  OBVIOUS
<1>2. s \o w \in Seq(S) /\ Len(s \o w) = Len(s) + Len(w)
  OBVIOUS
<1>3. s \o w # <<>>
  BY <1>1, <1>2
<1>4. ASSUME NEW i \in 1..Len(s \o w)
      PROVE  \/ i \in 1..Len(s) /\ (s \o w)[i] = s[i]
             \/ i - Len(s) \in 1..Len(w) /\ (s \o w)[i] = w[i - Len(s)]
  BY <1>1, <1>2
<1>5. (s \o w)[Len(s \o w)] = w[Len(w)]
  BY <1>1, <1>2
<1>6. (s \o w)[1] = IF s = <<>> THEN w[1] ELSE s[1]
  BY <1>1, <1>2
<1> QED  BY <1>1, <1>2, <1>3, <1>4, <1>5, <1>6

(* An answer w that has one end at most, at its end. *)
LEMMA ReadyJoin ==
    ASSUME NEW s \in Seq(Tagged), NEW w \in Seq(Tagged), w # <<>>,
           \A i \in 1..(Len(w) - 1) : w[i].t # "Z"
    PROVE  Cardinality(ReadyAt(s \o w)) =
             Cardinality(ReadyAt(s)) + (IF w[Len(w)].t = "Z" THEN 1 ELSE 0)
<1> DEFINE t == s \o w
<1>1. /\ t \in Seq(Tagged) /\ Len(s) \in Nat /\ Len(w) \in Nat /\ Len(w) > 0
      /\ Len(t) = Len(s) + Len(w) /\ t[Len(t)] = w[Len(w)]
      /\ \A i \in 1..Len(t) : \/ i \in 1..Len(s) /\ t[i] = s[i]
                              \/ i - Len(s) \in 1..Len(w) /\ t[i] = w[i - Len(s)]
  BY ConcatFacts
<1>2. \A i \in 1..Len(s) : t[i] = s[i]
  BY <1>1
<1> HIDE DEF t
<1>3. IsFiniteSet(ReadyAt(s)) /\ Cardinality(ReadyAt(s)) \in Nat
  BY ReadyFinite
<1>4. Len(t) \in 1..Len(t) /\ Len(t) \notin ReadyAt(s)
  BY <1>1 DEF ReadyAt
<1>5. \A i \in ReadyAt(s) : i \in ReadyAt(t)
  BY <1>1, <1>2 DEF ReadyAt
<1>6. ASSUME NEW i \in ReadyAt(t), i # Len(t) PROVE i \in ReadyAt(s)
  <2>1. i \in 1..Len(t) /\ t[i].t = "Z"
    BY DEF ReadyAt
  <2>2. CASE i \in 1..Len(s) /\ t[i] = s[i]
    BY <2>1, <2>2 DEF ReadyAt
  <2>3. CASE i - Len(s) \in 1..Len(w) /\ t[i] = w[i - Len(s)]
    <3>1. i - Len(s) \in 1..(Len(w) - 1)
      BY <1>1, <1>6, <2>1, <2>3
    <3> QED  BY <2>1, <2>3, <3>1
  <2> QED  BY <1>1, <2>1, <2>2, <2>3
<1>7. CASE w[Len(w)].t = "Z"
  <2>1. ReadyAt(t) = ReadyAt(s) \cup {Len(t)}
    <3>1. Len(t) \in ReadyAt(t)
      BY <1>1, <1>4, <1>7 DEF ReadyAt
    <3> QED  BY <1>5, <1>6, <3>1
  <2> QED  BY <1>3, <1>4, <1>7, <2>1, FS_AddElement DEF t
<1>8. CASE w[Len(w)].t # "Z"
  <2>1. Len(t) \notin ReadyAt(t)
    BY <1>1, <1>8 DEF ReadyAt
  <2>2. ReadyAt(t) = ReadyAt(s)
    BY <1>5, <1>6, <2>1
  <2> QED  BY <1>3, <1>8, <2>2 DEF t
<1> QED  BY <1>7, <1>8

(* Two messages that follow one another in them. *)
LEMMA ConcatNeighbours ==
    ASSUME NEW S, NEW s \in Seq(S), NEW w \in Seq(S), w # <<>>,
           NEW i \in 1..(Len(s \o w) - 1)
    PROVE  \/ /\ i \in 1..(Len(s) - 1)
              /\ (s \o w)[i] = s[i] /\ (s \o w)[i + 1] = s[i + 1]
           \/ /\ s # <<>> /\ i = Len(s)
              /\ (s \o w)[i] = s[Len(s)] /\ (s \o w)[i + 1] = w[1]
           \/ /\ i - Len(s) \in 1..(Len(w) - 1)
              /\ (s \o w)[i] = w[i - Len(s)] /\ (s \o w)[i + 1] = w[i - Len(s) + 1]
<1>1. Len(s) \in Nat /\ Len(w) \in Nat /\ Len(w) > 0 /\ Len(s \o w) = Len(s) + Len(w)
  OBVIOUS
<1>2. CASE i \in 1..(Len(s) - 1)
  <2>1. i \in 1..Len(s) /\ i + 1 \in 1..Len(s)
    BY <1>1, <1>2
  <2> QED  BY <1>1, <1>2, <2>1
<1>3. CASE s # <<>> /\ i = Len(s)
  BY <1>1, <1>3
<1>4. CASE i - Len(s) \in 1..(Len(w) - 1)
  <2>1. (i + 1) - Len(s) = i - Len(s) + 1
    BY <1>1
  <2> QED  BY <1>1, <1>4, <2>1
<1>5. s = <<>> => Len(s) = 0
  OBVIOUS
<1> QED  BY <1>1, <1>2, <1>3, <1>4, <1>5

-----------------------------------------------------------------------------
(* What WholeAnswers says of one answer. *)
Whole(k, r) ==
    /\ \A i \in 1..Len(r) :
         /\ r[i].t = "E" => r[i].n # Ok
         /\ i < Len(r) => r[i].t # "Z" /\ (r[i].t = "R" => r[i].n = TrustOrFinished)
    /\ r[Len(r)].t = "R" => /\ k \in {"connect", "password"}
                            /\ \A i \in 1..Len(r) : r[i].t = "R" => r[i].n # TrustOrFinished

LEMMA TagFacts ==
    ASSUME NEW r \in Seq(RawMessages), r # <<>>, NEW q \in Nat
    PROVE  /\ Tag(r, q) \in Seq(Tagged) /\ Tag(r, q) # <<>> /\ Len(Tag(r, q)) = Len(r)
           /\ Len(r) \in Nat /\ Len(r) > 0
           /\ \A i \in 1..Len(r) : /\ Tag(r, q)[i].t = r[i].t /\ Tag(r, q)[i].n = r[i].n
                                   /\ Tag(r, q)[i].rq = q
<1>1. Len(r) \in Nat /\ Len(r) > 0
  OBVIOUS
<1>2. ASSUME NEW i \in 1..Len(r)
      PROVE  [t |-> r[i].t, n |-> r[i].n, rq |-> q] \in Tagged
  <2>1. r[i] \in RawMessages
    OBVIOUS
  <2> QED  BY <2>1 DEF Tagged, RawMessages
<1>3. Tag(r, q) \in Seq(Tagged) /\ Len(Tag(r, q)) = Len(r)
  BY <1>1, <1>2 DEF Tag
<1>4. \A i \in 1..Len(r) : Tag(r, q)[i] = [t |-> r[i].t, n |-> r[i].n, rq |-> q]
  BY DEF Tag
<1>5. Tag(r, q) # <<>>
  BY <1>1, <1>3
<1>6. ASSUME NEW i \in 1..Len(r)
      PROVE  /\ Tag(r, q)[i].t = r[i].t /\ Tag(r, q)[i].n = r[i].n
             /\ Tag(r, q)[i].rq = q
  <2> DEFINE m == Tag(r, q)[i]
  <2>1. m = [t |-> r[i].t, n |-> r[i].n, rq |-> q]
    BY <1>4
  <2> HIDE DEF m
  <2>2. m.t = r[i].t /\ m.n = r[i].n /\ m.rq = q
    BY <2>1
  <2> QED  BY <2>2 DEF m
<1> QED  BY <1>1, <1>3, <1>5, <1>6

(* Messages w arrive after the messages s. *)
LEMMA JoinPending ==
    ASSUME NEW s \in Seq(Tagged), NEW w \in Seq(Tagged), w # <<>>,
           NEW x, Len(x) \in Nat, Len(x) > 0, NEW b \in Int, NEW l \in Int,
           Pending(s, x, TRUE, b, l), s # <<>> => s[Len(s)].t = "Z",
           \A i \in 1..Len(w) : w[i].rq = l - Len(x) + 1,
           \A i \in 1..(Len(w) - 1) : w[i].t # "Z",
           NEW y, \A j \in 1..Len(y) : y[j].rq = l - Len(y) + j,
           NEW v \in BOOLEAN, v => Len(y) = Len(x) - 1
    PROVE  Pending(s \o w, y, v, b, l)
<1> DEFINE t == s \o w
<1>1. /\ t \in Seq(Tagged) /\ t # <<>> /\ Len(s) \in Nat /\ Len(t) = Len(s) + Len(w)
      /\ Len(w) \in Nat /\ Len(w) > 0
      /\ t[Len(t)] = w[Len(w)] /\ t[1] = IF s = <<>> THEN w[1] ELSE s[1]
      /\ \A i \in 1..Len(t) : \/ i \in 1..Len(s) /\ t[i] = s[i]
                              \/ i - Len(s) \in 1..Len(w) /\ t[i] = w[i - Len(s)]
  BY ConcatFacts
<1>2. ASSUME NEW i \in 1..(Len(t) - 1)
      PROVE  \/ /\ i \in 1..(Len(s) - 1)
                /\ t[i] = s[i] /\ t[i + 1] = s[i + 1]
             \/ /\ s # <<>> /\ i = Len(s)
                /\ t[i] = s[Len(s)] /\ t[i + 1] = w[1]
             \/ /\ i - Len(s) \in 1..(Len(w) - 1)
                /\ t[i] = w[i - Len(s)] /\ t[i + 1] = w[i - Len(s) + 1]
  BY ConcatNeighbours
<1> HIDE DEF t
<1>3. 1 \in 1..Len(w) /\ Len(w) \in 1..Len(w)
  BY <1>1
<1>4. t[1].rq = b
  <2>1. CASE s = <<>>
    <3>1. t[1].rq = l - Len(x) + 1
      BY <1>1, <1>3, <2>1
    <3> QED  BY <2>1, <3>1 DEF Pending
  <2>2. CASE s # <<>>
    BY <1>1, <2>2 DEF Pending
  <2> QED  BY <2>1, <2>2
<1>5. ASSUME NEW i \in 1..Len(t) PROVE t[i].rq <= l
  <2>1. CASE i \in 1..Len(s) /\ t[i] = s[i]
    BY <2>1 DEF Pending
  <2>2. CASE i - Len(s) \in 1..Len(w) /\ t[i] = w[i - Len(s)]
    <3>1. t[i].rq = l - Len(x) + 1
      BY <2>2
    <3>2. l - Len(x) + 1 <= l
      OBVIOUS
    <3> QED  BY <3>1, <3>2
  <2> QED  BY <1>1, <2>1, <2>2
<1>6. ASSUME NEW i \in 1..(Len(t) - 1)
      PROVE  t[i + 1].rq = IF t[i].t = "Z" THEN t[i].rq + 1 ELSE t[i].rq
  <2>1. CASE i \in 1..(Len(s) - 1) /\ t[i] = s[i] /\ t[i + 1] = s[i + 1]
    BY <2>1 DEF Pending
  <2>2. CASE s # <<>> /\ i = Len(s) /\ t[i] = s[Len(s)] /\ t[i + 1] = w[1]
    <3>1. s[Len(s)].t = "Z"
      BY <2>2
    <3>2. s[Len(s)].rq = l - Len(x)
      BY <2>2 DEF Pending
    <3>3. w[1].rq = l - Len(x) + 1
      BY <1>3
    <3> QED  BY <2>2, <3>1, <3>2, <3>3
  <2>3. CASE /\ i - Len(s) \in 1..(Len(w) - 1)
             /\ t[i] = w[i - Len(s)] /\ t[i + 1] = w[i - Len(s) + 1]
    <3>1. i - Len(s) \in 1..Len(w) /\ i - Len(s) + 1 \in 1..Len(w)
      BY <1>1, <2>3
    <3>2. t[i].rq = l - Len(x) + 1 /\ t[i + 1].rq = l - Len(x) + 1
      BY <2>3, <3>1
    <3> QED  BY <2>3, <3>2
  <2> QED  BY <1>2, <2>1, <2>2, <2>3
<1>7. ASSUME v PROVE t[Len(t)].rq = l - Len(y)
  <2>1. t[Len(t)].rq = l - Len(x) + 1
    BY <1>1, <1>3
  <2>2. Len(y) = Len(x) - 1
    BY <1>7
  <2>3. l - Len(x) + 1 = l - Len(y)
    BY <2>2
  <2> QED  BY <2>1, <2>3
<1>9. ASSUME v PROVE Tally(t, y) = l - b + 1
  <2>1. /\ Cardinality(ReadyAt(t)) = Cardinality(ReadyAt(s)) + (IF w[Len(w)].t = "Z" THEN 1 ELSE 0)
        /\ Cardinality(ReadyAt(s)) \in Nat
    BY ReadyJoin, ReadyFinite DEF t
  <2>2. Tally(s, x) = l - b + 1
    BY DEF Pending
  <2>3. Tally(s, x) = Cardinality(ReadyAt(s)) + Len(x) + 0
    <3>1. (IF s # <<>> /\ s[Len(s)].t # "Z" THEN 1 ELSE 0) = 0
      OBVIOUS
    <3> QED  BY <3>1 DEF Tally
  <2>4. Len(y) = Len(x) - 1
    BY <1>9
  <2>5. PICK z \in {0, 1} : z = (IF w[Len(w)].t = "Z" THEN 1 ELSE 0)
    OBVIOUS
  <2>6. (IF t # <<>> /\ t[Len(t)].t # "Z" THEN 1 ELSE 0) = 1 - z
    BY <1>1, <2>5
  <2>7. Tally(t, y) = Cardinality(ReadyAt(t)) + Len(y) + (1 - z)
    BY <2>6 DEF Tally
  <2>8. Cardinality(ReadyAt(t)) = Cardinality(ReadyAt(s)) + z
    BY <2>1, <2>5
  <2>9. PICK c \in Nat : c = Cardinality(ReadyAt(s))
    BY <2>1
  <2>10. PICK m \in Nat : m = Len(x)
    OBVIOUS
  <2>11. l - b + 1 = c + m + 0
    BY <2>2, <2>3, <2>9, <2>10
  <2>12. Tally(t, y) = (c + z) + (m - 1) + (1 - z)
    BY <2>4, <2>7, <2>8, <2>9, <2>10
  <2>13. (c + z) + (m - 1) + (1 - z) = c + m + 0
    OBVIOUS
  <2> QED  BY <2>11, <2>12, <2>13, Zenon
<1>8. Pending(t, y, v, b, l)
  BY <1>1, <1>4, <1>5, <1>6, <1>7, <1>9 DEF Pending
<1> QED  BY <1>8 DEF t

LEMMA JoinShape ==
    ASSUME NEW s \in Seq(Tagged), NEW w \in Seq(Tagged), w # <<>>,
           NEW x, x # <<>>, NEW n \in BOOLEAN, Shape(s, x, TRUE, n),
           \A i \in 1..Len(w) : w[i].t = "E" => w[i].n # Ok,
           \A i \in 1..(Len(w) - 1) : w[i].t = "R" => w[i].n = TrustOrFinished,
           NEW v \in BOOLEAN, NEW y, ~v => y = <<>>,
           v /\ w[Len(w)].t # "Z"
             => /\ w[Len(w)].t = "R" /\ n /\ s = <<>> /\ y = <<>>
                /\ \A i \in 1..Len(w) : /\ w[i].t # "Z"
                                        /\ w[i].t = "R" => w[i].n # TrustOrFinished,
           \A j \in 1..Len(y) : y[j].kind \notin {"connect", "password"}
    PROVE  Shape(s \o w, y, v, n)
<1> DEFINE t == s \o w
<1>1. /\ Len(s) \in Nat /\ Len(t) = Len(s) + Len(w) /\ Len(w) \in Nat
      /\ t[Len(t)] = w[Len(w)]
      /\ \A i \in 1..Len(t) : \/ i \in 1..Len(s) /\ t[i] = s[i]
                              \/ i - Len(s) \in 1..Len(w) /\ t[i] = w[i - Len(s)]
  BY ConcatFacts
<1>2. ASSUME NEW i \in 1..(Len(t) - 1)
      PROVE  \/ i \in 1..(Len(s) - 1) /\ t[i] = s[i]
             \/ s # <<>> /\ t[i] = s[Len(s)]
             \/ i - Len(s) \in 1..(Len(w) - 1) /\ t[i] = w[i - Len(s)]
  BY ConcatNeighbours
<1> HIDE DEF t
<1>3. ASSUME NEW i \in 1..Len(t) PROVE t[i].t = "E" => t[i].n # Ok
  <2>1. CASE i \in 1..Len(s) /\ t[i] = s[i]
    BY <2>1 DEF Shape
  <2>2. CASE i - Len(s) \in 1..Len(w) /\ t[i] = w[i - Len(s)]
    BY <2>2
  <2> QED  BY <1>1, <2>1, <2>2
<1>4. ASSUME NEW i \in 1..(Len(t) - 1) PROVE t[i].t = "R" => t[i].n = TrustOrFinished
  <2>1. CASE i \in 1..(Len(s) - 1) /\ t[i] = s[i]
    BY <2>1 DEF Shape
  <2>2. CASE s # <<>> /\ t[i] = s[Len(s)]
    BY <2>2 DEF Shape
  <2>3. CASE i - Len(s) \in 1..(Len(w) - 1) /\ t[i] = w[i - Len(s)]
    BY <2>3
  <2> QED  BY <1>2, <2>1, <2>2, <2>3
<1>5. ASSUME v, t[Len(t)].t # "Z"
      PROVE  /\ t[Len(t)].t = "R" /\ n /\ y = <<>>
             /\ \A i \in 1..Len(t) : /\ t[i].t # "Z"
                                     /\ t[i].t = "R" => t[i].n # TrustOrFinished
  <2>1. Len(s) = 0
    BY <1>1, <1>5
  <2>2. ASSUME NEW i \in 1..Len(t)
        PROVE  t[i].t # "Z" /\ (t[i].t = "R" => t[i].n # TrustOrFinished)
    <3>1. i - Len(s) \in 1..Len(w) /\ t[i] = w[i - Len(s)]
      BY <1>1, <2>1
    <3> QED  BY <1>1, <1>5, <3>1
  <2> QED  BY <1>1, <1>5, <2>2
<1>6. Shape(t, y, v, n)
  BY <1>3, <1>4, <1>5 DEF Shape
<1> QED  BY <1>6 DEF t

(* The answer to the request that has waited longest. *)
LEMMA ReplyOrder ==
    ASSUME NEW s \in Seq(Tagged), NEW x \in Seq(Requests), x # <<>>, NEW n \in BOOLEAN,
           NEW b \in Int, NEW l \in Int, Pending(s, x, TRUE, b, l), Shape(s, x, TRUE, n),
           NEW r \in Seq(RawMessages), r # <<>>, Whole(x[1].kind, r),
           NEW v \in BOOLEAN, v => r[Len(r)].t \in {"Z", "R"},
           NEW y \in Seq(Requests), v => y = Tail(x), ~v => y = <<>>
    PROVE  /\ Pending(s \o Tag(r, x[1].rq), y, v, b, l)
           /\ Shape(s \o Tag(r, x[1].rq), y, v, n)
<1> DEFINE w == Tag(r, x[1].rq)
<1>1. Len(x) \in Nat /\ Len(x) > 0 /\ 1 \in 1..Len(x) /\ x[1] \in Requests
  BY TailFacts
<1>2. x[1].rq \in Nat /\ x[1].rq = l - Len(x) + 1
  <2>1. x[1].rq \in Nat
    BY <1>1 DEF Requests
  <2>2. x[1].rq = l - Len(x) + 1
    BY <1>1 DEF Pending
  <2> QED  BY <2>1, <2>2
<1>3. /\ w \in Seq(Tagged) /\ w # <<>> /\ Len(w) = Len(r) /\ Len(r) \in Nat /\ Len(r) > 0
      /\ \A i \in 1..Len(r) : w[i].t = r[i].t /\ w[i].n = r[i].n /\ w[i].rq = x[1].rq
  BY <1>2, TagFacts
<1> HIDE DEF w
<1>4. w \in Seq(Tagged) /\ w # <<>> /\ Len(w) \in 1..Len(w) /\ Len(w) \in 1..Len(r)
  BY <1>3
<1>5. s # <<>> => s[Len(s)].t = "Z"
  BY DEF Shape
<1>6. \A i \in 1..Len(w) : w[i].rq = l - Len(x) + 1
  BY <1>2, <1>3
<1>7. ASSUME NEW i \in 1..(Len(w) - 1)
      PROVE  w[i].t # "Z" /\ (w[i].t = "R" => w[i].n = TrustOrFinished)
  <2>1. i \in 1..Len(r) /\ i < Len(r)
    BY <1>3
  <2> QED  BY <1>3, <2>1 DEF Whole
<1>8. ASSUME v
      PROVE  /\ Len(y) = Len(x) - 1
             /\ \A j \in 1..Len(y) : y[j] = x[j + 1] /\ j + 1 \in 1..Len(x)
  <2>1. y = Tail(x)
    BY <1>8
  <2> QED  BY <2>1, TailFacts
<1>9. ~v => Len(y) = 0
  OBVIOUS
<1>10. ASSUME NEW j \in 1..Len(y)
       PROVE  y[j].rq = l - Len(y) + j /\ y[j].kind \notin {"connect", "password"}
  <2>1. v
    BY <1>9
  <2>2. Len(y) = Len(x) - 1 /\ y[j] = x[j + 1] /\ j + 1 \in 1..Len(x)
    BY <1>8, <2>1
  <2>3. y[j].rq = l - Len(x) + (j + 1)
    BY <2>2 DEF Pending
  <2>4. l - Len(x) + (j + 1) = l - Len(y) + j
    BY <1>1, <2>2
  <2>5. Len(x) # 1
    <3> SUFFICES ASSUME Len(x) = 1 PROVE FALSE
      OBVIOUS
    <3>1. Len(y) = 0
      BY <2>2
    <3> QED  BY <3>1
  <2>6. x[j + 1].kind \notin {"connect", "password"}
    BY <2>2, <2>5 DEF Shape
  <2> QED  BY <2>2, <2>3, <2>4, <2>6
<1>11. Pending(s \o w, y, v, b, l)
  <2>1. \A i \in 1..(Len(w) - 1) : w[i].t # "Z"
    BY <1>7
  <2>2. \A j \in 1..Len(y) : y[j].rq = l - Len(y) + j
    BY <1>10
  <2>3. v => Len(y) = Len(x) - 1
    BY <1>8
  <2>4. Len(x) \in Nat /\ Len(x) > 0
    BY <1>1
  <2> QED  BY <1>4, <1>5, <1>6, <2>1, <2>2, <2>3, <2>4, JoinPending, ZenonT(60)
<1>12. \A i \in 1..Len(w) : w[i].t = "E" => w[i].n # Ok
  BY <1>3 DEF Whole
<1>13. ASSUME v, w[Len(w)].t # "Z"
       PROVE  /\ w[Len(w)].t = "R" /\ n /\ s = <<>> /\ y = <<>>
              /\ \A i \in 1..Len(w) : /\ w[i].t # "Z"
                                      /\ w[i].t = "R" => w[i].n # TrustOrFinished
  <2>6. w[Len(w)].t = r[Len(r)].t
    BY <1>3, <1>4
  <2>7. r[Len(r)].t \in {"Z", "R"}
    BY <1>13
  <2>1. w[Len(w)].t = "R" /\ r[Len(r)].t = "R"
    BY <1>13, <2>6, <2>7
  <2>2. /\ x[1].kind \in {"connect", "password"}
        /\ \A i \in 1..Len(r) : r[i].t = "R" => r[i].n # TrustOrFinished
    BY <2>1 DEF Whole
  <2>3. n /\ s = <<>> /\ Len(x) = 1
    BY <1>1, <2>2 DEF Shape
  <2>4. y = <<>>
    <3>1. y = Tail(x)
      BY <1>13
    <3> QED  BY <2>3, <3>1, TailFacts
  <2>5. ASSUME NEW i \in 1..Len(w)
        PROVE  w[i].t # "Z" /\ (w[i].t = "R" => w[i].n # TrustOrFinished)
    <3>1. i \in 1..(Len(w) - 1) \/ i = Len(w)
      BY <1>3
    <3>2. w[i].t # "Z"
      BY <1>7, <2>1, <3>1
    <3> QED  BY <1>3, <2>2, <3>2
  <2> QED  BY <2>1, <2>3, <2>4, <2>5
<1>14. \A i \in 1..(Len(w) - 1) : w[i].t = "R" => w[i].n = TrustOrFinished
  BY <1>7
<1>15. \A j \in 1..Len(y) : y[j].kind \notin {"connect", "password"}
  BY <1>10
<1>16. Shape(s \o w, y, v, n)
  BY <1>4, <1>12, <1>13, <1>14, <1>15, JoinShape
<1> QED  BY <1>11, <1>16 DEF w

-----------------------------------------------------------------------------
(* The inductive invariant.  First is the request whose answer comes next: *)
(* the current one, or the one `missed' operations before it. *)
First == IF io = "idle" THEN ops - missed + 1 ELSE ops - missed

(* Set and rows come from the answer to request q. *)
From(set, q) ==
    set # NoSet => set.rq = q /\ \A j \in 1..Len(set.rows) : set.rows[j].rq = q

(* What is possible when, and that only execute keeps an error. *)
Phases ==
    /\ First >= 1
    /\ conn = "new" => /\ missed = 0
                       /\ IF io = "idle" THEN ops = 0 /\ stream = <<>> /\ inbox = <<>>
                          ELSE ops = 1 /\ op = "connect"
    /\ io # "idle" /\ op = "connect" => conn = "new"
    /\ conn = "dropped" => io = "idle"
    /\ err >= Ok /\ (err # Ok => op \in {"execute", "oneshot"})

Sources ==
    /\ io # "idle" => /\ From(curr, First)
                      /\ \A i \in 1..Len(result) : From(result[i], First)
    /\ io = "idle" /\ endZ # 0 => /\ endZ = ops - missed
                                  /\ \A i \in 1..Len(result) : From(result[i], endZ)

(* A parser is at work on the first message of the stream. *)
InParser ==
    io # "idle" /\ parsers # "none"
      => /\ stream # <<>> => stream[1].t = parsers
         /\ up => stream # <<>>
         /\ parsers = "R" => op = "connect"

(* What is unread and unanswered is in order from there up to request l,   *)
(* the last one written. *)
Queued(l) ==
    conn # "dropped" \/ missed = 0
      => /\ Pending(stream, inbox, up, First, l)
         /\ Shape(stream, inbox, up, conn = "new")

OrderTo(l) == Phases /\ Sources /\ InParser /\ Queued(l)
OrderInv == OrderTo(ops)

(* What an operation leaves when it has read all it is going to. *)
Rested(l) ==
    /\ conn # "new" /\ ops - missed + 1 >= 1
    /\ err >= Ok /\ (err # Ok => op \in {"execute", "oneshot"})
    /\ endZ # 0 => /\ endZ = ops - missed
                   /\ \A i \in 1..Len(result) : From(result[i], endZ)
    /\ conn # "dropped" \/ missed = 0
         => /\ Pending(stream, inbox, up, ops - missed + 1, l)
            /\ Shape(stream, inbox, up, FALSE)

-----------------------------------------------------------------------------
(* Numbers of requests are integers. *)
LEMMA FirstType ==
    ASSUME TypeOK
    PROVE  First \in Int /\ ops \in Int /\ missed \in Int
BY BoundAssumption DEF TypeOK, First

(* What is left of OrderInv to show when an operation runs on. *)
LEMMA RunsOn ==
    ASSUME NEW l \in Int, OrderTo(l), TypeOK, io # "idle", io' # "idle",
           op' = op, ops' = ops, missed' = missed, conn' = conn,
           err' >= Ok, err' # Ok => op \in {"execute", "oneshot"},
           From(curr', First), \A i \in 1..Len(result') : From(result'[i], First),
           InParser',
           Pending(stream', inbox', up', First, l),
           Shape(stream', inbox', up', conn = "new")
    PROVE  OrderTo(l)'
<1>1. First' = First
  BY DEF First
<1>2. Phases'
  BY <1>1 DEF OrderTo, Phases
<1>3. Sources'
  BY <1>1 DEF Sources, From
<1>4. Queued(l)'
  BY <1>1 DEF Queued
<1> QED  BY <1>2, <1>3, <1>4 DEF OrderTo

(* Between two operations. *)
LEMMA RestedIdle ==
    ASSUME NEW l \in Int, Rested(l)', io' = "idle"
    PROVE  OrderTo(l)'
<1>1. First' = (ops - missed + 1)' /\ (conn # "new")'
  BY DEF First, Rested
<1>2. (conn' = "new") = FALSE
  BY <1>1
<1> QED  BY <1>1, <1>2 DEF OrderTo, Phases, Sources, InParser, Queued, Rested

(* An operation ends without a ReadyForQuery: First stays what it was, and *)
(* the connection is either dropped or goes on with the same answers. *)
LEMMA Missed ==
    ASSUME NEW l \in Int, OrderTo(l), TypeOK, io # "idle", missed' = missed + 1, endZ' = 0,
           op' = op, ops' = ops, err' = err,
           conn' \in {"open", "early", "dropped"},
           conn' # "dropped" => /\ Pending(stream', inbox', up', First, l)
                                /\ Shape(stream', inbox', up', FALSE)
    PROVE  Rested(l)'
<1>1. ops' - missed' + 1 = First
  BY FirstType DEF First
<1>2. missed' # 0
  BY DEF TypeOK
<1> QED  BY <1>1, <1>2 DEF OrderTo, Phases, Rested

(* The first message is for the operation that reads it. *)
LEMMA FirstMessage ==
    ASSUME NEW l \in Int, OrderTo(l), TypeOK, io # "idle", stream # <<>>
    PROVE  /\ Head(stream) = stream[1] /\ stream[1] \in Tagged
           /\ Len(stream) \in Nat /\ Len(stream) > 0 /\ 1 \in 1..Len(stream)
           /\ stream[1].rq = First
           /\ conn # "dropped"
           /\ Pending(stream, inbox, up, First, l)
           /\ Shape(stream, inbox, up, conn = "new")
           /\ parsers # "none" => stream[1].t = parsers
<1>1. conn # "dropped"
  BY DEF OrderTo, Phases
<1>2. Pending(stream, inbox, up, First, l) /\ Shape(stream, inbox, up, conn = "new")
  BY <1>1 DEF OrderTo, Queued
<1>3. stream \in Seq(Tagged)
  BY DEF TypeOK
<1>4. Len(stream) \in Nat /\ Len(stream) > 0 /\ Head(stream) = stream[1]
  BY <1>3, TailFacts
<1>5. 1 \in 1..Len(stream) /\ stream[1] \in Tagged
  BY <1>3, <1>4
<1>6. stream[1].rq = First
  BY <1>2 DEF Pending
<1> QED  BY <1>1, <1>2, <1>4, <1>5, <1>6 DEF OrderTo, InParser

(* Reading a message other than ReadyForQuery and a request for a password. *)
LEMMA ReadOn ==
    ASSUME NEW l \in Int, OrderTo(l), TypeOK, io # "idle", stream # <<>>, stream[1].t # "Z",
           stream[1].t = "R" => stream[1].n = TrustOrFinished
    PROVE  /\ Pending(Tail(stream), inbox, up, First, l)
           /\ Shape(Tail(stream), inbox, up, conn = "new")
           /\ stream[1].t = "R" => Shape(Tail(stream), inbox, up, FALSE)
<1>1. /\ Len(stream) \in Nat /\ Len(stream) > 0 /\ 1 \in 1..Len(stream)
      /\ Pending(stream, inbox, up, First, l)
      /\ Shape(stream, inbox, up, conn = "new")
  BY FirstMessage
<1>2. stream \in Seq(Tagged) /\ inbox \in Seq(Requests) /\ up \in BOOLEAN
  BY DEF TypeOK
<1>3. ~(up /\ Len(stream) = 1)
  BY <1>1 DEF Shape
<1>4. Pending(Tail(stream), inbox, up, First, l)
  BY <1>1, <1>2, <1>3, FirstType, TailPending
<1>5. Shape(Tail(stream), inbox, up, conn = "new")
  BY <1>1, <1>2, TailShape
<1>6. stream[1].t = "R" => Shape(Tail(stream), inbox, up, FALSE)
  BY <1>1, <1>2, TailShape
<1> QED  BY <1>4, <1>5, <1>6

-----------------------------------------------------------------------------
(* A body that was parsed is that of the first message. *)
LEMMA ParsedMessage ==
    ASSUME NEW l \in Int, OrderTo(l), TypeOK,
           NEW e \in {"desc", "row", "push", "auth", "ready", "fail", "keep", "dismiss"},
           Parsed(e)
    PROVE  /\ io # "idle" /\ stream # <<>> /\ parsers # "none"
           /\ stream[1].t = parsers /\ Head(stream) = stream[1]
           /\ stream[1] \in Tagged /\ stream[1].n >= 0 /\ stream[1].rq = First
           /\ stream' = Tail(stream) /\ inbox' = inbox /\ up' = up
           /\ op' = op /\ ops' = ops
           /\ parsers = "R" => op = "connect"
<1>1. io # "idle" /\ stream # <<>>
  BY ParsedType DEF Parsed
<1>2. parsers # "none"
  <2>1. op \in Kinds /\ parsers \in Effects[op][e]
    BY DEF Parsed, TypeOK
  <2>2. Effects[op][e] \subseteq {"T", "D", "C", "R", "Z", "E", "1", "2", "n", "I", "K", "N", "S"}
    BY <2>1, EffectsLemma, EndingsLemma
  <2> QED  BY <2>1, <2>2
<1> QED  BY <1>1, <1>2, FirstMessage DEF Parsed, BodyOK, OrderTo, InParser

-----------------------------------------------------------------------------
(* What a step of the server keeps: what is unread and unanswered stays in *)
(* order, and so does the first message.  Every answer is whole. *)
Kept(s, x, u, t, y, v) ==
    /\ \A b, l \in Int, n \in BOOLEAN :
         Pending(s, x, u, b, l) /\ Shape(s, x, u, n)
           => Pending(t, y, v, b, l) /\ Shape(t, y, v, n)
    /\ s # <<>> /\ t # <<>> => t[1] = s[1]
    /\ v /\ s # <<>> => t # <<>>
    /\ s = <<>> /\ x = <<>> => t = <<>> /\ y = <<>>

LEMMA ReplyKeeps ==
    ASSUME WholeAnswers, TypeOK, Reply
    PROVE  Kept(stream, inbox, up, stream', inbox', up')
<1>1. /\ up /\ inbox # <<>> /\ inbox \in Seq(Requests) /\ stream \in Seq(Tagged)
      /\ inbox[1] = Head(inbox) /\ inbox[1] \in Requests
  <2>1. 1 \in 1..Len(inbox)
    BY TailFacts DEF Reply, TypeOK
  <2> QED  BY <2>1 DEF Reply, TypeOK
<1>2. PICK r \in Replies(inbox[1].kind) :
        /\ stream' = stream \o Tag(r, inbox[1].rq)
        /\ up' = (r[Len(r)].t \in {"Z", "R"})
        /\ inbox' = IF up' THEN Tail(inbox) ELSE <<>>
  BY <1>1 DEF Reply
<1>3. inbox[1].kind \in Kinds \cup {"password"} /\ inbox[1].rq \in Nat
  BY <1>1 DEF Requests
<1>4. r \in Seq(RawMessages) /\ r # <<>> /\ Whole(inbox[1].kind, r)
  BY <1>2, <1>3, ReplyAssumption DEF WholeAnswers, Whole
<1>5. /\ up' \in BOOLEAN /\ (up' => r[Len(r)].t \in {"Z", "R"})
      /\ inbox' \in Seq(Requests) /\ (up' => inbox' = Tail(inbox)) /\ (~up' => inbox' = <<>>)
  <2>1. up' \in BOOLEAN /\ inbox' \in Seq(Requests)
    BY NextTyped DEF Next, TypeOK
  <2>2. up' => r[Len(r)].t \in {"Z", "R"}
    BY <1>2
  <2>3. (up' => inbox' = Tail(inbox)) /\ (~up' => inbox' = <<>>)
    BY <1>2
  <2> QED  BY <2>1, <2>2, <2>3
<1> DEFINE x == inbox
           y == inbox'
           v == up'
           t == stream \o Tag(r, x[1].rq)
<1>6. /\ stream \in Seq(Tagged) /\ x \in Seq(Requests) /\ x # <<>>
      /\ r \in Seq(RawMessages) /\ r # <<>> /\ Whole(x[1].kind, r)
      /\ v \in BOOLEAN /\ (v => r[Len(r)].t \in {"Z", "R"})
      /\ y \in Seq(Requests) /\ (v => y = Tail(x)) /\ (~v => y = <<>>)
  BY <1>1, <1>4, <1>5
<1>7. Tag(r, x[1].rq) \in Seq(Tagged) /\ Tag(r, x[1].rq) # <<>>
  BY <1>3, <1>4, TagFacts
<1>8. (stream # <<>> => t[1] = stream[1]) /\ t # <<>>
  BY <1>6, <1>7, ConcatFacts
<1>9. ASSUME NEW b \in Int, NEW l \in Int, NEW n \in BOOLEAN,
             Pending(stream, x, TRUE, b, l), Shape(stream, x, TRUE, n)
      PROVE  Pending(t, y, v, b, l) /\ Shape(t, y, v, n)
  <2> HIDE DEF x, y, v
  <2>1. /\ Pending(stream \o Tag(r, x[1].rq), y, v, b, l)
        /\ Shape(stream \o Tag(r, x[1].rq), y, v, n)
    BY <1>6, <1>9, ReplyOrder, ZenonT(30)
  <2> QED  BY <2>1
<1>10. up = TRUE /\ stream' = t
  BY <1>1, <1>2 DEF TypeOK
<1> HIDE DEF t
<1>11. Kept(stream, x, TRUE, t, y, v)
  BY <1>6, <1>8, <1>9 DEF Kept
<1> QED  BY <1>10, <1>11

LEMMA DieKeeps ==
    ASSUME TypeOK, Die
    PROVE  Kept(stream, inbox, up, stream', inbox', up')
<1>1. PICK k \in have..Len(stream) : stream' = SubSeq(stream, 1, k)
  BY DEF Die
<1>2. k \in 0..Len(stream) /\ stream \in Seq(Tagged) /\ inbox \in Seq(Requests) /\ up \in BOOLEAN
  BY <1>1 DEF TypeOK
<1>3. inbox' = <<>> /\ up' = FALSE
  BY DEF Die
<1>4. ASSUME NEW b \in Int, NEW l \in Int, NEW n \in BOOLEAN,
             Pending(stream, inbox, up, b, l), Shape(stream, inbox, up, n)
      PROVE  Pending(stream', <<>>, FALSE, b, l) /\ Shape(stream', <<>>, FALSE, n)
  BY <1>1, <1>2, <1>4, CutOrder
<1>5. stream = <<>> => stream' = <<>>
  BY <1>1, <1>2
<1>6. stream # <<>> /\ stream' # <<>> => stream'[1] = stream[1]
  BY <1>1, <1>2
<1> QED  BY <1>3, <1>4, <1>5, <1>6 DEF Kept

LEMMA ServerKeeps ==
    ASSUME WholeAnswers, TypeOK, Reply \/ Die
    PROVE  /\ up /\ UNCHANGED <<opVars, endVars, io>>
           /\ Kept(stream, inbox, up, stream', inbox', up')
BY ReplyKeeps, DieKeeps DEF Reply, Die

LEMMA ServerInOrder ==
    ASSUME WholeAnswers, NEW l \in Int, OrderTo(l), TypeOK, Reply \/ Die
    PROVE  OrderTo(l)'
<1>1. /\ up /\ UNCHANGED <<opVars, endVars, io>>
      /\ Kept(stream, inbox, up, stream', inbox', up')
  BY ServerKeeps
<1>2. First' = First /\ First \in Int
  BY <1>1, FirstType DEF First, opVars, endVars
<1>3. Queued(l)'
  <2>1. conn' = conn /\ missed' = missed /\ (conn = "new") \in BOOLEAN
    BY <1>1 DEF endVars
  <2>2. Pending(stream, inbox, up, First, l) /\ Shape(stream, inbox, up, conn = "new")
        => /\ Pending(stream', inbox', up', First, l)
           /\ Shape(stream', inbox', up', conn = "new")
    BY <1>1, <1>2, <2>1 DEF Kept
  <2> QED  BY <1>2, <2>1, <2>2 DEF OrderTo, Queued
<1>4. Phases'
  BY <1>1, <1>2 DEF OrderTo, Phases, Kept, opVars, endVars
<1>5. Sources'
  BY <1>1, <1>2 DEF OrderTo, Sources, From, opVars, endVars
<1>6. InParser'
  <2>1. io # "idle" /\ parsers # "none"
        => stream # <<>> /\ stream[1].t = parsers /\ (parsers = "R" => op = "connect")
    BY <1>1 DEF OrderTo, InParser
  <2> QED  BY <1>1, <2>1 DEF InParser, Kept, opVars
<1> QED  BY <1>3, <1>4, <1>5, <1>6 DEF OrderTo

LEMMA ServerRested ==
    ASSUME WholeAnswers, NEW l \in Int, Rested(l), TypeOK, Reply \/ Die
    PROVE  Rested(l)'
<1>1. /\ UNCHANGED <<opVars, endVars>>
      /\ Kept(stream, inbox, up, stream', inbox', up')
  BY ServerKeeps
<1>2. ops - missed + 1 \in Int
  BY FirstType
<1>3. Pending(stream, inbox, up, ops - missed + 1, l) /\ Shape(stream, inbox, up, FALSE)
      => /\ Pending(stream', inbox', up', ops - missed + 1, l)
         /\ Shape(stream', inbox', up', FALSE)
  BY <1>1, <1>2 DEF Kept
<1> QED  BY <1>1, <1>3 DEF Rested, From, opVars, endVars

(* A new operation. *)
LEMMA StartInOrder ==
    ASSUME OrderInv, TypeOK, NEW k \in Kinds, Start(k),
           IF k = "connect" THEN conn = "new" ELSE conn \in {"open", "early"}
    PROVE  OrderInv'
<1> DEFINE a == [kind |-> k, rq |-> ops + 1]
<1>1. /\ io = "idle" /\ io' = "sending" /\ op' = k /\ ops' = ops + 1 /\ parsers' = "none"
      /\ err' = Ok /\ curr' = NoSet /\ result' = <<>> /\ conn' = conn /\ missed' = missed
      /\ stream' = stream /\ up' = up
      /\ inbox' = IF up THEN Append(inbox, a) ELSE inbox
  BY DEF Start, Fresh, Request
<1>2. First' = First
  BY <1>1, FirstType DEF First
<1>3. a \in Requests /\ a.rq = ops + 1 /\ a.kind = k
  BY BoundAssumption DEF TypeOK, Requests
<1>4. /\ Pending(stream, inbox, up, First, ops) /\ Shape(stream, inbox, up, conn = "new")
      /\ stream \in Seq(Tagged) /\ inbox \in Seq(Requests) /\ up \in BOOLEAN
      /\ ~up => inbox = <<>>
  <2>1. Pending(stream, inbox, up, First, ops) /\ Shape(stream, inbox, up, conn = "new")
    BY DEF OrderInv, OrderTo, Queued
  <2> QED  BY <2>1 DEF TypeOK, Shape
<1> HIDE DEF a
<1>5. inbox' \in Seq(Requests) /\ (up => inbox' = Append(inbox, a)) /\ (~up => inbox' = inbox)
  BY <1>1, <1>3, <1>4
<1>6. Pending(stream, inbox', up, First, ops + 1)
  BY <1>3, <1>4, <1>5, FirstType, AskPending
<1>7. IF a.kind \in {"connect", "password"} THEN conn = "new" /\ stream = <<>> /\ inbox = <<>>
      ELSE conn # "new"
  <2>1. conn = "new" /\ io = "idle" => stream = <<>> /\ inbox = <<>>
    BY DEF OrderInv, OrderTo, Phases
  <2> QED  BY <1>1, <1>3, <2>1 DEF Kinds
<1>8. Shape(stream, inbox', up, conn = "new")
  <2>1. (conn = "new") \in BOOLEAN
    OBVIOUS
  <2> QED  BY <1>4, <1>5, <1>7, <2>1, AskShape, ZenonT(60)
<1>9. Queued(ops)'
  BY <1>1, <1>2, <1>6, <1>8 DEF Queued
<1>10. Phases'
  BY <1>1, <1>2 DEF OrderInv, OrderTo, Phases, Ok
<1>11. Sources' /\ InParser'
  BY <1>1 DEF Sources, InParser, From
<1> QED  BY <1>9, <1>10, <1>11 DEF OrderInv, OrderTo

(* A handler that gives up without reading a message, or for good. *)
LEMMA GivesUp ==
    ASSUME NEW l \in Int, OrderTo(l), TypeOK, io # "idle", NEW e \in Int, e < Ok,
           NEW lost \in BOOLEAN, Closes(e, 0, lost), op' = op, ops' = ops, err' = err,
           \/ lost \/ op = "connect"
           \/ stream' = stream /\ inbox' = inbox /\ up' = up
    PROVE  Rested(l)'
<1>1. endZ' = 0 /\ missed' = missed + 1
  BY DEF Closes
<1>2. CASE lost \/ op = "connect"
  <2>1. conn' = "dropped"
    BY <1>2 DEF Closes, Ok
  <2> QED  BY <1>1, <2>1, Missed
<1>3. CASE ~lost /\ op # "connect"
  <2>1. conn' = conn /\ conn \in {"open", "early"}
    BY <1>3 DEF Closes, OrderTo, Phases, TypeOK
  <2>2. Pending(stream, inbox, up, First, l) /\ Shape(stream, inbox, up, FALSE)
    BY <2>1 DEF OrderTo, Queued
  <2> QED  BY <1>1, <1>3, <2>1, <2>2, Missed
<1> QED  BY <1>2, <1>3

LEMMA OwnErrorsNegative ==
    /\ Malformed \in Int /\ Unable \in Int /\ Transport \in Int
    /\ Malformed < Ok /\ Unable < Ok /\ Transport < Ok
BY DEF Malformed, Unable, Transport, Ok

(* A handler that neither reads a message nor ends its operation. *)
LEMMA Unread ==
    ASSUME NEW l \in Int, OrderTo(l), TypeOK, io # "idle", io' # "idle",
           op' = op, ops' = ops, err' = err, result' = result, parsers' = parsers, curr' = curr,
           missed' = missed, conn' = conn, stream' = stream, inbox' = inbox, up' = up
    PROVE  OrderTo(l)'
<1>1. First' = First
  BY DEF First
<1> QED  BY <1>1 DEF OrderTo, Phases, Sources, From, InParser, Queued

LEMMA PeekInOrder ==
    ASSUME NEW l \in Int, OrderTo(l), TypeOK, Peek
    PROVE  OrderTo(l)'
<1>1. io # "idle" /\ stream # <<>>
  BY DEF Peek, TypeOK
<1>2. PICK a \in Arcs[op] : /\ a.t = Head(stream).t /\ parsers' = a.t
                            /\ curr' = IF op = "simple" /\ a.t = "T"
                                THEN [cols |-> 0, rq |-> Head(stream).rq, rows |-> <<>>]
                                ELSE IF op = "simple" /\ a.t = "I" THEN NoSet ELSE curr
  BY DEF Peek
<1>3. a.t = "R" => op = "connect"
  BY ArcsLemma DEF TypeOK
<1>4. /\ Head(stream) = stream[1] /\ stream[1].rq = First
      /\ Pending(stream, inbox, up, First, l)
      /\ Shape(stream, inbox, up, conn = "new")
  BY <1>1, FirstMessage
<1>5. /\ io' = io /\ op' = op /\ ops' = ops /\ missed' = missed /\ conn' = conn
      /\ err' = err /\ result' = result /\ stream' = stream /\ inbox' = inbox /\ up' = up
  BY DEF Peek, endVars, netVars
<1>6. From(curr', First)
  <2>1. From(curr, First)
    BY <1>1 DEF OrderTo, Sources
  <2>2. From([cols |-> 0, rq |-> First, rows |-> <<>>], First)
    BY DEF From
  <2>3. From(NoSet, First)
    BY DEF From
  <2> QED  BY <1>2, <1>4, <2>1, <2>2, <2>3
<1>7. InParser'
  BY <1>1, <1>2, <1>3, <1>4, <1>5 DEF InParser
<1>8. \A i \in 1..Len(result) : From(result[i], First)
  BY <1>1 DEF OrderTo, Sources
<1>9. err >= Ok /\ (err # Ok => op \in {"execute", "oneshot"})
  BY DEF OrderTo, Phases
<1> QED  BY <1>1, <1>4, <1>5, <1>6, <1>7, <1>8, <1>9, RunsOn

(* The body of a message that does not end the operation. *)
LEMMA BodyInOrder ==
    ASSUME NEW l \in Int, OrderTo(l), TypeOK,
           NEW e \in {"desc", "row", "push", "keep", "dismiss", "auth"}, Parsed(e),
           Continue, stream[1].t = "R" => stream[1].n = TrustOrFinished,
           err' >= Ok, err' # Ok => op \in {"execute", "oneshot"},
           From(curr', First), \A i \in 1..Len(result') : From(result'[i], First)
    PROVE  OrderTo(l)'
<1>1. /\ io # "idle" /\ stream # <<>> /\ stream[1].t = parsers
      /\ stream' = Tail(stream) /\ inbox' = inbox /\ up' = up /\ op' = op /\ ops' = ops
  BY ParsedMessage
<1>2. parsers' = "none" /\ io' = io /\ missed' = missed /\ conn' = conn
  BY DEF Continue, endVars
<1>3. stream[1].t # "Z"
  <2>1. op \in Kinds /\ parsers \in Effects[op][e]
    BY DEF Parsed, TypeOK
  <2>2. "Z" \notin Effects[op][e]
    BY <2>1, EffectsLemma
  <2> QED  BY <1>1, <2>1, <2>2
<1>4. /\ Pending(Tail(stream), inbox, up, First, l)
      /\ Shape(Tail(stream), inbox, up, conn = "new")
  BY <1>1, <1>3, ReadOn
<1>5. InParser'
  BY <1>2 DEF InParser
<1> QED  BY <1>1, <1>2, <1>4, <1>5, RunsOn

LEMMA DataRowInOrder ==
    ASSUME NEW l \in Int, OrderTo(l), TypeOK, RowsInv, DataRow
    PROVE  OrderTo(l)'
<1> DEFINE row == [n |-> Head(stream).n, rq |-> Head(stream).rq]
<1>1. Parsed("row") /\ Continue /\ err' = err /\ result' = result
      /\ curr' = [curr EXCEPT !.rows = Append(@, row)]
  BY DEF DataRow
<1>2. /\ io # "idle" /\ Head(stream) = stream[1] /\ stream[1].rq = First
      /\ stream[1].t = parsers
  BY <1>1, ParsedMessage
<1>3. parsers = "D"
  BY <1>1, EffectsLemma DEF Parsed, TypeOK
<1>4. curr # NoSet
  BY <1>3 DEF RowsInv, RowsMatchDescription
<1>5. From(curr, First)
  BY <1>2 DEF OrderTo, Sources
<1>6. /\ curr' = [cols |-> curr.cols, rq |-> curr.rq, rows |-> Append(curr.rows, row)]
      /\ curr.rows \in Seq(Rows)
  BY <1>1 DEF TypeOK, ResultSets
<1>7. row.rq = First
  BY <1>2
<1> HIDE DEF row
<1>8. curr'.rq = First /\ curr'.rows = Append(curr.rows, row)
  BY <1>4, <1>5, <1>6 DEF From
<1>9. ASSUME NEW j \in 1..Len(Append(curr.rows, row))
      PROVE  Append(curr.rows, row)[j].rq = First
  <2>1. CASE j = Len(curr.rows) + 1
    BY <1>6, <1>7, <2>1
  <2>2. CASE j # Len(curr.rows) + 1
    <3>1. j \in 1..Len(curr.rows) /\ Append(curr.rows, row)[j] = curr.rows[j]
      BY <1>6, <2>2
    <3> QED  BY <1>4, <1>5, <3>1 DEF From
  <2> QED  BY <2>1, <2>2
<1>10. From(curr', First)
  BY <1>8, <1>9 DEF From
<1>11. \A i \in 1..Len(result) : From(result[i], First)
  BY <1>2 DEF OrderTo, Sources
<1>12. err >= Ok /\ (err # Ok => op \in {"execute", "oneshot"})
  BY DEF OrderTo, Phases
<1> QED  BY <1>1, <1>2, <1>3, <1>10, <1>11, <1>12, BodyInOrder

(* AuthenticationOk: connect goes on, or returns before ReadyForQuery. *)
LEMMA AuthFinalInOrder ==
    ASSUME NEW l \in Int, OrderTo(l), TypeOK, AuthFinal
    PROVE  OrderTo(l)'
<1>1. Parsed("auth") /\ Head(stream).n = TrustOrFinished /\ UNCHANGED <<err, curr, result>>
  BY DEF AuthFinal
<1>2. /\ io # "idle" /\ stream # <<>> /\ stream[1].t = parsers /\ Head(stream) = stream[1]
      /\ stream' = Tail(stream) /\ inbox' = inbox /\ up' = up /\ op' = op /\ ops' = ops
      /\ parsers = "R" => op = "connect"
  BY <1>1, ParsedMessage
<1>3. parsers = "R" /\ op = "connect"
  BY <1>1, <1>2, EffectsLemma DEF Parsed, TypeOK
<1>4. CASE expect = "read_s1"
  <2>1. Complete(Ok, 0, FALSE)
    BY <1>4 DEF AuthFinal
  <2>2. io' = "idle" /\ endZ' = 0 /\ missed' = missed + 1 /\ conn' = "early"
    BY <1>2, <1>3, <2>1 DEF Complete, Closes
  <2>3. /\ Pending(Tail(stream), inbox, up, First, l)
        /\ Shape(Tail(stream), inbox, up, FALSE)
    BY <1>1, <1>2, <1>3, ReadOn
  <2>4. Rested(l)'
    BY <1>1, <1>2, <2>2, <2>3, Missed
  <2> QED  BY <2>2, <2>4, RestedIdle
<1>5. CASE expect # "read_s1"
  <2>1. Continue
    BY <1>5 DEF AuthFinal
  <2>2. /\ err >= Ok /\ (err # Ok => op \in {"execute", "oneshot"})
        /\ From(curr, First) /\ \A i \in 1..Len(result) : From(result[i], First)
    BY <1>2 DEF OrderTo, Phases, Sources
  <2> QED  BY <1>1, <1>2, <2>1, <2>2, BodyInOrder
<1> QED  BY <1>4, <1>5

(* The password is asked for in the last message there is. *)
LEMMA AuthCleartextInOrder ==
    ASSUME NEW l \in Int, l = ops, OrderTo(l), TypeOK, AuthCleartext
    PROVE  OrderTo(l)'
<1> DEFINE a == [kind |-> "password", rq |-> ops]
<1>1. /\ io # "idle" /\ stream # <<>> /\ parsers = "R" /\ Head(stream).n = CleartextPassword
      /\ stream' = Tail(stream) /\ parsers' = "none" /\ io' = "sending" /\ up' = up
      /\ op' = op /\ ops' = ops /\ err' = err /\ curr' = curr /\ result' = result
      /\ conn' = conn /\ missed' = missed
      /\ inbox' = IF up THEN Append(inbox, a) ELSE inbox
  BY DEF AuthCleartext, Request, TypeOK, endVars
<1>2. /\ Head(stream) = stream[1] /\ stream[1].t = "R" /\ stream[1].n # TrustOrFinished
      /\ Len(stream) \in Nat /\ Len(stream) > 0 /\ 1 \in 1..Len(stream)
      /\ Pending(stream, inbox, up, First, l)
      /\ Shape(stream, inbox, up, conn = "new")
  BY <1>1, FirstMessage DEF CleartextPassword, TrustOrFinished
<1>3. op = "connect" /\ conn = "new" /\ ops = 1 /\ missed = 0
  BY <1>1 DEF OrderTo, InParser, Phases
<1>4. Len(stream) = 1
  <2> SUFFICES ASSUME Len(stream) # 1 PROVE FALSE
    OBVIOUS
  <2>2. \A m \in Nat : m > 0 /\ m # 1 => 1 \in 1..(m - 1)
    OBVIOUS
  <2>1. 1 \in 1..(Len(stream) - 1)
    BY <1>2, <2>2
  <2> QED  BY <1>2, <2>1 DEF Shape
<1>5. stream' = <<>> /\ stream \in Seq(Tagged) /\ Len(<<>>) = 0
  <2>1. stream \in Seq(Tagged)
    BY DEF TypeOK
  <2> QED  BY <1>1, <1>4, <2>1, TailFacts
<1>6. inbox = <<>>
  <2>1. stream[Len(stream)].t # "Z"
    BY <1>2, <1>4
  <2> QED  BY <1>1, <1>2, <2>1 DEF Shape
<1>7. inbox' = IF up THEN <<a>> ELSE <<>>
  BY <1>1, <1>6
<1>8. First = 1
  BY <1>1, <1>3 DEF First
<1>9. Pending(<<>>, inbox', up, First, ops)
  <2>1. CASE up
    <3>1. inbox' = <<a>> /\ Len(inbox') = 1 /\ inbox'[1].rq = 1
      BY <1>3, <1>7, <2>1
    <3>3. PICK x : x = inbox'
      OBVIOUS
    <3>4. Len(x) = 1 /\ Cardinality(ReadyAt(<<>>)) = 0
      BY <3>1, <3>3, ReadyNone
    <3>5. Tally(<<>>, x) = 0 + 1 + 0
      BY <3>4 DEF Tally
    <3>2. Tally(<<>>, inbox') = 1
      BY <3>3, <3>5
    <3> QED  BY <1>3, <1>5, <1>8, <3>1, <3>2 DEF Pending
  <2>2. CASE ~up
    <3>1. inbox' = <<>>
      BY <1>7, <2>2
    <3> QED  BY <1>5, <2>2, <3>1 DEF Pending
  <2> QED  BY <2>1, <2>2 DEF TypeOK
<1>10. Shape(<<>>, inbox', up, conn = "new")
  <2>1. Len(inbox') \in {0, 1} /\ (~up => inbox' = <<>>)
    BY <1>7
  <2> QED  BY <1>3, <1>5, <2>1 DEF Shape
<1>11. InParser'
  BY <1>1 DEF InParser
<1>12. /\ err >= Ok /\ (err # Ok => op \in {"execute", "oneshot"})
       /\ From(curr, First) /\ \A i \in 1..Len(result) : From(result[i], First)
  BY <1>1 DEF OrderTo, Phases, Sources
<1> QED  BY <1>1, <1>5, <1>9, <1>10, <1>11, <1>12, RunsOn

(* The end of an answer: the next operation gets the next one. *)
LEMMA ReadyInOrder ==
    ASSUME NEW l \in Int, OrderTo(l), TypeOK, NEW lost \in BOOLEAN,
           Parsed("ready"), Closes(err, Head(stream).rq, lost), err' = err, result' = result
    PROVE  Rested(l)'
<1>1. /\ io # "idle" /\ stream # <<>> /\ stream[1].t = parsers /\ Head(stream) = stream[1]
      /\ stream' = Tail(stream) /\ inbox' = inbox /\ up' = up /\ op' = op /\ ops' = ops
      /\ stream[1].rq = First
  BY ParsedMessage
<1>2. parsers = "Z"
  BY EndingsLemma DEF Parsed, TypeOK
<1>3. First >= 1 /\ First = ops - missed /\ First \in Int
  BY <1>1, FirstType DEF OrderTo, Phases, First
<1>4. endZ' = First /\ missed' = missed
  <2>1. err \in Int /\ ~(err < Ok) /\ ~(op \notin {"execute", "oneshot"} /\ err # Ok)
    BY DEF OrderTo, Phases, TypeOK, Ok
  <2> QED  BY <1>1, <1>3, <2>1 DEF Closes
<1>5. ops' - missed' + 1 = First + 1
  BY <1>1, <1>3, <1>4, FirstType
<1>6. conn' # "new"
  <2>1. op # "connect" => conn # "new"
    BY <1>1 DEF OrderTo, Phases
  <2> QED  BY <2>1 DEF Closes
<1>7. /\ Pending(stream, inbox, up, First, l) /\ Shape(stream, inbox, up, conn = "new")
      /\ stream \in Seq(Tagged) /\ inbox \in Seq(Requests) /\ up \in BOOLEAN
  BY <1>1, FirstMessage DEF TypeOK
<1>8. Pending(Tail(stream), inbox, up, First + 1, l)
  BY <1>1, <1>2, <1>7, FirstType, TailPending
<1>9. Shape(Tail(stream), inbox, up, FALSE)
  <2>1. (conn = "new") \in BOOLEAN /\ FALSE \in BOOLEAN /\ stream[1].t = "Z"
    BY <1>1, <1>2
  <2> QED  BY <1>1, <1>7, <2>1, TailShape, Zenon
<1>10. /\ err >= Ok /\ (err # Ok => op \in {"execute", "oneshot"})
       /\ \A i \in 1..Len(result) : From(result[i], First)
  BY <1>1 DEF OrderTo, Phases, Sources
<1>11. endZ' # 0 => /\ endZ' = ops' - missed'
                   /\ \A i \in 1..Len(result') : From(result'[i], endZ')
  BY <1>1, <1>3, <1>4, <1>10
<1>12. First + 1 >= 1
  BY <1>3
<1> QED  BY <1>1, <1>5, <1>6, <1>8, <1>9, <1>10, <1>11, <1>12 DEF Rested

(* Every body that is parsed. *)
LEMMA BodiesInOrder ==
    ASSUME NEW l \in Int, OrderTo(l), TypeOK, RowsInv, Body, op = "connect" => l = ops
    PROVE  OrderTo(l)'
<1>1. /\ err >= Ok /\ (err # Ok => op \in {"execute", "oneshot"})
      /\ io # "idle" => /\ From(curr, First)
                        /\ \A i \in 1..Len(result) : From(result[i], First)
  BY DEF OrderTo, Phases, Sources
<1>2. op \in Kinds
  BY DEF TypeOK
<1>3. CASE Dismissed
  <2>1. Parsed("dismiss") /\ Continue /\ UNCHANGED <<err, curr, result>>
    BY <1>3 DEF Dismissed
  <2>2. io # "idle" /\ stream[1].t = parsers
    BY <2>1, ParsedMessage
  <2>3. parsers # "R"
    BY <1>2, <2>1, EffectsLemma DEF Parsed
  <2> QED  BY <1>1, <2>1, <2>2, <2>3, BodyInOrder
<1>4. CASE RowDescription
  <2>1. /\ Parsed("desc") /\ Continue /\ UNCHANGED <<err, result>>
        /\ curr' = [cols |-> Head(stream).n, rq |-> Head(stream).rq, rows |-> <<>>]
    BY <1>4 DEF RowDescription
  <2>2. io # "idle" /\ stream[1].t = parsers /\ Head(stream) = stream[1] /\ stream[1].rq = First
    BY <2>1, ParsedMessage
  <2>3. parsers # "R"
    BY <1>2, <2>1, EffectsLemma DEF Parsed
  <2>4. From(curr', First)
    BY <2>1, <2>2 DEF From
  <2> QED  BY <1>1, <2>1, <2>2, <2>3, <2>4, BodyInOrder
<1>5. CASE DataRow
  BY <1>5, DataRowInOrder
<1>6. CASE CommandComplete
  <2>1. /\ Parsed("push") /\ Continue /\ UNCHANGED err
        /\ result' = Append(result, curr) /\ curr' = NoSet
    BY <1>6 DEF CommandComplete
  <2>2. io # "idle" /\ stream[1].t = parsers
    BY <2>1, ParsedMessage
  <2>3. parsers # "R"
    BY <1>2, <2>1, EffectsLemma DEF Parsed
  <2>4. result \in Seq(ResultSets) /\ curr \in ResultSets
    BY DEF TypeOK
  <2>5. ASSUME NEW i \in 1..Len(Append(result, curr))
        PROVE  From(Append(result, curr)[i], First)
    <3>1. CASE i = Len(result) + 1
      BY <1>1, <2>2, <2>4, <3>1
    <3>2. CASE i # Len(result) + 1
      <4>1. i \in 1..Len(result) /\ Append(result, curr)[i] = result[i]
        BY <2>4, <3>2
      <4> QED  BY <1>1, <2>2, <4>1
    <3> QED  BY <3>1, <3>2
  <2>6. From(curr', First)
    BY <2>1 DEF From
  <2> QED  BY <1>1, <2>1, <2>2, <2>3, <2>5, <2>6, BodyInOrder
<1>7. CASE ErrorKept
  <2>1. Parsed("keep") /\ Continue /\ err' = Head(stream).n /\ UNCHANGED <<curr, result>>
    BY <1>7 DEF ErrorKept
  <2>2. /\ io # "idle" /\ stream[1].t = parsers /\ Head(stream) = stream[1]
        /\ stream[1].n >= 0
    BY <2>1, ParsedMessage
  <2>3. parsers # "R" /\ op \in {"execute", "oneshot"}
    BY <1>2, <2>1, EffectsLemma, EndingsLemma DEF Parsed
  <2>4. err' >= Ok
    BY <2>1, <2>2 DEF Ok
  <2> QED  BY <1>1, <2>1, <2>2, <2>3, <2>4, BodyInOrder
<1>8. CASE ErrorReported
  <2>1. Parsed("fail") /\ Complete(Head(stream).n, 0, FALSE) /\ err' = err
    BY <1>8 DEF ErrorReported
  <2>2. /\ io # "idle" /\ stream # <<>> /\ stream[1].t = parsers /\ Head(stream) = stream[1]
        /\ stream' = Tail(stream) /\ inbox' = inbox /\ up' = up /\ op' = op /\ ops' = ops
    BY <2>1, ParsedMessage
  <2>3. parsers = "E" /\ op \notin {"execute", "oneshot"}
    BY <1>2, <2>1, EffectsLemma, EndingsLemma DEF Parsed
  <2>4. stream[1].n # Ok
    BY <2>2, <2>3, FirstMessage DEF Shape
  <2>5. io' = "idle" /\ endZ' = 0 /\ missed' = missed + 1
    BY <2>1, <2>2, <2>3, <2>4 DEF Complete, Closes
  <2>6. /\ Pending(Tail(stream), inbox, up, First, l)
        /\ Shape(Tail(stream), inbox, up, conn = "new")
    BY <2>2, <2>3, ReadOn
  <2>7. CASE op = "connect"
    <3>1. conn' = "dropped"
      BY <2>1, <2>2, <2>4, <2>7 DEF Complete, Closes
    <3>2. Rested(l)'
      BY <2>1, <2>2, <2>5, <3>1, Missed
    <3> QED  BY <2>5, <3>2, RestedIdle
  <2>8. CASE op # "connect"
    <3>1. conn' = conn /\ conn \in {"open", "early"}
      BY <2>1, <2>2, <2>8 DEF Complete, Closes, OrderTo, Phases, TypeOK
    <3>2. Shape(Tail(stream), inbox, up, FALSE)
      BY <2>6, <3>1
    <3>3. Rested(l)'
      BY <2>1, <2>2, <2>5, <2>6, <3>1, <3>2, Missed
    <3> QED  BY <2>5, <3>3, RestedIdle
  <2> QED  BY <2>7, <2>8
<1>9. CASE AuthRefused
  <2>1. Parsed("auth") /\ err' = err
    BY <1>9 DEF AuthRefused
  <2>2. io # "idle" /\ op' = op /\ ops' = ops /\ (parsers = "R" => op = "connect")
    BY <2>1, ParsedMessage
  <2>3. parsers = "R"
    BY <1>2, <2>1, EffectsLemma DEF Parsed
  <2>4. Complete(Unable, 0, FALSE) \/ Complete(Malformed, 0, FALSE)
    BY <1>9 DEF AuthRefused
  <2>5. io' = "idle" /\ (Closes(Unable, 0, FALSE) \/ Closes(Malformed, 0, FALSE))
    BY <2>4 DEF Complete
  <2>6. Rested(l)'
    BY <2>1, <2>2, <2>3, <2>5, OwnErrorsNegative, GivesUp
  <2> QED  BY <2>5, <2>6, RestedIdle
<1>10. CASE AuthFinal
  BY <1>10, AuthFinalInOrder
<1>11. CASE AuthCleartext
  <2>1. io # "idle" /\ parsers = "R" /\ op = "connect"
    BY <1>11 DEF AuthCleartext, OrderTo, InParser
  <2> QED  BY <1>11, <2>1, AuthCleartextInOrder
<1>12. CASE ReadyForQuery
  <2>1. /\ Parsed("ready") /\ Closes(err, Head(stream).rq, FALSE)
        /\ io' = "idle" /\ err' = err /\ result' = result
    BY <1>12 DEF ReadyForQuery, Complete
  <2> QED  BY <2>1, ReadyInOrder, RestedIdle
<1> QED  BY <1>3, <1>4, <1>5, <1>6, <1>7, <1>8, <1>9, <1>10, <1>11, <1>12 DEF Body

-----------------------------------------------------------------------------
LEMMA OrderInit == Init => OrderInv
<1> SUFFICES ASSUME Init PROVE OrderInv
  OBVIOUS
<1>1. First = 1 /\ Len(<<>>) = 0
  BY DEF Init, First
<1>2. Phases
  BY <1>1 DEF Init, Phases, Ok
<1>3. Sources /\ InParser
  BY DEF Init, Sources, InParser
<1>4. Pending(<<>>, <<>>, TRUE, 1, 0) /\ Shape(<<>>, <<>>, TRUE, TRUE)
  <2>1. Tally(<<>>, <<>>) = 0
    BY <1>1, ReadyNone DEF Tally
  <2> QED  BY <1>1, <2>1 DEF Pending, Shape
<1>5. Queued(ops)
  BY <1>1, <1>4 DEF Init, Queued
<1> QED  BY <1>2, <1>3, <1>5 DEF OrderInv, OrderTo

LEMMA OrderNext ==
    ASSUME WholeAnswers
    PROVE  OrderInv /\ TypeOK /\ RowsInv /\ [Next]_vars => OrderInv'
<1> SUFFICES ASSUME OrderInv, TypeOK, RowsInv, [Next]_vars PROVE OrderInv'
  OBVIOUS
<1>0. CASE AsyncConnect \/ AsyncSimpleQuery \/ AsyncParse \/ AsyncExecute
  BY <1>0, StartInOrder DEF AsyncConnect, AsyncSimpleQuery, AsyncParse, AsyncExecute, Kinds
<1>1. PICK l \in Int : l = ops
  BY FirstType
<1>2. OrderTo(l)
  BY <1>1 DEF OrderInv
<1>3. ops' = ops /\ OrderTo(l)' => OrderInv'
  BY <1>1 DEF OrderInv
<1>4. CASE SendDone \/ NeedMore \/ ReadDone
  BY <1>2, <1>3, <1>4, Unread
     DEF SendDone, NeedMore, OutOfInput, ReadDone, opVars, endVars, netVars
<1>5. CASE SendFail \/ ReadFail \/ BodyMalformed
  <2>1. /\ io # "idle" /\ UNCHANGED opVars
        /\ Complete(Transport, 0, TRUE) \/ Complete(Malformed, 0, TRUE)
    BY <1>5 DEF SendFail, ReadFail, BodyMalformed, Refused
  <2>2. io' = "idle" /\ (Closes(Transport, 0, TRUE) \/ Closes(Malformed, 0, TRUE))
    BY <2>1 DEF Complete
  <2>3. Rested(l)'
    BY <1>2, <2>1, <2>2, OwnErrorsNegative, GivesUp DEF opVars
  <2> QED  BY <1>3, <2>1, <2>2, <2>3, RestedIdle DEF opVars
<1>6. CASE PeekMalformed
  <2>1. /\ io # "idle" /\ UNCHANGED <<opVars, netVars>>
        /\ io' = "idle" /\ Closes(Malformed, 0, FALSE)
    BY <1>6 DEF PeekMalformed, NotExpected, Complete
  <2>2. Rested(l)'
    BY <1>2, <2>1, OwnErrorsNegative, GivesUp DEF opVars, netVars
  <2> QED  BY <1>3, <2>1, <2>2, RestedIdle DEF opVars
<1>7. CASE Peek
  BY <1>2, <1>3, <1>7, PeekInOrder DEF Peek
<1>8. CASE Body
  <2>1. OrderTo(l)'
    BY <1>1, <1>2, <1>8, BodiesInOrder
  <2>2. ops' = ops
    BY <1>8 DEF Body, Dismissed, RowDescription, DataRow, CommandComplete, ErrorKept,
           ErrorReported, ReadyForQuery, AuthFinal, AuthCleartext, AuthRefused, Parsed
  <2> QED  BY <1>3, <2>1, <2>2
<1>9. CASE Reply \/ Die
  BY <1>2, <1>3, <1>9, ServerInOrder, ServerKeeps DEF opVars
<1>10. CASE UNCHANGED vars
  <2>1. UNCHANGED <<opVars, endVars, netVars, io>> /\ First' = First
    BY <1>10 DEF vars, First, opVars, endVars
  <2> QED  BY <2>1 DEF OrderInv, OrderTo, Phases, Sources, From, InParser, Queued,
                       opVars, endVars, netVars
<1> QED
  BY <1>0, <1>4, <1>5, <1>6, <1>7, <1>8, <1>9, <1>10 DEF Next, Client

LEMMA OrderAlways ==
    ASSUME WholeAnswers
    PROVE  Spec => []OrderInv
<1>1. RowsInv /\ TypeOK /\ OrderInv /\ [Next]_vars => OrderInv'
  BY OrderNext
<1> QED  BY <1>1, OrderInit, RowsInit, RowsNext, TypeCorrect, PTL DEF Spec

(* An idle connection on which no operation left an answer unread. *)
LEMMA NothingOwed ==
    ASSUME TypeOK, OrderInv, missed = 0, io = "idle"
    PROVE  stream = <<>> /\ inbox = <<>>
<1>1. First = ops + 1 /\ ops \in Int
  BY FirstType DEF First
<1>2. /\ Pending(stream, inbox, up, ops + 1, ops) /\ Shape(stream, inbox, up, conn = "new")
      /\ stream \in Seq(Tagged) /\ inbox \in Seq(Requests) /\ up \in BOOLEAN
  BY <1>1 DEF OrderInv, OrderTo, Queued, TypeOK
<1>3. stream = <<>>
  <2> SUFFICES ASSUME stream # <<>> PROVE FALSE
    OBVIOUS
  <2>1. 1 \in 1..Len(stream)
    BY <1>2, TailFacts
  <2>2. stream[1].rq = ops + 1 /\ stream[1].rq <= ops
    BY <1>2, <2>1 DEF Pending
  <2> QED  BY <1>1, <2>2
<1>4. inbox = <<>>
  <2>1. CASE up
    <3>1. ops + 1 = ops - Len(inbox) + 1 /\ Len(inbox) \in Nat
      BY <1>2, <1>3, <2>1 DEF Pending
    <3>2. Len(inbox) = 0
      BY <1>1, <3>1
    <3> QED  BY <1>2, <3>2
  <2>2. CASE ~up
    BY <1>2, <2>2 DEF Shape
  <2> QED  BY <1>2, <2>1, <2>2
<1> QED  BY <1>3, <1>4

(* An idle connection owes as many answers as its operations left. *)
LEMMA OrderLag == TypeOK /\ OrderInv => LagAccount
<1> SUFFICES ASSUME TypeOK, OrderInv, io = "idle", up, conn \in {"open", "early"}
             PROVE  Owed = missed
  BY DEF LagAccount
<1>1. First = ops - missed + 1 /\ ops \in Int /\ missed \in Int
  BY FirstType DEF First
<1>2. /\ Pending(stream, inbox, up, First, ops) /\ Shape(stream, inbox, up, conn = "new")
      /\ stream \in Seq(Tagged)
  BY DEF OrderInv, OrderTo, Queued, TypeOK
<1>3. Tally(stream, inbox) = missed
  BY <1>1, <1>2 DEF Pending
<1>4. ~(stream # <<>> /\ stream[Len(stream)].t # "Z")
  BY <1>2 DEF Shape
<1>5. Tally(stream, inbox) = Cardinality(ReadyAt(stream)) + Len(inbox) + 0
  BY <1>4 DEF Tally
<1>6. Cardinality(ReadyAt(stream)) \in Nat /\ Len(inbox) \in Nat
  BY <1>2, ReadyFinite DEF TypeOK
<1> QED  BY <1>3, <1>5, <1>6 DEF ReadyAt, Owed

(* The application is told of an answer left unread, and if connect left   *)
(* it, the connection is no longer taken for open or new.                  *)
Unheard == ~told /\ conn \in {"new", "open"}

LEMMA HeardOf ==
    ASSUME NEW l \in Int, OrderTo(l), TypeOK, Client \/ SendFail \/ ReadFail, Unheard'
    PROVE  Unheard /\ missed' = missed
<1>1. ASSUME NEW e \in Int, e < Ok, NEW lost \in BOOLEAN, Complete(e, 0, lost)
      PROVE  FALSE
  BY <1>1 DEF Complete, Tells, Unheard
<1>2. CASE UNCHANGED endVars
  BY <1>2 DEF endVars, Unheard
<1>3. CASE SendFail \/ ReadFail \/ BodyMalformed \/ PeekMalformed
  BY <1>1, <1>3, OwnErrorsNegative DEF SendFail, ReadFail, BodyMalformed, PeekMalformed
<1>4. CASE AuthRefused
  BY <1>1, <1>4, OwnErrorsNegative DEF AuthRefused
<1>5. CASE ErrorReported
  <2>1. Parsed("fail") /\ Complete(Head(stream).n, 0, FALSE)
    BY <1>5 DEF ErrorReported
  <2>2. io # "idle" /\ stream # <<>> /\ stream[1].t = parsers /\ Head(stream) = stream[1]
    BY <2>1, ParsedMessage
  <2>3. parsers = "E" /\ op \notin {"execute", "oneshot"}
    BY <2>1, EffectsLemma, EndingsLemma DEF Parsed, TypeOK
  <2>4. stream[1].n # Ok
    BY <2>2, <2>3, FirstMessage DEF Shape
  <2> QED  BY <2>1, <2>2, <2>3, <2>4 DEF Complete, Tells, Unheard
<1>6. CASE AuthFinal
  <2>1. Parsed("auth")
    BY <1>6 DEF AuthFinal
  <2>2. op = "connect"
    BY <2>1, ParsedMessage, EffectsLemma DEF Parsed, TypeOK
  <2> QED  BY <1>6, <1>2, <2>2 DEF AuthFinal, Continue, Complete, Closes, Unheard
<1>7. CASE ReadyForQuery
  <2>1. Parsed("ready") /\ Complete(err, Head(stream).rq, FALSE)
    BY <1>7 DEF ReadyForQuery
  <2>2. /\ io # "idle" /\ Head(stream) = stream[1] /\ stream[1].rq = First
        /\ First # 0 /\ (op = "connect" => conn = "new")
    BY <2>1, ParsedMessage, FirstType DEF OrderTo, Phases
  <2>3. /\ missed' = missed /\ (told' = FALSE => ~told)
        /\ conn' = IF op = "connect" THEN IF err # Ok THEN "dropped" ELSE "open" ELSE conn
    BY <2>1, <2>2 DEF Complete, Closes, TypeOK
  <2> QED  BY <2>2, <2>3 DEF Unheard
<1> QED
  BY <1>2, <1>3, <1>4, <1>5, <1>6, <1>7
  DEF Client, Body, SendDone, Peek, NeedMore, OutOfInput, Dismissed, RowDescription, DataRow,
      CommandComplete, ErrorKept, AuthCleartext, Continue

(* InSync is inductive only together with what told and conn say of        *)
(* missed. *)
HeardInv == Unheard => missed = 0

LEMMA HeardNext ==
    ASSUME OrderInv, TypeOK, HeardInv, [Next]_vars
    PROVE  HeardInv'
<1>1. CASE Client \/ SendFail \/ ReadFail
  <2>1. PICK l \in Int : OrderTo(l)
    BY FirstType DEF OrderInv
  <2> QED  BY <1>1, <2>1, HeardOf DEF HeardInv
<1>2. CASE UNCHANGED <<conn, missed, told>>
  BY <1>2 DEF HeardInv, Unheard
<1> QED
  BY <1>1, <1>2 DEF Next, AsyncConnect, AsyncSimpleQuery, AsyncParse, AsyncExecute, Start, Fresh,
                    ReadDone, Reply, Die, endVars, vars

LEMMA HeardAlways ==
    ASSUME WholeAnswers
    PROVE  Spec => []HeardInv
<1>1. Init => HeardInv
  BY DEF Init, HeardInv
<1>2. OrderInv /\ TypeOK /\ HeardInv /\ [Next]_vars => HeardInv'
  BY HeardNext
<1> QED  BY <1>1, <1>2, OrderAlways, TypeCorrect, PTL DEF Spec

LEMMA OrderAnswers == OrderInv => AnswersInOrder
BY DEF OrderInv, OrderTo, Sources, From, AnswersInOrder

(* When the server answers whole, an operation that ends on ReadyForQuery  *)
(* reports the answer of the request issued `missed' operations before it  *)
(* and nothing of any other, for any number of operations. *)
THEOREM AnswersAlwaysInOrder ==
    ASSUME WholeAnswers
    PROVE  Spec => []AnswersInOrder
BY OrderAnswers, OrderAlways, PTL

(* When the server answers whole, connect waited for ReadyForQuery and no  *)
(* operation reported an error that tells of an unread answer, nothing is  *)
(* left between operations: the next one starts in sync. *)
THEOREM AlwaysInSync ==
    ASSUME WholeAnswers
    PROVE  Spec => []InSync
<1>1. TypeOK /\ OrderInv /\ HeardInv => InSync
  BY NothingOwed DEF HeardInv, Unheard, InSync
<1> QED  BY <1>1, HeardAlways, OrderAlways, TypeCorrect, PTL

(* When the server answers whole, a connection whose operations returned   *)
(* before a ReadyForQuery has exactly that many answers still to read,     *)
(* between any two operations, as long as the server is there.             *)
THEOREM LagAlwaysAccounted ==
    ASSUME WholeAnswers
    PROVE  Spec => []LagAccount
BY OrderLag, OrderAlways, TypeCorrect, PTL
=============================================================================
