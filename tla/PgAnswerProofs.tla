--------------------------- MODULE PgAnswerProofs ---------------------------
(***************************************************************************)
(* Theorems about PgOneshot: what PgSessionProofs shows of four operations *)
(* stays true when oneshot executions, whose write and reader are in       *)
(* flight together, run on the same connection.  Then, with and without    *)
(* them: what an operation that started in sync delivers is what its own   *)
(* answer says, for every bound and every server that answers whole and    *)
(* with one error at most; and what an early connect leaves behind stops   *)
(* every operation after it.                                               *)
(***************************************************************************)
EXTENDS PgOneshot, PgSessionProofs, PgMixed

-----------------------------------------------------------------------------
(* A step of another operation, and a step of a oneshot execution that     *)
(* ends neither of its handlers: PgSession takes both. *)
OtherStep == /\ op # "oneshot" /\ io # "idle"
             /\ Client \/ ReadDone \/ ReadFail \/ SendFail
             /\ UNCHANGED writerVars
TurnStep == /\ op = "oneshot"
            /\ \/ Peek \/ Dismissed \/ RowDescription \/ DataRow \/ CommandComplete
               \/ ErrorKept \/ ReadDone
               \/ NeedMore /\ writer # "unstarted"
            /\ UNCHANGED writerVars

(* The read that starts the write, the end of the reader, the end of the   *)
(* write. *)
StartsWrite == /\ op = "oneshot" /\ OutOfInput /\ writer = "unstarted"
               /\ writer' = "writing" /\ Request("oneshot", ops)
               /\ UNCHANGED <<late, unseen>>
ReaderStep == AnswerEnds \/ Malforms \/ OneshotReadFail
WriterStep == WriteDone \/ WriteFail

LEMMA BusySteps == Client \/ ReadDone \/ ReadFail \/ SendFail => io # "idle"
BY DEF Client, SendDone, Peek, PeekMalformed, NotExpected, NeedMore, OutOfInput, Body,
       Dismissed, RowDescription, DataRow, CommandComplete, ErrorKept, ErrorReported,
       ReadyForQuery, AuthFinal, AuthCleartext, AuthRefused, Parsed, BodyMalformed, Refused,
       ReadDone, ReadFail, SendFail

LEMMA MixedSteps ==
    ASSUME [MixedNext]_mixedVars
    PROVE  \/ OtherStarts \/ OtherStep \/ TurnStep \/ ServerMoves
           \/ AsyncExecuteOneshot \/ StartsWrite
           \/ ReaderStep \/ WriterStep
           \/ UNCHANGED mixedVars
<1>1. CASE Turn
  BY <1>1 DEF Turn, TurnStep
<1>2. CASE DoRead
  <2>1. CASE writer = "unstarted"
    BY <1>2, <2>1 DEF DoRead, StartsWrite
  <2>2. CASE writer # "unstarted"
    BY <1>2, <2>2 DEF DoRead, NeedMore, TurnStep, writerVars
  <2> QED  BY <2>1, <2>2
<1>3. CASE OtherClient \/ OtherReadDone \/ OtherReadFail \/ OtherSendFail
  BY <1>3, BusySteps DEF OtherClient, OtherReadDone, OtherReadFail, OtherSendFail,
                         Others, OtherStep
<1>4. CASE OneshotReadDone
  BY <1>4 DEF OneshotReadDone, TurnStep
<1> QED
  BY <1>1, <1>2, <1>3, <1>4 DEF MixedNext, Handlers, ReaderStep, WriterStep

LEMMA SessionSteps ==
    OtherStarts \/ OtherStep \/ TurnStep \/ ServerMoves => [Next]_vars
BY DEF OtherStarts, OtherStep, TurnStep, ServerMoves, Next, Client, Body

(* What they leave alone. *)
LEMMA BusyFacts ==
    ASSUME Client \/ ReadDone \/ ReadFail \/ SendFail
    PROVE  op' = op /\ ops' = ops
<1>1. CASE Body
  BY <1>1 DEF Body, Dismissed, RowDescription, DataRow, CommandComplete,
              ErrorKept, ErrorReported, ReadyForQuery, AuthFinal, AuthCleartext, AuthRefused,
              Parsed
<1>2. CASE SendDone \/ Peek \/ PeekMalformed \/ NeedMore \/ BodyMalformed
           \/ ReadDone \/ ReadFail \/ SendFail
  BY <1>2 DEF SendDone, Peek, PeekMalformed, NeedMore, OutOfInput, BodyMalformed,
              ReadDone, ReadFail, SendFail, opVars
<1> QED  BY <1>1, <1>2 DEF Client

LEMMA OtherFacts ==
    ASSUME OtherStep
    PROVE  op' = op /\ ops' = ops /\ writer' = writer /\ late' = late /\ unseen' = unseen
BY BusyFacts DEF OtherStep, writerVars

LEMMA TurnFacts ==
    ASSUME TurnStep
    PROVE  /\ op = "oneshot" /\ op' = op /\ ops' = ops
           /\ writer' = writer /\ late' = late /\ unseen' = unseen
           /\ io \in {"parsing", "reading"} /\ io' \in {"parsing", "reading"}
           /\ writer = "unstarted" /\ io = "parsing" => io' = "parsing"
<1>1. op = "oneshot" /\ writer' = writer /\ late' = late /\ unseen' = unseen
  BY DEF TurnStep, writerVars
<1>2. CASE Dismissed \/ RowDescription \/ DataRow \/ CommandComplete \/ ErrorKept
  <2>1. io = "parsing" /\ io' = io /\ op' = op /\ ops' = ops
    BY <1>2 DEF Dismissed, RowDescription, DataRow, CommandComplete, ErrorKept,
                Parsed, Continue
  <2> QED  BY <1>1, <2>1
<1>3. CASE Peek
  <2>1. io = "parsing" /\ io' = io /\ op' = op /\ ops' = ops
    BY <1>3 DEF Peek
  <2> QED  BY <1>1, <2>1
<1>4. CASE ReadDone
  BY <1>1, <1>4 DEF ReadDone, opVars
<1>5. CASE NeedMore /\ writer # "unstarted"
  BY <1>1, <1>5 DEF NeedMore, OutOfInput, opVars
<1> QED  BY <1>2, <1>3, <1>4, <1>5 DEF TurnStep

(* What the end of the reader means: it closes the operation, and returns  *)
(* to the application unless the write is still outstanding. *)
LEMMA ReaderEndsLemma ==
    ASSUME NEW e, NEW q, NEW lost \in BOOLEAN, ReaderEnds(e, q, lost)
    PROVE  /\ writer \in {"unstarted", "writing", "ended"} /\ unseen' = unseen
           /\ IF writer = "writing"
              THEN /\ io' = "sending" /\ writer' = "writing" /\ outcome' = outcome
                   /\ late' = TRUE /\ told' = told
              ELSE /\ io' = "idle" /\ writer' = "none" /\ outcome' = e /\ late' = late
                   /\ told' = (told \/ Tells(e))
           /\ IF writer = "unstarted" THEN Closes(e, q, TRUE) ELSE Closes(e, q, lost)
<1>1. CASE writer = "unstarted"
  BY <1>1 DEF ReaderEnds, Complete
<1>2. CASE writer = "writing"
  BY <1>2 DEF ReaderEnds, Complete
<1>3. CASE writer = "ended"
  BY <1>3 DEF ReaderEnds, Complete
<1> QED  BY <1>1, <1>2, <1>3 DEF ReaderEnds

(* How the reader ends: with the answer, or by giving up. *)
LEMMA ReaderStepLemma ==
    ASSUME ReaderStep
    PROVE  /\ op = "oneshot" /\ io \in {"parsing", "reading"}
           /\ io = "parsing" => have > 0 \/ frag
           /\ UNCHANGED opVars
           /\ \/ Parsed("ready") /\ ReaderEnds(err, Head(stream).rq, FALSE)
              \/ /\ UNCHANGED <<bufVars, netVars>>
                 /\ \/ ReaderEnds(Malformed, 0, FALSE)
                    \/ ReaderEnds(Malformed, 0, TRUE)
                    \/ ReaderEnds(Transport, 0, TRUE)
<1>1. CASE AnswerEnds
  BY <1>1 DEF AnswerEnds, Parsed, opVars
<1>2. CASE Malforms
  BY <1>2 DEF Malforms, NotExpected, Refused
<1>3. CASE OneshotReadFail
  BY <1>3 DEF OneshotReadFail
<1> QED  BY <1>1, <1>2, <1>3 DEF ReaderStep

(* What the reader leaves behind, however it ends. *)
LEMMA ReaderLeaves ==
    ASSUME ReaderStep
    PROVE  /\ op = "oneshot" /\ op' = op /\ ops' = ops
           /\ writer \in {"unstarted", "writing", "ended"} /\ unseen' = unseen
           /\ IF writer = "writing"
              THEN io' = "sending" /\ writer' = "writing" /\ late' = TRUE
              ELSE io' = "idle" /\ writer' = "none" /\ late' = late
<1>1. op = "oneshot" /\ op' = op /\ ops' = ops
  BY ReaderStepLemma DEF opVars
<1>2. \/ ReaderEnds(err, Head(stream).rq, FALSE)
      \/ ReaderEnds(Malformed, 0, FALSE)
      \/ ReaderEnds(Malformed, 0, TRUE)
      \/ ReaderEnds(Transport, 0, TRUE)
  BY ReaderStepLemma
<1> QED  BY <1>1, <1>2, ReaderEndsLemma

-----------------------------------------------------------------------------
(* Types, rows, and who is outstanding: for every server. *)
LEMMA ClosesType ==
    ASSUME TypeOK, NEW e, NEW q \in Nat, NEW lost, Closes(e, q, lost)
    PROVE  /\ conn' \in {"new", "open", "early", "dropped"}
           /\ missed' \in Nat /\ endZ' \in Nat
BY DEF TypeOK, Closes

LEMMA FreshTyped ==
    ASSUME TypeOK, AsyncExecuteOneshot
    PROVE  TypeOK' /\ RowsInv'
<1>1. "ParseComplete" \in Stages /\ InitStage["oneshot"] = "ParseComplete" /\ "oneshot" \in Kinds
  BY DEF InitStage, Stages, OneshotStages, Kinds
<1>2. Fresh("oneshot") /\ io' = "parsing" /\ UNCHANGED inbox
  BY DEF AsyncExecuteOneshot
<1>3. ops' \in 0..MaxOps
  BY <1>2, BoundAssumption DEF Fresh, TypeOK
<1>4. TypeOK'
  BY <1>1, <1>2, <1>3, NoSetType, OwnErrors DEF Fresh, TypeOK, bufVars
<1>5. Described(NoSet)
  BY DEF Described, NoSet
<1> QED  BY <1>1, <1>2, <1>4, <1>5 DEF Fresh, RowsInv, RowsMatchDescription

LEMMA StartsWriteTyped ==
    ASSUME TypeOK, RowsInv, StartsWrite
    PROVE  TypeOK' /\ RowsInv'
<1>1. ops \in Nat /\ "oneshot" \in Kinds
  BY BoundAssumption DEF TypeOK, Kinds
<1>2. inbox' \in Seq(Requests)
  BY <1>1, RequestType DEF StartsWrite
<1>3. TypeOK'
  BY <1>2 DEF StartsWrite, OutOfInput, TypeOK, opVars, endVars
<1> QED  BY <1>3, RowsInvStutter DEF StartsWrite, OutOfInput, opVars, rowVars

LEMMA ReaderTyped ==
    ASSUME TypeOK, RowsInv, ReaderStep
    PROVE  TypeOK' /\ RowsInv'
<1>1. UNCHANGED opVars
  BY ReaderStepLemma
<1>2. RowsInv'
  BY <1>1, RowsInvStutter DEF opVars, rowVars
<1>3. CASE Parsed("ready") /\ ReaderEnds(err, Head(stream).rq, FALSE)
  <2>1. Head(stream).rq \in Nat /\ err \in Int
    BY <1>3, ParsedType DEF Tagged, TypeOK
  <2>2. EndTyped'
    BY <1>3, <2>1, ReaderEndsLemma, ClosesType DEF EndTyped, TypeOK
  <2> QED  BY <1>1, <1>2, <1>3, <2>2, ParsedType DEF TypeOK, EndTyped, opVars
<1>4. CASE /\ UNCHANGED <<bufVars, netVars>>
           /\ \/ ReaderEnds(Malformed, 0, FALSE)
              \/ ReaderEnds(Malformed, 0, TRUE)
              \/ ReaderEnds(Transport, 0, TRUE)
  <2>1. EndTyped'
    BY <1>4, OwnErrors, ReaderEndsLemma, ClosesType DEF EndTyped, TypeOK
  <2> QED  BY <1>1, <1>2, <1>4, <2>1 DEF TypeOK, EndTyped, opVars, bufVars, netVars
<1> QED  BY <1>3, <1>4, ReaderStepLemma

LEMMA WriterTyped ==
    ASSUME TypeOK, RowsInv, WriterStep
    PROVE  TypeOK' /\ RowsInv'
<1>1. /\ WriterEnds(Ok) \/ WriterEnds(Transport)
      /\ \/ UNCHANGED <<inbox, up>>
         \/ inbox' = <<>> /\ up' = FALSE
  BY DEF WriterStep, WriteDone, WriteFail
<1>2. PICK e \in Int : WriterEnds(e)
  BY <1>1, OwnErrors
<1>3. UNCHANGED <<opVars, bufVars, stream, answer, missed, endZ>>
  BY <1>2 DEF WriterEnds
<1>4. /\ io' \in {"idle", "sending", "reading", "parsing"} /\ outcome' \in Int
      /\ conn' \in {"new", "open", "early", "dropped"} /\ told' \in BOOLEAN
  BY <1>2 DEF WriterEnds, Returns, Tells, TypeOK
<1>5. inbox' \in Seq(Requests) /\ up' \in BOOLEAN
  <2>1. <<>> \in Seq(Requests) /\ inbox \in Seq(Requests) /\ up \in BOOLEAN
    BY DEF TypeOK
  <2> QED  BY <1>1, <2>1
<1>6. TypeOK'
  BY <1>3, <1>4, <1>5 DEF TypeOK, opVars, bufVars
<1> QED  BY <1>3, <1>6, RowsInvStutter DEF opVars, rowVars

LEMMA MixedInitTyped == MixedInit => TypeOK /\ RowsInv /\ WriterTypeOK
<1>1. 0 \in Nat
  OBVIOUS
<1> QED  BY <1>1, InitTyped, RowsInit DEF MixedInit, Init, WriterTypeOK

LEMMA MixedTyped == TypeOK /\ RowsInv /\ [MixedNext]_mixedVars => TypeOK' /\ RowsInv'
<1> SUFFICES ASSUME TypeOK, RowsInv, [MixedNext]_mixedVars PROVE TypeOK' /\ RowsInv'
  OBVIOUS
<1>1. CASE OtherStarts \/ OtherStep \/ TurnStep \/ ServerMoves
  BY <1>1, SessionSteps, NextTyped, RowsNext
<1>2. CASE UNCHANGED mixedVars
  BY <1>2, NextTyped, RowsNext DEF mixedVars
<1> QED  BY <1>1, <1>2, MixedSteps, FreshTyped, StartsWriteTyped, ReaderTyped, WriterTyped

LEMMA WriterNext == TypeOK /\ WriterTypeOK /\ [MixedNext]_mixedVars => WriterTypeOK'
<1> SUFFICES ASSUME TypeOK, WriterTypeOK, [MixedNext]_mixedVars PROVE WriterTypeOK'
  OBVIOUS
<1>1. CASE OtherStarts
  <2>1. io = "idle" /\ op' # "oneshot" /\ UNCHANGED writerVars
    BY <1>1 DEF OtherStarts, AsyncConnect, AsyncSimpleQuery, AsyncParse, AsyncExecute,
                Start, Fresh
  <2> QED  BY <2>1 DEF WriterTypeOK, writerVars
<1>2. CASE OtherStep
  BY <1>2, OtherFacts DEF OtherStep, WriterTypeOK
<1>3. CASE TurnStep
  BY <1>3, TurnFacts DEF WriterTypeOK
<1>4. CASE ServerMoves
  BY <1>4 DEF ServerMoves, Reply, Die, opVars, writerVars, WriterTypeOK
<1>5. CASE AsyncExecuteOneshot
  BY <1>5 DEF AsyncExecuteOneshot, Fresh, WriterTypeOK
<1>6. CASE StartsWrite
  BY <1>6 DEF StartsWrite, OutOfInput, opVars, WriterTypeOK
<1>7. CASE ReaderStep
  BY <1>7, ReaderLeaves DEF WriterTypeOK
<1>8. CASE WriterStep
  <2>1. op' = op
    BY <1>8 DEF WriterStep, WriteDone, WriteFail, WriterEnds, Returns, opVars
  <2>2. /\ writer = "writing" /\ late' = late
        /\ IF io = "sending" THEN writer' = "none" /\ io' = "idle"
           ELSE writer' = "ended" /\ io' = io
    BY <1>8 DEF WriterStep, WriteDone, WriteFail, WriterEnds, Returns
  <2>3. unseen' \in {unseen, unseen + 1}
    BY <1>8 DEF WriterStep, WriteDone, WriteFail, WriterEnds, Returns
  <2>4. unseen' \in Nat
    BY <2>3 DEF WriterTypeOK
  <2> QED  BY <2>1, <2>2, <2>4 DEF WriterTypeOK
<1>9. CASE UNCHANGED mixedVars
  BY <1>9 DEF mixedVars, vars, opVars, WriterTypeOK
<1> QED  BY <1>1, <1>2, <1>3, <1>4, <1>5, <1>6, <1>7, <1>8, <1>9, MixedSteps

-----------------------------------------------------------------------------
(* The inductive invariant.  Until the first handler writes, the requests  *)
(* written end at the one before the current; once the reader is done and  *)
(* the write is not, the connection rests with the operation still there.  *)
Resting == op = "oneshot" /\ io = "sending"
Asked == IF writer = "unstarted" THEN ops - 1 ELSE ops
MixedOrder ==
    /\ writer = "unstarted" => io = "parsing"
    /\ IF Resting THEN Rested(ops) ELSE OrderTo(Asked)

LEMMA AskedType == ASSUME TypeOK PROVE Asked \in Int /\ ops \in Int /\ missed \in Nat
BY FirstType DEF Asked, TypeOK

(* The write has not started and there is something to read: it is the     *)
(* answer to an earlier request. *)
LEMMA UnstartedBehind ==
    ASSUME TypeOK, WriterTypeOK, MixedOrder, writer = "unstarted", stream # <<>>
    PROVE  missed > 0
<1>1. PICK l \in Int : l = ops - 1
  BY AskedType
<1>2. OrderTo(l) /\ io # "idle"
  BY <1>1 DEF MixedOrder, Resting, Asked
<1>3. 1 \in 1..Len(stream) /\ stream[1].rq = First /\ Pending(stream, inbox, up, First, l)
  BY <1>2, FirstMessage
<1>4. First <= ops - 1
  BY <1>1, <1>3 DEF Pending
<1> QED  BY <1>2, <1>4, AskedType DEF First

(* The server is gone. *)
LEMMA HangUp ==
    ASSUME NEW s, NEW x, NEW u, NEW n, NEW b, NEW l, Pending(s, x, u, b, l), Shape(s, x, u, n)
    PROVE  Pending(s, <<>>, FALSE, b, l) /\ Shape(s, <<>>, FALSE, n)
<1>1. Len(<<>>) = 0
  OBVIOUS
<1>2. Pending(s, <<>>, FALSE, b, l)
  BY <1>1 DEF Pending
<1>3. Shape(s, <<>>, FALSE, n)
  BY <1>1 DEF Shape
<1> QED  BY <1>2, <1>3

-----------------------------------------------------------------------------
(* The operation begins; its request is not written. *)
LEMMA OneshotInOrder ==
    ASSUME TypeOK, NEW l \in Int, l = ops, OrderTo(l), AsyncExecuteOneshot
    PROVE  OrderTo(l)'
<1>1. /\ io = "idle" /\ io' = "parsing" /\ op' = "oneshot" /\ ops' = ops + 1
      /\ parsers' = "none" /\ err' = Ok /\ curr' = NoSet /\ result' = <<>>
      /\ conn' = conn /\ conn \in {"open", "early"} /\ missed' = missed
      /\ stream' = stream /\ up' = up /\ inbox' = inbox
  BY DEF AsyncExecuteOneshot, Fresh
<1>2. First' = First
  BY <1>1, FirstType DEF First
<1>3. Phases'
  BY <1>1, <1>2 DEF OrderTo, Phases, Ok
<1>4. Sources' /\ InParser'
  BY <1>1 DEF Sources, InParser, From
<1>5. Queued(l)'
  BY <1>1, <1>2 DEF OrderTo, Queued
<1> QED  BY <1>3, <1>4, <1>5 DEF OrderTo

(* Its request is written. *)
LEMMA WriteInOrder ==
    ASSUME TypeOK, NEW k \in Int, NEW l \in Int, k = ops - 1, l = ops, OrderTo(k), io # "idle",
           StartsWrite
    PROVE  OrderTo(l)'
<1> DEFINE a == [kind |-> "oneshot", rq |-> ops]
<1>1. /\ op = "oneshot" /\ io' = "reading" /\ UNCHANGED <<opVars, endVars, stream, up>>
      /\ inbox' = IF up THEN Append(inbox, a) ELSE inbox
  BY DEF StartsWrite, OutOfInput, Request
<1>2. First' = First /\ First \in Int
  BY <1>1, FirstType DEF First, opVars, endVars
<1>3. conn \notin {"new", "dropped"}
  BY <1>1 DEF OrderTo, Phases
<1>4. /\ Pending(stream, inbox, up, First, k) /\ Shape(stream, inbox, up, FALSE)
      /\ stream \in Seq(Tagged) /\ inbox \in Seq(Requests) /\ up \in BOOLEAN
  <2>1. (conn = "new") = FALSE
    BY <1>3
  <2> QED  BY <1>3, <2>1 DEF OrderTo, Queued, TypeOK
<1>5. a \in Requests /\ a.rq = k + 1 /\ a.kind = "oneshot"
  BY BoundAssumption DEF TypeOK, Requests, Kinds
<1>6. ~up => inbox = <<>>
  BY <1>4 DEF Shape
<1> HIDE DEF a
<1>7. inbox' \in Seq(Requests) /\ (up => inbox' = Append(inbox, a)) /\ (~up => inbox' = inbox)
  BY <1>1, <1>4, <1>5
<1>8. Pending(stream, inbox', up, First, k + 1)
  BY <1>2, <1>4, <1>5, <1>6, <1>7, AskPending
<1>9. Shape(stream, inbox', up, FALSE)
  BY <1>4, <1>5, <1>7, AskShape
<1>10. Queued(l)'
  <2>1. (conn' = "new") = FALSE /\ k + 1 = l /\ stream' = stream /\ up' = up
    BY <1>1, <1>3 DEF endVars
  <2> QED  BY <1>2, <1>8, <1>9, <2>1 DEF Queued
<1>11. Phases'
  BY <1>1, <1>2, <1>3 DEF OrderTo, Phases, opVars, endVars
<1>12. Sources'
  BY <1>1, <1>2 DEF OrderTo, Sources, From, opVars
<1>13. InParser'
  BY <1>1 DEF OrderTo, InParser, opVars
<1> QED  BY <1>10, <1>11, <1>12, <1>13 DEF OrderTo

(* A turn of the reader. *)
LEMMA TurnInOrder ==
    ASSUME TypeOK, RowsInv, NEW l \in Int, OrderTo(l), TurnStep
    PROVE  OrderTo(l)'
<1>1. op = "oneshot" /\ op' = op /\ ops' = ops /\ io # "idle" /\ io' # "idle"
  BY TurnFacts
<1>2. CASE Peek
  BY <1>2, PeekInOrder
<1>3. CASE Dismissed \/ RowDescription \/ DataRow \/ CommandComplete \/ ErrorKept
  <2>1. Body
    BY <1>3 DEF Body
  <2> QED  BY <1>1, <2>1, BodiesInOrder
<1>4. CASE ReadDone \/ NeedMore
  BY <1>1, <1>4, Unread DEF ReadDone, NeedMore, OutOfInput, opVars, endVars, netVars
<1> QED  BY <1>2, <1>3, <1>4 DEF TurnStep

(* The reader ends with its answer read, or gives up. *)
LEMMA ReaderInOrder ==
    ASSUME TypeOK, NEW l \in Int, OrderTo(l), ReaderStep
    PROVE  /\ Rested(l)' /\ missed' >= missed
           /\ writer = "unstarted" => conn' = "dropped"
<1>1. op = "oneshot" /\ io # "idle" /\ UNCHANGED opVars
  BY ReaderStepLemma
<1>2. CASE Parsed("ready") /\ ReaderEnds(err, Head(stream).rq, FALSE)
  <2>1. PICK lost \in BOOLEAN : /\ Closes(err, Head(stream).rq, lost)
                                /\ writer = "unstarted" => lost
    BY <1>2, ReaderEndsLemma
  <2>2. Rested(l)'
    BY <1>1, <1>2, <2>1, ReadyInOrder DEF opVars
  <2> QED  BY <2>1, <2>2 DEF Closes, TypeOK
<1>3. CASE /\ UNCHANGED <<bufVars, netVars>>
           /\ \/ ReaderEnds(Malformed, 0, FALSE)
              \/ ReaderEnds(Malformed, 0, TRUE)
              \/ ReaderEnds(Transport, 0, TRUE)
  <2>1. PICK e \in Int, lost \in BOOLEAN : e < Ok /\ ReaderEnds(e, 0, lost)
    BY <1>3, OwnErrorsNegative
  <2>2. PICK gone \in BOOLEAN : Closes(e, 0, gone) /\ (writer = "unstarted" => gone)
    BY <2>1, ReaderEndsLemma
  <2>3. Rested(l)'
    BY <1>1, <1>3, <2>1, <2>2, GivesUp DEF opVars, netVars
  <2> QED  BY <2>2, <2>3 DEF Closes, TypeOK
<1> QED  BY <1>2, <1>3, ReaderStepLemma

(* The write ends, and the operation with it if the reader has ended. *)
LEMMA WriterInOrder ==
    ASSUME TypeOK, NEW l \in Int, WriterStep, io # "idle", op = "oneshot",
           IF Resting THEN Rested(l) ELSE OrderTo(l)
    PROVE  OrderTo(l)'
<1>1. /\ UNCHANGED <<opVars, stream, missed, endZ>>
      /\ \/ UNCHANGED <<inbox, up>>
         \/ inbox' = <<>> /\ up' = FALSE
  BY DEF WriterStep, WriteDone, WriteFail, WriterEnds, Returns
<1>2. \A b, n : /\ Pending(stream, inbox, up, b, l) /\ Shape(stream, inbox, up, n)
                => /\ Pending(stream', inbox', up', b, l)
                   /\ Shape(stream', inbox', up', n)
  BY <1>1, HangUp
<1>3. CASE io = "sending"
  <2>1. io' = "idle" /\ (conn' = "dropped" \/ conn' = conn)
    BY <1>3 DEF WriterStep, WriteDone, WriteFail, WriterEnds, Returns
  <2>2. CASE Resting
    <3>1. Rested(l)'
      BY <1>1, <1>2, <2>1, <2>2 DEF Rested, From, opVars
    <3> QED  BY <2>1, <3>1, RestedIdle
  <2> QED  BY <1>3, <2>2 DEF Resting
<1>4. CASE io # "sending"
  <2>1. io' = io /\ conn' = conn /\ OrderTo(l)
    BY <1>4 DEF WriterStep, WriteDone, WriteFail, WriterEnds, Returns, Resting
  <2>2. First' = First
    BY <1>1, <2>1 DEF First, opVars
  <2> QED  BY <1>1, <1>2, <2>1, <2>2
           DEF OrderTo, Phases, Sources, From, InParser, Queued, opVars
<1> QED  BY <1>3, <1>4

-----------------------------------------------------------------------------
LEMMA MixedOrderInit == MixedInit => MixedOrder
<1> SUFFICES ASSUME MixedInit PROVE MixedOrder
  OBVIOUS
<1>1. OrderTo(ops)
  BY OrderInit DEF MixedInit, OrderInv
<1> QED  BY <1>1 DEF MixedInit, Init, MixedOrder, Resting, Asked

LEMMA MixedOrderNext ==
    ASSUME WholeAnswers, TypeOK, RowsInv, WriterTypeOK, MixedOrder, [MixedNext]_mixedVars
    PROVE  MixedOrder'
<1>1. PICK l \in Int : l = Asked
  BY AskedType
<1>2. IF Resting THEN Rested(ops) ELSE OrderTo(l)
  BY <1>1 DEF MixedOrder
<1>3. PICK k \in Int : k = ops
  BY AskedType
<1>4. IF Resting THEN Rested(k) ELSE OrderTo(l)
  BY <1>2, <1>3
<1>5. ASSUME io = "idle"
      PROVE  OrderTo(k) /\ OrderInv /\ writer = "none"
  <2>1. ~Resting /\ writer = "none"
    BY <1>5 DEF Resting, WriterTypeOK
  <2> QED  BY <1>1, <1>3, <1>4, <2>1 DEF Asked, OrderInv
<1>6. CASE OtherStarts
  <2>1. /\ io = "idle" /\ op' # "oneshot" /\ writer' = writer
    BY <1>6 DEF OtherStarts, AsyncConnect, AsyncSimpleQuery, AsyncParse, AsyncExecute,
                Start, Fresh, writerVars
  <2>2. OrderInv'
    BY <1>5, <1>6, <2>1, SessionSteps, OrderNext
  <2> QED  BY <1>5, <2>1, <2>2 DEF OrderInv, MixedOrder, Resting, Asked
<1>7. CASE OtherStep
  <2>1. op # "oneshot" /\ op' = op /\ ops' = ops /\ writer = "none" /\ writer' = writer
    BY <1>7, OtherFacts DEF OtherStep, WriterTypeOK
  <2>2. OrderInv
    BY <1>1, <1>2, <2>1 DEF Resting, Asked, OrderInv
  <2>3. OrderInv'
    BY <1>7, <2>2, SessionSteps, OrderNext
  <2> QED  BY <2>1, <2>3 DEF OrderInv, MixedOrder, Resting, Asked
<1>8. CASE TurnStep
  <2>1. /\ op' = op /\ ops' = ops /\ writer' = writer
        /\ io \in {"parsing", "reading"} /\ io' \in {"parsing", "reading"}
        /\ writer = "unstarted" => io' = "parsing"
    BY <1>8, TurnFacts DEF MixedOrder
  <2>2. OrderTo(l)'
    BY <1>2, <1>8, <2>1, TurnInOrder DEF Resting
  <2>3. l = Asked'
    BY <1>1, <2>1 DEF Asked
  <2> QED  BY <2>1, <2>2, <2>3 DEF MixedOrder, Resting
<1>9. CASE ServerMoves
  <2>1. (Reply \/ Die) /\ op' = op /\ ops' = ops /\ io' = io /\ writer' = writer
    BY <1>9 DEF ServerMoves, Reply, Die, opVars, writerVars
  <2>2. k = ops' /\ l = Asked' /\ Resting' = Resting
    BY <1>1, <1>3, <2>1 DEF Asked, Resting
  <2>3. CASE Resting
    <3>1. Rested(k)'
      BY <1>4, <2>1, <2>3, ServerRested
    <3> QED  BY <2>1, <2>2, <2>3, <3>1 DEF MixedOrder
  <2>4. CASE ~Resting
    <3>1. OrderTo(l)'
      BY <1>4, <2>1, <2>4, ServerInOrder
    <3> QED  BY <2>1, <2>2, <2>4, <3>1 DEF MixedOrder
  <2> QED  BY <2>3, <2>4
<1>10. CASE AsyncExecuteOneshot
  <2>1. /\ io = "idle" /\ io' = "parsing" /\ writer' = "unstarted" /\ ops' = ops + 1
    BY <1>10 DEF AsyncExecuteOneshot, Fresh
  <2>2. OrderTo(k)'
    BY <1>3, <1>5, <1>10, <2>1, OneshotInOrder
  <2>3. k = Asked'
    BY <1>3, <2>1, AskedType DEF Asked
  <2> QED  BY <2>1, <2>2, <2>3 DEF MixedOrder, Resting
<1>11. CASE StartsWrite
  <2>1. /\ writer = "unstarted" /\ io = "parsing" /\ io' = "reading" /\ writer' = "writing"
        /\ ops' = ops
    BY <1>11 DEF StartsWrite, OutOfInput, opVars
  <2>2. l = ops - 1 /\ OrderTo(l)
    BY <1>1, <1>2, <2>1 DEF Asked, Resting
  <2>3. OrderTo(k)'
    BY <1>3, <1>11, <2>1, <2>2, WriteInOrder
  <2>4. k = Asked'
    BY <1>3, <2>1 DEF Asked
  <2> QED  BY <2>1, <2>3, <2>4 DEF MixedOrder, Resting
<1>12. CASE ReaderStep
  <2>1. /\ op = "oneshot" /\ op' = op /\ ops' = ops /\ k = ops'
        /\ io \in {"parsing", "reading"}
    BY <1>3, <1>12, ReaderStepLemma, ReaderLeaves
  <2>2. OrderTo(l)
    BY <1>4, <2>1 DEF Resting
  <2>3. Rested(l)' /\ missed' >= missed /\ (writer = "unstarted" => conn' = "dropped")
    BY <1>12, <2>2, ReaderInOrder
  <2>4. CASE writer = "writing"
    <3>1. Resting' /\ writer' = "writing"
      BY <1>12, <2>1, <2>4, ReaderLeaves DEF Resting
    <3>2. l = ops'
      BY <1>1, <2>1, <2>4 DEF Asked
    <3> QED  BY <2>3, <3>1, <3>2 DEF MixedOrder
  <2>5. CASE writer # "writing"
    <3>1. io' = "idle" /\ writer' = "none" /\ writer \in {"unstarted", "ended"}
      BY <1>12, <2>5, ReaderLeaves
    <3>2. ~Resting' /\ Asked' = ops'
      BY <3>1 DEF Resting, Asked
    <3>3. Rested(k)'
      <4>1. CASE writer = "unstarted"
        <5>1. stream # <<>>
          BY <1>12, <4>1, ReaderStepLemma DEF MixedOrder, TypeOK
        <5>2. missed > 0 /\ missed \in Nat /\ missed' >= missed
          BY <2>3, <4>1, <5>1, UnstartedBehind, AskedType
        <5>3. conn' = "dropped" /\ missed' # 0
          BY <2>3, <4>1, <5>2
        <5> QED  BY <2>3, <5>3 DEF Rested
      <4>2. CASE writer = "ended"
        <5>1. l = k
          BY <1>1, <1>3, <4>2 DEF Asked
        <5> QED  BY <2>3, <5>1
      <4> QED  BY <3>1, <4>1, <4>2
    <3>4. OrderTo(k)'
      BY <3>1, <3>3, RestedIdle
    <3> QED  BY <2>1, <3>1, <3>2, <3>4 DEF MixedOrder
  <2> QED  BY <2>4, <2>5
<1>13. CASE WriterStep
  <2>1. /\ writer = "writing" /\ op = "oneshot" /\ io # "idle" /\ op' = op /\ ops' = ops
        /\ writer' # "unstarted"
        /\ IF io = "sending" THEN io' = "idle" ELSE io' = io
    BY <1>13 DEF WriterStep, WriteDone, WriteFail, WriterEnds, Returns, opVars, WriterTypeOK
  <2>2. l = k /\ k = Asked' /\ ~Resting'
    BY <1>1, <1>3, <2>1 DEF Asked, Resting
  <2>3. OrderTo(k)'
    BY <1>4, <1>13, <2>1, <2>2, WriterInOrder
  <2> QED  BY <2>1, <2>2, <2>3 DEF MixedOrder
<1>14. CASE UNCHANGED mixedVars
  <2>1. UNCHANGED <<opVars, endVars, netVars, io, writer>> /\ First' = First
    BY <1>14 DEF mixedVars, vars, First, opVars, endVars
  <2>2. Resting' = Resting /\ l = Asked' /\ k = ops'
    BY <1>1, <1>3, <2>1 DEF Resting, Asked, opVars
  <2>3. CASE Resting
    <3>1. Rested(k)'
      BY <1>4, <2>1, <2>3 DEF Rested, From, opVars, endVars, netVars
    <3> QED  BY <2>1, <2>2, <2>3, <3>1 DEF MixedOrder
  <2>4. CASE ~Resting
    <3>1. OrderTo(l)'
      BY <1>4, <2>1, <2>4 DEF OrderTo, Phases, Sources, From, InParser, Queued,
                              opVars, endVars, netVars
    <3> QED  BY <2>1, <2>2, <2>4, <3>1 DEF MixedOrder
  <2> QED  BY <2>3, <2>4
<1> QED
  BY <1>6, <1>7, <1>8, <1>9, <1>10, <1>11, <1>12, <1>13, <1>14, MixedSteps

(* Between two operations MixedOrder is OrderInv. *)
LEMMA IdleOrder == WriterTypeOK /\ MixedOrder /\ io = "idle" => OrderInv
BY DEF WriterTypeOK, MixedOrder, Resting, Asked, OrderInv

LEMMA MixedAnswers == TypeOK /\ WriterTypeOK /\ MixedOrder => AnswersInOrder
BY IdleOrder, OrderAnswers DEF AnswersInOrder

(* BehindUnseen is inductive only with the execution that is not over: its *)
(* reader has given up and its write is still out. *)
GaveUp == Resting /\ endZ = 0
UnseenInv == Unheard => missed = IF GaveUp THEN unseen + 1 ELSE unseen

(* The reader leaves an answer unread. *)
LEMMA ReaderUnseen ==
    ASSUME TypeOK, NEW l \in Int, OrderTo(l), UnseenInv, ReaderStep
    PROVE  UnseenInv'
<1>1. /\ op = "oneshot" /\ op' = op /\ io \in {"parsing", "reading"} /\ unseen' = unseen
      /\ ~GaveUp
  BY ReaderStepLemma, ReaderLeaves DEF GaveUp, Resting
<1>2. CASE Parsed("ready") /\ ReaderEnds(err, Head(stream).rq, FALSE)
  <2>1. Head(stream).rq # 0
    BY <1>2, ParsedMessage, FirstType DEF OrderTo, Phases
  <2>2. PICK lost \in BOOLEAN : Closes(err, Head(stream).rq, lost)
    BY <1>2, ReaderEndsLemma
  <2>3. /\ missed' = missed /\ endZ' # 0 /\ (conn' = "dropped" \/ conn' = conn)
        /\ told' = FALSE => told = FALSE
    BY <1>1, <1>2, <2>1, <2>2, ReaderEndsLemma DEF Closes, TypeOK
  <2> QED  BY <1>1, <2>3 DEF UnseenInv, Unheard, GaveUp
<1>3. CASE \/ ReaderEnds(Malformed, 0, FALSE)
           \/ ReaderEnds(Malformed, 0, TRUE)
           \/ ReaderEnds(Transport, 0, TRUE)
  <2>1. PICK e \in Int, lost \in BOOLEAN : e < Ok /\ ReaderEnds(e, 0, lost)
    BY <1>3, OwnErrorsNegative
  <2>2. CASE writer = "writing"
    <3>1. /\ missed' = missed + 1 /\ endZ' = 0 /\ (conn' = "dropped" \/ conn' = conn)
          /\ told' = told /\ io' = "sending"
      BY <1>1, <2>1, <2>2, ReaderEndsLemma DEF Closes
    <3> QED  BY <1>1, <3>1 DEF UnseenInv, Unheard, GaveUp, Resting
  <2>3. CASE writer # "writing"
    BY <2>1, <2>3, ReaderEndsLemma DEF Tells, UnseenInv, Unheard
  <2> QED  BY <2>2, <2>3
<1> QED  BY <1>2, <1>3, ReaderStepLemma

(* The write reports success for it. *)
LEMMA WriterUnseen ==
    ASSUME TypeOK, WriterTypeOK, UnseenInv, WriterStep
    PROVE  UnseenInv'
<1>1. PICK e \in {Ok, Transport} : WriterEnds(e)
  BY DEF WriterStep, WriteDone, WriteFail
<1>2. /\ writer = "writing" /\ op = "oneshot" /\ op' = op /\ missed' = missed /\ endZ' = endZ
  BY <1>1 DEF WriterEnds, WriterTypeOK, opVars
<1>3. CASE io = "sending"
  <2>1. Returns(e) /\ io' = "idle"
    BY <1>1, <1>3 DEF WriterEnds, Returns
  <2>2. CASE e = Ok
    BY <1>2, <1>3, <2>1, <2>2 DEF Returns, UnseenInv, Unheard, GaveUp, Resting
  <2>3. CASE e = Transport
    BY <2>1, <2>3, OwnErrorsNegative DEF Returns, Tells, UnseenInv, Unheard
  <2> QED  BY <2>2, <2>3
<1>4. CASE io # "sending"
  BY <1>1, <1>2, <1>4 DEF WriterEnds, UnseenInv, Unheard, GaveUp, Resting
<1> QED  BY <1>3, <1>4

LEMMA UnseenNext ==
    ASSUME TypeOK, WriterTypeOK, MixedOrder, UnseenInv, [MixedNext]_mixedVars
    PROVE  UnseenInv'
<1>1. PICK l \in Int : l = Asked
  BY AskedType
<1>2. ~Resting => OrderTo(l)
  BY <1>1 DEF MixedOrder
<1>3. CASE OtherStarts \/ AsyncExecuteOneshot
  <2>1. io = "idle" /\ UNCHANGED <<conn, missed, told, unseen>> /\ ~Resting'
    BY <1>3 DEF OtherStarts, AsyncConnect, AsyncSimpleQuery, AsyncParse, AsyncExecute, Start,
                AsyncExecuteOneshot, Fresh, writerVars, Resting
  <2> QED  BY <2>1 DEF UnseenInv, Unheard, GaveUp, Resting
<1>4. CASE OtherStep
  <2>1. op # "oneshot" /\ op' = op /\ unseen' = unseen /\ OrderTo(l)
    BY <1>2, <1>4, OtherFacts DEF OtherStep, Resting
  <2>2. CASE ReadDone
    BY <2>1, <2>2 DEF ReadDone, endVars, UnseenInv, Unheard, GaveUp, Resting
  <2>3. CASE Client \/ ReadFail \/ SendFail
    <3>1. Unheard' => Unheard /\ missed' = missed
      BY <2>1, <2>3, HeardOf
    <3> QED  BY <2>1, <3>1 DEF UnseenInv, GaveUp, Resting
  <2> QED  BY <1>4, <2>2, <2>3 DEF OtherStep
<1>5. CASE TurnStep
  <2>1. /\ op' = op /\ unseen' = unseen
        /\ io \in {"parsing", "reading"} /\ io' \in {"parsing", "reading"}
    BY <1>5, TurnFacts
  <2>2. UNCHANGED endVars
    BY <1>5 DEF TurnStep, Peek, Dismissed, RowDescription, DataRow, CommandComplete, ErrorKept,
                Continue, ReadDone, NeedMore, OutOfInput
  <2> QED  BY <2>1, <2>2 DEF UnseenInv, Unheard, GaveUp, Resting, endVars
<1>6. CASE StartsWrite
  BY <1>6 DEF StartsWrite, OutOfInput, opVars, endVars, UnseenInv, Unheard, GaveUp, Resting
<1>7. CASE ServerMoves \/ UNCHANGED mixedVars
  BY <1>7 DEF ServerMoves, Reply, Die, mixedVars, writerVars, vars, opVars, endVars,
              UnseenInv, Unheard, GaveUp, Resting
<1>8. CASE ReaderStep
  <2>1. OrderTo(l)
    BY <1>2, <1>8, ReaderStepLemma DEF Resting
  <2> QED  BY <1>8, <2>1, ReaderUnseen
<1>9. CASE WriterStep
  BY <1>9, WriterUnseen
<1> QED  BY <1>3, <1>4, <1>5, <1>6, <1>7, <1>8, <1>9, MixedSteps

LEMMA UnseenIdle == TypeOK /\ WriterTypeOK /\ MixedOrder /\ UnseenInv => BehindUnseen
<1> SUFFICES ASSUME TypeOK, WriterTypeOK, MixedOrder, UnseenInv,
                    io = "idle", conn = "open", ~told
             PROVE  /\ up => Owed = unseen
                    /\ unseen = 0 => stream = <<>> /\ inbox = <<>>
  BY DEF BehindUnseen
<1>1. OrderInv
  BY IdleOrder
<1>2. missed = unseen
  BY DEF UnseenInv, Unheard, GaveUp, Resting
<1> QED  BY <1>1, <1>2, OrderLag, NothingOwed DEF LagAccount

LEMMA MixedWrites ==
    ASSUME TypeOK, WriterTypeOK, MixedOrder, [MixedNext]_mixedVars,
           writer = "unstarted", io' = "idle"
    PROVE  missed > 0
<1>1. io = "parsing" /\ op = "oneshot"
  BY DEF MixedOrder, WriterTypeOK
<1>2. ~(OtherStarts \/ OtherStep \/ AsyncExecuteOneshot)
  BY <1>1 DEF OtherStarts, AsyncConnect, AsyncSimpleQuery, AsyncParse, AsyncExecute,
              Start, AsyncExecuteOneshot, Fresh, OtherStep
<1>3. ~(TurnStep \/ StartsWrite \/ WriterStep)
  BY TurnFacts DEF StartsWrite, OutOfInput, WriterStep, WriteDone, WriteFail, WriterEnds, Returns
<1>4. ~(ServerMoves \/ UNCHANGED mixedVars)
  BY <1>1 DEF ServerMoves, Reply, Die, mixedVars, vars
<1>5. ReaderStep
  BY <1>2, <1>3, <1>4, MixedSteps
<1>6. stream # <<>>
  BY <1>1, <1>5, ReaderStepLemma DEF TypeOK
<1> QED  BY <1>6, UnstartedBehind

-----------------------------------------------------------------------------
(* For every bound and every server: the variables have their types, and   *)
(* every row delivered has the columns its description announced, when     *)
(* oneshot executions run on the connection as well. *)
THEOREM MixedTypeCorrect == MixedSpec => []TypeOK
BY MixedInitTyped, MixedTyped, PTL DEF MixedSpec

THEOREM MixedRowsAlwaysMatch == MixedSpec => []RowsMatchDescription
<1>1. RowsInv => RowsMatchDescription
  BY DEF RowsInv
<1> QED  BY <1>1, MixedInitTyped, MixedTyped, PTL DEF MixedSpec

(* For every server: an operation is outstanding exactly while one of its  *)
(* two handlers is, and once the reader is done it waits for the write. *)
THEOREM WriterTypeCorrect == MixedSpec => []WriterTypeOK
BY MixedInitTyped, MixedTyped, WriterNext, PTL DEF MixedSpec

LEMMA MixedOrderAlways ==
    ASSUME WholeAnswers
    PROVE  MixedSpec => [](TypeOK /\ WriterTypeOK /\ MixedOrder)
<1>1. TypeOK /\ RowsInv /\ WriterTypeOK /\ MixedOrder /\ [MixedNext]_mixedVars => MixedOrder'
  BY MixedOrderNext
<1> QED  BY <1>1, MixedInitTyped, MixedOrderInit, MixedTyped, WriterNext, PTL DEF MixedSpec

LEMMA UnseenAlways ==
    ASSUME WholeAnswers
    PROVE  MixedSpec => []UnseenInv
<1>1. MixedInit => UnseenInv
  BY DEF MixedInit, Init, UnseenInv, GaveUp, Resting
<1>2. TypeOK /\ WriterTypeOK /\ MixedOrder /\ UnseenInv /\ [MixedNext]_mixedVars => UnseenInv'
  BY UnseenNext
<1> QED  BY <1>1, <1>2, MixedOrderAlways, PTL DEF MixedSpec

(* When the server answers whole, AnswersInOrder stays true with oneshot   *)
(* executions, whichever of the write and the answer comes first. *)
THEOREM MixedAnswersAlwaysInOrder ==
    ASSUME WholeAnswers
    PROVE  MixedSpec => []AnswersInOrder
BY MixedAnswers, MixedOrderAlways, PTL

(* As long as connect waited for ReadyForQuery and no operation reported   *)
(* an error that tells of an unread answer, an idle connection is behind   *)
(* by one answer for each oneshot execution that reported success although *)
(* its reader had given up, and has nothing unread if there was none.      *)
THEOREM AlwaysBehindUnseen ==
    ASSUME WholeAnswers
    PROVE  MixedSpec => []BehindUnseen
BY UnseenIdle, UnseenAlways, MixedOrderAlways, PTL

(* And a oneshot execution never returns before its request was written,   *)
(* unless an earlier operation left its answer unread. *)
THEOREM AlwaysWrittenBeforeEnd ==
    ASSUME WholeAnswers
    PROVE  MixedSpec => WrittenBeforeEnd
<1>1. /\ TypeOK /\ WriterTypeOK /\ MixedOrder
      /\ [MixedNext]_mixedVars
      => [writer = "unstarted" /\ io' = "idle" => missed > 0]_mixedVars
  BY MixedWrites
<1> QED  BY <1>1, MixedOrderAlways, PTL DEF MixedSpec, WrittenBeforeEnd

-----------------------------------------------------------------------------
(* Counting the messages of a type. *)
At(r, t, b, c) == {i \in (b + 1)..c : r[i].t = t}

LEMMA CountType ==
    ASSUME NEW r, NEW t, NEW b \in Nat, NEW c \in Nat
    PROVE  /\ IsFiniteSet(At(r, t, b, c)) /\ Count(r, t, b, c) \in Nat
           /\ Count(r, t, b, c) = Cardinality(At(r, t, b, c))
<1>1. IsFiniteSet((b + 1)..c)
  BY FS_Interval
<1>2. At(r, t, b, c) \in SUBSET ((b + 1)..c)
  BY DEF At
<1>3. Count(r, t, b, c) = Cardinality(At(r, t, b, c))
  BY DEF Count, At
<1> QED  BY <1>1, <1>2, <1>3, FS_Subset, FS_CardinalityType

LEMMA CountNone ==
    ASSUME NEW r, NEW t, NEW b \in Nat, NEW c \in Nat,
           \A i \in (b + 1)..c : r[i].t # t
    PROVE  Count(r, t, b, c) = 0
<1>1. At(r, t, b, c) = {}
  BY DEF At
<1> QED  BY <1>1, CountType, FS_EmptySet

LEMMA CountStep ==
    ASSUME NEW r, NEW t, NEW b \in Nat, NEW c \in Nat, b <= c
    PROVE  Count(r, t, b, c + 1) = Count(r, t, b, c) + (IF r[c + 1].t = t THEN 1 ELSE 0)
<1>1. /\ IsFiniteSet(At(r, t, b, c)) /\ Count(r, t, b, c) = Cardinality(At(r, t, b, c))
      /\ Count(r, t, b, c + 1) = Cardinality(At(r, t, b, c + 1))
      /\ Count(r, t, b, c) \in Nat
  BY CountType
<1>2. c + 1 \notin At(r, t, b, c)
  BY DEF At
<1>3. CASE r[c + 1].t = t
  <2>1. At(r, t, b, c + 1) = At(r, t, b, c) \cup {c + 1}
    BY <1>3 DEF At
  <2> QED  BY <1>1, <1>2, <1>3, <2>1, FS_AddElement
<1>4. CASE r[c + 1].t # t
  <2>1. At(r, t, b, c + 1) = At(r, t, b, c)
    BY <1>4 DEF At
  <2> QED  BY <1>1, <1>4, <2>1
<1> QED  BY <1>3, <1>4

(* The place of one of them among them. *)
LEMMA CountPlace ==
    ASSUME NEW r, NEW t, NEW b \in Nat, NEW c \in Nat, NEW i \in (b + 1)..c, r[i].t = t
    PROVE  Count(r, t, b, i) \in 1..Count(r, t, b, c)
<1>1. i \in Nat /\ i - 1 \in Nat /\ b <= i - 1 /\ (i - 1) + 1 = i
  OBVIOUS
<1>2. Count(r, t, b, i) = Count(r, t, b, i - 1) + 1 /\ Count(r, t, b, i - 1) \in Nat
  <2>1. Count(r, t, b, (i - 1) + 1)
          = Count(r, t, b, i - 1) + (IF r[(i - 1) + 1].t = t THEN 1 ELSE 0)
    BY <1>1, CountStep
  <2> QED  BY <1>1, <2>1, CountType
<1>3. At(r, t, b, i) \in SUBSET At(r, t, b, c)
  BY <1>1 DEF At
<1>4. Cardinality(At(r, t, b, i)) <= Cardinality(At(r, t, b, c))
  BY <1>3, CountType, FS_Subset
<1> QED  BY <1>1, <1>2, <1>4, CountType

-----------------------------------------------------------------------------
(* What one more message changes of what an answer says. *)
LEMMA ErrorExtend ==
    ASSUME NEW r, NEW k \in Nat, NEW e, ErrorIs(e, r, k), r[k + 1].t # "E"
    PROVE  ErrorIs(e, r, k + 1)
BY DEF ErrorIs

LEMMA SetExtend ==
    ASSUME NEW r, NEW b \in Nat, NEW k \in Nat, b <= k, NEW q, NEW s,
           SetIs(s, r, b, k, q), r[k + 1].t \notin {"T", "D"}
    PROVE  SetIs(s, r, b, k + 1, q)
<1>1. Count(r, "D", b, k + 1) = Count(r, "D", b, k)
  BY CountStep, CountType
<1>2. \A i \in (b + 1)..(k + 1) : r[i].t \in {"T", "D"} => i \in (b + 1)..k
  OBVIOUS
<1>3. \A i \in (b + 1)..k : i \in (b + 1)..(k + 1)
  OBVIOUS
<1> QED  BY <1>1, <1>2, <1>3 DEF SetIs

LEMMA SetDescribed ==
    ASSUME NEW r, NEW b \in Nat, NEW k \in Nat, b <= k, NEW q, r[k + 1].t = "T",
           \A i \in (b + 1)..k : r[i].t \notin {"T", "D"}
    PROVE  SetIs([cols |-> r[k + 1].n, rq |-> q, rows |-> <<>>], r, b, k + 1, q)
<1> DEFINE s == [cols |-> r[k + 1].n, rq |-> q, rows |-> <<>>]
<1>1. \A i \in (b + 1)..(k + 1) : i = k + 1 \/ r[i].t \notin {"T", "D"}
  OBVIOUS
<1>2. k + 1 \in (b + 1)..(k + 1) /\ k + 1 \in Nat
  OBVIOUS
<1>3. \A i \in (b + 1)..(k + 1) : r[i].t # "D"
  BY <1>1
<1>4. Count(r, "D", b, k + 1) = 0
  BY <1>2, <1>3, CountNone
<1>5. s.cols = r[k + 1].n /\ s.rq = q /\ Len(s.rows) = 0
  OBVIOUS
<1> HIDE DEF s
<1>6. SetIs(s, r, b, k + 1, q)
  BY <1>1, <1>2, <1>3, <1>4, <1>5 DEF SetIs
<1> QED  BY <1>6 DEF s

LEMMA SetRow ==
    ASSUME NEW r, NEW b \in Nat, NEW k \in Nat, b <= k, NEW q, r[k + 1].t = "D",
           NEW s \in ResultSets, SetIs(s, r, b, k, q),
           NEW i0 \in (b + 1)..k, r[i0].t = "T",
           NEW m \in Rows, m = [n |-> r[k + 1].n, rq |-> q]
    PROVE  SetIs([s EXCEPT !.rows = Append(@, m)], r, b, k + 1, q)
<1> DEFINE u == [s EXCEPT !.rows = Append(@, m)]
           a == Append(s.rows, m)
<1>1. s.rows \in Seq(Rows) /\ u.cols = s.cols /\ u.rq = s.rq /\ u.rows = a
  BY DEF ResultSets
<1>2. /\ Len(a) = Len(s.rows) + 1 /\ Len(s.rows) \in Nat /\ a[Len(s.rows) + 1] = m
      /\ \A j \in 1..Len(s.rows) : a[j] = s.rows[j]
  BY <1>1
<1>3. /\ s.rq = q /\ \A i \in (b + 1)..k : r[i].t = "T" => s.cols = r[i].n
      /\ Len(s.rows) = Count(r, "D", b, k)
      /\ \A i \in (b + 1)..k :
           r[i].t = "D" => s.rows[Count(r, "D", b, i)] = [n |-> r[i].n, rq |-> q]
  BY DEF SetIs
<1>4. Count(r, "D", b, k + 1) = Count(r, "D", b, k) + 1
  BY CountStep, CountType
<1>5. \A i \in (b + 1)..(k + 1) : i = k + 1 \/ i \in (b + 1)..k
  OBVIOUS
<1>6. i0 \in (b + 1)..(k + 1)
  OBVIOUS
<1> HIDE DEF u, a
<1>7. ASSUME NEW i \in (b + 1)..(k + 1), r[i].t = "D"
      PROVE  a[Count(r, "D", b, i)] = [n |-> r[i].n, rq |-> q]
  <2>1. CASE i = k + 1
    BY <1>2, <1>3, <1>4, <2>1
  <2>2. CASE i \in (b + 1)..k
    <3>1. Count(r, "D", b, i) \in 1..Len(s.rows)
      BY <1>3, <1>7, <2>2, CountPlace
    <3> QED  BY <1>2, <1>3, <1>7, <2>2, <3>1
  <2> QED  BY <1>5, <2>1, <2>2
<1>8. \A i \in (b + 1)..(k + 1) : r[i].t = "T" => u.cols = r[i].n
  BY <1>1, <1>3, <1>5
<1>9. SetIs(u, r, b, k + 1, q)
  BY <1>1, <1>2, <1>3, <1>4, <1>6, <1>7, <1>8 DEF SetIs
<1> QED  BY <1>9 DEF u

LEMMA ResultExtend ==
    ASSUME NEW r, NEW k \in Nat, NEW q, NEW res, ResultIs(res, r, k, q), r[k + 1].t # "C"
    PROVE  ResultIs(res, r, k + 1, q)
<1>1. Count(r, "C", 0, k + 1) = Count(r, "C", 0, k)
  BY CountStep, CountType
<1>2. ASSUME NEW b \in 0..(k + 1), NEW c \in 1..(k + 1), Command(r, b, c)
      PROVE  b \in 0..k /\ c \in 1..k
  BY <1>2 DEF Command
<1> QED  BY <1>1, <1>2 DEF ResultIs

(* A command has one beginning. *)
LEMMA SinceUnique ==
    ASSUME NEW r, NEW k \in Nat, NEW b \in Nat, NEW d \in Nat, Since(r, b, k), Since(r, d, k)
    PROVE  b = d
<1>1. b <= k /\ d <= k
  BY DEF Since
<1>2. ~(b < d)
  <2> SUFFICES ASSUME b < d PROVE FALSE
    OBVIOUS
  <2>1. d \in (b + 1)..k /\ d # 0
    BY <1>1
  <2> QED  BY <2>1 DEF Since
<1>3. ~(d < b)
  <2> SUFFICES ASSUME d < b PROVE FALSE
    OBVIOUS
  <2>1. b \in (d + 1)..k /\ b # 0
    BY <1>1
  <2> QED  BY <2>1 DEF Since
<1> QED  BY <1>2, <1>3

LEMMA AppendFacts ==
    ASSUME NEW S, NEW s \in Seq(S), NEW e \in S
    PROVE  /\ Len(Append(s, e)) = Len(s) + 1 /\ Len(s) \in Nat
           /\ Append(s, e)[Len(s) + 1] = e
           /\ \A j \in 1..Len(s) : Append(s, e)[j] = s[j]
OBVIOUS

LEMMA ResultPush ==
    ASSUME NEW r, NEW k \in Nat, NEW q, NEW res \in Seq(ResultSets), ResultIs(res, r, k, q),
           NEW b \in 0..k, Since(r, b, k), r[k + 1].t = "C",
           NEW s \in ResultSets, SetIs(s, r, b, k, q)
    PROVE  ResultIs(Append(res, s), r, k + 1, q)
<1> DEFINE a == Append(res, s)
<1>1. /\ Len(a) = Len(res) + 1 /\ Len(res) \in Nat /\ a[Len(res) + 1] = s
      /\ \A j \in 1..Len(res) : a[j] = res[j]
  BY AppendFacts
<1> HIDE DEF a
<1>2. Count(r, "C", 0, k + 1) = Count(r, "C", 0, k) + 1 /\ Len(res) = Count(r, "C", 0, k)
  <2>1. Len(res) = Count(r, "C", 0, k)
    BY DEF ResultIs
  <2>2. Count(r, "C", 0, k + 1) = Count(r, "C", 0, k) + (IF r[k + 1].t = "C" THEN 1 ELSE 0)
    BY CountStep
  <2>3. (IF r[k + 1].t = "C" THEN 1 ELSE 0) = 1
    OBVIOUS
  <2> QED  BY <2>1, <2>2, <2>3
<1>3. SetIs(s, r, b, k + 1, q)
  BY SetExtend
<1>4. ASSUME NEW d \in 0..(k + 1), NEW c \in 1..(k + 1), Command(r, d, c)
      PROVE  SetIs(a[Count(r, "C", 0, c)], r, d, c, q)
  <2>1. d < c /\ Since(r, d, c - 1) /\ r[c].t = "C" /\ d \in Nat
    BY <1>4 DEF Command
  <2>2. CASE c = k + 1
    <3>1. Since(r, d, k)
      BY <2>1, <2>2
    <3>2. d = b
      BY <2>1, <3>1, SinceUnique
    <3> QED  BY <1>1, <1>2, <1>3, <2>2, <3>2
  <2>3. CASE c # k + 1
    <3>1. c \in 1..k /\ d \in 0..k
      BY <2>1, <2>3
    <3>2. SetIs(res[Count(r, "C", 0, c)], r, d, c, q)
      BY <1>4, <3>1 DEF ResultIs
    <3>3. Count(r, "C", 0, c) \in 1..Len(res)
      BY <1>2, <2>1, <3>1, CountPlace
    <3>4. a[Count(r, "C", 0, c)] = res[Count(r, "C", 0, c)]
      BY <1>1, <3>3
    <3> QED  BY <3>2, <3>4
  <2> QED  BY <2>2, <2>3
<1>5. ResultIs(a, r, k + 1, q)
  BY <1>1, <1>2, <1>4 DEF ResultIs
<1> QED  BY <1>5 DEF a

-----------------------------------------------------------------------------
(* The inductive invariant.  An answer of the server: *)
Sound(r) ==
    /\ \A i \in 1..(Len(r) - 1) : r[i].t # "Z"
    /\ \A i \in 1..Len(r) : r[i].t = "E" => r[i].n # Ok
    /\ \A i, j \in 1..Len(r) : r[i].t = "E" /\ r[j].t = "E" => i = j

(* The client has taken k messages of r, the answer to request q, and what *)
(* is unread, s, is the rest of it, or what is left of that when the       *)
(* server is gone.  x are the unanswered requests. *)
RestOf(s, x, u, r, k, q) ==
    /\ k + Len(s) <= Len(r) /\ (u => k + Len(s) = Len(r))
    /\ \A i \in 1..Len(s) : s[i] = [t |-> r[k + i].t, n |-> r[k + i].n, rq |-> q]
    /\ x # <<>> => r = <<>>

(* Stages in which no description was taken since the last command.  The   *)
(* parser of one ("T") may be at work in any stage. *)
Undescribed == {"Unknown", "ParseComplete", "BindComplete", "RowDescOrNoData"}

(* What the operation holds is what the first k messages of r say.  (While *)
(* a description is parsed the set is not used.) *)
Gathered(x, p, c, res, e, r, k, q) ==
    /\ \E b \in 0..k :
         /\ Since(r, b, k)
         /\ p # "T" => SetIs(c, r, b, k, q)
         /\ (\A i \in (b + 1)..k : r[i].t # "T") => \A i \in (b + 1)..k : r[i].t # "D"
         /\ x \in Undescribed \/ p = "T" => \A i \in (b + 1)..k : r[i].t # "T"
    /\ p = "T" => x \notin Undescribed
    /\ ResultIs(res, r, k, q)
    /\ ErrorIs(e, r, k)

Own ==
    /\ Sound(answer)
    /\ \E k \in 0..Len(answer) :
         /\ RestOf(stream, inbox, up, answer, k, ops)
         /\ Gathered(expect, parsers, curr, result, err, answer, k, ops)

(* When an operation has ended its answer is not on its way any more,      *)
(* unless it gave up before it read any of it. *)
OwnInv ==
    /\ io # "idle" /\ missed = 0 /\ op # "connect" => Own
    /\ io = "idle" /\ ops > 1 /\ Behind = 0 /\ inbox # <<>>
         => outcome < Ok /\ endZ = 0 /\ result = <<>>
    /\ OwnAnswer

MixedOwn ==
    /\ io # "idle" /\ ~Resting /\ missed = 0 /\ op = "oneshot" => Own /\ ~late
    /\ writer = "unstarted" /\ missed = 0 => answer = <<>>
    /\ Resting => late
    /\ Resting /\ endZ # 0 /\ missed = 0
         => inbox = <<>> /\ ResultIs(result, answer, Len(answer), ops)
    /\ io = "idle" /\ op = "oneshot" /\ Behind = 0 /\ outcome >= Ok /\ (late => endZ # 0)
         => inbox = <<>>
    /\ OneshotOwnAnswer

-----------------------------------------------------------------------------
(* No stage goes back to one without a description but by a command's end. *)
LEMMA DescribingArcs ==
    ASSUME NEW k \in Kinds, k # "connect", NEW a \in Arcs[k]
    PROVE  /\ a.to \in Undescribed => a.at \in Undescribed
           /\ a.t = "T" => a.at \in Undescribed /\ a.to \notin Undescribed
           /\ k = "simple" /\ a.t = "I" => a.at \in Undescribed
<1>2. CASE k = "simple"
  <2>1. a \in SimpleArcs
    BY <1>2 DEF Arcs
  <2> QED  BY <1>2, <2>1 DEF SimpleArcs, AnyStage, Arc, SimpleStages, Undescribed
<1>3. CASE k = "parse"
  <2>1. a \in ParseArcs
    BY <1>3 DEF Arcs
  <2> QED  BY <1>3, <2>1 DEF ParseArcs, AnyStage, Arc, ParseStages, Undescribed
<1>4. CASE k = "execute"
  <2>1. a \in ExecuteArcs
    BY <1>4 DEF Arcs
  <2> QED  BY <1>4, <2>1 DEF ExecuteArcs, AnyStage, Arc, ExecuteStages, Undescribed
<1>5. CASE k = "oneshot"
  <2>1. a \in OneshotArcs
    BY <1>5 DEF Arcs
  <2> QED  BY <1>5, <2>1 DEF OneshotArcs, ExecuteArcs, AnyStage, Arc, ExecuteStages, Undescribed
<1> QED  BY <1>2, <1>3, <1>4, <1>5 DEF Kinds

LEMMA DescribingBodies ==
    ASSUME NEW k, k # "connect", NEW x, NEW y, y = "T" => x \notin Undescribed
    PROVE  BodyStage(k, x, y) \in Undescribed => y = "C" \/ (x \in Undescribed /\ y # "T")
BY DEF BodyStage, Undescribed

(* The type of a message is seen and selects a parser. *)
LEMMA PeekGathers ==
    ASSUME NEW r, NEW k \in Nat, NEW q, NEW x, NEW c, NEW res, NEW e,
           Gathered(x, "none", c, res, e, r, k, q),
           NEW y, NEW v, NEW d, v \in Undescribed \/ y = "T" \/ d # c => x \in Undescribed,
           y = "T" => v \notin Undescribed,
           y # "T" => d \in {c, NoSet}
    PROVE  Gathered(v, y, d, res, e, r, k, q)
<1>1. PICK b \in 0..k :
        /\ Since(r, b, k) /\ SetIs(c, r, b, k, q)
        /\ (\A i \in (b + 1)..k : r[i].t # "T") => \A i \in (b + 1)..k : r[i].t # "D"
        /\ x \in Undescribed => \A i \in (b + 1)..k : r[i].t # "T"
  BY DEF Gathered
<1>2. y # "T" => SetIs(d, r, b, k, q)
  <2>1. CASE d = c
    BY <1>1, <2>1
  <2>2. CASE d # c
    BY <1>1, <2>2 DEF SetIs
  <2> QED  BY <2>1, <2>2
<1>3. v \in Undescribed \/ y = "T" => \A i \in (b + 1)..k : r[i].t # "T"
  BY <1>1
<1> QED  BY <1>1, <1>2, <1>3 DEF Gathered

(* A message that is no part of a result. *)
LEMMA PassGathers ==
    ASSUME NEW r, NEW k \in Nat, NEW q, NEW x, NEW p, NEW c, NEW res, NEW e,
           Gathered(x, p, c, res, e, r, k, q), p = r[k + 1].t, p \notin {"T", "D", "C"},
           NEW v, v \in Undescribed => x \in Undescribed,
           NEW f, ErrorIs(f, r, k + 1)
    PROVE  Gathered(v, "none", c, res, f, r, k + 1, q)
<1>1. PICK b \in 0..k :
        /\ Since(r, b, k) /\ SetIs(c, r, b, k, q)
        /\ (\A i \in (b + 1)..k : r[i].t # "T") => \A i \in (b + 1)..k : r[i].t # "D"
        /\ x \in Undescribed => \A i \in (b + 1)..k : r[i].t # "T"
  BY DEF Gathered
<1>2. \A i \in (b + 1)..(k + 1) : i = k + 1 \/ i \in (b + 1)..k
  OBVIOUS
<1>3. \A i \in (b + 1)..k : i \in (b + 1)..(k + 1)
  OBVIOUS
<1>4. b \in 0..(k + 1) /\ b <= k + 1 /\ b \in Nat /\ b <= k
  OBVIOUS
<1>5. Since(r, b, k + 1)
  BY <1>1, <1>2, <1>4 DEF Since
<1>6. SetIs(c, r, b, k + 1, q)
  BY <1>1, <1>4, SetExtend
<1>7. (\A i \in (b + 1)..(k + 1) : r[i].t # "T") => \A i \in (b + 1)..(k + 1) : r[i].t # "D"
  BY <1>1, <1>2, <1>3
<1>8. v \in Undescribed => \A i \in (b + 1)..(k + 1) : r[i].t # "T"
  BY <1>1, <1>2
<1>9. ResultIs(res, r, k + 1, q)
  BY ResultExtend DEF Gathered
<1> QED  BY <1>4, <1>5, <1>6, <1>7, <1>8, <1>9 DEF Gathered

LEMMA DescriptionGathers ==
    ASSUME NEW r, NEW k \in Nat, NEW q, NEW x, NEW c, NEW res, NEW e,
           Gathered(x, "T", c, res, e, r, k, q), r[k + 1].t = "T",
           NEW v, v \notin Undescribed
    PROVE  Gathered(v, "none", [cols |-> r[k + 1].n, rq |-> q, rows |-> <<>>],
                    res, e, r, k + 1, q)
<1>1. PICK b \in 0..k :
        /\ Since(r, b, k)
        /\ \A i \in (b + 1)..k : r[i].t \notin {"T", "D"}
  BY DEF Gathered
<1>2. \A i \in (b + 1)..(k + 1) : i = k + 1 \/ i \in (b + 1)..k
  OBVIOUS
<1>4. b \in 0..(k + 1) /\ b <= k + 1 /\ b \in Nat /\ b <= k /\ k + 1 \in (b + 1)..(k + 1)
  OBVIOUS
<1>5. Since(r, b, k + 1)
  BY <1>1, <1>2, <1>4 DEF Since
<1>6. SetIs([cols |-> r[k + 1].n, rq |-> q, rows |-> <<>>], r, b, k + 1, q)
  BY <1>1, <1>4, SetDescribed
<1>7. ~ \A i \in (b + 1)..(k + 1) : r[i].t # "T"
  BY <1>4
<1>8. ResultIs(res, r, k + 1, q) /\ ErrorIs(e, r, k + 1)
  BY ResultExtend, ErrorExtend DEF Gathered
<1> QED  BY <1>4, <1>5, <1>6, <1>7, <1>8 DEF Gathered

LEMMA RowGathers ==
    ASSUME NEW r, NEW k \in Nat, NEW q, NEW x, NEW c \in ResultSets, c # NoSet, NEW res, NEW e,
           Gathered(x, "D", c, res, e, r, k, q), r[k + 1].t = "D",
           NEW v, v \in Undescribed => x \in Undescribed,
           NEW m \in Rows, m = [n |-> r[k + 1].n, rq |-> q]
    PROVE  Gathered(v, "none", [c EXCEPT !.rows = Append(@, m)], res, e, r, k + 1, q)
<1>1. PICK b \in 0..k :
        /\ Since(r, b, k) /\ SetIs(c, r, b, k, q)
        /\ x \in Undescribed => \A i \in (b + 1)..k : r[i].t # "T"
  BY DEF Gathered
<1>2. \A i \in (b + 1)..(k + 1) : i = k + 1 \/ i \in (b + 1)..k
  OBVIOUS
<1>3. PICK i \in (b + 1)..k : r[i].t = "T"
  BY <1>1 DEF SetIs
<1>4. b \in 0..(k + 1) /\ b <= k + 1 /\ b \in Nat /\ b <= k /\ i \in (b + 1)..(k + 1)
  OBVIOUS
<1>5. Since(r, b, k + 1)
  BY <1>1, <1>2, <1>4 DEF Since
<1>6. SetIs([c EXCEPT !.rows = Append(@, m)], r, b, k + 1, q)
  BY <1>1, <1>3, <1>4, SetRow
<1>7. ~ \A j \in (b + 1)..(k + 1) : r[j].t # "T"
  BY <1>3, <1>4
<1>8. v \notin Undescribed
  BY <1>1, <1>3
<1>9. ResultIs(res, r, k + 1, q) /\ ErrorIs(e, r, k + 1)
  BY ResultExtend, ErrorExtend DEF Gathered
<1> QED  BY <1>4, <1>5, <1>6, <1>7, <1>8, <1>9 DEF Gathered

LEMMA CommandGathers ==
    ASSUME NEW r, NEW k \in Nat, NEW q, NEW x, NEW c \in ResultSets,
           NEW res \in Seq(ResultSets), NEW e,
           Gathered(x, "C", c, res, e, r, k, q), r[k + 1].t = "C", NEW v
    PROVE  Gathered(v, "none", NoSet, Append(res, c), e, r, k + 1, q)
<1>1. PICK b \in 0..k : Since(r, b, k) /\ SetIs(c, r, b, k, q)
  BY DEF Gathered
<1>2. k + 1 \in 0..(k + 1)
  OBVIOUS
<1>3. \A i \in ((k + 1) + 1)..(k + 1) : FALSE
  OBVIOUS
<1>4. Since(r, k + 1, k + 1) /\ SetIs(NoSet, r, k + 1, k + 1, q)
  BY <1>3 DEF Since, SetIs
<1>5. ResultIs(Append(res, c), r, k + 1, q)
  BY <1>1, ResultPush DEF Gathered
<1>6. ErrorIs(e, r, k + 1)
  BY ErrorExtend DEF Gathered
<1> QED  BY <1>2, <1>3, <1>4, <1>5, <1>6 DEF Gathered

(* The next message is the first of the rest. *)
LEMMA RestTail ==
    ASSUME NEW s \in Seq(Tagged), s # <<>>, NEW r \in Seq(RawMessages), NEW x, NEW u,
           NEW k \in 0..Len(r), NEW q, RestOf(s, x, u, r, k, q)
    PROVE  /\ k \in Nat /\ k + 1 \in 0..Len(r) /\ k + 1 \in 1..Len(r)
           /\ s[1].t = r[k + 1].t /\ s[1].n = r[k + 1].n /\ s[1].rq = q
           /\ RestOf(Tail(s), x, u, r, k + 1, q)
           /\ x = <<>>
<1>1. /\ Len(s) \in Nat /\ Len(s) > 0 /\ Len(Tail(s)) = Len(s) - 1
      /\ \A i \in 1..(Len(s) - 1) : Tail(s)[i] = s[i + 1] /\ i + 1 \in 1..Len(s)
  BY TailFacts
<1>2. Len(r) \in Nat /\ k \in Nat
  OBVIOUS
<1>3. k + 1 <= Len(r) /\ 1 \in 1..Len(s)
  BY <1>1, <1>2 DEF RestOf
<1>4. s[1] = [t |-> r[k + 1].t, n |-> r[k + 1].n, rq |-> q]
  BY <1>3 DEF RestOf
<1>5. s[1].t = r[k + 1].t /\ s[1].n = r[k + 1].n /\ s[1].rq = q
  <2> DEFINE m == s[1]
  <2>1. m = [t |-> r[k + 1].t, n |-> r[k + 1].n, rq |-> q]
    BY <1>4
  <2> HIDE DEF m
  <2>2. m.t = r[k + 1].t /\ m.n = r[k + 1].n /\ m.rq = q
    BY <2>1
  <2> QED  BY <2>2 DEF m
<1>6. (k + 1) + Len(Tail(s)) = k + Len(s)
  BY <1>1, <1>2
<1>7. ASSUME NEW i \in 1..Len(Tail(s))
      PROVE  Tail(s)[i] = [t |-> r[(k + 1) + i].t, n |-> r[(k + 1) + i].n, rq |-> q]
  <2>1. Tail(s)[i] = s[i + 1] /\ i + 1 \in 1..Len(s) /\ k + (i + 1) = (k + 1) + i
    BY <1>1, <1>2
  <2>2. s[i + 1] = [t |-> r[k + (i + 1)].t, n |-> r[k + (i + 1)].n, rq |-> q]
    BY <2>1 DEF RestOf
  <2> QED  BY <2>1, <2>2
<1>8. r # <<>>
  BY <1>2, <1>3
<1>9. RestOf(Tail(s), x, u, r, k + 1, q)
  BY <1>6, <1>7 DEF RestOf
<1> QED  BY <1>2, <1>3, <1>5, <1>8, <1>9 DEF RestOf

-----------------------------------------------------------------------------
(* One turn of the parse loop.  What a parser that is done takes is the    *)
(* next message of the answer. *)
LEMMA TakesNext ==
    ASSUME NEW l \in Int, OrderTo(l), TypeOK, Own,
           NEW e \in {"desc", "row", "push", "auth", "ready", "fail", "keep", "dismiss"},
           Parsed(e)
    PROVE  \E k \in Nat :
             /\ k + 1 \in 0..Len(answer) /\ k + 1 \in 1..Len(answer)
             /\ Gathered(expect, parsers, curr, result, err, answer, k, ops)
             /\ answer[k + 1].t = parsers /\ answer[k + 1].n = Head(stream).n
             /\ Head(stream).rq = ops
             /\ RestOf(stream', inbox', up', answer, k + 1, ops)
             /\ inbox' = <<>> /\ answer' = answer /\ ops' = ops /\ op' = op
<1>1. PICK k \in 0..Len(answer) :
        /\ RestOf(stream, inbox, up, answer, k, ops)
        /\ Gathered(expect, parsers, curr, result, err, answer, k, ops)
  BY DEF Own
<1>2. /\ stream # <<>> /\ stream[1].t = parsers /\ Head(stream) = stream[1]
      /\ stream' = Tail(stream) /\ inbox' = inbox /\ up' = up /\ op' = op /\ ops' = ops
  BY ParsedMessage
<1>3. stream \in Seq(Tagged) /\ answer \in Seq(RawMessages)
  BY DEF TypeOK
<1>4. /\ k \in Nat /\ k + 1 \in 0..Len(answer) /\ k + 1 \in 1..Len(answer)
      /\ stream[1].t = answer[k + 1].t /\ stream[1].n = answer[k + 1].n /\ stream[1].rq = ops
      /\ RestOf(Tail(stream), inbox, up, answer, k + 1, ops)
      /\ inbox = <<>>
  BY <1>1, <1>2, <1>3, RestTail
<1>5. answer' = answer
  BY DEF Parsed
<1> QED  BY <1>1, <1>2, <1>4, <1>5

(* So the operation goes on with one more message gathered. *)
LEMMA GoesOn ==
    ASSUME Sound(answer), answer' = answer, ops' = ops, NEW k \in 0..Len(answer),
           RestOf(stream', inbox', up', answer, k, ops),
           Gathered(expect', parsers', curr', result', err', answer, k, ops)
    PROVE  Own'
BY DEF Own

LEMMA PeekOwn ==
    ASSUME TypeOK, op # "connect", Own, Peek
    PROVE  Own'
<1>1. PICK k \in 0..Len(answer) :
        /\ RestOf(stream, inbox, up, answer, k, ops)
        /\ Gathered(expect, "none", curr, result, err, answer, k, ops)
  BY DEF Own, Peek
<1>2. PICK a \in Arcs[op] :
        /\ a.at = expect /\ expect' = a.to /\ parsers' = a.t
        /\ curr' = IF op = "simple" /\ a.t = "T"
                   THEN [cols |-> 0, rq |-> Head(stream).rq, rows |-> <<>>]
                   ELSE IF op = "simple" /\ a.t = "I" THEN NoSet ELSE curr
  BY DEF Peek
<1>3. /\ a.to \in Undescribed => a.at \in Undescribed
      /\ a.t = "T" => a.at \in Undescribed /\ a.to \notin Undescribed
      /\ op = "simple" /\ a.t = "I" => a.at \in Undescribed
  BY DescribingArcs DEF TypeOK
<1>4. /\ expect' \in Undescribed \/ parsers' = "T" \/ curr' # curr => expect \in Undescribed
      /\ parsers' = "T" => expect' \notin Undescribed
      /\ parsers' # "T" => curr' \in {curr, NoSet}
  BY <1>2, <1>3
<1>5. k \in Nat
  BY DEF TypeOK
<1>6. Gathered(expect', parsers', curr', result, err, answer, k, ops)
  BY <1>1, <1>4, <1>5, PeekGathers
<1>7. /\ UNCHANGED <<op, ops, err, result, stream, inbox, up, answer>>
      /\ Sound(answer)
  BY DEF Peek, netVars, Own
<1> QED  BY <1>1, <1>6, <1>7, GoesOn

LEMMA DismissedOwn ==
    ASSUME NEW l \in Int, OrderTo(l), TypeOK, op # "connect", Own, Dismissed
    PROVE  Own'
<1>1. PICK k \in Nat :
             /\ k + 1 \in 0..Len(answer)
             /\ Gathered(expect, parsers, curr, result, err, answer, k, ops)
             /\ answer[k + 1].t = parsers
             /\ RestOf(stream', inbox', up', answer, k + 1, ops)
             /\ answer' = answer /\ ops' = ops
  BY TakesNext DEF Dismissed
<1>2. parsers \notin {"T", "D", "C", "E"}
  BY EffectsLemma DEF Dismissed, Parsed, TypeOK
<1>3. /\ parsers' = "none" /\ expect' = BodyStage(op, expect, parsers)
      /\ err' = err /\ curr' = curr /\ result' = result
  BY DEF Dismissed, Continue
<1>4. expect' \in Undescribed => expect \in Undescribed
  BY <1>2, <1>3, DescribingBodies
<1>5. ErrorIs(err, answer, k + 1)
  BY <1>1, <1>2, ErrorExtend DEF Gathered
<1>6. Gathered(expect', "none", curr, result, err, answer, k + 1, ops)
  BY <1>1, <1>2, <1>4, <1>5, PassGathers
<1> QED  BY <1>1, <1>3, <1>6, GoesOn DEF Own

LEMMA DescriptionOwn ==
    ASSUME NEW l \in Int, OrderTo(l), TypeOK, op # "connect", Own, RowDescription
    PROVE  Own'
<1>1. PICK k \in Nat :
             /\ k + 1 \in 0..Len(answer)
             /\ Gathered(expect, parsers, curr, result, err, answer, k, ops)
             /\ answer[k + 1].t = parsers /\ answer[k + 1].n = Head(stream).n
             /\ Head(stream).rq = ops
             /\ RestOf(stream', inbox', up', answer, k + 1, ops)
             /\ answer' = answer /\ ops' = ops
  BY TakesNext DEF RowDescription
<1>2. parsers = "T"
  BY EffectsLemma DEF RowDescription, Parsed, TypeOK
<1>3. /\ parsers' = "none" /\ expect' = BodyStage(op, expect, parsers)
      /\ err' = err /\ result' = result
      /\ curr' = [cols |-> answer[k + 1].n, rq |-> ops, rows |-> <<>>]
  BY <1>1 DEF RowDescription, Continue
<1>4. expect' \notin Undescribed
  BY <1>1, <1>2, <1>3, DescribingBodies DEF Gathered
<1>5. Gathered(expect', "none", curr', result, err, answer, k + 1, ops)
  BY <1>1, <1>2, <1>3, <1>4, DescriptionGathers
<1> QED  BY <1>1, <1>3, <1>5, GoesOn DEF Own

LEMMA RowOwn ==
    ASSUME NEW l \in Int, OrderTo(l), TypeOK, RowsInv, op # "connect", Own, DataRow
    PROVE  Own'
<1>1. PICK k \in Nat :
             /\ k + 1 \in 0..Len(answer)
             /\ Gathered(expect, parsers, curr, result, err, answer, k, ops)
             /\ answer[k + 1].t = parsers /\ answer[k + 1].n = Head(stream).n
             /\ Head(stream).rq = ops
             /\ RestOf(stream', inbox', up', answer, k + 1, ops)
             /\ answer' = answer /\ ops' = ops
  BY TakesNext DEF DataRow
<1>2. parsers = "D"
  BY EffectsLemma DEF DataRow, Parsed, TypeOK
<1> DEFINE m == [n |-> answer[k + 1].n, rq |-> ops]
<1>3. /\ parsers' = "none" /\ expect' = BodyStage(op, expect, parsers)
      /\ err' = err /\ result' = result
      /\ curr' = [curr EXCEPT !.rows = Append(@, m)]
  BY <1>1 DEF DataRow, Continue
<1>4. expect' \in Undescribed => expect \in Undescribed
  BY <1>1, <1>2, <1>3, DescribingBodies DEF Gathered
<1>5. m \in Rows
  <2>1. Head(stream).n >= 0 /\ Head(stream) \in Tagged
    BY ParsedType DEF DataRow, Parsed, BodyOK
  <2>2. Head(stream).n \in Nat /\ Head(stream).rq \in Nat
    BY <2>1 DEF Tagged
  <2> QED  BY <1>1, <2>2 DEF Rows
<1>6. curr \in ResultSets /\ curr # NoSet
  BY <1>2 DEF TypeOK, RowsInv, RowsMatchDescription
<1> HIDE DEF m
<1>7. Gathered(expect', "none", curr', result, err, answer, k + 1, ops)
  <2>1. m = [n |-> answer[k + 1].n, rq |-> ops]
    BY DEF m
  <2> QED  BY <1>1, <1>2, <1>3, <1>4, <1>5, <1>6, <2>1, RowGathers
<1> QED  BY <1>1, <1>3, <1>7, GoesOn DEF Own

LEMMA CommandOwn ==
    ASSUME NEW l \in Int, OrderTo(l), TypeOK, op # "connect", Own, CommandComplete
    PROVE  Own'
<1>1. PICK k \in Nat :
             /\ k + 1 \in 0..Len(answer)
             /\ Gathered(expect, parsers, curr, result, err, answer, k, ops)
             /\ answer[k + 1].t = parsers
             /\ RestOf(stream', inbox', up', answer, k + 1, ops)
             /\ answer' = answer /\ ops' = ops
  BY TakesNext DEF CommandComplete
<1>2. parsers = "C"
  BY EffectsLemma DEF CommandComplete, Parsed, TypeOK
<1>3. parsers' = "none" /\ err' = err /\ result' = Append(result, curr) /\ curr' = NoSet
  BY DEF CommandComplete, Continue
<1>4. curr \in ResultSets /\ result \in Seq(ResultSets)
  BY DEF TypeOK
<1>5. Gathered(expect', "none", NoSet, Append(result, curr), err, answer, k + 1, ops)
  BY <1>1, <1>2, <1>4, CommandGathers
<1> QED  BY <1>1, <1>3, <1>5, GoesOn DEF Own

(* The error of an answer with no other. *)
LEMMA ErrorTaken ==
    ASSUME NEW r, Sound(r), NEW k \in Nat, k + 1 \in 1..Len(r), r[k + 1].t = "E",
           NEW d \in Nat, k < d, d <= Len(r), Len(r) \in Nat
    PROVE  ErrorIs(r[k + 1].n, r, d)
<1>1. \A i \in 1..d : i \in 1..Len(r)
  OBVIOUS
<1>2. \A i \in 1..d : r[i].t = "E" => i = k + 1
  BY <1>1 DEF Sound
<1>3. k + 1 \in 1..d
  OBVIOUS
<1> QED  BY <1>2, <1>3 DEF ErrorIs

LEMMA ErrorOwn ==
    ASSUME NEW l \in Int, OrderTo(l), TypeOK, op # "connect", Own, ErrorKept
    PROVE  Own'
<1>1. PICK k \in Nat :
             /\ k + 1 \in 0..Len(answer) /\ k + 1 \in 1..Len(answer)
             /\ Gathered(expect, parsers, curr, result, err, answer, k, ops)
             /\ answer[k + 1].t = parsers /\ answer[k + 1].n = Head(stream).n
             /\ RestOf(stream', inbox', up', answer, k + 1, ops)
             /\ answer' = answer /\ ops' = ops
  BY TakesNext DEF ErrorKept
<1>2. parsers = "E"
  BY EffectsLemma DEF ErrorKept, Parsed, TypeOK
<1>3. /\ parsers' = "none" /\ expect' = BodyStage(op, expect, parsers)
      /\ err' = answer[k + 1].n /\ curr' = curr /\ result' = result
  BY <1>1 DEF ErrorKept, Continue
<1>4. expect' \in Undescribed => expect \in Undescribed
  BY <1>2, <1>3, DescribingBodies
<1>5. Len(answer) \in Nat
  BY DEF TypeOK
<1>6. ErrorIs(err', answer, k + 1)
  <2>1. k + 1 \in Nat /\ k < k + 1 /\ k + 1 <= Len(answer)
    BY <1>1, <1>5
  <2> QED  BY <1>1, <1>2, <1>3, <1>5, <2>1, ErrorTaken DEF Own
<1>7. Gathered(expect', "none", curr, result, err', answer, k + 1, ops)
  BY <1>1, <1>2, <1>4, <1>6, PassGathers
<1> QED  BY <1>1, <1>3, <1>7, GoesOn DEF Own

LEMMA TurnOwn ==
    ASSUME NEW l \in Int, OrderTo(l), TypeOK, RowsInv, op # "connect", Own,
           Peek \/ Dismissed \/ RowDescription \/ DataRow \/ CommandComplete \/ ErrorKept
    PROVE  Own'
BY PeekOwn, DismissedOwn, DescriptionOwn, RowOwn, CommandOwn, ErrorOwn

-----------------------------------------------------------------------------
(* An operation that starts in sync has gathered nothing. *)
LEMMA GatheredNothing ==
    ASSUME NEW r, NEW q, NEW x
    PROVE  Gathered(x, "none", NoSet, <<>>, Ok, r, 0, q)
<1>1. Count(r, "C", 0, 0) = 0 /\ Len(<<>>) = 0
  BY CountNone
<1>2. Since(r, 0, 0) /\ SetIs(NoSet, r, 0, 0, q) /\ ErrorIs(Ok, r, 0)
  BY DEF Since, SetIs, ErrorIs
<1>3. ResultIs(<<>>, r, 0, q)
  BY <1>1 DEF ResultIs
<1>4. 0 \in 0..0
  OBVIOUS
<1> QED  BY <1>2, <1>3, <1>4 DEF Gathered

LEMMA FreshOwn ==
    ASSUME TypeOK, NEW k, Fresh(k), stream = <<>>, inbox = <<>>
    PROVE  Own'
<1>1. /\ ops' = ops + 1 /\ parsers' = "none" /\ err' = Ok /\ curr' = NoSet /\ result' = <<>>
      /\ answer' = <<>> /\ stream' = <<>>
  BY DEF Fresh
<1>2. Len(<<>>) = 0
  OBVIOUS
<1>3. Sound(<<>>) /\ RestOf(<<>>, inbox', up', <<>>, 0, ops')
  BY <1>2 DEF Sound, RestOf
<1>4. Gathered(expect', "none", NoSet, <<>>, Ok, <<>>, 0, ops')
  BY GatheredNothing
<1>5. 0 \in 0..Len(<<>>)
  BY <1>2
<1> QED  BY <1>1, <1>3, <1>4, <1>5 DEF Own

LEMMA QuietOwn ==
    ASSUME Own, UNCHANGED <<opVars, netVars>>
    PROVE  Own'
BY DEF Own, opVars, netVars

LEMMA WritesOwn ==
    ASSUME Own, UNCHANGED <<opVars, stream, up, answer>>, stream = <<>>, answer = <<>>
    PROVE  Own'
<1>1. PICK k \in 0..Len(answer) :
        /\ RestOf(stream, inbox, up, answer, k, ops)
        /\ Gathered(expect, parsers, curr, result, err, answer, k, ops)
  BY DEF Own
<1>2. RestOf(stream, inbox', up, answer, k, ops)
  BY <1>1 DEF RestOf
<1> QED  BY <1>1, <1>2 DEF Own, opVars

-----------------------------------------------------------------------------
(* The server answers. *)
LEMMA GatheredAnew ==
    ASSUME NEW s, NEW r, NEW q, NEW x, NEW p, NEW c, NEW res, NEW e,
           Gathered(x, p, c, res, e, s, 0, q)
    PROVE  Gathered(x, p, c, res, e, r, 0, q)
<1>1. Count(r, "C", 0, 0) = 0 /\ Count(s, "C", 0, 0) = 0
  BY CountNone
<1>2. ResultIs(res, r, 0, q)
  BY <1>1 DEF Gathered, ResultIs
<1>3. PICK b \in 0..0 : p # "T" => SetIs(c, s, b, 0, q)
  BY DEF Gathered
<1>4. p # "T" => SetIs(c, r, 0, 0, q)
  BY <1>3 DEF SetIs
<1>5. Since(r, 0, 0) /\ ErrorIs(e, r, 0) /\ 0 \in 0..0
  BY DEF Since, Gathered, ErrorIs
<1> QED  BY <1>2, <1>4, <1>5 DEF Gathered

LEMMA WholeSound ==
    ASSUME WholeAnswers, OneError, NEW k \in Kinds \cup {"password"}, NEW r \in Replies(k)
    PROVE  r \in Seq(RawMessages) /\ r # <<>> /\ Sound(r)
<1>1. r \in Seq(RawMessages) /\ r # <<>>
  BY ReplyAssumption
<1>2. \A i \in 1..(Len(r) - 1) : i \in 1..Len(r) /\ i < Len(r)
  BY <1>1
<1> QED  BY <1>1, <1>2 DEF WholeAnswers, OneError, Sound

LEMMA ReplyOwn ==
    ASSUME WholeAnswers, OneError, NEW l \in Int, l <= ops, OrderTo(l), TypeOK,
           io # "idle", missed = 0, Own, Reply
    PROVE  Own'
<1>1. PICK k \in 0..Len(answer) :
        /\ RestOf(stream, inbox, up, answer, k, ops)
        /\ Gathered(expect, parsers, curr, result, err, answer, k, ops)
  BY DEF Own
<1>2. inbox # <<>> /\ inbox \in Seq(Requests) /\ stream \in Seq(Tagged) /\ up /\ up \in BOOLEAN
  BY DEF Reply, TypeOK
<1>3. answer = <<>> /\ k = 0 /\ Len(stream) = 0
  <2>1. answer = <<>> /\ Len(answer) = 0
    BY <1>1, <1>2 DEF RestOf
  <2>2. Len(stream) \in Nat /\ k + Len(stream) <= Len(answer) /\ k = 0
    BY <1>1, <1>2, <2>1 DEF RestOf
  <2> QED  BY <2>1, <2>2
<1>4. stream = <<>>
  BY <1>2, <1>3
<1>5. First = ops /\ ops \in Int
  BY FirstType DEF First
<1>6. Pending(stream, inbox, up, First, l)
  BY DEF OrderTo, Phases, Queued
<1>7. /\ Len(inbox) \in Nat /\ Len(inbox) > 0 /\ Head(inbox) = inbox[1] /\ inbox[1] \in Requests
      /\ 1 \in 1..Len(inbox) /\ (Tail(inbox) = <<>> <=> Len(inbox) = 1)
  BY <1>2, TailFacts
<1>8. First = l - Len(inbox) + 1
  BY <1>2, <1>4, <1>6 DEF Pending
<1>9. Len(inbox) = 1 /\ l = ops
  BY <1>5, <1>7, <1>8
<1>10. inbox[1].rq = ops
  BY <1>6, <1>7, <1>9 DEF Pending
<1>11. PICK r \in Replies(inbox[1].kind) :
         /\ stream' = stream \o Tag(r, ops) /\ answer' = r
         /\ inbox' = IF up' THEN Tail(inbox) ELSE <<>>
  BY <1>7, <1>10 DEF Reply
<1>12. inbox' = <<>>
  BY <1>7, <1>9, <1>11
<1>13. inbox[1].kind \in Kinds \cup {"password"} /\ ops \in Nat
  BY <1>7 DEF Requests, TypeOK
<1>14. r \in Seq(RawMessages) /\ r # <<>> /\ Sound(r)
  BY <1>11, <1>13, WholeSound
<1>15. /\ Tag(r, ops) \in Seq(Tagged) /\ Len(Tag(r, ops)) = Len(r) /\ Len(r) \in Nat
       /\ \A i \in 1..Len(r) : Tag(r, ops)[i] = [t |-> r[i].t, n |-> r[i].n, rq |-> ops]
  BY <1>13, <1>14, TagFacts DEF Tag
<1>16. stream' = Tag(r, ops)
  BY <1>4, <1>11, <1>15
<1>17. RestOf(Tag(r, ops), <<>>, up', r, 0, ops)
  <2>1. \A i \in 1..Len(r) : 0 + i = i
    OBVIOUS
  <2> QED  BY <1>15, <2>1 DEF RestOf
<1>18. Gathered(expect, parsers, curr, result, err, r, 0, ops)
  BY <1>1, <1>3, GatheredAnew
<1>19. UNCHANGED opVars
  BY DEF Reply
<1>20. 0 \in 0..Len(r)
  BY <1>15
<1> QED  BY <1>11, <1>12, <1>14, <1>16, <1>17, <1>18, <1>19, <1>20 DEF Own, opVars

LEMMA DieOwn ==
    ASSUME TypeOK, Own, Die
    PROVE  Own'
<1>1. PICK k \in 0..Len(answer) :
        /\ RestOf(stream, inbox, up, answer, k, ops)
        /\ Gathered(expect, parsers, curr, result, err, answer, k, ops)
  BY DEF Own
<1>2. PICK j \in have..Len(stream) : stream' = SubSeq(stream, 1, j)
  BY DEF Die
<1>3. stream \in Seq(Tagged) /\ Len(stream) \in Nat /\ j \in 0..Len(stream)
      /\ answer \in Seq(RawMessages) /\ Len(answer) \in Nat
  BY <1>2 DEF TypeOK
<1>4. /\ Len(SubSeq(stream, 1, j)) = j
      /\ \A i \in 1..j : SubSeq(stream, 1, j)[i] = stream[i] /\ i \in 1..Len(stream)
  BY <1>3
<1>5. RestOf(SubSeq(stream, 1, j), <<>>, FALSE, answer, k, ops)
  BY <1>1, <1>3, <1>4 DEF RestOf
<1>6. UNCHANGED opVars /\ answer' = answer /\ up' = FALSE /\ inbox' = <<>>
  BY DEF Die
<1> QED  BY <1>1, <1>2, <1>5, <1>6 DEF Own, opVars

-----------------------------------------------------------------------------
(* An operation that reads its answer to the end holds what it says. *)
LEMMA AnswerRead ==
    ASSUME NEW l \in Int, OrderTo(l), TypeOK, Own, Parsed("ready")
    PROVE  /\ inbox' = <<>> /\ answer' = answer /\ ops' = ops
           /\ ErrorIs(err, answer, Len(answer))
           /\ ResultIs(result, answer, Len(answer), ops)
<1>1. PICK k \in Nat :
             /\ k + 1 \in 1..Len(answer)
             /\ Gathered(expect, parsers, curr, result, err, answer, k, ops)
             /\ answer[k + 1].t = parsers
             /\ inbox' = <<>> /\ answer' = answer /\ ops' = ops
  BY TakesNext
<1>2. parsers = "Z"
  BY EndingsLemma DEF Parsed, TypeOK
<1>3. Len(answer) \in Nat
  BY DEF TypeOK
<1>4. k + 1 = Len(answer)
  <2>1. ~(k + 1 \in 1..(Len(answer) - 1))
    BY <1>1, <1>2 DEF Own, Sound
  <2> QED  BY <1>1, <1>3, <2>1
<1>5. ErrorIs(err, answer, k + 1)
  BY <1>1, <1>2, ErrorExtend DEF Gathered
<1>6. ResultIs(result, answer, k + 1, ops)
  BY <1>1, <1>2, ResultExtend DEF Gathered
<1> QED  BY <1>1, <1>4, <1>5, <1>6

(* And one that stops at an error reports the only one there is. *)
LEMMA ErrorRead ==
    ASSUME NEW l \in Int, OrderTo(l), TypeOK, Own, Parsed("fail")
    PROVE  /\ inbox' = <<>> /\ answer' = answer /\ ops' = ops
           /\ ErrorIs(Head(stream).n, answer, Len(answer)) /\ Head(stream).n # Ok
           /\ \E k \in 1..Len(answer) : ResultIs(result, answer, k, ops) /\ answer[k].t = "E"
<1>1. PICK k \in Nat :
             /\ k + 1 \in 1..Len(answer)
             /\ Gathered(expect, parsers, curr, result, err, answer, k, ops)
             /\ answer[k + 1].t = parsers /\ answer[k + 1].n = Head(stream).n
             /\ inbox' = <<>> /\ answer' = answer /\ ops' = ops
  BY TakesNext
<1>2. parsers = "E"
  BY EndingsLemma DEF Parsed, TypeOK
<1>3. Len(answer) \in Nat /\ k < Len(answer)
  BY <1>1 DEF TypeOK
<1>4. ErrorIs(answer[k + 1].n, answer, Len(answer))
  BY <1>1, <1>2, <1>3, ErrorTaken DEF Own
<1>5. answer[k + 1].n # Ok
  BY <1>1, <1>2 DEF Own, Sound
<1>6. ResultIs(result, answer, k + 1, ops)
  BY <1>1, <1>2, ResultExtend DEF Gathered
<1> QED  BY <1>1, <1>2, <1>4, <1>5, <1>6

-----------------------------------------------------------------------------
(* OwnInv when an operation runs on, when it ends with an error of the     *)
(* client's own, and when it ends with its answer read. *)
LEMMA RunsOnOwn ==
    ASSUME io' # "idle", missed' = 0 /\ op' # "connect" => Own'
    PROVE  OwnInv'
BY DEF OwnInv, OwnAnswer

LEMMA GivesUpOwn ==
    ASSUME OwnInv, TypeOK, io # "idle", op # "connect",
           NEW e \in {Malformed, Unable, Transport}, NEW lost, Complete(e, 0, lost),
           UNCHANGED <<opVars, netVars>>
    PROVE  OwnInv'
<1>1. /\ io' = "idle" /\ outcome' = e /\ outcome' < Ok /\ ~(outcome' >= Ok)
      /\ endZ' = 0 /\ missed' = missed + 1 /\ missed \in Nat
      /\ UNCHANGED <<ops, result, answer, inbox>>
  BY OwnErrorsNegative DEF Complete, Closes, TypeOK, Ok, opVars, netVars
<1>2. CASE missed = 0
  <2>1. PICK k \in 0..Len(answer) :
          /\ RestOf(stream, inbox, up, answer, k, ops)
          /\ Gathered(expect, parsers, curr, result, err, answer, k, ops)
    BY <1>2 DEF OwnInv, Own
  <2>2. ResultIs(result, answer, k, ops)
    BY <2>1 DEF Gathered
  <2>3. OwnAnswer'
    BY <1>1, <2>2 DEF OwnAnswer
  <2>4. ASSUME inbox # <<>> PROVE result = <<>>
    <3>1. answer = <<>> /\ Len(<<>>) = 0
      BY <2>1, <2>4 DEF RestOf
    <3>2. k = 0 /\ Count(answer, "C", 0, 0) = 0
      BY <3>1, CountNone
    <3>3. Len(result) = 0 /\ result \in Seq(ResultSets)
      BY <2>2, <3>2 DEF ResultIs, TypeOK
    <3> QED  BY <3>3
  <2> QED  BY <1>1, <2>3, <2>4 DEF OwnInv
<1>3. CASE missed # 0
  <2>1. Behind' # 0
    BY <1>1, <1>3 DEF Behind
  <2> QED  BY <1>1, <2>1 DEF OwnInv, OwnAnswer
<1> QED  BY <1>2, <1>3

(* An error of the server has a code. *)
LEMMA ErrorHasCode ==
    ASSUME NEW l \in Int, OrderTo(l), TypeOK, Parsed("fail")
    PROVE  Head(stream).n # Ok
<1>1. io # "idle" /\ stream # <<>> /\ stream[1].t = parsers /\ Head(stream) = stream[1]
  BY ParsedMessage
<1>2. parsers = "E"
  BY EndingsLemma DEF Parsed, TypeOK
<1> QED  BY <1>1, <1>2, FirstMessage DEF Shape

LEMMA ReadyOwn ==
    ASSUME OrderInv, TypeOK, OwnInv, ReadyForQuery
    PROVE  OwnInv'
<1>1. PICK l \in Int : l = ops
  BY FirstType
<1>2. OrderTo(l)
  BY <1>1 DEF OrderInv
<1>3. /\ Parsed("ready") /\ io' = "idle" /\ outcome' = err
      /\ Closes(err, Head(stream).rq, FALSE) /\ UNCHANGED result
  BY DEF ReadyForQuery, Complete
<1>4. io # "idle" /\ ops' = ops /\ Head(stream).rq = First
  BY <1>2, <1>3, ParsedMessage
<1>5. endZ' # 0 /\ missed' \in {missed, missed + 1} /\ missed \in Nat
  BY <1>2, <1>3, <1>4 DEF Closes, OrderTo, Phases, TypeOK
<1>6. CASE missed = 0 /\ ops > 1
  <2>1. op # "connect"
    BY <1>2, <1>4, <1>6 DEF OrderTo, Phases
  <2>2. Own
    BY <1>4, <1>6, <2>1 DEF OwnInv
  <2>3. /\ inbox' = <<>> /\ answer' = answer
        /\ ErrorIs(err, answer, Len(answer)) /\ ResultIs(result, answer, Len(answer), ops)
    BY <1>2, <1>3, <2>2, AnswerRead
  <2>4. Len(answer) \in 0..Len(answer)
    BY DEF TypeOK
  <2>5. OwnAnswer'
    BY <1>3, <1>4, <1>5, <2>3, <2>4 DEF OwnAnswer
  <2> QED  BY <1>3, <1>4, <2>3, <2>5 DEF OwnInv
<1>7. CASE ~(missed = 0 /\ ops > 1)
  <2>1. ~(ops' > 1 /\ Behind' = 0)
    BY <1>4, <1>5, <1>7 DEF Behind
  <2> QED  BY <1>3, <2>1 DEF OwnInv, OwnAnswer
<1> QED  BY <1>6, <1>7

LEMMA ReportedOwn ==
    ASSUME OrderInv, TypeOK, OwnInv, ErrorReported
    PROVE  OwnInv'
<1>1. PICK l \in Int : l = ops
  BY FirstType
<1>2. OrderTo(l)
  BY <1>1 DEF OrderInv
<1>3. /\ Parsed("fail") /\ io' = "idle" /\ outcome' = Head(stream).n
      /\ Closes(Head(stream).n, 0, FALSE) /\ UNCHANGED result
  BY DEF ErrorReported, Complete
<1>4. io # "idle" /\ ops' = ops
  BY <1>2, <1>3, ParsedMessage
<1>5. op \notin {"execute", "oneshot"}
  BY <1>3, EndingsLemma DEF Parsed, TypeOK
<1>6. endZ' = 0 /\ missed' \in {missed, missed + 1} /\ missed \in Nat
  BY <1>3 DEF Closes, TypeOK
<1>7. CASE missed = 0 /\ ops > 1
  <2>1. op # "connect"
    BY <1>2, <1>4, <1>7 DEF OrderTo, Phases
  <2>2. Own
    BY <1>4, <1>7, <2>1 DEF OwnInv
  <2>3. /\ inbox' = <<>> /\ answer' = answer
        /\ ErrorIs(outcome', answer, Len(answer))
    BY <1>2, <1>3, <2>2, ErrorRead
  <2>4. PICK k \in 1..Len(answer) : ResultIs(result, answer, k, ops) /\ answer[k].t = "E"
    BY <1>2, <1>3, <2>2, ErrorRead
  <2>5. k \in 0..Len(answer) /\ k > 0
    BY DEF TypeOK
  <2>6. OwnAnswer'
    BY <1>3, <1>4, <1>6, <2>3, <2>4, <2>5 DEF OwnAnswer
  <2> QED  BY <1>3, <2>3, <2>6 DEF OwnInv
<1>8. CASE ~(missed = 0 /\ ops > 1)
  <2>1. CASE ~(ops > 1)
    BY <1>3, <1>4, <2>1 DEF OwnInv, OwnAnswer
  <2>2. CASE missed # 0 /\ ops > 1
    <3>1. op # "connect" /\ Head(stream).n # Ok
      BY <1>2, <1>3, <1>4, <2>2, ErrorHasCode DEF OrderTo, Phases
    <3>2. Behind' # 0
      BY <1>3, <1>5, <1>6, <2>2, <3>1 DEF Behind, Closes
    <3> QED  BY <1>3, <3>2 DEF OwnInv, OwnAnswer
  <2> QED  BY <1>8, <2>1, <2>2
<1> QED  BY <1>7, <1>8

(* The first operation is not spoken of. *)
LEMMA ConnectOwn ==
    ASSUME OrderInv, io # "idle", op = "connect", op' = op, ops' = ops
    PROVE  OwnInv'
<1>1. ops = 1
  BY DEF OrderInv, OrderTo, Phases
<1> QED  BY <1>1 DEF OwnInv, OwnAnswer

LEMMA StartOwn ==
    ASSUME OrderInv, TypeOK, NEW k \in Kinds, Start(k)
    PROVE  OwnInv'
<1>1. io = "idle" /\ io' # "idle" /\ Fresh(k) /\ missed' = missed
  BY DEF Start, Fresh
<1>2. ASSUME missed' = 0, op' # "connect" PROVE Own'
  <2>1. stream = <<>> /\ inbox = <<>>
    BY <1>1, <1>2, NothingOwed
  <2> QED  BY <1>1, <2>1, FreshOwn
<1> QED  BY <1>1, <1>2, RunsOnOwn

LEMMA BodyOwn ==
    ASSUME OrderInv, TypeOK, RowsInv, OwnInv, Body, op # "connect"
    PROVE  OwnInv'
<1>1. PICK l \in Int : l = ops
  BY FirstType
<1>2. OrderTo(l)
  BY <1>1 DEF OrderInv
<1>3. CASE Dismissed \/ RowDescription \/ DataRow \/ CommandComplete \/ ErrorKept
  <2>1. io # "idle" /\ io' = io /\ missed' = missed /\ op' = op
    BY <1>3 DEF Dismissed, RowDescription, DataRow, CommandComplete, ErrorKept,
                Parsed, Continue, endVars
  <2>2. ASSUME missed' = 0, op' # "connect" PROVE Own'
    <3>1. Own
      BY <2>1, <2>2 DEF OwnInv
    <3> QED  BY <1>2, <1>3, <2>1, <2>2, <3>1, TurnOwn
  <2> QED  BY <2>1, <2>2, RunsOnOwn
<1>4. CASE ErrorReported
  BY <1>4, ReportedOwn
<1>5. CASE ReadyForQuery
  BY <1>5, ReadyOwn
<1>6. CASE AuthFinal \/ AuthRefused
  <2>1. Parsed("auth")
    BY <1>6 DEF AuthFinal, AuthRefused
  <2>2. parsers = "R"
    BY <2>1, EffectsLemma DEF Parsed, TypeOK
  <2> QED  BY <1>2, <2>1, <2>2, ParsedMessage
<1>7. CASE AuthCleartext
  <2>1. io # "idle" /\ parsers = "R"
    BY <1>7 DEF AuthCleartext
  <2> QED  BY <1>2, <2>1 DEF OrderTo, InParser
<1> QED  BY <1>3, <1>4, <1>5, <1>6, <1>7 DEF Body

LEMMA ServerOwn ==
    ASSUME WholeAnswers, OneError, OrderInv, TypeOK, OwnInv, Reply \/ Die
    PROVE  OwnInv'
<1>1. PICK l \in Int : l = ops
  BY FirstType
<1>2. OrderTo(l) /\ l <= ops
  BY <1>1, FirstType DEF OrderInv
<1>3. UNCHANGED <<io, op, ops, missed, endZ, outcome, result>>
  BY DEF Reply, Die, opVars, endVars
<1>4. CASE io # "idle"
  <2>1. ASSUME missed' = 0, op' # "connect" PROVE Own'
    <3>1. Own /\ missed = 0
      BY <1>3, <1>4, <2>1 DEF OwnInv
    <3> QED  BY <1>2, <1>4, <3>1, ReplyOwn, DieOwn
  <2> QED  BY <1>3, <1>4, <2>1, RunsOnOwn
<1>5. CASE io = "idle"
  <2>1. CASE ops > 1 /\ Behind = 0 /\ inbox = <<>>
    <3>1. Die
      BY <2>1 DEF Reply
    <3>2. answer' = answer /\ inbox' = <<>>
      BY <3>1 DEF Die
    <3> QED  BY <1>3, <1>5, <2>1, <3>2 DEF OwnInv, OwnAnswer, Behind
  <2>2. CASE ops > 1 /\ Behind = 0 /\ inbox # <<>>
    <3>1. result' = <<>> /\ outcome' < Ok /\ ~(outcome' >= Ok) /\ endZ' = 0
      BY <1>3, <1>5, <2>2 DEF OwnInv, TypeOK, Ok
    <3>2. ResultIs(<<>>, answer', 0, ops')
      BY GatheredNothing DEF Gathered
    <3>4. TypeOK'
      BY NextTyped DEF Next
    <3>5. 0 \in 0..Len(answer')
      BY <3>4 DEF TypeOK
    <3>3. OwnAnswer'
      BY <3>1, <3>2, <3>5 DEF OwnAnswer
    <3> QED  BY <1>3, <1>5, <3>1, <3>3 DEF OwnInv
  <2>3. CASE ~(ops > 1 /\ Behind = 0)
    <3>1. ~(ops' > 1 /\ Behind' = 0)
      BY <1>3, <2>3 DEF Behind
    <3> QED  BY <1>3, <1>5, <3>1 DEF OwnInv, OwnAnswer
  <2> QED  BY <2>1, <2>2, <2>3
<1> QED  BY <1>4, <1>5

LEMMA OwnNext ==
    ASSUME WholeAnswers, OneError
    PROVE  OrderInv /\ TypeOK /\ RowsInv /\ OwnInv /\ [Next]_vars => OwnInv'
<1> SUFFICES ASSUME OrderInv, TypeOK, RowsInv, OwnInv, [Next]_vars PROVE OwnInv'
  OBVIOUS
<1>1. CASE AsyncConnect \/ AsyncSimpleQuery \/ AsyncParse \/ AsyncExecute
  BY <1>1, StartOwn DEF AsyncConnect, AsyncSimpleQuery, AsyncParse, AsyncExecute, Kinds
<1>2. CASE (Client \/ ReadDone \/ ReadFail \/ SendFail) /\ op = "connect"
  <2>1. io # "idle" /\ op' = op /\ ops' = ops
    BY <1>2, BusySteps, BusyFacts
  <2> QED  BY <1>2, <2>1, ConnectOwn
<1>3. CASE (SendDone \/ NeedMore \/ ReadDone \/ Peek) /\ op # "connect"
  <2>1. io # "idle" /\ io' # "idle" /\ missed' = missed /\ op' = op
    BY <1>3 DEF SendDone, NeedMore, OutOfInput, ReadDone, Peek, opVars, endVars
  <2>2. ASSUME missed' = 0 PROVE Own'
    <3>1. Own
      BY <1>3, <2>1, <2>2 DEF OwnInv
    <3>2. CASE Peek
      BY <1>3, <3>1, <3>2, PeekOwn
    <3>3. CASE SendDone \/ NeedMore \/ ReadDone
      <4>1. UNCHANGED <<opVars, netVars>>
        BY <3>3 DEF SendDone, NeedMore, OutOfInput, ReadDone, netVars
      <4> QED  BY <3>1, <4>1, QuietOwn
    <3> QED  BY <1>3, <3>2, <3>3
  <2> QED  BY <2>1, <2>2, RunsOnOwn
<1>4. CASE (SendFail \/ ReadFail \/ PeekMalformed \/ BodyMalformed) /\ op # "connect"
  <2>1. io # "idle" /\ UNCHANGED <<opVars, netVars>>
    BY <1>4 DEF SendFail, ReadFail, PeekMalformed, NotExpected, BodyMalformed, Refused
  <2>2. PICK e \in {Malformed, Transport}, lost \in BOOLEAN : Complete(e, 0, lost)
    BY <1>4 DEF SendFail, ReadFail, PeekMalformed, BodyMalformed
  <2> QED  BY <1>4, <2>1, <2>2, GivesUpOwn
<1>5. CASE Body /\ op # "connect"
  BY <1>5, BodyOwn
<1>6. CASE Reply \/ Die
  BY <1>6, ServerOwn
<1>7. CASE UNCHANGED vars
  BY <1>7 DEF vars, opVars, endVars, netVars, OwnInv, Own, OwnAnswer, Behind
<1> QED
  BY <1>1, <1>2, <1>3, <1>4, <1>5, <1>6, <1>7 DEF Next, Client

LEMMA OwnInit == Init => OwnInv
BY DEF Init, OwnInv, OwnAnswer

(* When the server answers whole and with one error at most, an operation  *)
(* that started in sync delivers whole result sets of its own answer: of   *)
(* all its commands, of those before the error, or of those it had read    *)
(* when it was cut short; and unless it was, it reports that answer's      *)
(* error or success, whatever the answer is, however it is cut into reads, *)
(* for any number of operations. *)
THEOREM AlwaysOwnAnswer ==
    ASSUME WholeAnswers, OneError
    PROVE  Spec => []OwnAnswer
<1>1. OrderInv /\ TypeOK /\ RowsInv /\ OwnInv /\ [Next]_vars => OwnInv'
  BY OwnNext
<1>2. OwnInv => OwnAnswer
  BY DEF OwnInv
<1> QED
  BY <1>1, <1>2, OwnInit, OrderAlways, RowsInit, RowsNext, TypeCorrect, PTL DEF Spec

-----------------------------------------------------------------------------
(* The same of oneshot executions.  When one has not written its request   *)
(* and no answer is outstanding, nothing is. *)
LEMMA NothingAsked ==
    ASSUME TypeOK, WriterTypeOK, MixedOrder, writer = "unstarted", missed = 0
    PROVE  stream = <<>> /\ inbox = <<>>
<1>1. stream = <<>>
  BY UnstartedBehind
<1>2. PICK l \in Int : l = ops - 1
  BY AskedType
<1>3. OrderTo(l) /\ io # "idle"
  BY <1>2 DEF MixedOrder, Resting, Asked
<1>4. Pending(stream, inbox, up, First, l) /\ Shape(stream, inbox, up, conn = "new")
  BY <1>3 DEF OrderTo, Phases, Queued
<1>5. First = ops /\ ops \in Int
  BY <1>3, FirstType DEF First
<1>6. inbox \in Seq(Requests) /\ Len(inbox) \in Nat
  BY DEF TypeOK
<1>7. up => Len(inbox) = 0
  BY <1>1, <1>2, <1>4, <1>5, <1>6 DEF Pending
<1>8. ~up => inbox = <<>>
  BY <1>4 DEF Shape
<1> QED  BY <1>1, <1>6, <1>7, <1>8

LEMMA BreaksOwn ==
    ASSUME Own, UNCHANGED <<opVars, stream, answer>>, inbox' = <<>>, up' = FALSE
    PROVE  Own'
<1>1. PICK k \in 0..Len(answer) :
        /\ RestOf(stream, inbox, up, answer, k, ops)
        /\ Gathered(expect, parsers, curr, result, err, answer, k, ops)
  BY DEF Own
<1>2. RestOf(stream, <<>>, FALSE, answer, k, ops)
  BY <1>1 DEF RestOf
<1> QED  BY <1>1, <1>2 DEF Own, opVars

LEMMA RunsOnMixedOwn ==
    ASSUME io' \in {"parsing", "reading"},
           missed' = 0 /\ op' = "oneshot" => Own' /\ ~late',
           writer' = "unstarted" /\ missed' = 0 => answer' = <<>>
    PROVE  MixedOwn'
BY DEF MixedOwn, Resting, OneshotOwnAnswer

LEMMA OtherMixedOwn ==
    ASSUME op' # "oneshot", writer' # "unstarted"
    PROVE  MixedOwn'
BY DEF MixedOwn, Resting, OneshotOwnAnswer

LEMMA TurnMixedOwn ==
    ASSUME TypeOK, RowsInv, MixedOrder, MixedOwn, TurnStep
    PROVE  MixedOwn'
<1>1. PICK l \in Int : l = Asked
  BY AskedType
<1>2. /\ op = "oneshot" /\ op' = op /\ late' = late /\ writer' = writer
      /\ io \in {"parsing", "reading"} /\ io' \in {"parsing", "reading"}
  BY TurnFacts
<1>3. OrderTo(l)
  BY <1>1, <1>2 DEF MixedOrder, Resting
<1>4. missed' = missed /\ answer' = answer
  BY DEF TurnStep, Peek, Dismissed, RowDescription, DataRow, CommandComplete, ErrorKept,
         Parsed, Continue, ReadDone, NeedMore, OutOfInput, endVars, netVars
<1>5. ASSUME missed' = 0 PROVE Own' /\ ~late'
  <2>1. Own /\ ~late
    BY <1>2, <1>4, <1>5 DEF MixedOwn, Resting
  <2>2. CASE ReadDone \/ NeedMore
    <3>1. UNCHANGED <<opVars, netVars>>
      BY <2>2 DEF ReadDone, NeedMore, OutOfInput, netVars
    <3> QED  BY <1>2, <2>1, <3>1, QuietOwn
  <2>3. CASE Peek \/ Dismissed \/ RowDescription \/ DataRow \/ CommandComplete \/ ErrorKept
    BY <1>2, <1>3, <2>1, <2>3, TurnOwn
  <2> QED  BY <2>2, <2>3 DEF TurnStep
<1> QED  BY <1>2, <1>4, <1>5, RunsOnMixedOwn DEF MixedOwn

LEMMA FreshMixedOwn ==
    ASSUME TypeOK, WriterTypeOK, MixedOrder, MixedOwn, AsyncExecuteOneshot
    PROVE  MixedOwn'
<1>1. /\ io = "idle" /\ Fresh("oneshot") /\ io' = "parsing" /\ late' = FALSE
      /\ missed' = missed /\ answer' = <<>>
  BY DEF AsyncExecuteOneshot, Fresh
<1>2. ASSUME missed' = 0 PROVE Own'
  <2>1. stream = <<>> /\ inbox = <<>>
    BY <1>1, <1>2, IdleOrder, NothingOwed
  <2> QED  BY <1>1, <2>1, FreshOwn
<1> QED  BY <1>1, <1>2, RunsOnMixedOwn

LEMMA WriteMixedOwn ==
    ASSUME TypeOK, WriterTypeOK, MixedOrder, MixedOwn, StartsWrite
    PROVE  MixedOwn'
<1>1. /\ op = "oneshot" /\ io = "parsing" /\ io' = "reading" /\ writer = "unstarted"
      /\ writer' = "writing" /\ UNCHANGED <<opVars, stream, up, answer, late>>
      /\ missed' = missed
  BY DEF StartsWrite, OutOfInput, endVars
<1>2. ASSUME missed' = 0 PROVE Own' /\ ~late'
  <2>1. Own /\ ~late /\ answer = <<>>
    BY <1>1, <1>2 DEF MixedOwn, Resting
  <2>2. stream = <<>>
    BY <1>1, <1>2, NothingAsked
  <2> QED  BY <1>1, <2>1, <2>2, WritesOwn
<1> QED  BY <1>1, <1>2, RunsOnMixedOwn

LEMMA ServerMixedOwn ==
    ASSUME WholeAnswers, OneError, TypeOK, WriterTypeOK, MixedOrder, MixedOwn, ServerMoves
    PROVE  MixedOwn'
<1>1. PICK l \in Int : l = Asked
  BY AskedType
<1>2. /\ Reply \/ Die
      /\ UNCHANGED <<io, op, ops, missed, endZ, outcome, result, writer, late>>
  BY DEF ServerMoves, Reply, Die, opVars, endVars, writerVars
<1>3. CASE op # "oneshot"
  <2>1. writer # "unstarted"
    BY <1>3 DEF WriterTypeOK
  <2> QED  BY <1>2, <1>3, <2>1, OtherMixedOwn
<1>4. CASE op = "oneshot" /\ io \in {"parsing", "reading"}
  <2>1. OrderTo(l) /\ l <= ops
    BY <1>1, <1>4, AskedType DEF MixedOrder, Resting, Asked
  <2>2. ASSUME missed = 0 PROVE Own' /\ ~late'
    <3>1. Own /\ ~late
      BY <1>4, <2>2 DEF MixedOwn, Resting
    <3> QED  BY <1>2, <1>4, <2>1, <2>2, <3>1, ReplyOwn, DieOwn
  <2>3. ASSUME writer = "unstarted", missed = 0 PROVE answer' = <<>>
    <3>1. inbox = <<>> /\ answer = <<>>
      BY <2>3, NothingAsked DEF MixedOwn
    <3> QED  BY <1>2, <3>1 DEF Reply, Die
  <2> QED  BY <1>2, <1>4, <2>2, <2>3, RunsOnMixedOwn
<1>5. CASE op = "oneshot" /\ io \in {"idle", "sending"}
  <2>1. writer # "unstarted"
    BY <1>5 DEF MixedOrder
  <2>2. ASSUME inbox = <<>> PROVE MixedOwn'
    <3>1. Die
      BY <1>2, <2>2 DEF Reply
    <3>2. answer' = answer /\ inbox' = inbox
      BY <2>2, <3>1 DEF Die
    <3> QED  BY <1>2, <1>5, <2>1, <3>2 DEF MixedOwn, Resting, OneshotOwnAnswer, Behind
  <2>3. ASSUME inbox # <<>> PROVE MixedOwn'
    <3>1. ~(Resting /\ endZ # 0 /\ missed = 0)
      BY <2>3 DEF MixedOwn
    <3>2. ~(io = "idle" /\ Behind = 0 /\ outcome >= Ok /\ (late => endZ # 0))
      BY <1>5, <2>3 DEF MixedOwn
    <3>3. Resting => late
      BY DEF MixedOwn
    <3>4. /\ ~(Resting' /\ endZ' # 0 /\ missed' = 0)
          /\ ~(io' = "idle" /\ Behind' = 0 /\ outcome' >= Ok /\ (late' => endZ' # 0))
          /\ Resting' => late'
      BY <1>2, <3>1, <3>2, <3>3 DEF Resting, Behind
    <3> QED  BY <1>2, <1>5, <2>1, <3>4 DEF MixedOwn, Resting, OneshotOwnAnswer
  <2> QED  BY <2>2, <2>3
<1> QED  BY <1>3, <1>4, <1>5 DEF TypeOK

(* The reader ends with its answer read, or gives up. *)
LEMMA ReaderMixedOwn ==
    ASSUME TypeOK, WriterTypeOK, MixedOrder, MixedOwn, ReaderStep
    PROVE  MixedOwn'
<1>1. PICK l \in Int : l = Asked
  BY AskedType
<1>2. /\ op = "oneshot" /\ io \in {"parsing", "reading"} /\ UNCHANGED opVars
      /\ IF writer = "writing"
         THEN io' = "sending" /\ writer' = "writing" /\ late' = TRUE
         ELSE io' = "idle" /\ writer' = "none" /\ late' = late
  BY ReaderStepLemma, ReaderLeaves
<1>3. OrderTo(l)
  BY <1>1, <1>2 DEF MixedOrder, Resting
<1>4. CASE Parsed("ready") /\ ReaderEnds(err, Head(stream).rq, FALSE)
  <2>1. /\ writer # "writing" => outcome' = err
        /\ \/ Closes(err, Head(stream).rq, TRUE)
           \/ Closes(err, Head(stream).rq, FALSE)
    BY <1>4, ReaderEndsLemma
  <2>2. Head(stream).rq = First
    BY <1>3, <1>4, ParsedMessage
  <2>3. err >= Ok /\ err \in Int /\ First >= 1 /\ First \in Int
    BY <1>3, FirstType DEF OrderTo, Phases, TypeOK
  <2>4. endZ' # 0 /\ missed' = missed
    BY <1>2, <2>1, <2>2, <2>3 DEF Closes, Ok
  <2>5. CASE missed = 0
    <3>1. Own /\ ~late
      BY <1>2, <2>5 DEF MixedOwn, Resting
    <3>2. /\ inbox' = <<>> /\ answer' = answer
          /\ ErrorIs(err, answer, Len(answer)) /\ ResultIs(result, answer, Len(answer), ops)
      BY <1>3, <1>4, <3>1, AnswerRead
    <3> QED  BY <1>2, <2>1, <2>4, <3>1, <3>2 DEF MixedOwn, Resting, OneshotOwnAnswer, opVars
  <2>6. CASE missed # 0
    <3>1. missed' # 0 /\ Behind' # 0
      BY <2>4, <2>6 DEF Behind
    <3> QED  BY <1>2, <3>1 DEF MixedOwn, Resting, OneshotOwnAnswer
  <2> QED  BY <2>5, <2>6
<1>5. CASE /\ UNCHANGED <<bufVars, netVars>>
           /\ \/ ReaderEnds(Malformed, 0, FALSE)
              \/ ReaderEnds(Malformed, 0, TRUE)
              \/ ReaderEnds(Transport, 0, TRUE)
  <2>1. PICK e \in {Malformed, Transport}, lost \in BOOLEAN : ReaderEnds(e, 0, lost)
    BY <1>5
  <2>2. /\ writer # "writing" => outcome' = e
        /\ Closes(e, 0, TRUE) \/ Closes(e, 0, lost)
    BY <2>1, ReaderEndsLemma
  <2>3. endZ' = 0
    BY <2>2 DEF Closes
  <2>4. writer # "writing" => ~(outcome' >= Ok)
    BY <2>2, OwnErrorsNegative DEF Ok
  <2> QED  BY <1>2, <2>3, <2>4 DEF MixedOwn, Resting, OneshotOwnAnswer
<1> QED  BY <1>4, <1>5, ReaderStepLemma

(* The write ends. *)
LEMMA WriterMixedOwn ==
    ASSUME TypeOK, WriterTypeOK, MixedOrder, MixedOwn, WriterStep
    PROVE  MixedOwn'
<1>1. /\ writer = "writing" /\ UNCHANGED <<opVars, stream, answer, missed, endZ, late>>
      /\ writer' # "unstarted"
      /\ IF io = "sending" THEN io' = "idle" ELSE io' = io
      /\ \/ UNCHANGED <<inbox, up>> /\ (io = "sending" => outcome' = Ok)
         \/ inbox' = <<>> /\ up' = FALSE /\ (io = "sending" => outcome' = Transport)
  BY DEF WriterStep, WriteDone, WriteFail, WriterEnds, Returns
<1>2. op = "oneshot" /\ op' = "oneshot" /\ io # "idle"
  BY <1>1 DEF WriterTypeOK, opVars
<1>3. CASE io = "sending"
  <2>1. late /\ (endZ # 0 /\ missed = 0
                   => inbox = <<>> /\ ResultIs(result, answer, Len(answer), ops))
    BY <1>2, <1>3 DEF MixedOwn, Resting
  <2>2. CASE outcome' = Ok /\ UNCHANGED inbox
    <3>1. late' /\ Behind' = IF endZ = 0 THEN missed - 1 ELSE missed
      BY <1>1, <2>1 DEF Behind
    <3> QED  BY <1>1, <1>3, <2>1, <2>2, <3>1 DEF MixedOwn, Resting, OneshotOwnAnswer, opVars
  <2>3. CASE outcome' = Transport
    <3>1. ~(outcome' >= Ok)
      BY <2>3, OwnErrorsNegative DEF Ok
    <3> QED  BY <1>1, <1>3, <3>1 DEF MixedOwn, Resting, OneshotOwnAnswer
  <2> QED  BY <1>1, <1>3, <2>2, <2>3
<1>4. CASE io # "sending"
  <2>1. io' \in {"parsing", "reading"}
    BY <1>1, <1>2, <1>4 DEF TypeOK
  <2>2. ASSUME missed' = 0 PROVE Own' /\ ~late'
    <3>1. Own /\ ~late
      BY <1>1, <1>2, <1>4, <2>2 DEF MixedOwn, Resting
    <3>2. Own'
      BY <1>1, <3>1, QuietOwn, BreaksOwn DEF netVars
    <3> QED  BY <1>1, <3>1, <3>2
  <2> QED  BY <1>1, <2>1, <2>2, RunsOnMixedOwn
<1> QED  BY <1>3, <1>4

LEMMA MixedOwnNext ==
    ASSUME WholeAnswers, OneError
    PROVE  TypeOK /\ RowsInv /\ WriterTypeOK /\ MixedOrder /\ MixedOwn /\ [MixedNext]_mixedVars
             => MixedOwn'
<1> SUFFICES ASSUME TypeOK, RowsInv, WriterTypeOK, MixedOrder, MixedOwn, [MixedNext]_mixedVars
             PROVE  MixedOwn'
  OBVIOUS
<1>1. CASE OtherStarts
  <2>1. op' # "oneshot" /\ io = "idle" /\ writer' = writer
    BY <1>1 DEF OtherStarts, AsyncConnect, AsyncSimpleQuery, AsyncParse, AsyncExecute,
                Start, Fresh, writerVars
  <2> QED  BY <2>1, OtherMixedOwn DEF WriterTypeOK
<1>2. CASE OtherStep
  <2>1. op' # "oneshot" /\ writer' # "unstarted"
    BY <1>2, OtherFacts DEF OtherStep, WriterTypeOK
  <2> QED  BY <2>1, OtherMixedOwn
<1>3. CASE UNCHANGED mixedVars
  BY <1>3 DEF mixedVars, vars, opVars, endVars, netVars, MixedOwn, Own, Resting,
              OneshotOwnAnswer, Behind
<1> QED
  BY <1>1, <1>2, <1>3, TurnMixedOwn, FreshMixedOwn, WriteMixedOwn, ServerMixedOwn,
     ReaderMixedOwn, WriterMixedOwn, MixedSteps

LEMMA MixedOwnInit == MixedInit => MixedOwn
BY DEF MixedInit, Init, MixedOwn, Resting, OneshotOwnAnswer

(* When the server answers whole and with one error at most, a oneshot     *)
(* execution that started in sync and read its answer to the end reports   *)
(* the result sets of its own answer, and its error too unless the write   *)
(* was the last to complete, in whichever order the two complete and for   *)
(* any number of operations. *)
THEOREM OneshotAlwaysOwnAnswer ==
    ASSUME WholeAnswers, OneError
    PROVE  MixedSpec => []OneshotOwnAnswer
<1>1. /\ TypeOK /\ RowsInv /\ WriterTypeOK /\ MixedOrder /\ MixedOwn
      /\ [MixedNext]_mixedVars
      => MixedOwn'
  BY MixedOwnNext
<1>2. MixedOwn => OneshotOwnAnswer
  BY DEF MixedOwn
<1> QED
  BY <1>1, <1>2, MixedOwnInit, MixedOrderAlways, MixedInitTyped, MixedTyped, PTL DEF MixedSpec

-----------------------------------------------------------------------------
(* An early connect.  Every ReadyForQuery in s is behind key data: *)
HasKey(s) == \E i \in 1..Len(s) : s[i].t = "K"
Blocked(s) == \A i \in 1..Len(s) : s[i].t = "Z" => \E j \in 1..i : s[j].t = "K"

(* connect takes no key data before it waits for ReadyForQuery, and no     *)
(* other operation takes any. *)
Connecting ==
    /\ expect # "till_ready" => Blocked(stream)
    /\ parsers \in {"K", "Z"} => expect = "till_ready"
    /\ \A j \in 1..Len(inbox) : inbox[j].kind \in {"connect", "password"}
EarlyInv ==
    /\ conn = "early" => Blocked(stream) /\ (up => HasKey(stream))
    /\ conn = "new" /\ io # "idle" => Connecting
    /\ EarlyConnectUnusable

LEMMA BlockedTail ==
    ASSUME NEW s \in Seq(Tagged), s # <<>>, s[1].t # "K", Blocked(s)
    PROVE  Blocked(Tail(s)) /\ (HasKey(s) => HasKey(Tail(s)))
<1>1. /\ Len(s) \in Nat /\ Len(s) > 0 /\ Len(Tail(s)) = Len(s) - 1
      /\ \A i \in 1..(Len(s) - 1) : Tail(s)[i] = s[i + 1] /\ i + 1 \in 1..Len(s)
  BY TailFacts
<1> DEFINE t == Tail(s)
<1> HIDE DEF t
<1>2. /\ Len(t) = Len(s) - 1
      /\ \A i \in 1..Len(t) : t[i] = s[i + 1] /\ i + 1 \in 1..Len(s)
  BY <1>1 DEF t
<1>3. ASSUME NEW i \in 1..Len(t), t[i].t = "Z" PROVE \E j \in 1..i : t[j].t = "K"
  <2>1. s[i + 1].t = "Z" /\ i + 1 \in 1..Len(s)
    BY <1>2, <1>3
  <2>2. PICK j \in 1..(i + 1) : s[j].t = "K"
    BY <2>1 DEF Blocked
  <2>3. j # 1
    BY <2>2
  <2>4. j - 1 \in 1..i /\ j - 1 \in 1..Len(t) /\ (j - 1) + 1 = j
    BY <1>1, <1>2, <2>3
  <2>5. t[j - 1] = s[j]
    BY <1>2, <2>4
  <2> QED  BY <2>2, <2>4, <2>5
<1>4. ASSUME HasKey(s) PROVE HasKey(t)
  <2>1. PICK j \in 1..Len(s) : s[j].t = "K"
    BY <1>4 DEF HasKey
  <2>2. j # 1
    BY <2>1
  <2>3. j - 1 \in 1..Len(t) /\ (j - 1) + 1 = j
    BY <1>1, <1>2, <2>2
  <2>4. t[j - 1] = s[j]
    BY <1>2, <2>3
  <2> QED  BY <2>1, <2>3, <2>4 DEF HasKey
<1> QED  BY <1>3, <1>4 DEF Blocked, t

LEMMA BlockedPrefix ==
    ASSUME NEW s \in Seq(Tagged), Blocked(s), NEW k \in 0..Len(s)
    PROVE  Blocked(SubSeq(s, 1, k))
<1>1. /\ Len(SubSeq(s, 1, k)) = k /\ Len(s) \in Nat
      /\ \A i \in 1..k : SubSeq(s, 1, k)[i] = s[i] /\ i \in 1..Len(s)
  OBVIOUS
<1> DEFINE t == SubSeq(s, 1, k)
<1> HIDE DEF t
<1>2. /\ Len(t) = k /\ Len(s) \in Nat
      /\ \A i \in 1..k : t[i] = s[i] /\ i \in 1..Len(s)
  BY <1>1 DEF t
<1>3. ASSUME NEW i \in 1..k, t[i].t = "Z" PROVE \E j \in 1..i : t[j].t = "K"
  <2>1. PICK j \in 1..i : s[j].t = "K"
    BY <1>2, <1>3 DEF Blocked
  <2>2. j \in 1..k
    OBVIOUS
  <2> QED  BY <1>2, <2>1, <2>2
<1> QED  BY <1>2, <1>3 DEF Blocked, t

LEMMA BlockedJoin ==
    ASSUME NEW s \in Seq(Tagged), NEW w \in Seq(Tagged), w # <<>>, Blocked(s), HasKey(s)
    PROVE  Blocked(s \o w) /\ HasKey(s \o w)
<1>1. /\ Len(s) \in Nat /\ Len(w) \in Nat /\ Len(s \o w) = Len(s) + Len(w)
  BY ConcatFacts
<1>2. \A i \in 1..Len(s) : (s \o w)[i] = s[i] /\ i \in 1..Len(s \o w)
  BY <1>1
<1> DEFINE t == s \o w
<1>3. PICK k \in 1..Len(s) : s[k].t = "K"
  BY DEF HasKey
<1>4. \A i \in 1..Len(s) : t[i] = s[i] /\ i \in 1..Len(t)
  BY <1>2
<1> HIDE DEF t
<1>5. HasKey(t)
  BY <1>3, <1>4 DEF HasKey
<1>6. ASSUME NEW i \in 1..Len(t), t[i].t = "Z" PROVE \E j \in 1..i : t[j].t = "K"
  <2>1. CASE i \in 1..Len(s)
    <3>1. PICK j \in 1..i : s[j].t = "K"
      BY <1>4, <1>6, <2>1 DEF Blocked
    <3>2. j \in 1..Len(s)
      BY <2>1
    <3> QED  BY <1>4, <3>1, <3>2
  <2>2. CASE i \notin 1..Len(s)
    <3>1. k \in 1..i
      BY <1>1, <2>2
    <3> QED  BY <1>3, <1>4, <3>1
  <2> QED  BY <2>1, <2>2
<1> QED  BY <1>5, <1>6 DEF Blocked, t

LEMMA BlockedAnswer ==
    ASSUME WholeAnswers, KeyBeforeReady, NEW k \in {"connect", "password"},
           NEW r \in Replies(k), NEW q \in Nat
    PROVE  Blocked(Tag(r, q))
<1>1. r \in Seq(RawMessages) /\ r # <<>> /\ k \in Kinds \cup {"password"}
  BY ReplyAssumption DEF Kinds
<1>2. /\ Len(Tag(r, q)) = Len(r) /\ Len(r) \in Nat /\ Len(r) > 0
      /\ \A i \in 1..Len(r) : Tag(r, q)[i].t = r[i].t
  BY <1>1, TagFacts
<1>3. ASSUME NEW i \in 1..Len(r), r[i].t = "Z" PROVE \E j \in 1..i : r[j].t = "K"
  <2>1. i = Len(r)
    BY <1>1, <1>2, <1>3 DEF WholeAnswers
  <2> QED  BY <1>3, <2>1 DEF KeyBeforeReady
<1>4. ASSUME NEW i \in 1..Len(Tag(r, q)), Tag(r, q)[i].t = "Z"
      PROVE  \E j \in 1..i : Tag(r, q)[j].t = "K"
  <2>1. i \in 1..Len(r) /\ r[i].t = "Z"
    BY <1>2, <1>4
  <2>2. PICK j \in 1..i : r[j].t = "K"
    BY <1>3, <2>1
  <2>3. j \in 1..Len(r)
    BY <1>2, <2>1
  <2> QED  BY <1>2, <2>2, <2>3
<1> QED  BY <1>4 DEF Blocked

(* No operation but connect has a use for key data. *)
LEMMA KeyEffects ==
    ASSUME NEW k \in Kinds, k # "connect",
           NEW e \in {"desc", "row", "push", "auth", "ready", "fail", "keep", "dismiss"}
    PROVE  "K" \notin Effects[k][e]
<1>1. "K" \notin Effects[k]["dismiss"]
  <2>1. "K" \notin SimpleEffects["dismiss"]
    BY DEF SimpleEffects, NoEffect
  <2>2. "K" \notin ParseEffects["dismiss"]
    BY DEF ParseEffects, NoEffect
  <2>3. "K" \notin ExecuteEffects["dismiss"]
    BY DEF ExecuteEffects, NoEffect
  <2>4. "K" \notin OneshotEffects["dismiss"]
    BY DEF OneshotEffects, NoEffect
  <2>5. Effects[k] \in {SimpleEffects, ParseEffects, ExecuteEffects, OneshotEffects}
    BY DEF Kinds, Effects
  <2> QED  BY <2>1, <2>2, <2>3, <2>4, <2>5
<1>2. /\ "K" \notin Effects[k]["desc"] /\ "K" \notin Effects[k]["row"]
      /\ "K" \notin Effects[k]["push"] /\ "K" \notin Effects[k]["auth"]
      /\ "K" \notin Effects[k]["keep"]
  BY EffectsLemma
<1>3. "K" \notin Effects[k]["ready"] /\ "K" \notin Effects[k]["fail"]
  BY EndingsLemma
<1> QED  BY <1>1, <1>2, <1>3

LEMMA ConnectArcsLemma ==
    ASSUME NEW a \in Arcs["connect"]
    PROVE  a.to = a.at /\ (a.t \in {"K", "Z"} => a.to = "till_ready")
<1>1. a \in ConnectArcs
  BY DEF Arcs
<1> QED  BY <1>1 DEF ConnectArcs, AnyStage, Arc

LEMMA ConnectStays ==
    ASSUME NEW t
    PROVE  BodyStage("connect", "till_ready", t) = "till_ready"
BY DEF BodyStage

-----------------------------------------------------------------------------
(* What an operation takes is no key data, if it is not connect, or        *)
(* connect before it waits for ReadyForQuery. *)
LEMMA TakesNoKey ==
    ASSUME NEW l \in Int, OrderTo(l), TypeOK,
           NEW e \in {"desc", "row", "push", "auth", "ready", "fail", "keep", "dismiss"},
           Parsed(e), op = "connect" => parsers # "K", Blocked(stream)
    PROVE  Blocked(stream') /\ (HasKey(stream) => HasKey(stream')) /\ parsers # "Z"
<1>1. /\ stream # <<>> /\ stream[1].t = parsers /\ stream' = Tail(stream)
      /\ stream \in Seq(Tagged) /\ io # "idle"
  BY ParsedMessage DEF TypeOK
<1>0. 1 \in 1..Len(stream)
  BY <1>1, FirstMessage
<1>2. parsers # "K"
  BY KeyEffects DEF Parsed, TypeOK
<1>3. stream[1].t # "Z"
  <2> SUFFICES ASSUME stream[1].t = "Z" PROVE FALSE
    OBVIOUS
  <2>1. PICK j \in 1..1 : stream[j].t = "K"
    BY <1>0 DEF Blocked
  <2> QED  BY <2>1
<1> QED  BY <1>1, <1>2, <1>3, BlockedTail

LEMMA StartEarly ==
    ASSUME OrderInv, TypeOK, EarlyInv, NEW k \in Kinds, Start(k),
           IF k = "connect" THEN conn = "new" ELSE conn \in {"open", "early"}
    PROVE  EarlyInv'
<1>1. /\ io = "idle" /\ io' = "sending" /\ conn' = conn /\ stream' = stream /\ up' = up
      /\ expect' = InitStage[k] /\ parsers' = "none" /\ Request(k, ops + 1)
  BY DEF Start, Fresh
<1>2. CASE conn = "new"
  <2>1. k = "connect" /\ stream = <<>> /\ inbox = <<>> /\ Len(<<>>) = 0
    BY <1>1, <1>2 DEF OrderInv, OrderTo, Phases
  <2>2. inbox' \in {<<>>, <<[kind |-> "connect", rq |-> ops + 1]>>}
    BY <1>1, <2>1 DEF Request
  <2>3. \A j \in 1..Len(inbox') : inbox'[j].kind = "connect"
    BY <2>1, <2>2
  <2>4. Blocked(<<>>)
    BY <2>1 DEF Blocked
  <2> QED  BY <1>1, <1>2, <2>1, <2>3, <2>4 DEF EarlyInv, Connecting, EarlyConnectUnusable
<1>3. CASE conn # "new"
  BY <1>1, <1>3 DEF EarlyInv, EarlyConnectUnusable
<1> QED  BY <1>2, <1>3

(* A step that ends no operation and takes nothing. *)
LEMMA QuietEarly ==
    ASSUME EarlyInv, io # "idle", io' # "idle", conn' = conn, stream' = stream, up' = up,
           inbox' = inbox,
           conn = "new" => /\ expect' # "till_ready" => expect # "till_ready"
                           /\ parsers' \in {"K", "Z"} => expect' = "till_ready"
    PROVE  EarlyInv'
BY DEF EarlyInv, Connecting, EarlyConnectUnusable

(* The client gives up. *)
LEMMA GivesUpEarly ==
    ASSUME NEW l \in Int, OrderTo(l), TypeOK, EarlyInv, io # "idle", NEW e \in Int, e # Ok,
           NEW lost \in BOOLEAN, Complete(e, 0, lost), op' = op,
           stream' = stream, up' = up
    PROVE  EarlyInv'
<1>1. /\ io' = "idle" /\ outcome' = e
      /\ conn' = "dropped" \/ (op # "connect" /\ conn' = conn)
  BY DEF Complete, Closes
<1>2. conn = "new" => op = "connect"
  BY DEF OrderTo, Phases
<1> QED  BY <1>1, <1>2 DEF EarlyInv, EarlyConnectUnusable

(* Any operation but connect. *)
LEMMA BodyEarly ==
    ASSUME OrderInv, TypeOK, EarlyInv, Body, op # "connect"
    PROVE  EarlyInv'
<1>1. PICK l \in Int : l = ops
  BY FirstType
<1>2. OrderTo(l)
  BY <1>1 DEF OrderInv
<1>3. io # "idle"
  BY BusySteps DEF Client
<1>4. conn # "new"
  BY <1>2, <1>3 DEF OrderTo, Phases
<1>5. PICK e \in {"desc", "row", "push", "auth", "ready", "fail", "keep", "dismiss"} : Parsed(e)
  <2>1. ~AuthCleartext
    BY <1>2, <1>3 DEF AuthCleartext, OrderTo, InParser
  <2> QED  BY <2>1 DEF Body, Dismissed, RowDescription, DataRow, CommandComplete, ErrorKept,
                       ErrorReported, ReadyForQuery, AuthFinal, AuthRefused
<1>6. up' = up /\ op' = op /\ parsers # "R"
  BY <1>2, <1>5, ParsedMessage
<1>7. conn = "early" => /\ Blocked(stream') /\ (up' => HasKey(stream'))
                        /\ parsers # "Z"
  BY <1>2, <1>5, <1>6, TakesNoKey DEF EarlyInv
<1>8. CASE Dismissed \/ RowDescription \/ DataRow \/ CommandComplete \/ ErrorKept
  <2>1. io' # "idle" /\ conn' = conn
    BY <1>3, <1>8 DEF Dismissed, RowDescription, DataRow, CommandComplete, ErrorKept,
                      Continue, endVars
  <2> QED  BY <1>4, <1>7, <2>1 DEF EarlyInv, EarlyConnectUnusable
<1>9. CASE ErrorReported
  <2>1. Parsed("fail") /\ Complete(Head(stream).n, 0, FALSE)
    BY <1>9 DEF ErrorReported
  <2>2. Head(stream).n # Ok
    BY <1>2, <2>1, ErrorHasCode
  <2>3. io' = "idle" /\ outcome' # Ok /\ conn' = conn
    BY <2>1, <2>2 DEF Complete, Closes
  <2> QED  BY <1>4, <1>7, <2>3 DEF EarlyInv, EarlyConnectUnusable
<1>10. CASE ReadyForQuery
  <2>1. Parsed("ready") /\ conn' = conn
    BY <1>10 DEF ReadyForQuery, Complete, Closes
  <2>2. parsers = "Z"
    BY <2>1, EndingsLemma DEF Parsed, TypeOK
  <2> QED  BY <1>4, <1>7, <2>1, <2>2 DEF EarlyInv, EarlyConnectUnusable
<1>11. CASE AuthFinal \/ AuthRefused
  <2>1. Parsed("auth")
    BY <1>11 DEF AuthFinal, AuthRefused
  <2>2. parsers = "R"
    BY <2>1, EffectsLemma DEF Parsed, TypeOK
  <2> QED  BY <1>6, <2>2
<1>12. CASE AuthCleartext
  BY <1>2, <1>3, <1>12 DEF AuthCleartext, OrderTo, InParser
<1> QED  BY <1>8, <1>9, <1>10, <1>11, <1>12 DEF Body

(* connect reports success before ReadyForQuery: the server's ReadyForQuery *)
(* is still to come, and the key data before it. *)
LEMMA FinalEarly ==
    ASSUME NEW l \in Int, OrderTo(l), TypeOK, Parsed("auth"), Head(stream).n = TrustOrFinished,
           Blocked(stream)
    PROVE  Blocked(stream') /\ (up' => HasKey(stream'))
<1>1. /\ stream[1].t = parsers /\ Head(stream) = stream[1] /\ stream # <<>> /\ io # "idle"
      /\ up' = up
  BY ParsedMessage
<1>2. parsers = "R"
  BY EffectsLemma DEF Parsed, TypeOK
<1>3. Blocked(stream') /\ (HasKey(stream) => HasKey(stream'))
  BY <1>2, TakesNoKey
<1>4. /\ Shape(stream, inbox, up, conn = "new") /\ 1 \in 1..Len(stream)
      /\ Len(stream) \in 1..Len(stream)
  BY <1>1, FirstMessage
<1>5. up => stream[Len(stream)].t = "Z"
  BY <1>1, <1>2, <1>4 DEF Shape
<1>6. up => HasKey(stream)
  <2> SUFFICES ASSUME up PROVE HasKey(stream)
    OBVIOUS
  <2>1. PICK j \in 1..Len(stream) : stream[j].t = "K"
    BY <1>4, <1>5 DEF Blocked
  <2> QED  BY <2>1 DEF HasKey
<1> QED  BY <1>1, <1>3, <1>6

LEMMA CleartextEarly ==
    ASSUME NEW l \in Int, OrderTo(l), TypeOK, Connecting, conn = "new", AuthCleartext
    PROVE  conn' = "new" /\ io' # "idle" /\ Connecting'
<1>1. /\ io # "idle" /\ parsers = "R" /\ expect = "read_s1" /\ stream # <<>>
  BY DEF AuthCleartext, TypeOK
<1>2. stream[1].t = "R" /\ stream \in Seq(Tagged)
  BY <1>1, FirstMessage DEF TypeOK
<1>3. Blocked(stream)
  BY <1>1 DEF Connecting
<1>4. Blocked(Tail(stream))
  BY <1>1, <1>2, <1>3, BlockedTail
<1>5. /\ conn' = conn /\ io' = "sending" /\ stream' = Tail(stream) /\ parsers' = "none"
      /\ Request("password", ops)
  BY DEF AuthCleartext, endVars
<1>6. \A j \in 1..Len(inbox') : inbox'[j].kind \in {"connect", "password"}
  <2> DEFINE a == [kind |-> "password", rq |-> ops]
  <2>1. a.kind = "password" /\ inbox \in Seq(Requests) /\ ops \in Nat /\ a \in Requests
    BY BoundAssumption DEF TypeOK, Requests
  <2>2. inbox' = Append(inbox, a) \/ inbox' = inbox
    BY <1>5 DEF Request
  <2> HIDE DEF a
  <2>3. ASSUME inbox' = Append(inbox, a), NEW j \in 1..Len(inbox')
        PROVE  inbox'[j].kind \in {"connect", "password"}
    <3>1. Len(inbox') = Len(inbox) + 1 /\ Len(inbox) \in Nat
      BY <2>1, <2>3
    <3>2. IF j = Len(inbox) + 1 THEN inbox'[j] = a
          ELSE j \in 1..Len(inbox) /\ inbox'[j] = inbox[j]
      BY <2>1, <2>3, <3>1
    <3> QED  BY <2>1, <3>2 DEF Connecting
  <2> QED  BY <2>2, <2>3 DEF Connecting
<1> QED  BY <1>4, <1>5, <1>6 DEF Connecting

(* connect. *)
LEMMA ConnectEarly ==
    ASSUME OrderInv, TypeOK, EarlyInv, Body, op = "connect"
    PROVE  EarlyInv'
<1>1. PICK l \in Int : l = ops
  BY FirstType
<1>2. OrderTo(l)
  BY <1>1 DEF OrderInv
<1>3. io # "idle" /\ op' = op
  BY BusySteps, BusyFacts DEF Client
<1>4. conn = "new" /\ Connecting /\ First >= 1
  BY <1>2, <1>3 DEF OrderTo, Phases, EarlyInv
<1>5. ASSUME NEW e \in {"desc", "row", "push", "auth", "keep", "dismiss"},
             Parsed(e), Continue
      PROVE  EarlyInv'
  <2>1. /\ io' # "idle" /\ conn' = conn /\ inbox' = inbox /\ parsers' = "none"
        /\ expect' = BodyStage("connect", expect, parsers)
    BY <1>2, <1>3, <1>5, ParsedMessage DEF Continue, endVars
  <2>2. ASSUME expect' # "till_ready" PROVE Blocked(stream')
    <3>1. expect # "till_ready"
      BY <2>1, <2>2, ConnectStays
    <3>2. Blocked(stream) /\ parsers # "K"
      BY <1>4, <3>1 DEF Connecting
    <3> QED  BY <1>2, <1>5, <3>2, TakesNoKey
  <2> QED  BY <1>4, <2>1, <2>2 DEF EarlyInv, Connecting, EarlyConnectUnusable
<1>6. CASE Dismissed \/ RowDescription \/ DataRow \/ CommandComplete \/ ErrorKept
  BY <1>5, <1>6 DEF Dismissed, RowDescription, DataRow, CommandComplete, ErrorKept
<1>7. CASE ErrorReported
  <2>1. Parsed("fail") /\ Complete(Head(stream).n, 0, FALSE)
    BY <1>7 DEF ErrorReported
  <2>2. Head(stream).n # Ok
    BY <1>2, <2>1, ErrorHasCode
  <2>3. io' = "idle" /\ conn' = "dropped"
    BY <2>1, <2>2 DEF Complete, Closes
  <2> QED  BY <2>3 DEF EarlyInv, EarlyConnectUnusable
<1>8. CASE ReadyForQuery
  <2>1. Parsed("ready") /\ io' = "idle" /\ Closes(err, Head(stream).rq, FALSE)
    BY <1>8 DEF ReadyForQuery, Complete
  <2>2. Head(stream).rq # 0
    BY <1>2, <1>4, <2>1, ParsedMessage
  <2>3. conn' \in {"dropped", "open"}
    BY <2>1, <2>2 DEF Closes
  <2> QED  BY <2>1, <2>3 DEF EarlyInv, EarlyConnectUnusable
<1>9. CASE AuthFinal
  <2>1. Parsed("auth") /\ Head(stream).n = TrustOrFinished
    BY <1>9 DEF AuthFinal
  <2>2. CASE expect = "read_s1"
    <3>1. Complete(Ok, 0, FALSE)
      BY <1>9, <2>2 DEF AuthFinal
    <3>2. io' = "idle" /\ conn' = "early"
      BY <3>1 DEF Complete, Closes
    <3>3. Blocked(stream') /\ (up' => HasKey(stream'))
      BY <1>2, <1>4, <2>1, <2>2, FinalEarly DEF Connecting
    <3> QED  BY <1>3, <3>2, <3>3 DEF EarlyInv, EarlyConnectUnusable
  <2>3. CASE expect # "read_s1"
    BY <1>5, <1>9, <2>1, <2>3 DEF AuthFinal
  <2> QED  BY <2>2, <2>3
<1>10. CASE AuthCleartext
  BY <1>2, <1>4, <1>10, CleartextEarly DEF EarlyInv, EarlyConnectUnusable
<1>11. CASE AuthRefused
  <2>1. Complete(Unable, 0, FALSE) \/ Complete(Malformed, 0, FALSE)
    BY <1>11 DEF AuthRefused
  <2>2. io' = "idle" /\ conn' = "dropped"
    BY <2>1, OwnErrorsNegative DEF Complete, Closes, Ok
  <2> QED  BY <2>2 DEF EarlyInv, EarlyConnectUnusable
<1> QED  BY <1>6, <1>7, <1>8, <1>9, <1>10, <1>11 DEF Body

LEMMA ReplyEarly ==
    ASSUME WholeAnswers, KeyBeforeReady, OrderInv, TypeOK, EarlyInv, Reply
    PROVE  EarlyInv'
<1>1. /\ UNCHANGED <<conn, io, op, expect, parsers, outcome>> /\ up
      /\ inbox # <<>> /\ inbox \in Seq(Requests) /\ stream \in Seq(Tagged)
  BY DEF Reply, opVars, endVars, TypeOK
<1>2. /\ Len(inbox) \in Nat /\ Len(inbox) > 0 /\ Head(inbox) = inbox[1] /\ 1 \in 1..Len(inbox)
      /\ \A i \in 1..(Len(inbox) - 1) : Tail(inbox)[i] = inbox[i + 1] /\ i + 1 \in 1..Len(inbox)
      /\ Len(Tail(inbox)) = Len(inbox) - 1
  BY <1>1, TailFacts
<1>3. inbox[1].kind \in Kinds \cup {"password"} /\ inbox[1].rq \in Nat
  <2>1. inbox[1] \in Requests
    BY <1>1, <1>2
  <2> QED  BY <2>1 DEF Requests
<1>4. PICK r \in Replies(inbox[1].kind) :
        /\ stream' = stream \o Tag(r, inbox[1].rq)
        /\ inbox' = IF up' THEN Tail(inbox) ELSE <<>>
  BY <1>2 DEF Reply
<1>5. Tag(r, inbox[1].rq) \in Seq(Tagged) /\ Tag(r, inbox[1].rq) # <<>>
  <2>1. r \in Seq(RawMessages) /\ r # <<>>
    BY <1>3, ReplyAssumption
  <2> QED  BY <1>3, <2>1, TagFacts
<1>6. CASE conn = "early"
  <2>1. Blocked(stream') /\ HasKey(stream')
    BY <1>1, <1>4, <1>5, <1>6, BlockedJoin DEF EarlyInv
  <2> QED  BY <1>1, <1>6, <2>1 DEF EarlyInv, EarlyConnectUnusable
<1>7. CASE conn = "new" /\ io # "idle"
  <2>1. Connecting
    BY <1>7 DEF EarlyInv
  <2>2. inbox[1].kind \in {"connect", "password"}
    BY <1>2, <2>1 DEF Connecting
  <2>3. Shape(stream, inbox, up, TRUE)
    <3>1. (conn = "new") = TRUE
      BY <1>7
    <3> QED  BY <1>7, <3>1 DEF OrderInv, OrderTo, Queued
  <2>4. stream = <<>>
    BY <1>2, <2>2, <2>3 DEF Shape
  <2>5. Blocked(stream')
    <3>1. Blocked(Tag(r, inbox[1].rq))
      BY <1>3, <2>2, BlockedAnswer
    <3>2. stream' = Tag(r, inbox[1].rq)
      BY <1>4, <1>5, <2>4
    <3> QED  BY <3>1, <3>2
  <2>6. \A j \in 1..Len(inbox') : inbox'[j].kind \in {"connect", "password"}
    <3>1. CASE up'
      BY <1>2, <1>4, <2>1, <3>1 DEF Connecting
    <3>2. CASE ~up'
      <4>1. Len(<<>>) = 0
        OBVIOUS
      <4> QED  BY <1>4, <3>2, <4>1
    <3> QED  BY <3>1, <3>2
  <2> QED  BY <1>1, <1>7, <2>1, <2>5, <2>6 DEF EarlyInv, Connecting, EarlyConnectUnusable
<1>8. CASE conn # "early" /\ ~(conn = "new" /\ io # "idle")
  BY <1>1, <1>8 DEF EarlyInv, EarlyConnectUnusable
<1> QED  BY <1>6, <1>7, <1>8

LEMMA DieEarly ==
    ASSUME TypeOK, EarlyInv, Die
    PROVE  EarlyInv'
<1>1. PICK k \in have..Len(stream) : stream' = SubSeq(stream, 1, k)
  BY DEF Die
<1>2. stream \in Seq(Tagged) /\ k \in 0..Len(stream)
  BY <1>1 DEF TypeOK
<1>3. Blocked(stream) => Blocked(stream')
  BY <1>1, <1>2, BlockedPrefix
<1>4. /\ UNCHANGED <<conn, io, op, expect, parsers, outcome>> /\ up' = FALSE /\ inbox' = <<>>
  BY DEF Die, opVars, endVars
<1>5. Len(<<>>) = 0
  OBVIOUS
<1> QED  BY <1>3, <1>4, <1>5 DEF EarlyInv, Connecting, EarlyConnectUnusable

LEMMA EarlyNext ==
    ASSUME WholeAnswers, KeyBeforeReady
    PROVE  OrderInv /\ TypeOK /\ EarlyInv /\ [Next]_vars => EarlyInv'
<1> SUFFICES ASSUME OrderInv, TypeOK, EarlyInv, [Next]_vars PROVE EarlyInv'
  OBVIOUS
<1>0. PICK l \in Int : OrderTo(l)
  BY FirstType DEF OrderInv
<1>1. CASE AsyncConnect \/ AsyncSimpleQuery \/ AsyncParse \/ AsyncExecute
  BY <1>1, StartEarly DEF AsyncConnect, AsyncSimpleQuery, AsyncParse, AsyncExecute, Kinds
<1>2. CASE SendDone \/ NeedMore \/ ReadDone
  <2>1. /\ io # "idle" /\ io' # "idle" /\ UNCHANGED <<conn, stream, up, inbox, expect, parsers>>
    BY <1>2 DEF SendDone, NeedMore, OutOfInput, ReadDone, opVars, endVars, netVars
  <2> QED  BY <2>1, QuietEarly DEF EarlyInv, Connecting
<1>3. CASE Peek
  <2>1. /\ io # "idle" /\ io' # "idle" /\ UNCHANGED <<conn, stream, up, inbox>>
    BY <1>3 DEF Peek, endVars, netVars
  <2>2. PICK a \in Arcs[op] : a.at = expect /\ expect' = a.to /\ parsers' = a.t
    BY <1>3 DEF Peek
  <2>3. conn = "new" => op = "connect"
    BY <1>0, <2>1 DEF OrderTo, Phases
  <2> QED  BY <2>1, <2>2, <2>3, ConnectArcsLemma, QuietEarly
<1>4. CASE SendFail \/ ReadFail \/ PeekMalformed \/ BodyMalformed
  <2>1. /\ io # "idle" /\ UNCHANGED <<op, stream, up>>
        /\ Complete(Transport, 0, TRUE) \/ Complete(Malformed, 0, FALSE)
           \/ Complete(Malformed, 0, TRUE)
    BY <1>4 DEF SendFail, ReadFail, PeekMalformed, NotExpected, BodyMalformed, Refused,
                opVars, netVars
  <2>2. Transport # Ok /\ Malformed # Ok
    BY OwnErrorsNegative DEF Ok
  <2> QED  BY <1>0, <2>1, <2>2, OwnErrorsNegative, GivesUpEarly
<1>5. CASE Body
  BY <1>5, BodyEarly, ConnectEarly
<1>6. CASE Reply
  BY <1>6, ReplyEarly
<1>7. CASE Die
  BY <1>7, DieEarly
<1>8. CASE UNCHANGED vars
  BY <1>8 DEF vars, opVars, endVars, netVars, EarlyInv, Connecting, EarlyConnectUnusable
<1> QED
  BY <1>1, <1>2, <1>3, <1>4, <1>5, <1>6, <1>7, <1>8 DEF Next, Client

LEMMA EarlyInit == Init => EarlyInv
BY DEF Init, EarlyInv, EarlyConnectUnusable

(* When the server answers whole and sends its key data before it is ready, *)
(* no operation on a connection whose connect reported success before       *)
(* ReadyForQuery ever reports success, however many are tried.              *)
THEOREM EarlyConnectAlwaysUnusable ==
    ASSUME WholeAnswers, KeyBeforeReady
    PROVE  Spec => []EarlyConnectUnusable
<1>1. OrderInv /\ TypeOK /\ EarlyInv /\ [Next]_vars => EarlyInv'
  BY EarlyNext
<1>2. EarlyInv => EarlyConnectUnusable
  BY DEF EarlyInv
<1> QED  BY <1>1, <1>2, EarlyInit, OrderAlways, TypeCorrect, PTL DEF Spec
=============================================================================
