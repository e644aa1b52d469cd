------------------------------ MODULE PgOneshot ------------------------------
(***************************************************************************)
(* async_execute_oneshot (postgresql/detail/oneshot.ipp) on a connection   *)
(* that also runs the other operations: Parse, Bind, Describe, Execute and *)
(* Sync in one write, and a reader that is started before that write.      *)
(*                                                                         *)
(* Its parse loop is PgSession's.  What differs is that the operation has  *)
(* two chains of handlers, the write and the reader, and that each ends in *)
(* cntl().complete().  External, modelled from how this code uses it: with *)
(* enable_reference_count a complete() counts only when no other handler   *)
(* of the operation is outstanding.  (Were the first one to count, the     *)
(* write's would end every operation before its answer.)                   *)
(*                                                                         *)
(* The first handler parses what the connection's buffer holds and then    *)
(* starts the write.  If the reader completes before that, nothing is      *)
(* outstanding, and the handler goes on with an operation that is over:    *)
(* such a connection is not followed further (conn = "dropped"), and       *)
(* neither is one whose stream broke or whose reader stopped in the middle *)
(* of a message, whether or not the application is told.                   *)
(***************************************************************************)
EXTENDS PgSession

VARIABLES
    writer,   \* "none" (no oneshot is running), "unstarted", "writing",
              \* "ended".  io is the reader, "sending" once it has ended.
    late,     \* history: did the reader end before the write?
    unseen    \* history: oneshot executions that reported success although
              \* their reader had given up

writerVars == <<writer, late, unseen>>
mixedVars == <<vars, writer, late, unseen>>

MixedInit == Init /\ writer = "none" /\ late = FALSE /\ unseen = 0

AsyncExecuteOneshot ==
    /\ conn \in {"open", "early"}
    /\ Fresh("oneshot") /\ io' = "parsing"
    /\ writer' = "unstarted" /\ late' = FALSE
    /\ UNCHANGED <<inbox, unseen>>

-----------------------------------------------------------------------------
(* do_parse: the turns that do not end the reader. *)
Turn ==
    /\ op = "oneshot"
    /\ Peek \/ Dismissed \/ RowDescription \/ DataRow \/ CommandComplete \/ ErrorKept
    /\ UNCHANGED writerVars

(* do_read.  The first time it returns to the first handler, which writes. *)
DoRead_NoWrite ==
    /\ op = "oneshot" /\ OutOfInput
    /\ UNCHANGED <<writerVars, inbox>>
DoRead ==
    /\ op = "oneshot" /\ OutOfInput
    /\ IF writer = "unstarted"
       THEN writer' = "writing" /\ Request("oneshot", ops)
       ELSE UNCHANGED <<writer, inbox>>
    /\ UNCHANGED <<late, unseen>>

OneshotReadDone == op = "oneshot" /\ ReadDone /\ UNCHANGED writerVars

(* The reader's cntl().complete(e): it is not what the application sees if *)
(* the write is still out. *)
ReaderEnds_ForgetsWrite(e, q, lost) ==
    /\ UNCHANGED <<late, unseen>>
    /\ \/ /\ writer = "writing" /\ io' = "sending" /\ writer' = "ended"
          /\ Closes(e, q, lost)
          /\ UNCHANGED <<outcome, told>>
       \/ /\ writer # "writing" /\ writer' = "none"
          /\ Complete(e, q, lost \/ writer = "unstarted")
ReaderEnds(e, q, lost) ==
    /\ UNCHANGED unseen
    /\ \/ /\ writer = "unstarted" /\ writer' = "none"
          /\ Complete(e, q, TRUE)
          /\ UNCHANGED late
       \/ /\ writer = "writing" /\ io' = "sending" /\ late' = TRUE
          /\ Closes(e, q, lost)
          /\ UNCHANGED <<writer, outcome, told>>
       \/ /\ writer = "ended" /\ writer' = "none"
          /\ Complete(e, q, lost)
          /\ UNCHANGED late

AnswerEnds_DropsError ==
    /\ op = "oneshot" /\ Parsed("ready")
    /\ ReaderEnds(Ok, Head(stream).rq, FALSE)
    /\ UNCHANGED <<expect, parsers, err, curr, result>>
AnswerEnds_AtCommand ==
    /\ op = "oneshot" /\ Parsed("push")
    /\ ReaderEnds(err, 0, FALSE)
    /\ result' = Append(result, curr) /\ curr' = NoSet
    /\ UNCHANGED <<expect, parsers, err>>
AnswerEnds ==
    /\ op = "oneshot" /\ Parsed("ready")
    /\ ReaderEnds(err, Head(stream).rq, FALSE)
    /\ UNCHANGED <<expect, parsers, err, curr, result>>

Malforms_ReadsOn ==
    /\ op = "oneshot" /\ NotExpected /\ writer # "unstarted"
    /\ io' = "reading"
    /\ UNCHANGED <<opVars, bufVars, netVars, endVars, writerVars>>
Malforms ==
    /\ op = "oneshot"
    /\ \/ NotExpected /\ ReaderEnds(Malformed, 0, FALSE)
       \/ Refused /\ ReaderEnds(Malformed, 0, TRUE)
    /\ UNCHANGED <<opVars, bufVars, netVars>>

OneshotReadFail ==
    /\ op = "oneshot" /\ io = "reading"
    /\ ReaderEnds(Transport, 0, TRUE)
    /\ UNCHANGED <<opVars, bufVars, netVars>>

-----------------------------------------------------------------------------
(* ev_send: the write's cntl().complete(e), which ends the operation if    *)
(* the reader has ended: however that ended, e is what the application     *)
(* gets. *)
Returns(e) ==
    /\ writer' = "none" /\ io' = "idle" /\ outcome' = e /\ told' = (told \/ Tells(e))
    /\ conn' = IF e # Ok THEN "dropped" ELSE conn
    /\ unseen' = IF e = Ok /\ endZ = 0 THEN unseen + 1 ELSE unseen
WriterEnds_AtOnce(e) ==
    /\ writer = "writing"
    /\ Returns(e)
    /\ UNCHANGED <<opVars, bufVars, stream, answer, missed, endZ, late>>
WriterEnds(e) ==
    /\ writer = "writing"
    /\ IF io = "sending" THEN Returns(e)
       ELSE writer' = "ended" /\ UNCHANGED <<io, outcome, told, conn, unseen>>
    /\ UNCHANGED <<opVars, bufVars, stream, answer, missed, endZ, late>>
WriteDone == WriterEnds(Ok) /\ UNCHANGED <<inbox, up>>

(* A write fails on a stream that is broken for reads as well. *)
WriteFail == WriterEnds(Transport) /\ inbox' = <<>> /\ up' = FALSE

-----------------------------------------------------------------------------
(* The operations of PgSession, one at a time with oneshot executions. *)
Others == op # "oneshot" \/ io = "idle"
OtherClient == Others /\ Client /\ UNCHANGED writerVars
OtherReadDone == Others /\ ReadDone /\ UNCHANGED writerVars
OtherReadFail == Others /\ ReadFail /\ UNCHANGED writerVars
OtherSendFail == Others /\ SendFail /\ UNCHANGED writerVars
OtherStarts ==
    /\ AsyncConnect \/ AsyncSimpleQuery \/ AsyncParse \/ AsyncExecute
    /\ UNCHANGED writerVars
ServerMoves == (Reply \/ Die) /\ UNCHANGED writerVars

Handlers == Turn \/ DoRead \/ AnswerEnds \/ Malforms \/ WriteDone \/ OtherClient
MixedNext ==
    \/ AsyncExecuteOneshot \/ OtherStarts
    \/ Handlers
    \/ OneshotReadDone \/ OtherReadDone
    \/ WriteFail \/ OneshotReadFail \/ OtherReadFail \/ OtherSendFail
    \/ ServerMoves

(* As in PgSession: handlers run when they are ready, writes and reads     *)
(* complete, and the server answers or its end of file is reported.        *)
MixedEof == ~up /\ stream = <<>> /\ (OneshotReadFail \/ OtherReadFail)
MixedFairness ==
    /\ WF_mixedVars(Turn \/ DoRead \/ AnswerEnds \/ Malforms \/ OtherClient)
    /\ WF_mixedVars(WriteDone)
    /\ WF_mixedVars(OneshotReadDone \/ OtherReadDone)
    /\ WF_mixedVars(MixedEof)
    /\ WF_mixedVars(Reply /\ UNCHANGED writerVars)
MixedSpec == MixedInit /\ [][MixedNext]_mixedVars /\ MixedFairness

-----------------------------------------------------------------------------
WriterTypeOK ==
    /\ writer \in {"none", "unstarted", "writing", "ended"} /\ late \in BOOLEAN
    /\ unseen \in Nat
    /\ writer # "none" <=> op = "oneshot" /\ io # "idle"
    /\ op = "oneshot" /\ io = "sending" => writer = "writing"

(* When the write is the last to complete, the application does not learn  *)
(* that the reader gave up, and the rest of the answer stays in the        *)
(* stream.  As long as connect waited for ReadyForQuery and no operation   *)
(* reported an error (but for those of the server that execute and oneshot *)
(* keep), such executions are all that puts a connection behind: it is     *)
(* behind by one answer for each, and in sync if there was none.           *)
BehindUnseen ==
    io = "idle" /\ conn = "open" /\ ~told
      => /\ up => Owed = unseen
         /\ unseen = 0 => stream = <<>> /\ inbox = <<>>

(* A oneshot execution never ends before its request is written, unless an *)
(* earlier operation returned without reading its whole answer: only then  *)
(* can there be something in the buffer for the first handler to refuse.   *)
WrittenBeforeEnd ==
    [][writer = "unstarted" /\ io' = "idle" => missed > 0]_mixedVars
=============================================================================
