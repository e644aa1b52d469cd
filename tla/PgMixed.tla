------------------------------- MODULE PgMixed -------------------------------
(***************************************************************************)
(* All five operations of a PostgreSQL connection: what a oneshot          *)
(* execution reports when the others leave it the connection in sync.      *)
(***************************************************************************)
EXTENDS PgOneshot, PgAnswers

(* A oneshot execution that started in sync and whose reader reached       *)
(* ReadyForQuery reports the result sets of the answer to its own request, *)
(* however the write's completion falls among the reads, and also the      *)
(* server's error, unless the write was the last to complete.              *)
OneshotOwnAnswer ==
    io = "idle" /\ op = "oneshot" /\ Behind = 0 /\ outcome >= Ok /\ (late => endZ # 0)
      => /\ IF late THEN outcome = Ok ELSE ErrorIs(outcome, answer, Len(answer))
         /\ ResultIs(result, answer, Len(answer), ops)
=============================================================================
