-------------------------------- MODULE Fifo --------------------------------
(***************************************************************************)
(* What a connection promises for its requests: the server receives the    *)
(* messages it was sent, field by field, each once and in order, and all   *)
(* of them in the end.                                                     *)
(***************************************************************************)
EXTENDS Sequences

CONSTANT Requests   \* the sequences of messages one request consists of
VARIABLES queue, delivered

fifoVars == <<queue, delivered>>

Init == queue = <<>> /\ delivered = <<>>
Send == \E r \in Requests : queue' = queue \o r /\ UNCHANGED delivered
Deliver ==
    /\ queue # <<>>
    /\ delivered' = Append(delivered, Head(queue)) /\ queue' = Tail(queue)

Spec == Init /\ [][Send \/ Deliver]_fifoVars /\ WF_fifoVars(Deliver)
=============================================================================
