------------------------------ MODULE Requests ------------------------------
(***************************************************************************)
(* The requests of either protocol, from the bytes the client writes to    *)
(* the messages its server reads.                                          *)
(***************************************************************************)
EXTENDS PgRequests, MyRequests

Server == PgServerReads \/ ServerReads
Next == PgRequest \/ MyRequest \/ Server
Spec == Init /\ [][Next]_vars /\ WF_vars(Server)

(* The server reads exactly the messages the requests stand for: whatever  *)
(* their names, texts and parameters, up to the longest that fits, every   *)
(* length covers its message and no message shifts the ones after it; a    *)
(* capability and the field it announces agree.                            *)
Received == INSTANCE Fifo WITH
    Requests <- PgMessages \cup MyPackets,
    queue <- SubSeq(asked, Len(got) + 1, Len(asked)), delivered <- got
MessagesArrive == Received!Spec
=============================================================================
