------------------------------- MODULE Frames -------------------------------
(***************************************************************************)
(* What a reader of framed messages promises: the well-formed messages are *)
(* delivered in the order they were sent, field by field as they were      *)
(* sent; the first ill-formed one is refused, and nothing after it is      *)
(* delivered.  How reads cut the bytes up does not show.                   *)
(***************************************************************************)
EXTENDS Naturals, Sequences

CONSTANT Streams    \* message sequences that may be sent; a message is a record
                    \* with its content and ok: is it well formed?
VARIABLES sent, delivered, refused

vars == <<sent, delivered, refused>>

Pending == sent[Len(delivered) + 1]

Init == sent \in Streams /\ delivered = <<>> /\ refused = FALSE

Deliver ==
    /\ ~refused /\ Len(delivered) < Len(sent) /\ Pending.ok
    /\ delivered' = Append(delivered, Pending.content)
    /\ UNCHANGED <<sent, refused>>

Refuse ==
    /\ ~refused /\ Len(delivered) < Len(sent) /\ ~Pending.ok
    /\ refused' = TRUE
    /\ UNCHANGED <<sent, delivered>>

Next == Deliver \/ Refuse
Spec == Init /\ [][Next]_vars /\ WF_vars(Next)
=============================================================================
