----------------------------- MODULE RequestWire -----------------------------
(***************************************************************************)
(* A connection that writes requests and a server that reads them: what    *)
(* PgRequests and MyRequests have in common.                               *)
(*                                                                         *)
(* Every request is a buffer of a size computed first and filled in front  *)
(* to back; the lengths inside it are computed apart from what is written. *)
(* A wrong one shifts every message after it.                              *)
(*                                                                         *)
(* A byte is a number.  Base is the number of values of a byte of an       *)
(* integer: 256 in the program, less in a run, so that lengths carry.      *)
(***************************************************************************)
EXTENDS Integers, SequencesExt

CONSTANTS
    Base,          \* radix of integers
    Strings,       \* names, texts and passwords: no byte of them is 0
    MaxRequests    \* bound: requests after the ones that log in

ASSUME EncodingAssumption ==
    Base > 4 /\ \A s \in Strings : \A i \in DOMAIN s : s[i] # 0

VARIABLES
    protocol,  \* "postgresql" or "mysql"; never changes
    wire,      \* bytes written and not read by the server
    asked,     \* history: the messages the requests stand for
    got,       \* messages the server has read
    reading,   \* the message it is reading, or Nothing
    requests   \* requests written

vars == <<protocol, wire, asked, got, reading, requests>>
Nothing == [t |-> -1]

Init ==
    /\ protocol \in {"postgresql", "mysql"}
    /\ wire = <<>> /\ asked = <<>> /\ got = <<>> /\ reading = Nothing /\ requests = 0

Write(bytes, messages) ==
    /\ wire' = wire \o bytes /\ asked' = asked \o messages
    /\ requests' = requests + 1
    /\ UNCHANGED <<protocol, got, reading>>
=============================================================================
