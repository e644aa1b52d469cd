----------------------------- MODULE MCRequests -----------------------------
(* Texts of no and of many bytes; no parameter, one with a zero in it, and *)
(* two, empty and long; MySQL queries up to the longest that fits a packet.*)
(* The lengths carry into the second and third digit and differ between    *)
(* requests that follow one another.                                       *)
EXTENDS Requests

Texts == {<<>>, [i \in 1..30 |-> i]}
Tuples == {<<>>, <<<<0>>>>, <<<<>>, [i \in 1..26 |-> i - 1]>>}
LongTexts == {[i \in 1..n |-> i % 3] : n \in {0, 1, Base - 1, Base^2 - 1, Base^3 - 3}}
=============================================================================
