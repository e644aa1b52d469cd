------------------------------ MODULE MCMyWrap ------------------------------
(* A server that gives one result, as the theorems of MySessionProofs ask. *)
EXTENDS MCMySession

ASSUME OneResultAssumption == OneResult
=============================================================================
