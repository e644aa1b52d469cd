------------------------------ MODULE MCPqExec ------------------------------
(* One command of the extended protocol gives one result, an error among   *)
(* them; or it begins a COPY; or the server gives up.                      *)
EXTENDS PqExec

OneCommand == {<<"result", "Z">>, <<"copy">>, <<"fatal">>}

(* As the theorems of PqExecProofs ask. *)
ASSUME OneCommandAssumption == ReadyLast
=============================================================================
