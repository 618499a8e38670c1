---- MODULE MCPidLaw ----
(* Values for the constants of PidLaw that a configuration cannot write. *)
EXTENDS PidLaw

MCDrifts == {-1, 0}
====
