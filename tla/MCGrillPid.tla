----------------------------- MODULE MCGrillPid -----------------------------
(* GrillPid for TLC: the panel is wired, and "offset" of menuHome takes the  *)
(* values it has with a signed char (5, -5, -1) and with an unsigned char    *)
(* (5, 251, 255), which is what a plain char is on the ARM target.           *)
EXTENDS GrillPid

MCManualSteps == {5, -5, -1, 251, 255}
=============================================================================
