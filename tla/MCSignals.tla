----------------------------- MODULE MCSignals ------------------------------
(* Signals for TLC: one probe whose low alarm can be disabled (-1), silenced *)
(* (0) or set, one LED.                                                      *)
EXTENDS Signals

MCLowLimits == {-1, 0, 1}
=============================================================================
