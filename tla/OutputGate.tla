----------------------------- MODULE OutputGate -----------------------------
(***************************************************************************)
(* What the controller promises about its output, whatever the control     *)
(* law: the blower and the damper are driven through a gate.               *)
(*                                                                         *)
(*   "off"      the controller is disabled, the output is 0                *)
(*   "lidOpen"  a lid event is being waited out, the output is 0           *)
(*   "manual"   the output is the last percentage the operator asked for   *)
(*   "auto"     the output is set once per measurement period              *)
(*                                                                         *)
(* A gate is entered with the output at 0 ("manual" with what the operator *)
(* asked for): no output computed under one gate survives under another.   *)
(***************************************************************************)
EXTENDS Integers

VARIABLES gate, output

gateVars == <<gate, output>>

Gates   == {"off", "lidOpen", "manual", "auto"}
Percent == 0..100

GateInit == gate \in Gates /\ output = 0

\* A command, a restart or a lid event moves the gate and drops the output.
Switch == gate' \in Gates /\ output' = 0

\* The operator sets a manual percentage.
Drive == gate' = "manual" /\ output' \in Percent

\* The control law sets the output; it may do so only under an open gate.
Regulate == gate = "auto" /\ gate' = "auto" /\ output' \in Percent

GateNext == Switch \/ Drive \/ Regulate

GateSpec == GateInit /\ [][GateNext]_gateVars
=============================================================================
