------------------------------- MODULE Servo --------------------------------
(***************************************************************************)
(* From the controller's output to the damper: commitServoOutput and the   *)
(* setters of the servo's range (src/src/grillpid.cpp), and the thread that*)
(* slews the servo (src/src/pwm.cpp).                                      *)
(*                                                                         *)
(* The controller is what module OutputGate promises.  Pulse widths are in *)
(* microseconds; the settings are in tens of them.  m_locktarget is kept   *)
(* as whether it has passed, which time decides (LockExpires); a commit    *)
(* and a range change may fall between the two tests of pwm_loop.          *)
(***************************************************************************)
EXTENDS OutputGate, MovingAverage

CONSTANTS
  Levels,       \* outputs the controller may compute
  MinPositions, \* values asked for servoMinPos, servoMaxPos
  MaxPositions, \* and servoActiveCeil
  Ceilings,
  Inverts       \* settings of PIDFLAG_INVERT_SERVO

\* With a minimum above the maximum, mappct subtracts into a negative int and
\* goes on with it as an unsigned one; no such range is modelled.
ASSUME ServoAssumption ==
  /\ Levels \subseteq Percent
  /\ MinPositions \subseteq 1..255 /\ MaxPositions \subseteq 1..255
  /\ \A lo \in MinPositions, hi \in MaxPositions : lo <= hi
  /\ Ceilings \subseteq Percent
  /\ Inverts \subseteq BOOLEAN

VARIABLES
  servo,       \* the servo's settings
  average,     \* PidOutputAvg_fast
  target,      \* m_target_dc
  current,     \* m_current_dc
  duty,        \* what duty_cycle was last written, 0 before that
  locked,      \* m_locktarget >= time(NULL)
  slewed       \* pwm_loop is between its two tests

damperVars == <<target, current, duty>>
servoVars  == <<gateVars, servo, average, damperVars, locked, slewed>>

Settings == [min : MinPositions, max : MaxPositions, ceil : Ceilings, invert : Inverts]
Pulses   == 0..2550

mappct(o, a, b) == ((b - a) * o) \div 100 + a

-----------------------------------------------------------------------------
(* Pwm::setValue (the servo has been given a value before) and Pwm::lock   *)

setValue(pulse) == target' = IF locked THEN target ELSE pulse

\* Mutant: the setting is kept in microseconds.
StoreServoMinPosMicros(pos) ==
  /\ servo' = [servo EXCEPT !.min = pos * 10]
  /\ setValue(pos * 10)
  /\ locked' = TRUE

\* The servo shows a new end of its range for three seconds.
StoreServoMinPos(pos) ==
  /\ servo' = [servo EXCEPT !.min = pos]
  /\ setValue(pos * 10)
  /\ locked' = TRUE

StoreServoMaxPos(pos) ==
  /\ servo' = [servo EXCEPT !.max = pos]
  /\ setValue(pos * 10)
  /\ locked' = TRUE

StoreServo ==
  /\ \/ \E pos \in MinPositions : StoreServoMinPos(pos)
     \/ \E pos \in MaxPositions : StoreServoMaxPos(pos)
     \/ \E c \in Ceilings, i \in Inverts :
          /\ servo' = [servo EXCEPT !.ceil = c, !.invert = i]
          /\ UNCHANGED <<target, locked>>
  /\ UNCHANGED <<gateVars, average, current, duty, slewed>>

LockExpires ==
  /\ locked /\ locked' = FALSE
  /\ UNCHANGED <<gateVars, servo, average, damperVars, slewed>>

-----------------------------------------------------------------------------
(* commitServoOutput                                                       *)

\* Mutant: the inversion is forgotten.
openingsPlain ==
  IF average' >= Scale * servo.ceil THEN {100} ELSE Scaled(average', 0, 100, servo.ceil)

\* The percentages the average may open the damper by
openings ==
  LET plain == IF average' >= Scale * servo.ceil
                 THEN {100} ELSE Scaled(average', 0, 100, servo.ceil)
  IN IF servo.invert THEN {100 - pct : pct \in plain} ELSE plain

Control ==
  \/ gate = "auto" /\ output' \in Levels /\ Regulate
  \/ gate \in {"auto", "lidOpen"} /\ Switch /\ gate' \in {"auto", "lidOpen"}
  \/ UNCHANGED gateVars

Period ==
  /\ Control
  /\ average' \in Averaged(average, output')
  /\ \E pct \in openings : setValue(mappct(pct, servo.min * 10, servo.max * 10))
  /\ UNCHANGED <<servo, current, duty, locked, slewed>>

Command ==
  /\ \/ Switch
     \/ output' \in Levels /\ Drive
  /\ UNCHANGED <<servo, average, damperVars, locked, slewed>>

-----------------------------------------------------------------------------
(* Pwm::pwm_loop: a microsecond up, then a microsecond down                *)

\* Mutant: the servo is moved by two microseconds at a time.
SlewUpByTwo ==
  /\ ~slewed /\ slewed' = TRUE
  /\ current' = IF target > 0 /\ target > current THEN current + 2 ELSE current
  /\ duty' = IF current' # current THEN current' ELSE duty
  /\ UNCHANGED <<gateVars, servo, average, target, locked>>

SlewUp ==
  /\ ~slewed /\ slewed' = TRUE
  /\ current' = IF target > 0 /\ target > current THEN current + 1 ELSE current
  /\ duty' = IF current' # current THEN current' ELSE duty
  /\ UNCHANGED <<gateVars, servo, average, target, locked>>

SlewDown ==
  /\ slewed /\ slewed' = FALSE
  /\ current' = IF target > 0 /\ target < current THEN current - 1 ELSE current
  /\ duty' = IF current' # current THEN current' ELSE duty
  /\ UNCHANGED <<gateVars, servo, average, target, locked>>

-----------------------------------------------------------------------------
\* eepromLoadBaseConfig has set the minimum, locked the servo and so lost the
\* maximum; the value went to a path that Pwm::init has yet to set.
ServoInit ==
  /\ GateInit
  /\ servo \in Settings
  /\ average = 0
  /\ target = servo.min * 10 /\ current = target /\ duty = 0
  /\ locked = TRUE /\ slewed = FALSE

ServoNext ==
  Period \/ Command \/ StoreServo \/ LockExpires \/ SlewUp \/ SlewDown

\* Both threads keep running and time passes.
ServoSpec ==
  /\ ServoInit /\ [][ServoNext]_servoVars
  /\ WF_servoVars(Period) /\ WF_servoVars(LockExpires)
  /\ WF_servoVars(SlewUp) /\ WF_servoVars(SlewDown)

-----------------------------------------------------------------------------
ServoTypeOK ==
  /\ servo \in Settings /\ average \in Averages
  /\ target \in Pulses /\ current \in Pulses /\ duty \in Pulses
  /\ locked \in BOOLEAN /\ slewed \in BOOLEAN

\* The damper never leaves the stretch between the outermost ends its range
\* has had, whichever change of range, of direction or of target overtakes
\* another.
InRange ==
  /\ ServoTypeOK
  /\ \A p \in {target, current} :
       \E lo \in MinPositions, hi \in MaxPositions : lo * 10 <= p /\ p <= hi * 10

\* Once nobody interferes the damper comes to rest: a controller that stays
\* off, or waits out a lid event, ends up with it at the closed end.
ClosesWhenOff ==
  /\ <>[][Period \/ LockExpires \/ SlewUp \/ SlewDown]_servoVars
  /\ <>[](gate \in {"off", "lidOpen"} /\ servo.ceil # 0)
  => <>[](current = (IF servo.invert THEN servo.max ELSE servo.min) * 10)
=============================================================================
