---------------------------- MODULE ServoProofs -----------------------------
(***************************************************************************)
(* What holds of Servo for every scale, every set of outputs and every     *)
(* range of settings.                                                      *)
(***************************************************************************)
EXTENDS Servo, Arithmetic, TLAPS

-----------------------------------------------------------------------------
(* Arithmetic                                                              *)

\* An average of percentages is one.
LEMMA AveragedType ==
  ASSUME NEW avg \in Averages, NEW value \in 0..100
  PROVE  Averaged(avg, value) \subseteq Averages
<1>1. Scale \in Nat \ {0} /\ Scale * value \in Nat /\ Scale * value <= 100 * Scale
  <2>1. Scale * value <= Scale * 100
    BY ScaleAssumption, ProductMonotone
  <2> QED
    BY <2>1, ScaleAssumption
<1> DEFINE x == Scale * value
<1>2. 2 * Scale * value = 2 * x
  BY <1>1
<1> HIDE DEF x
<1>3. x \in Nat /\ x <= 100 * Scale
  BY <1>1 DEF x
<1>4. (9 * avg + 2 * x) \div 11 >= 0
  BY <1>1, <1>3 DEF Averages
<1>5. (9 * (avg + 1) + 2 * x - 1) \div 11 <= 100 * Scale
  BY <1>1, <1>3 DEF Averages
<1> QED
  BY <1>1, <1>2, <1>3, <1>4, <1>5 DEF Averaged, Averages

\* The damper opens by a percentage, however the average relates to the
\* ceiling.
LEMMA ScaledType ==
  ASSUME NEW avg \in Averages, NEW ceil \in Percent, avg < Scale * ceil
  PROVE  Scaled(avg, 0, 100, ceil) \subseteq Percent
<1>1. Scale \in Nat \ {0} /\ avg \in Nat /\ ceil \in Nat /\ Scale * ceil \in Nat
  BY ScaleAssumption DEF Averages, Percent
<1> DEFINE n == Scale * ceil
<1>2. n \in Nat \ {0} /\ avg + 1 <= n
  BY <1>1
<1>3. Scale * 0 = 0 /\ avg - Scale * 0 = avg /\ avg + 1 - Scale * 0 = avg + 1
  BY <1>1
<1> HIDE DEF n
<1>4. (avg + 1) * 100 - 1 < n * 100 /\ avg * 100 < n * 100
  BY <1>1, <1>2
<1>5. (avg * 100) \div n \in 0..99
  BY <1>1, <1>2, <1>4, QuotientBelow
<1>6. ((avg + 1) * 100 - 1) \div n \in 0..99
  BY <1>1, <1>2, <1>4, QuotientBelow
<1>7. Scaled(avg, 0, 100, ceil) = (avg * 100) \div n .. ((avg + 1) * 100 - 1) \div n
  BY <1>3 DEF Scaled, n
<1> DEFINE least == (avg * 100) \div n
           most == ((avg + 1) * 100 - 1) \div n
<1>8. least \in 0..99 /\ most \in 0..99 /\ Scaled(avg, 0, 100, ceil) = least .. most
  BY <1>5, <1>6, <1>7
<1> HIDE DEF least, most
<1>9. least .. most \subseteq 0..100
  BY <1>8
<1> QED
  BY <1>8, <1>9 DEF Percent

\* mappct stays between the ends it maps to.
LEMMA MappctBetween ==
  ASSUME NEW a \in Nat, NEW b \in Nat, a <= b, NEW pct \in Percent
  PROVE  mappct(pct, a, b) \in a..b
<1> DEFINE d == b - a
           x == d * pct
<1>1. d \in Nat /\ pct \in Nat /\ pct <= 100
  BY DEF Percent
<1> HIDE DEF d
<1>2. x \in Nat /\ x <= 100 * d
  BY <1>1, ProductMonotone
<1> HIDE DEF x
<1>3. x \div 100 \in 0..d
  BY <1>1, <1>2
<1>4. mappct(pct, a, b) = x \div 100 + a
  BY DEF mappct, d, x
<1> QED
  BY <1>1, <1>3, <1>4 DEF d

-----------------------------------------------------------------------------
(* The inductive invariant                                                 *)

\* A pulse between ends the range has had
Reachable(pulse) ==
  \E lo \in MinPositions, hi \in MaxPositions : lo * 10 <= pulse /\ pulse <= hi * 10

ServoInv ==
  /\ gate \in Gates /\ output \in Percent
  /\ servo \in Settings /\ average \in Averages
  /\ target \in Pulses /\ Reachable(target)
  /\ current \in Pulses /\ Reachable(current)
  /\ duty \in Pulses
  /\ locked \in BOOLEAN /\ slewed \in BOOLEAN

\* The settings are what the assumption says.
LEMMA SettingsRange ==
  ASSUME NEW s \in Settings
  PROVE  /\ s.min \in MinPositions /\ s.max \in MaxPositions
         /\ s.min \in 1..255 /\ s.max \in 1..255 /\ s.min <= s.max
         /\ s.ceil \in Percent /\ s.invert \in BOOLEAN
  BY ServoAssumption DEF Settings

\* An end of the range is a pulse within it.
LEMMA EndReachable ==
  ASSUME NEW s \in Settings
  PROVE  /\ \A pos \in MinPositions : pos * 10 \in Pulses /\ Reachable(pos * 10)
         /\ \A pos \in MaxPositions : pos * 10 \in Pulses /\ Reachable(pos * 10)
<1>1. ASSUME NEW pos \in MinPositions PROVE pos * 10 \in Pulses /\ Reachable(pos * 10)
  <2>1. /\ pos \in 1..255 /\ s.max \in MaxPositions /\ s.max \in 1..255
        /\ pos <= s.max
    BY SettingsRange, ServoAssumption
  <2>2. pos * 10 <= pos * 10 /\ pos * 10 <= s.max * 10 /\ pos * 10 \in Pulses
    BY <2>1 DEF Pulses
  <2> QED
    BY <2>1, <2>2 DEF Reachable
<1>2. ASSUME NEW pos \in MaxPositions PROVE pos * 10 \in Pulses /\ Reachable(pos * 10)
  <2>1. /\ pos \in 1..255 /\ s.min \in MinPositions /\ s.min \in 1..255
        /\ s.min <= pos
    BY SettingsRange, ServoAssumption
  <2>2. s.min * 10 <= pos * 10 /\ pos * 10 <= pos * 10 /\ pos * 10 \in Pulses
    BY <2>1 DEF Pulses
  <2> QED
    BY <2>1, <2>2 DEF Reachable
<1> QED
  BY <1>1, <1>2

LEMMA InitInv == ServoInit => ServoInv
<1> SUFFICES ASSUME ServoInit PROVE ServoInv
  OBVIOUS
<1>1. servo \in Settings
  BY DEF ServoInit
<1>2. target \in Pulses /\ Reachable(target) /\ current = target
  BY <1>1, EndReachable, SettingsRange DEF ServoInit
<1>3. average \in Averages /\ duty \in Pulses
  BY ScaleAssumption DEF ServoInit, Averages, Pulses
<1>4. gate \in Gates /\ output \in Percent
  BY DEF ServoInit, GateInit, Percent
<1>5. locked \in BOOLEAN /\ slewed \in BOOLEAN
  BY DEF ServoInit
<1> QED
  BY <1>1, <1>2, <1>3, <1>4, <1>5 DEF ServoInv

-----------------------------------------------------------------------------
(* Each action keeps the invariant.                                        *)

\* The output changes by a step of the gate.
LEMMA GateType ==
  ASSUME gate \in Gates, output \in Percent,
         Switch \/ Drive \/ Regulate \/ UNCHANGED gateVars
  PROVE  gate' \in Gates /\ output' \in Percent
  BY DEF Switch, Drive, Regulate, gateVars, Gates, Percent

\* A percentage the average may open the damper by is one.
LEMMA OpeningsType ==
  ASSUME servo \in Settings, average' \in Averages
  PROVE  openings \subseteq Percent
<1>1. servo.ceil \in Percent /\ servo.invert \in BOOLEAN
  BY SettingsRange
<1> DEFINE plain == IF average' >= Scale * servo.ceil
                      THEN {100} ELSE Scaled(average', 0, 100, servo.ceil)
<1>2. plain \subseteq Percent
  <2>1. CASE average' >= Scale * servo.ceil
    BY <2>1 DEF Percent
  <2>2. CASE ~(average' >= Scale * servo.ceil)
    <3>1. average' < Scale * servo.ceil
      BY <1>1, <2>2, ScaleAssumption DEF Averages, Percent
    <3> QED
      BY <1>1, <2>2, <3>1, ScaledType
  <2> QED
    BY <2>1, <2>2
<1>3. openings = IF servo.invert THEN {100 - pct : pct \in plain} ELSE plain
  BY DEF openings
<1> HIDE DEF plain
<1>4. {100 - pct : pct \in plain} \subseteq Percent
  BY <1>2 DEF Percent
<1> QED
  BY <1>2, <1>3, <1>4

\* A period aims the servo at a pulse of its range, or finds it locked.
LEMMA PeriodInv == ServoInv /\ Period => ServoInv'
<1> SUFFICES ASSUME ServoInv, Period PROVE ServoInv'
  OBVIOUS
<1>1. gate' \in Gates /\ output' \in Percent
  BY GateType DEF ServoInv, Period, Control
<1>2. average' \in Averages
  BY <1>1, AveragedType DEF ServoInv, Period, Percent
<1>3. PICK pct \in openings :
        setValue(mappct(pct, servo.min * 10, servo.max * 10))
  BY DEF Period
<1>4. pct \in Percent
  BY <1>2, <1>3, OpeningsType DEF ServoInv
<1> DEFINE lo == servo.min
           hi == servo.max
           pulse == mappct(pct, lo * 10, hi * 10)
<1>5. /\ lo \in MinPositions /\ hi \in MaxPositions
      /\ lo \in 1..255 /\ hi \in 1..255 /\ lo <= hi
  BY SettingsRange DEF ServoInv
<1> HIDE DEF lo, hi
<1>6. pulse \in lo * 10 .. hi * 10
  <2>1. lo * 10 \in Nat /\ hi * 10 \in Nat /\ lo * 10 <= hi * 10
    BY <1>5
  <2> QED
    BY <1>4, <2>1, MappctBetween
<1> HIDE DEF pulse
<1>7. pulse \in Pulses /\ Reachable(pulse)
  <2>1. lo * 10 <= pulse /\ pulse <= hi * 10 /\ pulse \in 0..2550
    BY <1>5, <1>6
  <2> QED
    BY <1>5, <2>1 DEF Pulses, Reachable
<1>8. target' \in Pulses /\ Reachable(target')
  BY <1>3, <1>7 DEF setValue, ServoInv, pulse, lo, hi
<1> QED
  BY <1>1, <1>2, <1>8 DEF ServoInv, Period, Reachable

\* A change of the range aims the servo at one of its new ends.
LEMMA StoreServoInv == ServoInv /\ StoreServo => ServoInv'
<1> SUFFICES ASSUME ServoInv, StoreServo PROVE ServoInv'
  OBVIOUS
<1>1. servo' \in Settings /\ locked' \in BOOLEAN /\ target' \in Pulses /\ Reachable(target')
  <2>1. ASSUME NEW pos \in MinPositions, StoreServoMinPos(pos)
        PROVE  /\ servo' \in Settings /\ locked' \in BOOLEAN
               /\ target' \in Pulses /\ Reachable(target')
    BY <2>1, EndReachable DEF StoreServoMinPos, setValue, ServoInv, Settings
  <2>2. ASSUME NEW pos \in MaxPositions, StoreServoMaxPos(pos)
        PROVE  /\ servo' \in Settings /\ locked' \in BOOLEAN
               /\ target' \in Pulses /\ Reachable(target')
    BY <2>2, EndReachable DEF StoreServoMaxPos, setValue, ServoInv, Settings
  <2>3. ASSUME NEW c \in Ceilings, NEW i \in Inverts,
               servo' = [servo EXCEPT !.ceil = c, !.invert = i],
               UNCHANGED <<target, locked>>
        PROVE  /\ servo' \in Settings /\ locked' \in BOOLEAN
               /\ target' \in Pulses /\ Reachable(target')
    BY <2>3 DEF ServoInv, Settings
  <2> QED
    BY <2>1, <2>2, <2>3 DEF StoreServo
<1> QED
  BY <1>1 DEF ServoInv, StoreServo, gateVars, Reachable

\* A step of the servo towards its target stays between what it has reached
\* and the target.
LEMMA SlewInv == ServoInv /\ (SlewUp \/ SlewDown) => ServoInv'
<1> SUFFICES ASSUME ServoInv, SlewUp \/ SlewDown PROVE ServoInv'
  OBVIOUS
<1>1. /\ target \in 0..2550 /\ current \in 0..2550 /\ duty \in 0..2550
      /\ Reachable(target) /\ Reachable(current)
  BY DEF ServoInv, Pulses
<1>2. current' \in 0..2550 /\ Reachable(current')
  <2>1. PICK lo \in MinPositions, hi \in MaxPositions :
          lo * 10 <= current /\ current <= hi * 10
    BY <1>1 DEF Reachable
  <2>2. PICK tlo \in MinPositions, thi \in MaxPositions :
          tlo * 10 <= target /\ target <= thi * 10
    BY <1>1 DEF Reachable
  <2>3. /\ lo \in 1..255 /\ hi \in 1..255 /\ tlo \in 1..255 /\ thi \in 1..255
    BY ServoAssumption
  <2>4. CASE target > current /\ current' = current + 1
    <3>1. lo * 10 <= current' /\ current' <= thi * 10 /\ current' \in 0..2550
      BY <1>1, <2>1, <2>2, <2>3, <2>4
    <3> QED
      BY <3>1 DEF Reachable
  <2>5. CASE target < current /\ current' = current - 1
    <3>1. tlo * 10 <= current' /\ current' <= hi * 10 /\ current' \in 0..2550
      BY <1>1, <2>1, <2>2, <2>3, <2>5
    <3> QED
      BY <3>1 DEF Reachable
  <2>6. CASE current' = current
    BY <1>1, <2>6
  <2> QED
    BY <2>4, <2>5, <2>6 DEF SlewUp, SlewDown
<1>3. duty' \in 0..2550
  <2>1. duty' \in {current', duty}
    <3>1. CASE SlewUp
      BY <3>1 DEF SlewUp
    <3>2. CASE SlewDown
      BY <3>2 DEF SlewDown
    <3> QED
      BY <3>1, <3>2
  <2>2. duty \in 0..2550 /\ current' \in 0..2550
    BY <1>1, <1>2
  <2> QED
    BY <2>1, <2>2
<1>4. slewed' \in BOOLEAN
  BY DEF SlewUp, SlewDown
<1>5. UNCHANGED <<gate, output, servo, average, target, locked>>
  BY DEF SlewUp, SlewDown, gateVars
<1>6. current' \in Pulses /\ duty' \in Pulses
  BY <1>1, <1>2, <1>3 DEF Pulses
<1> QED
  BY <1>2, <1>4, <1>5, <1>6 DEF ServoInv

LEMMA NextInv == ServoInv /\ [ServoNext]_servoVars => ServoInv'
<1> SUFFICES ASSUME ServoInv, [ServoNext]_servoVars PROVE ServoInv'
  OBVIOUS
<1>1. CASE Period
  BY <1>1, PeriodInv
<1>2. CASE Command
  <2>1. gate' \in Gates /\ output' \in Percent
    BY <1>2, GateType DEF Command, ServoInv
  <2> QED
    BY <1>2, <2>1 DEF Command, damperVars, ServoInv, Reachable
<1>3. CASE StoreServo
  BY <1>3, StoreServoInv
<1>4. CASE LockExpires
  BY <1>4 DEF LockExpires, gateVars, damperVars, ServoInv, Reachable
<1>5. CASE SlewUp \/ SlewDown
  BY <1>5, SlewInv
<1>6. CASE UNCHANGED servoVars
  BY <1>6 DEF servoVars, gateVars, damperVars, ServoInv, Reachable
<1> QED
  BY <1>1, <1>2, <1>3, <1>4, <1>5, <1>6 DEF ServoNext

\* The damper never leaves the stretch between the outermost ends its range
\* has had, whichever setter, period or turn of pwm_loop comes next.
THEOREM DamperInRange == ServoSpec => []InRange
<1>1. ServoInv => InRange
  BY DEF ServoInv, InRange, ServoTypeOK, Reachable
<1> QED
  BY <1>1, InitInv, NextInv, PTL DEF ServoSpec
=============================================================================
