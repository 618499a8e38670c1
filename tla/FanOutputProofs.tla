-------------------------- MODULE FanOutputProofs ---------------------------
(***************************************************************************)
(* What holds of FanOutput for all settings of the fan, all outputs, all   *)
(* readings of the feedback and every precision of the average.            *)
(***************************************************************************)
EXTENDS FanOutput, Arithmetic, TLAPS

-----------------------------------------------------------------------------
(* The inductive invariant                                                 *)

\* The average never reaches 100, whatever the output has been.
Reached == 0..(100 * Scale - 1)

FanTypes ==
  /\ gate \in Gates /\ output \in Percent
  /\ fan \in Settings /\ average \in Reached
  /\ fanSpeed \in 0..255 /\ longPwmTmr \in 0..9
  /\ target \in 0..255 /\ feedvolt \in 0..255 /\ blower \in 0..255
  /\ phase \in 0..2
  /\ cycle \in [seen : [demand : Nat, fan : Settings], on : Nat, alike : BOOLEAN]

\* A blower at rest has no target left.
RestInv == blower = 0 => target = 0

\* The intervals of ten in which the long PWM is on
Share(seen) == (10 * seen.demand) \div seen.fan.min

\* Of the first k intervals of a cycle, as many were on.
OnAfter(k, share) == IF share < k THEN share ELSE k

DutyInv ==
  cycle.alike =>
    /\ cycle.seen.demand < cycle.seen.fan.min
    /\ longPwmTmr = 0 => cycle.on = OnAfter(10, Share(cycle.seen))
    /\ longPwmTmr # 0 => cycle.on = OnAfter(longPwmTmr, Share(cycle.seen))

FanInv == FanTypes /\ RestInv /\ DutyInv

-----------------------------------------------------------------------------
(* Arithmetic of the output stages                                         *)

LEMMA AverageStep ==
  ASSUME NEW a \in Reached, NEW v \in Percent, NEW b \in Averaged(a, v)
  PROVE  b \in Reached
<1>. DEFINE p == Scale * v
<1>1. p \in Nat /\ p <= 100 * Scale
  <2>1. Scale \in Nat /\ v \in Nat /\ v <= 100 /\ 100 \in Nat
    BY ScaleAssumption DEF Percent
  <2>2. Scale * v <= Scale * 100 /\ Scale * v \in Nat
    BY <2>1, ProductMonotone
  <2>. QED BY <2>1, <2>2
<1>2. 2 * Scale * v = 2 * p
  BY ScaleAssumption DEF Percent
<1>3. b \in (9 * a + 2 * p) \div 11 .. (9 * (a + 1) + 2 * p - 1) \div 11
  BY <1>2 DEF Averaged
<1>. HIDE DEF p
<1>. QED BY <1>1, <1>3, ScaleAssumption DEF Reached

\* A speed asked for is below the maximum it is scaled to.
LEMMA ScaledBelow ==
  ASSUME NEW a \in Reached, NEW offset \in 0..99, Scale * offset <= a,
         NEW factor \in Percent, NEW d \in Scaled(a, offset, factor, 100 - offset)
  PROVE  d \in Nat /\ (d = 0 \/ d < factor)
<1>. DEFINE O == Scale * offset
            A == a - O
            R == Scale * (100 - offset)
            least == (A * factor) \div R
            most == ((A + 1) * factor - 1) \div R
<1>1. O \in Nat /\ R = 100 * Scale - O /\ Scale \in Nat \ {0}
  BY ScaleAssumption
<1>2. A \in Nat /\ R \in Nat \ {0} /\ A + 1 <= R
  BY <1>1 DEF Reached
<1>3. d \in least .. (IF factor = 0 THEN least ELSE most)
  BY <1>1 DEF Scaled, Reached
<1>. HIDE DEF O, A, R
<1>4. factor \in Nat
  BY DEF Percent
<1>5. CASE factor = 0
  <2>1. A * factor = 0 /\ R * 0 = 0
    BY <1>2, <1>5
  <2>2. least = 0
    BY <1>2, <2>1, QuotientIs
  <2>. HIDE DEF least, most
  <2>. QED BY <1>3, <1>5, <2>2
<1>6. CASE factor # 0
  <2>. DEFINE s == (A + 1) * factor - 1
  <2>1. A * factor \in Nat /\ (A + 1) * factor \in Nat \ {0}
    BY <1>2, <1>4, <1>6
  <2>2. (A + 1) * factor <= R * factor
    <3>1. factor * (A + 1) <= factor * R
      BY <1>2, <1>4, ProductMonotone
    <3>. QED BY <1>2, <1>4, <3>1
  <2>3. s \in Nat /\ s < R * factor
    BY <1>2, <1>4, <2>1, <2>2
  <2>. HIDE DEF s
  <2>4. s \div R < factor
    BY <1>2, <1>4, <2>3, QuotientBelow
  <2>5. most < factor /\ most \in Int /\ least \in Nat
    <3>1. s \div R \in Nat
      BY <1>2, <2>3, Quotient
    <3>. QED BY <1>2, <2>1, <2>4, <3>1, Quotient DEF s
  <2>. HIDE DEF least, most
  <2>. QED BY <1>3, <1>4, <1>6, <2>5
<1>. QED BY <1>5, <1>6

\* Long PWM and inversion of a demand
LEMMA SpeedRange ==
  ASSUME fan \in Settings, longPwmTmr \in 0..9,
         NEW d \in Nat, d = 0 \/ d < fan.max \/ d < fan.startup
  PROVE  /\ Inverted(Pulsed(d)) \in 0..255
         /\ InversionFits => Inverted(Pulsed(d)) \in Percent
<1>. DEFINE speed == Pulsed(d)
            lo == fan.min
            hi == fan.max
            st == fan.startup
<1>1. lo \in 0..100 /\ hi \in 0..100 /\ st \in 0..100 /\ fan.invert \in BOOLEAN
  BY DEF Settings, Percent
<1>2. speed \in {0, lo, d}
  BY DEF Pulsed
<1>3. d = 0 \/ d < hi \/ d < st
  OBVIOUS
<1>4. InversionFits => (fan.invert => hi >= lo /\ hi >= st)
  BY DEF InversionFits
<1>5. Inverted(speed) = IF fan.invert THEN (hi - speed) % 256 ELSE speed
  BY DEF Inverted, Byte
<1>. HIDE DEF speed, lo, hi, st
<1>6. speed \in 0..100
  BY <1>1, <1>2, <1>3
<1>7. (hi - speed) % 256 \in 0..255
  BY <1>1, <1>6
<1>8. hi >= lo /\ hi >= st => (hi - speed) % 256 \in 0..100
  BY <1>1, <1>2, <1>3, <1>6
<1>9. Inverted(speed) \in 0..255
  BY <1>5, <1>6, <1>7
<1>10. InversionFits => Inverted(speed) \in 0..100
  BY <1>1, <1>4, <1>5, <1>6, <1>8
<1>. QED BY <1>9, <1>10 DEF speed, Percent

LEMMA TargetRange ==
  ASSUME NEW o \in 0..255
  PROVE  /\ Byte(mappct(o, FeedvoltLow, FeedvoltHigh)) \in 0..255
         /\ Byte(mappct(o, 0, 255)) \in 0..255
         /\ o \in 1..100 => /\ Byte(mappct(o, FeedvoltLow, FeedvoltHigh)) # 0
                            /\ Byte(mappct(o, 0, 255)) # 0
BY DEF Byte, mappct, FeedvoltLow, FeedvoltHigh

\* The feedback keeps a blower with a target running, and stops one without.
LEMMA AdjustRange ==
  ASSUME fan \in Settings, NEW t \in 0..255, NEW v \in 0..255,
         adjustFeedbackVoltage(t, v)
  PROVE  /\ feedvolt' \in 0..255 /\ blower' = feedvolt'
         /\ blower' # 0 <=> t # 0
<1>1. blower' = feedvolt'
  BY DEF adjustFeedbackVoltage
<1>2. CASE t = 0 \/ ~fan.feedvolt
  BY <1>1, <1>2 DEF adjustFeedbackVoltage
<1>3. CASE t # 0 /\ fan.feedvolt
  <2>1. PICK ffeedback \in Feedbacks :
          feedvolt' = Clamp(v + Half(t - ffeedback), 1, 255)
    BY <1>3 DEF adjustFeedbackVoltage
  <2>2. ffeedback \in 0..255
    BY FanAssumption
  <2>3. v + Half(t - ffeedback) \in Int
    BY <2>2 DEF Half
  <2>4. feedvolt' \in 1..255
    BY <2>1, <2>3 DEF Clamp
  <2>5. feedvolt' \in 0..255 /\ feedvolt' # 0
    BY <2>4
  <2>. QED BY <1>1, <1>3, <2>5
<1>. QED BY <1>2, <1>3 DEF Settings

-----------------------------------------------------------------------------
(* The steps                                                               *)

LEMMA FanInitInv == FanInit => FanInv
<1>. SUFFICES ASSUME FanInit PROVE FanInv
  OBVIOUS
<1>1. PICK min \in MinSpeeds, max \in MaxSpeeds, start \in StartupSpeeds,
           floor \in Floors, f \in FeedVolts, i \in Inverts :
        fan = [min |-> Clamp(Byte(min), 0, 100), max |-> Clamp(Byte(max), 0, 100),
               startup |-> Clamp(Byte(start), 0, 100),
               floor |-> setFanActiveFloor(Byte(floor)), feedvolt |-> f, invert |-> i]
  BY DEF FanInit
<1>2. \A n \in Nat : Clamp(Byte(n), 0, 100) \in Percent /\ setFanActiveFloor(Byte(n)) \in 0..99
  BY DEF Clamp, Byte, setFanActiveFloor, Percent
<1>3. /\ min \in Nat /\ max \in Nat /\ start \in Nat /\ floor \in Nat
      /\ f \in BOOLEAN /\ i \in BOOLEAN
  BY FanAssumption
<1>4. fan \in Settings
  BY <1>1, <1>2, <1>3 DEF Settings
<1>5. FanTypes
  <2>1. cycle \in [seen : [demand : Nat, fan : Settings], on : Nat, alike : BOOLEAN]
    BY <1>4 DEF FanInit
  <2>2. 0 \in Reached
    BY ScaleAssumption DEF Reached
  <2>. QED BY <1>4, <2>1, <2>2 DEF FanInit, FanTypes, GateInit, Percent, TEMP_OUTADJUST_CNT
<1>. QED BY <1>5 DEF FanInv, FanInit, RestInv, DutyInv

LEMMA ControlTypes ==
  ASSUME FanInv, Control
  PROVE  gate' \in Gates /\ output' \in Percent
<1>1. CASE Regulate
  BY <1>1 DEF Regulate, Gates
<1>2. CASE Switch
  BY <1>2 DEF Switch, Percent
<1>3. CASE UNCHANGED gateVars
  BY <1>3 DEF gateVars, FanInv, FanTypes
<1>. QED BY <1>1, <1>2, <1>3 DEF Control

\* What a commit asks the fan for
LEMMA DemandRange ==
  ASSUME FanInv, Control, average' \in Averaged(average, output'), NEW d \in Demands
  PROVE  /\ average' \in Reached /\ d \in Nat
         /\ d = 0 \/ d < fan.max \/ d < fan.startup
<1>1. average' \in Reached
  BY ControlTypes, AverageStep DEF FanInv, FanTypes
<1>. DEFINE max == IF startup' THEN fan.startup ELSE fan.max
<1>2. max \in Percent /\ fan.floor \in 0..99
  BY DEF FanInv, FanTypes, Settings
<1>3. CASE average' < Scale * fan.floor
  BY <1>1, <1>3 DEF Demands
<1>4. CASE ~(average' < Scale * fan.floor)
  <2>1. d \in Scaled(average', fan.floor, max, 100 - fan.floor)
    BY <1>4 DEF Demands
  <2>2. Scale * fan.floor <= average'
    <3>1. Scale * fan.floor \in Int
      BY <1>2, ScaleAssumption
    <3>. QED BY <1>1, <1>4, <3>1 DEF Reached
  <2>. HIDE DEF max
  <2>3. d \in Nat /\ (d = 0 \/ d < max)
    BY <1>1, <1>2, <2>1, <2>2, ScaledBelow
  <2>. QED BY <1>1, <2>3 DEF max
<1>. QED BY <1>3, <1>4

\* Speed, target and voltage of a commit
LEMMA BlowerRange ==
  ASSUME FanInv, fanSpeed' \in 0..255, Blower
  PROVE  /\ target' \in 0..255 /\ feedvolt' \in 0..255 /\ blower' \in 0..255
         /\ RestInv'
         /\ blower = 0 /\ blower' # 0 => blower' = 255
         /\ fanSpeed' \in Percent => (blower' # 0 <=> target' # 0)
<1>1. target' \in 0..255 /\ (fanSpeed' = 0 => target' = 0)
      /\ (fanSpeed' \in 1..100 => target' # 0)
  <2>1. PICK o \in 0..255 : o = fanSpeed'
    OBVIOUS
  <2>. DEFINE low == Byte(mappct(o, FeedvoltLow, FeedvoltHigh))
              full == Byte(mappct(o, 0, 255))
  <2>2. low \in 0..255 /\ full \in 0..255 /\ (o \in 1..100 => low # 0 /\ full # 0)
    <3>1. low \in 0..255
      BY TargetRange
    <3>2. full \in 0..255
      BY TargetRange
    <3>3. ASSUME o \in 1..100 PROVE low # 0 /\ full # 0
      BY <3>3, TargetRange, Zenon
    <3>. QED BY <3>1, <3>2, <3>3
  <2>3. target' \in {0, low, full} /\ (o = 0 => target' = 0)
        /\ (o # 0 => target' \in {low, full})
    BY <2>1 DEF Blower
  <2>. HIDE DEF low, full
  <2>. QED BY <2>1, <2>2, <2>3
<1>2. CASE fanSpeed' # 0 /\ target = 0
  <2>1. blower' = 255 /\ feedvolt' = 128
    BY <1>2 DEF Blower
  <2>2. fanSpeed' \in Percent => target' # 0
    BY <1>1, <1>2 DEF Percent
  <2>. QED BY <1>1, <2>1, <2>2 DEF RestInv
<1>3. CASE ~(fanSpeed' # 0 /\ target = 0)
  <2>1. adjustFeedbackVoltage(target', feedvolt)
    BY <1>3 DEF Blower
  <2>2. /\ feedvolt' \in 0..255 /\ blower' = feedvolt'
        /\ blower' # 0 <=> target' # 0
    <3>1. PICK t, v : t = target' /\ v = feedvolt
      OBVIOUS
    <3>2. t \in 0..255 /\ v \in 0..255 /\ fan \in Settings
      BY <1>1, <3>1 DEF FanInv, FanTypes
    <3>3. adjustFeedbackVoltage(t, v)
      BY <2>1, <3>1
    <3>4. /\ feedvolt' \in 0..255 /\ blower' = feedvolt'
          /\ blower' # 0 <=> t # 0
      BY <3>2, <3>3, AdjustRange
    <3>. QED BY <3>1, <3>4
  <2>3. blower = 0 => blower' = 0
    BY <1>1, <1>3, <2>2 DEF FanInv, RestInv
  <2>. QED BY <1>1, <2>2, <2>3 DEF RestInv
<1>. QED BY <1>2, <1>3

\* One more interval of the long PWM
LEMMA DutyStep ==
  ASSUME FanInv, NEW d \in Nat, LongPwm(d), Follow(d), UNCHANGED fan
  PROVE  /\ longPwmTmr' \in 0..9
         /\ cycle' \in [seen : [demand : Nat, fan : Settings], on : Nat, alike : BOOLEAN]
         /\ DutyInv'
<1>. DEFINE lo == fan.min
            q == (10 * d) \div lo
            tmr == longPwmTmr
            seen == [demand |-> d, fan |-> fan]
            on == IF Pulsed(d) > 0 THEN 1 ELSE 0
<1>1. lo \in 0..100 /\ tmr \in 0..9 /\ fan \in Settings
  BY DEF FanInv, FanTypes, Settings, Percent
<1>2. cycle \in [seen : [demand : Nat, fan : Settings], on : Nat, alike : BOOLEAN]
  BY DEF FanInv, FanTypes
<1>3. CASE d >= lo
  <2>1. longPwmTmr' = 0 /\ cycle' = [seen |-> seen, on |-> 0, alike |-> FALSE]
    BY <1>3 DEF LongPwm, Follow
  <2>. QED BY <1>1, <2>1 DEF DutyInv
<1>4. CASE ~(d >= lo)
  <2>1. longPwmTmr' = IF tmr + 1 > 9 THEN 0 ELSE tmr + 1
    BY <1>4 DEF LongPwm, PERIOD_SCALE
  <2>2. cycle' = [seen |-> seen, on |-> (IF tmr = 0 THEN 0 ELSE cycle.on) + on,
                  alike |-> tmr = 0 \/ (cycle.alike /\ cycle.seen = seen)]
    BY <1>4 DEF Follow
  <2>3. d < lo /\ lo \in Nat \ {0} /\ q \in Nat /\ q < 10
    <3>1. d < lo /\ lo \in Nat \ {0} /\ 10 * d \in Nat /\ 10 * d < lo * 10
      BY <1>1, <1>4
    <3>. HIDE DEF lo
    <3>2. (10 * d) \div lo \in Nat /\ (10 * d) \div lo < 10
      BY <3>1, QuotientBelow
    <3>. QED BY <3>1, <3>2
  <2>4. on = IF q > tmr THEN 1 ELSE 0
    <3>1. Pulsed(d) = IF q > tmr THEN lo ELSE 0
      BY <1>4 DEF Pulsed, PERIOD_SCALE
    <3>. HIDE DEF lo, q
    <3>. QED BY <2>3, <3>1
  <2>5. /\ cycle'.on = (IF tmr = 0 THEN 0 ELSE cycle.on) + on
        /\ cycle'.seen.demand = d /\ cycle'.seen.fan.min = lo
        /\ cycle'.alike <=> tmr = 0 \/ (cycle.alike /\ cycle.seen = seen)
        /\ Share(cycle'.seen) = q
    BY <2>2 DEF Share
  <2>6. on \in Nat
    OBVIOUS
  <2>7. cycle' \in [seen : [demand : Nat, fan : Settings], on : Nat, alike : BOOLEAN]
    <3>1. (IF tmr = 0 THEN 0 ELSE cycle.on) + on \in Nat
      BY <1>2, <2>6
    <3>. QED BY <1>1, <2>2, <3>1
  <2>8. ASSUME cycle'.alike, tmr # 0 PROVE cycle.on = OnAfter(tmr, q)
    <3>1. cycle.alike /\ cycle.seen = seen
      BY <2>5, <2>8
    <3>2. Share(cycle.seen) = q
      BY <3>1 DEF Share
    <3>. QED BY <2>8, <3>1, <3>2 DEF FanInv, DutyInv
  <2>. HIDE DEF q, on, tmr
  <2>9. ASSUME cycle'.alike PROVE cycle'.on = OnAfter(tmr + 1, q)
    <3>1. CASE tmr = 0
      BY <2>3, <2>4, <2>5, <3>1 DEF OnAfter
    <3>2. CASE tmr # 0
      <4>1. cycle.on = OnAfter(tmr, q)
        BY <2>8, <2>9, <3>2
      <4>. QED BY <1>1, <2>3, <2>4, <2>5, <3>2, <4>1 DEF OnAfter
    <3>. QED BY <3>1, <3>2
  <2>10. longPwmTmr' \in 0..9
    BY <1>1, <2>1
  <2>11. DutyInv'
    <3>. SUFFICES ASSUME cycle'.alike
                  PROVE  /\ cycle'.seen.demand < cycle'.seen.fan.min
                         /\ longPwmTmr' = 0 => cycle'.on = OnAfter(10, Share(cycle'.seen))
                         /\ longPwmTmr' # 0 =>
                              cycle'.on = OnAfter(longPwmTmr', Share(cycle'.seen))
      BY DEF DutyInv, Share
    <3>1. longPwmTmr' = 0 => tmr + 1 = 10
      BY <1>1, <2>1
    <3>2. longPwmTmr' # 0 => longPwmTmr' = tmr + 1
      BY <1>1, <2>1
    <3>. QED BY <2>3, <2>5, <2>9, <3>1, <3>2
  <2>. QED BY <2>7, <2>10, <2>11
<1>. QED BY <1>3, <1>4

\* What a commit does, for the invariant and for BlowerDriven
LEMMA StepCommit ==
  ASSUME FanInv, Commit
  PROVE  /\ FanInv'
         /\ blower = 0 /\ blower' # 0 => blower' = 255
         /\ InversionFits => fanSpeed' \in Percent /\ (blower' # 0 <=> target' # 0)
<1>. USE DEF FanInv
<1>1. Control /\ UNCHANGED fan /\ phase' = 0 /\ Blower
      /\ average' \in Averaged(average, output')
  BY DEF Commit, commitPidOutput
<1>2. PICK d \in Demands :
        LongPwm(d) /\ fanSpeed' = Inverted(Pulsed(d)) /\ Follow(d)
  BY DEF Commit, commitPidOutput
<1>3. gate' \in Gates /\ output' \in Percent
  BY <1>1, ControlTypes
<1>4. average' \in Reached /\ d \in Nat /\ (d = 0 \/ d < fan.max \/ d < fan.startup)
  BY <1>1, DemandRange
<1>5. fanSpeed' \in 0..255 /\ (InversionFits => fanSpeed' \in Percent)
  BY <1>2, <1>4, SpeedRange DEF FanTypes
<1>6. /\ target' \in 0..255 /\ feedvolt' \in 0..255 /\ blower' \in 0..255
      /\ RestInv'
      /\ blower = 0 /\ blower' # 0 => blower' = 255
      /\ fanSpeed' \in Percent => (blower' # 0 <=> target' # 0)
  BY <1>1, <1>5, BlowerRange
<1>7. /\ longPwmTmr' \in 0..9
      /\ cycle' \in [seen : [demand : Nat, fan : Settings], on : Nat, alike : BOOLEAN]
      /\ DutyInv'
  BY <1>1, <1>2, <1>4, DutyStep
<1>8. FanTypes'
  BY <1>1, <1>3, <1>4, <1>5, <1>6, <1>7 DEF FanTypes
<1>. QED BY <1>5, <1>6, <1>7, <1>8

LEMMA StepAdjust ==
  ASSUME FanInv, Adjust
  PROVE  /\ FanInv'
         /\ blower = 0 => blower' = 0
         /\ blower' # 0 <=> target' # 0
<1>. USE DEF FanInv
<1>1. /\ phase' \in 0..2 /\ adjustFeedbackVoltage(target, feedvolt)
      /\ UNCHANGED <<gate, output, fan, average, fanSpeed, longPwmTmr, cycle, target>>
  BY DEF Adjust, gateVars, speedVars, FanTypes, TEMP_OUTADJUST_CNT
<1>2. /\ feedvolt' \in 0..255 /\ blower' = feedvolt'
      /\ blower' # 0 <=> target # 0
  <2>1. PICK t, v : t = target /\ v = feedvolt
    OBVIOUS
  <2>2. t \in 0..255 /\ v \in 0..255 /\ fan \in Settings
    BY <2>1 DEF FanTypes
  <2>3. adjustFeedbackVoltage(t, v)
    BY <1>1, <2>1
  <2>. QED BY <2>1, <2>2, <2>3, AdjustRange
<1>3. FanTypes'
  BY <1>1, <1>2 DEF FanTypes
<1>4. RestInv' /\ (blower = 0 => blower' = 0)
  BY <1>1, <1>2 DEF RestInv
<1>5. DutyInv'
  BY <1>1 DEF DutyInv
<1>. QED BY <1>1, <1>2, <1>3, <1>4, <1>5

\* Commands leave the outputs alone.
LEMMA StepFanCommand ==
  ASSUME FanInv, Command
  PROVE  FanInv' /\ UNCHANGED blower
<1>1. UNCHANGED <<fan, average, fanSpeed, longPwmTmr, cycle, target, feedvolt, blower, phase>>
  BY DEF Command, speedVars, voltVars
<1>2. gate' \in Gates /\ output' \in Percent
  <2>1. CASE Switch
    BY <2>1 DEF Switch, Percent
  <2>2. CASE Drive
    BY <2>2 DEF Drive, Gates
  <2>. QED BY <2>1, <2>2 DEF Command
<1>3. FanTypes' /\ RestInv' /\ DutyInv'
  BY <1>1, <1>2 DEF FanInv, FanTypes, RestInv, DutyInv
<1>. QED BY <1>1, <1>3 DEF FanInv

LEMMA StepFanParams ==
  ASSUME FanInv, StoreFanParams
  PROVE  FanInv' /\ UNCHANGED blower
<1>1. UNCHANGED <<gate, output, average, fanSpeed, longPwmTmr, cycle, target, feedvolt,
                  blower, phase>>
  BY DEF StoreFanParams, gateVars, speedVars, voltVars
<1>2. \A n \in Nat : Clamp(Byte(n), 0, 100) \in Percent /\ setFanActiveFloor(Byte(n)) \in 0..99
  BY DEF Clamp, Byte, setFanActiveFloor, Percent
<1>3. fan' \in Settings
  <2>. USE DEF FanInv, FanTypes
  <2>1. ASSUME NEW v \in MinSpeeds, StoreFanMinSpeed(v) PROVE fan' \in Settings
    BY <1>2, <2>1, FanAssumption DEF StoreFanMinSpeed, Settings
  <2>2. ASSUME NEW v \in MaxSpeeds, StoreFanMaxSpeed(v) PROVE fan' \in Settings
    BY <1>2, <2>2, FanAssumption DEF StoreFanMaxSpeed, Settings
  <2>3. ASSUME NEW v \in StartupSpeeds, StoreFanStartupSpeed(v) PROVE fan' \in Settings
    BY <1>2, <2>3, FanAssumption DEF StoreFanStartupSpeed, Settings
  <2>4. ASSUME NEW v \in Floors, StoreFanActiveFloor(v) PROVE fan' \in Settings
    BY <1>2, <2>4, FanAssumption DEF StoreFanActiveFloor, Settings
  <2>5. ASSUME NEW f \in FeedVolts, NEW i \in Inverts, StoreOutputFlags(f, i)
        PROVE  fan' \in Settings
    <3>1. f \in BOOLEAN /\ i \in BOOLEAN
      BY FanAssumption
    <3>2. fan \in Settings
      OBVIOUS
    <3>3. fan' = [fan EXCEPT !.feedvolt = f, !.invert = i]
      BY <2>5 DEF StoreOutputFlags
    <3>. HIDE DEF FanInv, FanTypes
    <3>. QED BY <3>1, <3>2, <3>3 DEF Settings
  <2>. QED BY <2>1, <2>2, <2>3, <2>4, <2>5 DEF StoreFanParams
<1>4. FanTypes' /\ RestInv' /\ DutyInv'
  BY <1>1, <1>3 DEF FanInv, FanTypes, RestInv, DutyInv
<1>. QED BY <1>1, <1>4 DEF FanInv

LEMMA FanNextInv == FanInv /\ [FanNext]_fanVars => FanInv'
<1>. SUFFICES ASSUME FanInv, [FanNext]_fanVars PROVE FanInv'
  OBVIOUS
<1>1. CASE FanNext
  BY <1>1, StepCommit, StepAdjust, StepFanCommand, StepFanParams DEF FanNext, doWork
<1>2. CASE UNCHANGED fanVars
  BY <1>2 DEF fanVars, gateVars, speedVars, voltVars, FanInv, FanTypes, RestInv, DutyInv
<1>. QED BY <1>1, <1>2

LEMMA FanSafe == FanSpec => []FanInv
<1>. QED BY FanInitInv, FanNextInv, PTL DEF FanSpec

-----------------------------------------------------------------------------
(* The theorems                                                            *)

\* A whole cycle of the long PWM runs the fan for the demand's share of the
\* minimum speed, whatever the minimum and the demand are (commitFanOutput).
THEOREM LongPwmAlwaysDuty == FanSpec => []LongPwmDuty
<1>1. FanInv => LongPwmDuty
  <2>. SUFFICES ASSUME FanInv PROVE LongPwmDuty
    OBVIOUS
  <2>1. FanTypeOK
    <3>1. average \in Averages
      BY ScaleAssumption DEF FanInv, FanTypes, Reached, Averages
    <3>. QED BY <3>1 DEF FanInv, FanTypes, FanTypeOK, PERIOD_SCALE, TEMP_OUTADJUST_CNT
  <2>2. ASSUME longPwmTmr = 0, cycle.alike
        PROVE  cycle.on = (10 * cycle.seen.demand) \div cycle.seen.fan.min
    <3>. DEFINE d == cycle.seen.demand
                lo == cycle.seen.fan.min
                q == (10 * d) \div lo
    <3>1. d \in Nat /\ lo \in 0..100 /\ d < lo /\ cycle.on = OnAfter(10, q)
      BY <2>2 DEF FanInv, FanTypes, DutyInv, Share, Settings, Percent
    <3>. HIDE DEF d, lo
    <3>2. 10 * d \in Nat /\ lo \in Nat \ {0} /\ 10 * d < lo * 10
      BY <3>1
    <3>3. q < 10
      BY <3>2, QuotientBelow
    <3>. HIDE DEF q
    <3>4. cycle.on = q
      BY <3>1, <3>3 DEF OnAfter
    <3>. QED BY <3>4 DEF q, d, lo
  <2>. QED BY <2>1, <2>2 DEF LongPwmDuty, PERIOD_SCALE
<1>. QED BY <1>1, FanSafe, PTL

\* A blower at rest starts with full voltage and then runs exactly while it has
\* a target (commitFanOutput, adjustFeedbackVoltage).
THEOREM BlowerAlwaysDriven == FanSpec => BlowerDriven
<1>. DEFINE Driven ==
       /\ blower = 0 /\ blower' # 0 => blower' = 255
       /\ Adjust \/ (Commit /\ InversionFits) => (blower' # 0 <=> target' # 0)
       /\ Commit /\ InversionFits => fanSpeed' \in Percent
<1>1. FanInv /\ [FanNext]_fanVars => [Driven]_fanVars
  <2>. SUFFICES ASSUME FanInv, FanNext PROVE Driven
    OBVIOUS
  <2>1. Commit => Driven
    BY StepCommit, StepAdjust
  <2>2. Adjust => Driven
    BY StepCommit, StepAdjust
  <2>3. (Command \/ StoreFanParams) => Driven
    BY StepCommit, StepAdjust, StepFanCommand, StepFanParams
  <2>. QED BY <2>1, <2>2, <2>3 DEF FanNext, doWork
<1>. QED BY <1>1, FanSafe, PTL DEF FanSpec, BlowerDriven
=============================================================================
