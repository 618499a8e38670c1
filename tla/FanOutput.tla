----------------------------- MODULE FanOutput ------------------------------
(***************************************************************************)
(* From the controller's output to the blower: the moving average, the fan *)
(* speed, the long PWM that emulates low speeds, the start boost and the   *)
(* feedback that regulates the blower's voltage (commitPidOutput,          *)
(* commitFanOutput, adjustFeedbackVoltage in src/src/grillpid.cpp).        *)
(*                                                                         *)
(* The controller is what module OutputGate promises.  doWork runs three   *)
(* times a period: twice it only adjusts the feedback voltage, the third   *)
(* time the control sets the output and commitPidOutput follows.           *)
(***************************************************************************)
EXTENDS OutputGate, MovingAverage

CONSTANTS
  Levels,          \* outputs the controller may compute
  MinSpeeds,       \* values asked for fanMinSpeed, fanMaxSpeed,
  MaxSpeeds,
  StartupSpeeds,   \* fanMaxStartupSpeed
  Floors,          \* and fanActiveFloor
  FeedVolts,       \* settings of PIDFLAG_FAN_FEEDVOLT
  Inverts,         \* settings of PIDFLAG_INVERT_FAN
  Feedbacks        \* what analogReadOver(APIN_FFEEDBACK, 8) may return

ASSUME FanAssumption ==
  /\ Levels \subseteq Percent
  /\ MinSpeeds \cup MaxSpeeds \cup StartupSpeeds \cup Floors \subseteq Nat
  /\ FeedVolts \subseteq BOOLEAN /\ Inverts \subseteq BOOLEAN
  /\ Feedbacks \subseteq 0..255

VARIABLES
  startup,        \* pidMode = STARTUP
  fan,            \* the fan's settings
  average,        \* PidOutputAvg_fast
  fanSpeed,       \* _fanSpeed
  longPwmTmr,     \* _longPwmTmr
  target,         \* _lastBlowerOutput
  feedvolt,       \* _feedvoltLastOutput
  blower,         \* what analogWrite was last given
  phase,          \* _periodCounter
  cycle           \* history: the long PWM cycle under way

speedVars == <<average, fanSpeed, longPwmTmr, cycle>>
voltVars  == <<target, feedvolt, blower>>
fanVars   == <<gateVars, startup, fan, speedVars, voltVars, phase>>

TEMP_OUTADJUST_CNT == 3
PERIOD_SCALE       == 10

Clamp(v, lo, hi) == IF v < lo THEN lo ELSE IF v > hi THEN hi ELSE v

\* An int stored in an unsigned char
Byte(v) == v % 256

\* C's integer division, which truncates
Half(v) == IF v < 0 THEN -((-v) \div 2) ELSE v \div 2

mappct(o, a, b) == ((b - a) * o) \div 100 + a

\* FeedvoltToAdc(5.0f) and FeedvoltToAdc(12.1f)
FeedvoltLow  == 94
FeedvoltHigh == 229

Settings == [min : Percent, max : Percent, startup : Percent, floor : 0..99,
             feedvolt : BOOLEAN, invert : BOOLEAN]

-----------------------------------------------------------------------------
(* The settings: storeFanParams and GrillPid's setters.                    *)

setFanActiveFloor(v) == IF v < 100 THEN v ELSE 0

StoreFanMinSpeed(v)     == fan' = [fan EXCEPT !.min = Clamp(Byte(v), 0, 100)]
StoreFanMaxSpeed(v)     == fan' = [fan EXCEPT !.max = Clamp(Byte(v), 0, 100)]
StoreFanStartupSpeed(v) == fan' = [fan EXCEPT !.startup = Clamp(Byte(v), 0, 100)]
StoreFanActiveFloor(v)  == fan' = [fan EXCEPT !.floor = setFanActiveFloor(Byte(v))]
StoreOutputFlags(f, i)  == fan' = [fan EXCEPT !.feedvolt = f, !.invert = i]

-----------------------------------------------------------------------------
(* adjustFeedbackVoltage, for the blower's target t and last output v      *)

\* Mutant: the feedback may regulate the blower down to a stop.
adjustFeedbackVoltageToZero(t, v) ==
  /\ \/ /\ t # 0 /\ fan.feedvolt
        /\ \E ffeedback \in Feedbacks :
             feedvolt' = Clamp(v + Half(t - ffeedback), 0, 255)
     \/ /\ t = 0 \/ ~fan.feedvolt
        /\ feedvolt' = t
  /\ blower' = feedvolt'

adjustFeedbackVoltage(t, v) ==
  /\ \/ /\ t # 0 /\ fan.feedvolt
        /\ \E ffeedback \in Feedbacks :
             feedvolt' = Clamp(v + Half(t - ffeedback), 1, 255)
     \/ /\ t = 0 \/ ~fan.feedvolt
        /\ feedvolt' = t
  /\ blower' = feedvolt'

-----------------------------------------------------------------------------
(* commitPidOutput                                                         *)

\* The fan speeds the average may ask for.  startup' is the mode the control
\* has just left the controller in.
Demands ==
  LET max == IF startup' THEN fan.startup ELSE fan.max IN
  IF average' < Scale * fan.floor
    THEN {0} ELSE Scaled(average', fan.floor, max, 100 - fan.floor)

\* Mutant: the timer counts one interval too many.
LongPwmTooLong(demand) ==
  IF demand >= fan.min
    THEN longPwmTmr' = 0
    ELSE longPwmTmr' = IF longPwmTmr + 1 > PERIOD_SCALE THEN 0 ELSE longPwmTmr + 1

LongPwm(demand) ==
  IF demand >= fan.min
    THEN longPwmTmr' = 0
    ELSE longPwmTmr' = IF longPwmTmr + 1 > PERIOD_SCALE - 1 THEN 0 ELSE longPwmTmr + 1

\* Mutant: one interval too many.
PulsedLonger(demand) ==
  IF demand >= fan.min THEN demand
  ELSE IF (PERIOD_SCALE * demand) \div fan.min >= longPwmTmr THEN fan.min ELSE 0

\* What the long PWM makes of a demand in this interval
Pulsed(demand) ==
  IF demand >= fan.min THEN demand
  ELSE IF (PERIOD_SCALE * demand) \div fan.min > longPwmTmr THEN fan.min ELSE 0

\* Mutant: subtracted the other way round.
InvertedSwapped(speed) == IF fan.invert THEN Byte(speed - fan.max) ELSE speed

Inverted(speed) == IF fan.invert THEN Byte(fan.max - speed) ELSE speed

\* Mutant: the blower is left to start from the voltage it is to have.
BlowerUnboosted ==
  /\ target' = IF fanSpeed' = 0 THEN 0
               ELSE IF fan.feedvolt THEN Byte(mappct(fanSpeed', FeedvoltLow, FeedvoltHigh))
               ELSE Byte(mappct(fanSpeed', 0, 255))
  /\ adjustFeedbackVoltage(target', feedvolt)

\* A stopped blower gets full voltage until the next adjustment.
Blower ==
  /\ target' = IF fanSpeed' = 0 THEN 0
               ELSE IF fan.feedvolt THEN Byte(mappct(fanSpeed', FeedvoltLow, FeedvoltHigh))
               ELSE Byte(mappct(fanSpeed', 0, 255))
  /\ IF fanSpeed' # 0 /\ target = 0
       THEN blower' = 255 /\ feedvolt' = 128
       ELSE adjustFeedbackVoltage(target', feedvolt)

\* History: demand and settings of the cycle, intervals run, whether all of
\* them were alike.
Follow(demand) ==
  LET seen == [demand |-> demand, fan |-> fan] IN
  cycle' = IF demand >= fan.min THEN [seen |-> seen, on |-> 0, alike |-> FALSE]
           ELSE [seen  |-> seen,
                 on    |-> (IF longPwmTmr = 0 THEN 0 ELSE cycle.on)
                             + (IF Pulsed(demand) > 0 THEN 1 ELSE 0),
                 alike |-> longPwmTmr = 0 \/ (cycle.alike /\ cycle.seen = seen)]

commitPidOutput ==
  /\ average' \in Averaged(average, output')
  /\ \E demand \in Demands :
       /\ LongPwm(demand)
       /\ fanSpeed' = Inverted(Pulsed(demand))
       /\ Follow(demand)
  /\ Blower

-----------------------------------------------------------------------------
(* doWork                                                                  *)

\* What the control may do before the commit: regulate, or see a lid event
\* begin or end, or nothing.
Control ==
  \/ gate = "auto" /\ output' \in Levels /\ Regulate /\ startup' \in {startup, FALSE}
  \/ gate \in {"auto", "lidOpen"} /\ Switch /\ gate' \in {"auto", "lidOpen"}
       /\ startup' = FALSE
  \/ UNCHANGED <<gateVars, startup>>

Adjust ==
  /\ phase < TEMP_OUTADJUST_CNT - 1
  /\ phase' = phase + 1
  /\ adjustFeedbackVoltage(target, feedvolt)
  /\ UNCHANGED <<gateVars, startup, fan, speedVars, target>>

Commit ==
  /\ phase = TEMP_OUTADJUST_CNT - 1
  /\ phase' = 0
  /\ Control
  /\ commitPidOutput
  /\ UNCHANGED fan

doWork == Adjust \/ Commit

\* A command or a button moves the gate or sets a manual output.
Command ==
  /\ \/ Switch
     \/ output' \in Levels /\ Drive
  /\ startup' \in {FALSE, gate' = "auto"}
  /\ UNCHANGED <<fan, speedVars, voltVars, phase>>

StoreFanParams ==
  /\ \/ \E v \in MinSpeeds : StoreFanMinSpeed(v)
     \/ \E v \in MaxSpeeds : StoreFanMaxSpeed(v)
     \/ \E v \in StartupSpeeds : StoreFanStartupSpeed(v)
     \/ \E v \in Floors : StoreFanActiveFloor(v)
     \/ \E f \in FeedVolts, i \in Inverts : StoreOutputFlags(f, i)
  /\ UNCHANGED <<gateVars, startup, speedVars, voltVars, phase>>

\* _periodCounter starts at 0x80: the first call commits.
FanInit ==
  /\ GateInit /\ startup = (gate = "auto")
  /\ \E min \in MinSpeeds, max \in MaxSpeeds, start \in StartupSpeeds,
        floor \in Floors, f \in FeedVolts, i \in Inverts :
       fan = [min |-> Clamp(Byte(min), 0, 100), max |-> Clamp(Byte(max), 0, 100),
              startup |-> Clamp(Byte(start), 0, 100),
              floor |-> setFanActiveFloor(Byte(floor)), feedvolt |-> f, invert |-> i]
  /\ average = 0 /\ fanSpeed = 0 /\ longPwmTmr = 0
  /\ target = 0 /\ feedvolt = 0 /\ blower = 0
  /\ phase = TEMP_OUTADJUST_CNT - 1
  /\ cycle = [seen |-> [demand |-> 0, fan |-> fan], on |-> 0, alike |-> FALSE]

FanNext == doWork \/ Command \/ StoreFanParams

\* main calls hmcoreLoop, and so doWork, for ever.
FanSpec == FanInit /\ [][FanNext]_fanVars /\ WF_fanVars(doWork)

-----------------------------------------------------------------------------
FanTypeOK ==
  /\ fan \in Settings /\ average \in Averages
  /\ fanSpeed \in 0..255 /\ longPwmTmr \in 0..(PERIOD_SCALE - 1)
  /\ target \in 0..255 /\ feedvolt \in 0..255 /\ blower \in 0..255
  /\ phase \in 0..(TEMP_OUTADJUST_CNT - 1)

\* The speeds an inverted fan is asked for do not exceed the maximum they are
\* subtracted from.
InversionFits == fan.invert => fan.max >= fan.min /\ fan.max >= fan.startup

\* "If going from 0% to non-0%, turn the blower fully on for one period to get
\* it moving (boost mode)": whatever happened in between, a blower at rest
\* starts with full voltage.  From then on it is driven exactly while it has a
\* target, the feedback regulating it neither to a stop nor into motion, and
\* what is committed is "current fan speed output in percent" (grillpid.h).  An
\* inversion that wraps gives speeds above 100, and a target of 0 for one of
\* them, 201: nothing more is claimed of the interval it is committed in.
BlowerDriven ==
  [][ /\ blower = 0 /\ blower' # 0 => blower' = 255
      /\ Adjust \/ (Commit /\ InversionFits) => (blower' # 0 <=> target' # 0)
      /\ Commit /\ InversionFits => fanSpeed' \in Percent ]_fanVars

\* "For each percent we are emulating, run the fan for one interval": a whole
\* cycle of the long PWM with the same demand runs the fan for the demand's
\* share of the minimum speed, to the tenth below.
LongPwmDuty ==
  /\ FanTypeOK
  /\ longPwmTmr = 0 /\ cycle.alike
       => cycle.on = (PERIOD_SCALE * cycle.seen.demand) \div cycle.seen.fan.min

\* Once the controller is off, or its lid event never ends, and nobody touches
\* the settings, the blower stops, although the average only decays.
BlowerStops ==
  /\ <>[][doWork]_fanVars
  /\ <>[](gate \in {"off", "lidOpen"} /\ ~fan.invert)
  => <>[](blower = 0)
=============================================================================
