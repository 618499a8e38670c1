------------------------------ MODULE GrillPid ------------------------------
(***************************************************************************)
(* The control core of Grill-O-Mat: the mode machine, the lid countdown,   *)
(* the choice of the control probe, the output the control law may produce *)
(* and the settings that survive a restart (src/src/grillpid.cpp,          *)
(* src/src/hmcore.cpp, the home screen of src/src/hmmenus.cpp).            *)
(*                                                                         *)
(* One step is one whole call: a measurement period of GrillPid::doWork,   *)
(* a command received over the serial line, a button on the home screen, a *)
(* restart.  The main thread runs these one after the other; module        *)
(* GrillThreads splits them where the web server's thread runs them        *)
(* concurrently.                                                           *)
(*                                                                         *)
(* Temperatures are the integers doWork compares ((int) Temperature); the  *)
(* floating point PID law is left out: calcPidOutput may yield any member  *)
(* of Levels when it is in control, and PidOutputAvg is only the outcome   *)
(* of the test PidOutputAvg < 90.                                          *)
(***************************************************************************)
EXTENDS Integers, FiniteSets

CONSTANTS
  TempCount,      \* TEMP_COUNT, the number of probes
  SetPoints,      \* set points an operator asks for, all > 0
  Temps,          \* temperatures a probe can read
  NoReading,      \* a reading calcTemp rejects: open, shorted or out of range
  Levels,         \* percentages the control law or an operator can ask for
  ManualSteps,    \* values the variable "offset" of menuHome holds
  Durations,      \* lid durations an operator asks for, in seconds
  Offsets,        \* lid offsets an operator asks for, in percent
  MinAutoResume,  \* LIDOPEN_MIN_AUTORESUME
  Word,           \* 2^32: unsigned int arithmetic is modulo Word
  Panel           \* TRUE when APIN_BUTTONS is a sampled analog input

ASSUME ConstantsAssumption ==
  /\ TempCount \in Nat \ {0}
  /\ SetPoints \subseteq Nat \ {0} /\ SetPoints # {}
  /\ Temps \subseteq Int
  /\ NoReading \notin Temps
  /\ Levels \subseteq 0..100
  /\ ManualSteps \subseteq Int
  /\ Durations \subseteq Nat /\ Durations # {}
  /\ Offsets \subseteq Nat /\ Offsets # {}
  /\ MinAutoResume \in Nat
  /\ Word \in Nat /\ MinAutoResume < Word
  /\ \A n \in Durations \cup SetPoints : n < Word
  /\ Panel \in BOOLEAN

\* The file has a byte for the offset and 16 bits for the others: what is
\* commanded fits.
ASSUME StoredWidths ==
  /\ \A n \in Offsets : n < 256
  /\ \A n \in Durations \cup SetPoints : n < 65536

VARIABLES
  pidMode,         \* _pidMode
  setPoint,        \* _setPoint
  lidCountdown,    \* LidOpenResumeCountdown
  lidOpenDuration, \* _lidOpenDuration
  lidOpenOffset,   \* LidOpenOffset
  pidOutput,       \* _pidOutput
  probeType,       \* Probes[p]->_probeType
  hasTemp,         \* Probes[p]->hasTemperature()
  temperature,     \* (int) Probes[p]->Temperature
  ctrl,            \* the probe that Probes[TEMP_CTRL] points to
  config           \* what /etc/hm.cfg holds of all this

modeVars  == <<pidMode, lidCountdown, pidOutput>>
probeVars == <<probeType, hasTemp, temperature, ctrl>>
lidParams == <<lidOpenDuration, lidOpenOffset>>
vars == <<modeVars, setPoint, lidParams, probeVars, config>>

-----------------------------------------------------------------------------
Probes     == 0..(TempCount - 1)
TEMP_PIT   == 0
\* "INTERNAL" stands for PROBETYPE_TC_ANALOG too: doWork reads both.
ProbeTypes == {"DISABLED", "INTERNAL", "RF12"}
AutoModes  == {"STARTUP", "RECOVERY", "NORMAL"}
Modes      == AutoModes \cup {"MANUAL", "OFF"}

\* storePidMode writes STARTUP for every automatic mode.
StoredModes == {"STARTUP", "MANUAL", "OFF"}

isLidOpen  == lidCountdown # 0
isDisabled == pidMode = "OFF"

Clamp(v, lo, hi) == IF v < lo THEN lo ELSE IF v > hi THEN hi ELSE v

\* unsigned int subtraction
USub(a, b) == IF a >= b THEN a - b ELSE a - b + Word

\* signed division truncates toward zero
Quotient(a, b) == IF a >= 0 THEN a \div b ELSE -((-a) \div b)

\* GrillPid::setLidOpenDuration
LidDuration(d) == IF d > MinAutoResume THEN d ELSE MinAutoResume

\* The probe updateControlProbe settles on: the first that is not disabled,
\* TEMP_PIT when all are.
IsControlProbe(p, types) ==
  \/ /\ types[p] # "DISABLED"
     /\ \A q \in Probes : q < p => types[q] = "DISABLED"
  \/ /\ p = TEMP_PIT
     /\ \A q \in Probes : types[q] = "DISABLED"

updateControlProbe(types) == \E p \in Probes : IsControlProbe(p, types) /\ ctrl' = p

Config ==
  [pidMode : StoredModes, setPoint : SetPoints, lidOpenDuration : Durations,
   lidOpenOffset : Offsets, probeType : [Probes -> ProbeTypes]]

\* DEFAULT_CONFIG and DEFAULT_PROBE_CONFIG, for some set point and lid
\* parameters among those modelled.
IsDefault(c) ==
  /\ c.pidMode = "STARTUP"
  /\ c.probeType = [p \in Probes |-> "INTERNAL"]

-----------------------------------------------------------------------------
(* GrillPid's setters.                                                     *)

\* Mutant: a mode change that leaves a running lid countdown alone.
setPidModeKeepingLid(mode) ==
  /\ pidMode' = mode
  /\ pidOutput' = 0
  /\ UNCHANGED lidCountdown

setPidMode(mode) ==
  /\ pidMode' = mode
  /\ lidCountdown' = 0
  /\ pidOutput' = 0

\* Mutant: the manual output is taken as it comes.
setPidOutputUnclamped(value) ==
  /\ pidMode' = "MANUAL"
  /\ lidCountdown' = 0
  /\ pidOutput' = value

setPidOutput(value) ==
  /\ pidMode' = "MANUAL"
  /\ lidCountdown' = 0
  /\ pidOutput' = Clamp(value, 0, 100)

\* Mutant: lid mode starts without dropping the output.
resetLidKeepingOutput ==
  /\ pidMode' = "RECOVERY"
  /\ lidCountdown' = lidOpenDuration
  /\ UNCHANGED pidOutput

resetLidOpenResumeCountdown ==
  /\ pidMode' = "RECOVERY"
  /\ lidCountdown' = lidOpenDuration
  /\ pidOutput' = 0

\* storePidMode, for the mode a command has just set
StoredMode(mode) == IF mode \in AutoModes THEN "STARTUP" ELSE mode

\* eepromLoadBaseConfig and the probe types of eepromLoadProbeConfig
LoadConfig(c) ==
  /\ setPidMode(c.pidMode)
  /\ setPoint' = c.setPoint
  /\ lidOpenDuration' = LidDuration(c.lidOpenDuration)
  /\ lidOpenOffset' = c.lidOpenOffset
  /\ probeType' = c.probeType

-----------------------------------------------------------------------------
(* One measurement period (GrillPid::doWork).                              *)

\* calcTemp runs only for the probes that are read here; a rejected reading
\* leaves the last Temperature in place.
Measure ==
  \E reading \in [Probes -> Temps \cup {NoReading}] :
    /\ hasTemp' = [p \in Probes |->
         IF probeType[p] = "INTERNAL" THEN reading[p] # NoReading ELSE hasTemp[p]]
    /\ temperature' = [p \in Probes |->
         IF probeType[p] = "INTERNAL" /\ reading[p] # NoReading
           THEN reading[p] ELSE temperature[p]]

tempDiff == setPoint - temperature'[ctrl]

\* Mutant: a lid event ends as soon as the temperature is back.
AtSetPointNoMinimum == tempDiff <= 0

\* Mutant: the set point is reached only when it is exceeded.
AtSetPointStrict ==
  tempDiff < 0 /\ USub(lidOpenDuration, lidCountdown) > MinAutoResume

AtSetPoint == tempDiff <= 0 /\ USub(lidOpenDuration, lidCountdown) > MinAutoResume

\* Mutant: the control law stays in charge while the lid is open.
calcPidOutputLidIgnored == pidOutput' \in IF hasTemp'[ctrl] THEN Levels ELSE {0}

calcPidOutput ==
  pidOutput' \in IF hasTemp'[ctrl] /\ ~isLidOpen THEN Levels ELSE {0}

\* The set point is reached: lid mode ends, normal operation begins.
Reached ==
  /\ AtSetPoint
  /\ calcPidOutput
  /\ pidMode' = "NORMAL"
  /\ lidCountdown' = 0

\* Mutant: TEMP_MEASURE_PERIOD / 1000 with a period below a second.
CountDownByZero ==
  /\ ~AtSetPoint /\ isLidOpen
  /\ calcPidOutput
  /\ UNCHANGED <<lidCountdown, pidMode>>

CountDown ==
  /\ ~AtSetPoint /\ isLidOpen
  /\ calcPidOutput
  /\ lidCountdown' = lidCountdown - 1
  /\ UNCHANGED pidMode

\* PidOutputAvg may be on either side of 90
LidDropSeen == pidMode = "NORMAL" /\ Quotient(tempDiff * 100, setPoint) >= lidOpenOffset

LidDetected ==
  /\ ~AtSetPoint /\ ~isLidOpen /\ LidDropSeen
  /\ resetLidOpenResumeCountdown

Regulate ==
  /\ ~AtSetPoint /\ ~isLidOpen
  /\ calcPidOutput
  /\ UNCHANGED <<pidMode, lidCountdown>>

\* With the control law out of charge (MANUAL, OFF) only the probes move.
Idle == pidMode \notin AutoModes /\ UNCHANGED modeVars

Control == pidMode \in AutoModes /\ (Reached \/ CountDown \/ LidDetected \/ Regulate)

doWork ==
  /\ Measure
  /\ Idle \/ Control
  /\ UNCHANGED <<setPoint, lidParams, probeType, ctrl, config>>

-----------------------------------------------------------------------------
(* Commands: "/set?sp=", "/set?ld=", "/set?pc".                            *)

\* Mutant: the set point never reaches the file.
StoreSetPointNotSaved(sp) ==
  /\ setPidMode("STARTUP")
  /\ setPoint' = sp
  /\ config' = [config EXCEPT !.pidMode = "STARTUP"]
  /\ UNCHANGED <<lidParams, probeVars>>

\* storeSetPoint with a set point
StoreSetPoint(sp) ==
  /\ setPidMode("STARTUP")
  /\ setPoint' = sp
  /\ config' = [config EXCEPT !.setPoint = sp, !.pidMode = "STARTUP"]
  /\ UNCHANGED <<lidParams, probeVars>>

\* Mutant: a manual output that does not store the mode.
StoreManualNotSaved(value) ==
  /\ setPidOutput(value)
  /\ UNCHANGED <<setPoint, lidParams, probeVars, config>>

\* storeSetPoint with 0 or less: a manual output
StoreManual(value) ==
  /\ setPidOutput(value)
  /\ config' = [config EXCEPT !.pidMode = "MANUAL"]
  /\ UNCHANGED <<setPoint, lidParams, probeVars>>

\* "/set?sp=O": storePidUnits switches off and writes nothing to the file
SetUnitsOff ==
  /\ setPidMode("OFF")
  /\ UNCHANGED <<setPoint, lidParams, probeVars, config>>

StoreLidOffset(percent) ==
  /\ lidOpenOffset' = percent
  /\ config' = [config EXCEPT !.lidOpenOffset = percent]
  /\ UNCHANGED <<modeVars, setPoint, lidOpenDuration, probeVars>>

StoreLidDuration(seconds) ==
  /\ lidOpenDuration' = LidDuration(seconds)
  /\ config' = [config EXCEPT !.lidOpenDuration = seconds]
  /\ UNCHANGED <<modeVars, setPoint, lidOpenOffset, probeVars>>

StoreLidActive(active) ==
  /\ IF active THEN resetLidOpenResumeCountdown
               ELSE lidCountdown' = 0 /\ UNCHANGED <<pidMode, pidOutput>>
  /\ UNCHANGED <<setPoint, lidParams, probeVars, config>>

\* Mutant: a changed probe keeps its old reading.
StoreProbeTypeKeepingReading(p, type) ==
  /\ type # probeType[p]
  /\ probeType' = [probeType EXCEPT ![p] = type]
  /\ updateControlProbe(probeType')
  /\ config' = [config EXCEPT !.probeType[p] = type]
  /\ UNCHANGED <<modeVars, setPoint, lidParams, hasTemp, temperature>>

\* Mutant: the control probe is not chosen again.
StoreProbeTypeKeepingControl(p, type) ==
  /\ type # probeType[p]
  /\ probeType' = [probeType EXCEPT ![p] = type]
  /\ hasTemp' = [hasTemp EXCEPT ![p] = FALSE]
  /\ config' = [config EXCEPT !.probeType[p] = type]
  /\ UNCHANGED <<modeVars, setPoint, lidParams, temperature, ctrl>>

\* storeProbeTypeOrMap calls storeProbeType only for a change.
StoreProbeType(p, type) ==
  /\ type # probeType[p]
  /\ probeType' = [probeType EXCEPT ![p] = type]
  /\ hasTemp' = [hasTemp EXCEPT ![p] = FALSE]
  /\ updateControlProbe(probeType')
  /\ config' = [config EXCEPT !.probeType[p] = type]
  /\ UNCHANGED <<modeVars, setPoint, lidParams, temperature>>

-----------------------------------------------------------------------------
(* The home screen and the "Reset config?" menu.                           *)

\* Long LEFT: OFF and back
ToggleOff ==
  /\ Panel
  /\ LET mode == IF isDisabled THEN "STARTUP" ELSE "OFF" IN
     /\ setPidMode(mode)
     /\ config' = [config EXCEPT !.pidMode = StoredMode(mode)]
  /\ UNCHANGED <<setPoint, lidParams, probeVars>>

\* UP, DOWN and LEFT in manual mode
AdjustManual(step) ==
  /\ Panel /\ pidMode = "MANUAL"
  /\ setPidOutput(pidOutput + step)
  /\ UNCHANGED <<setPoint, lidParams, probeVars, config>>

\* LEFT otherwise: lid mode on and off
ToggleLid ==
  /\ Panel /\ pidMode # "MANUAL" /\ ~isDisabled
  /\ StoreLidActive(~isLidOpen)

\* eepromLoadConfig(1).  loadConfig resets neither the probes' readings nor
\* the control probe.
ResetConfig ==
  /\ Panel
  /\ \E c \in Config :
       /\ IsDefault(c)
       /\ config' = c
       /\ LoadConfig(c)
  /\ UNCHANGED <<hasTemp, temperature, ctrl>>

\* The process dies and hmcoreSetup runs again: eepromLoadConfig(0), then
\* pid.init().
Restart ==
  /\ LoadConfig(config)
  /\ hasTemp' = [p \in Probes |-> FALSE]
  /\ temperature' = [p \in Probes |-> 0]
  /\ updateControlProbe(config.probeType)
  /\ UNCHANGED config

-----------------------------------------------------------------------------
\* hmcoreSetup on a configuration file without the magic number
Init ==
  /\ config \in Config /\ IsDefault(config)
  /\ pidMode = "STARTUP" /\ lidCountdown = 0 /\ pidOutput = 0
  /\ setPoint = config.setPoint
  /\ lidOpenDuration = LidDuration(config.lidOpenDuration)
  /\ lidOpenOffset = config.lidOpenOffset
  /\ probeType = config.probeType
  /\ hasTemp = [p \in Probes |-> FALSE]
  /\ temperature = [p \in Probes |-> 0]
  /\ ctrl = TEMP_PIT

LidCommand == \E active \in BOOLEAN : StoreLidActive(active)

Setting ==
  \/ \E sp \in SetPoints : StoreSetPoint(sp)
  \/ \E value \in Levels : StoreManual(value)
  \/ SetUnitsOff
  \/ \E percent \in Offsets : StoreLidOffset(percent)
  \/ \E seconds \in Durations : StoreLidDuration(seconds)
  \/ \E p \in Probes, type \in ProbeTypes : StoreProbeType(p, type)

Button ==
  \/ ToggleOff
  \/ \E step \in ManualSteps : AdjustManual(step)
  \/ ResetConfig

Next == doWork \/ Setting \/ LidCommand \/ Button \/ ToggleLid \/ Restart

Spec == Init /\ [][Next]_vars

\* main calls hmcoreLoop for ever; nothing obliges an operator to do anything.
FairSpec == Spec /\ WF_vars(doWork)

-----------------------------------------------------------------------------
TypeOK ==
  /\ pidMode \in Modes
  /\ setPoint \in SetPoints
  /\ lidCountdown \in 0..(Word - 1)
  /\ lidOpenDuration \in 0..(Word - 1)
  /\ lidOpenOffset \in Offsets
  /\ pidOutput \in 0..100
  /\ probeType \in [Probes -> ProbeTypes]
  /\ hasTemp \in [Probes -> BOOLEAN]
  /\ temperature \in [Probes -> Int]
  /\ ctrl \in Probes
  /\ config \in Config

\* While the controller is off or waits out a lid event, it drives nothing:
\* no path through a command, a button, a period or a restart leaves an
\* output computed earlier behind (grillpid.h, PIDMODE_OFF; calcPidOutput,
\* "If we're in lid open mode, fan should be off").
OutputGated == isDisabled \/ isLidOpen => pidOutput = 0

\* The lid countdown runs only in RECOVERY, so no other mode can be mistaken
\* for a lid event by the display, the alarms or the LEDs (isLidOpen).
LidOnlyInRecovery == isLidOpen => pidMode = "RECOVERY"

\* A manual output is never turned into automatic control by a restart,
\* whatever sequence of commands and buttons led to it (storePidMode).
ManualSurvivesRestart == pidMode = "MANUAL" => config.pidMode = "MANUAL"

\* The settings in use are the ones the next start will load.
SettingsSurviveRestart ==
  /\ setPoint = config.setPoint
  /\ lidOpenDuration = LidDuration(config.lidOpenDuration)
  /\ lidOpenOffset = config.lidOpenOffset
  /\ probeType = config.probeType

\* A probe that is no longer read never offers the reading it had
\* (setProbeType, loadConfig), so the controller cannot steer by it.
OnlyReadProbesHaveTemperature ==
  \A p \in Probes : hasTemp[p] => probeType[p] = "INTERNAL"

\* The controller steers by the first probe that is not disabled.
ControlProbeFollowsTypes == IsControlProbe(ctrl, probeType)

\* The mode machine implements the abstract gate: no output computed under
\* one gate survives into another (module OutputGate).
gateOf ==
  CASE isDisabled                         -> "off"
    [] pidMode = "MANUAL"                 -> "manual"
    [] pidMode \in AutoModes /\ isLidOpen  -> "lidOpen"
    [] OTHER                              -> "auto"

Gate == INSTANCE OutputGate WITH gate <- gateOf, output <- pidOutput

GateRefined == Gate!GateSpec
=============================================================================
