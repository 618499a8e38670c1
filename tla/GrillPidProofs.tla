--------------------------- MODULE GrillPidProofs ---------------------------
(***************************************************************************)
(* What holds of GrillPid for every number of probes, every set of set     *)
(* points, temperatures, durations and output levels; of LidEvents and     *)
(* PidLaw, which refine its control, for every constant of the control     *)
(* law; and of Signals, which runs on it, for every number of probes it    *)
(* allows, every set of LEDs, stimuli and limits.                          *)
(***************************************************************************)
EXTENDS PidLaw, Signals, TLAPS

USE DEF Probes, ProbeTypes, AutoModes, Modes, StoredModes, TEMP_PIT

\* A clamped value is a percentage (the macro constrain).
LEMMA ClampPercent == \A v \in Int : Clamp(v, 0, 100) \in 0..100
  BY DEF Clamp

\* setLidOpenDuration yields an unsigned int of at least the minimum.
LEMMA LidDurationType ==
  \A d \in Durations :
    LidDuration(d) \in 0..(Word - 1) /\ LidDuration(d) >= MinAutoResume
  BY ConstantsAssumption DEF LidDuration

\* Counting a running countdown down keeps it an unsigned int.
LEMMA CountDownType ==
  \A n \in 0..(Word - 1) : n # 0 => n - 1 \in 0..(Word - 1)
  BY ConstantsAssumption

\* A stored setting leaves the rest of the configuration as it was.
LEMMA ConfigStore ==
  ASSUME NEW c \in Config
  PROVE  /\ \A m \in StoredModes : [c EXCEPT !.pidMode = m] \in Config
         /\ \A sp \in SetPoints, m \in StoredModes :
              [c EXCEPT !.setPoint = sp, !.pidMode = m] \in Config
         /\ \A o \in Offsets : [c EXCEPT !.lidOpenOffset = o] \in Config
         /\ \A d \in Durations : [c EXCEPT !.lidOpenDuration = d] \in Config
         /\ \A p \in Probes, type \in ProbeTypes :
              [c EXCEPT !.probeType[p] = type] \in Config
  BY DEF Config

LEMMA InitTypeOK == Init => TypeOK
<1> SUFFICES ASSUME Init PROVE TypeOK
  OBVIOUS
<1> USE ConstantsAssumption
<1>1. config \in Config
  BY DEF Init
<1>2. /\ setPoint \in SetPoints /\ lidOpenOffset \in Offsets
      /\ probeType \in [Probes -> ProbeTypes]
      /\ config.lidOpenDuration \in Durations
  BY <1>1 DEF Init, Config
<1>3. lidOpenDuration \in 0..(Word - 1)
  BY <1>2, LidDurationType DEF Init
<1> QED
  BY <1>1, <1>2, <1>3 DEF Init, TypeOK

-----------------------------------------------------------------------------
(* Each action keeps TypeOK.                                               *)

\* One measurement period
LEMMA DoWorkTypeOK == TypeOK /\ doWork => TypeOK'
<1> SUFFICES ASSUME TypeOK, doWork PROVE TypeOK'
  OBVIOUS
<1> USE ConstantsAssumption
<1>1. hasTemp' \in [Probes -> BOOLEAN] /\ temperature' \in [Probes -> Int]
  <2>1. PICK reading \in [Probes -> Temps \cup {NoReading}] :
          /\ hasTemp' = [p \in Probes |->
               IF probeType[p] = "INTERNAL" THEN reading[p] # NoReading ELSE hasTemp[p]]
          /\ temperature' = [p \in Probes |->
               IF probeType[p] = "INTERNAL" /\ reading[p] # NoReading
                 THEN reading[p] ELSE temperature[p]]
    BY DEF doWork, Measure
  <2>2. hasTemp \in [Probes -> BOOLEAN] /\ temperature \in [Probes -> Int]
    BY DEF TypeOK
  <2>3. \A p \in Probes : reading[p] # NoReading => reading[p] \in Int
    OBVIOUS
  <2>4. hasTemp' \in [Probes -> BOOLEAN]
    BY <2>1, <2>2
  <2>5. temperature' \in [Probes -> Int]
    BY <2>1, <2>2, <2>3
  <2> QED
    BY <2>4, <2>5
<1>2. pidOutput' \in 0..100 /\ pidMode' \in Modes /\ lidCountdown' \in 0..(Word - 1)
  <2>1. CASE Idle
    BY <2>1 DEF Idle, modeVars, TypeOK
  <2>2. CASE Control
    <3>1. CASE Reached
      BY <3>1 DEF Reached, calcPidOutput, TypeOK
    <3>2. CASE CountDown
      BY <3>2, CountDownType DEF CountDown, calcPidOutput, TypeOK, isLidOpen
    <3>3. CASE LidDetected
      BY <3>3 DEF LidDetected, resetLidOpenResumeCountdown, TypeOK
    <3>4. CASE Regulate
      BY <3>4 DEF Regulate, calcPidOutput, TypeOK
    <3> QED
      BY <2>2, <3>1, <3>2, <3>3, <3>4 DEF Control
  <2> QED
    BY <2>1, <2>2 DEF doWork
<1> QED
  BY <1>1, <1>2 DEF TypeOK, doWork, lidParams

\* A setting: set point, manual output, OFF, lid parameters, probe type
LEMMA SettingTypeOK == TypeOK /\ Setting => TypeOK'
<1> SUFFICES ASSUME TypeOK, Setting PROVE TypeOK'
  OBVIOUS
<1> USE ConstantsAssumption DEF TypeOK
<1>1. ASSUME NEW sp \in SetPoints, StoreSetPoint(sp) PROVE TypeOK'
  <2>1. config' \in Config
    BY <1>1, ConfigStore DEF StoreSetPoint
  <2> QED
    BY <1>1, <2>1 DEF StoreSetPoint, setPidMode, lidParams, probeVars
<1>2. ASSUME NEW value \in Levels, StoreManual(value) PROVE TypeOK'
  <2>1. config' \in Config
    BY <1>2, ConfigStore DEF StoreManual
  <2>2. value \in Int
    OBVIOUS
  <2>3. pidMode' \in Modes /\ lidCountdown' \in 0..(Word - 1)
    BY <1>2 DEF StoreManual, setPidOutput
  <2>4. pidOutput' \in 0..100
    BY <1>2, <2>2, ClampPercent DEF StoreManual, setPidOutput
  <2> QED
    BY <1>2, <2>1, <2>3, <2>4 DEF StoreManual, lidParams, probeVars
<1>3. CASE SetUnitsOff
  BY <1>3 DEF SetUnitsOff, setPidMode, lidParams, probeVars
<1>4. ASSUME NEW percent \in Offsets, StoreLidOffset(percent) PROVE TypeOK'
  BY <1>4, ConfigStore DEF StoreLidOffset, modeVars, probeVars
<1>5. ASSUME NEW seconds \in Durations, StoreLidDuration(seconds) PROVE TypeOK'
  BY <1>5, ConfigStore, LidDurationType DEF StoreLidDuration, modeVars, probeVars
<1>6. ASSUME NEW p \in Probes, NEW type \in ProbeTypes, StoreProbeType(p, type)
      PROVE  TypeOK'
  <2>1. config' \in Config
    BY <1>6, ConfigStore DEF StoreProbeType
  <2>2. probeType' \in [Probes -> ProbeTypes] /\ hasTemp' \in [Probes -> BOOLEAN]
    BY <1>6 DEF StoreProbeType
  <2>3. ctrl' \in Probes
    BY <1>6 DEF StoreProbeType, updateControlProbe
  <2> QED
    BY <1>6, <2>1, <2>2, <2>3 DEF StoreProbeType, modeVars, lidParams
<1> QED
  BY <1>1, <1>2, <1>3, <1>4, <1>5, <1>6 DEF Setting

\* Lid mode on and off
LEMMA LidTypeOK == TypeOK /\ (LidCommand \/ ToggleLid) => TypeOK'
<1> SUFFICES ASSUME TypeOK, NEW active \in BOOLEAN, StoreLidActive(active)
             PROVE  TypeOK'
  BY DEF LidCommand, ToggleLid, isLidOpen
<1>1. /\ pidMode' \in Modes /\ pidOutput' \in 0..100
      /\ lidCountdown' \in 0..(Word - 1)
  <2>1. CASE active
    BY <2>1 DEF TypeOK, StoreLidActive, resetLidOpenResumeCountdown
  <2>2. CASE ~active
    BY <2>2, ConstantsAssumption DEF TypeOK, StoreLidActive
  <2> QED
    BY <2>1, <2>2
<1> QED
  BY <1>1 DEF TypeOK, StoreLidActive, lidParams, probeVars

\* Loading a configuration, at a restart or a reset
LEMMA LoadConfigType ==
  ASSUME NEW c \in Config, LoadConfig(c)
  PROVE  /\ pidMode' \in Modes /\ lidCountdown' = 0 /\ pidOutput' = 0
         /\ setPoint' \in SetPoints /\ lidOpenOffset' \in Offsets
         /\ lidOpenDuration' \in 0..(Word - 1)
         /\ probeType' \in [Probes -> ProbeTypes]
<1>1. c.lidOpenDuration \in Durations
  BY DEF Config
<1> QED
  BY <1>1, LidDurationType DEF Config, LoadConfig, setPidMode

\* The home screen's other buttons
LEMMA ButtonTypeOK == TypeOK /\ Button => TypeOK'
<1> SUFFICES ASSUME TypeOK, Button PROVE TypeOK'
  OBVIOUS
<1> USE ConstantsAssumption DEF TypeOK
<1>1. CASE ToggleOff
  <2>1. config' \in Config
    BY <1>1, ConfigStore DEF ToggleOff, StoredMode
  <2> QED
    BY <1>1, <2>1 DEF ToggleOff, setPidMode, lidParams, probeVars
<1>2. ASSUME NEW step \in ManualSteps, AdjustManual(step) PROVE TypeOK'
  BY <1>2, ClampPercent DEF AdjustManual, setPidOutput, lidParams, probeVars
<1>3. CASE ResetConfig
  <2>1. PICK c \in Config : config' = c /\ LoadConfig(c)
    BY <1>3 DEF ResetConfig
  <2> QED
    BY <1>3, <2>1, LoadConfigType DEF ResetConfig
<1> QED
  BY <1>1, <1>2, <1>3 DEF Button

LEMMA RestartTypeOK == TypeOK /\ Restart => TypeOK'
<1> SUFFICES ASSUME TypeOK, Restart PROVE TypeOK'
  OBVIOUS
<1>1. config \in Config /\ LoadConfig(config)
  BY DEF TypeOK, Restart
<1> QED
  BY <1>1, LoadConfigType, ConstantsAssumption DEF TypeOK, Restart, updateControlProbe

LEMMA StepTypeOK == TypeOK /\ [Next]_vars => TypeOK'
<1> SUFFICES ASSUME TypeOK, [Next]_vars PROVE TypeOK'
  OBVIOUS
<1>1. CASE UNCHANGED vars
  BY <1>1 DEF vars, modeVars, lidParams, probeVars, TypeOK
<1> QED
  BY <1>1, DoWorkTypeOK, SettingTypeOK, LidTypeOK, ButtonTypeOK, RestartTypeOK DEF Next

\* Every field keeps its type: unsigned counters stay in range, the output
\* stays a percentage, the file never holds RECOVERY or NORMAL.
THEOREM TypeCorrect == Spec => []TypeOK
<1>1. Init => TypeOK
  BY InitTypeOK
<1>2. TypeOK /\ [Next]_vars => TypeOK'
  BY StepTypeOK
<1> QED
  BY <1>1, <1>2, PTL DEF Spec

-----------------------------------------------------------------------------
(* The safety invariants.  Together with TypeOK they are inductive.        *)

SafetyInv ==
  /\ OutputGated
  /\ LidOnlyInRecovery
  /\ ManualSurvivesRestart
  /\ SettingsSurviveRestart
  /\ OnlyReadProbesHaveTemperature

LEMMA InitSafety == Init => SafetyInv
  BY DEF Init, SafetyInv, OutputGated, LidOnlyInRecovery, ManualSurvivesRestart,
     SettingsSurviveRestart, OnlyReadProbesHaveTemperature, isLidOpen, isDisabled

\* A measurement period: the control law is silent with the lid open, and a
\* lid event it detects starts in RECOVERY with the output at 0.
LEMMA DoWorkSafety == TypeOK /\ SafetyInv /\ doWork => SafetyInv'
<1> SUFFICES ASSUME TypeOK, SafetyInv, doWork PROVE SafetyInv'
  OBVIOUS
<1> USE DEF SafetyInv, isLidOpen, isDisabled
<1>1. OutputGated' /\ LidOnlyInRecovery' /\ ManualSurvivesRestart'
  <2> USE DEF OutputGated, LidOnlyInRecovery, ManualSurvivesRestart
  <2>1. config' = config
    BY DEF doWork
  <2>2. CASE Idle
    BY <2>1, <2>2 DEF Idle, modeVars
  <2>3. CASE Control /\ Reached
    BY <2>1, <2>3 DEF Reached
  <2>4. CASE Control /\ CountDown
    BY <2>1, <2>4 DEF Control, CountDown, calcPidOutput
  <2>5. CASE Control /\ LidDetected
    BY <2>1, <2>5 DEF LidDetected, resetLidOpenResumeCountdown
  <2>6. CASE Control /\ Regulate
    BY <2>1, <2>6 DEF Control, Regulate
  <2> QED
    BY <2>2, <2>3, <2>4, <2>5, <2>6 DEF doWork, Control
<1>2. SettingsSurviveRestart'
  BY DEF doWork, lidParams, SettingsSurviveRestart
<1>3. OnlyReadProbesHaveTemperature'
  BY DEF doWork, Measure, OnlyReadProbesHaveTemperature, TypeOK
<1> QED
  BY <1>1, <1>2, <1>3

\* A setting: what is stored is what is used, and a mode is entered with
\* the lid closed.
LEMMA SettingSafety == TypeOK /\ SafetyInv /\ Setting => SafetyInv'
<1> SUFFICES ASSUME TypeOK, SafetyInv, Setting PROVE SafetyInv'
  OBVIOUS
<1> USE DEF SafetyInv, OutputGated, LidOnlyInRecovery, ManualSurvivesRestart,
            SettingsSurviveRestart, OnlyReadProbesHaveTemperature,
            isLidOpen, isDisabled, TypeOK, Config
<1>1. ASSUME NEW sp \in SetPoints, StoreSetPoint(sp) PROVE SafetyInv'
  BY <1>1 DEF StoreSetPoint, setPidMode, lidParams, probeVars
<1>2. ASSUME NEW value \in Levels, StoreManual(value) PROVE SafetyInv'
  BY <1>2 DEF StoreManual, setPidOutput, lidParams, probeVars
<1>3. CASE SetUnitsOff
  BY <1>3 DEF SetUnitsOff, setPidMode, lidParams, probeVars
<1>4. ASSUME NEW percent \in Offsets, StoreLidOffset(percent) PROVE SafetyInv'
  BY <1>4 DEF StoreLidOffset, modeVars, probeVars
<1>5. ASSUME NEW seconds \in Durations, StoreLidDuration(seconds) PROVE SafetyInv'
  BY <1>5 DEF StoreLidDuration, modeVars, probeVars
<1>6. ASSUME NEW p \in Probes, NEW type \in ProbeTypes, StoreProbeType(p, type)
      PROVE  SafetyInv'
  BY <1>6 DEF StoreProbeType, modeVars, lidParams
<1> QED
  BY <1>1, <1>2, <1>3, <1>4, <1>5, <1>6 DEF Setting

\* Lid mode on enters RECOVERY with the output at 0; lid mode off leaves an
\* output of 0 behind.
LEMMA LidSafety == TypeOK /\ SafetyInv /\ (LidCommand \/ ToggleLid) => SafetyInv'
<1> SUFFICES ASSUME TypeOK, SafetyInv, NEW active \in BOOLEAN, StoreLidActive(active)
             PROVE  SafetyInv'
  BY DEF LidCommand, ToggleLid, isLidOpen
<1> USE DEF SafetyInv, OutputGated, LidOnlyInRecovery, ManualSurvivesRestart,
            SettingsSurviveRestart, OnlyReadProbesHaveTemperature,
            isLidOpen, isDisabled, StoreLidActive, lidParams, probeVars
<1>1. CASE active
  BY <1>1 DEF resetLidOpenResumeCountdown
<1>2. CASE ~active
  BY <1>2
<1> QED
  BY <1>1, <1>2

LEMMA ButtonSafety == TypeOK /\ SafetyInv /\ Button => SafetyInv'
<1> SUFFICES ASSUME TypeOK, SafetyInv, Button PROVE SafetyInv'
  OBVIOUS
<1> USE DEF SafetyInv, OutputGated, LidOnlyInRecovery, ManualSurvivesRestart,
            SettingsSurviveRestart, OnlyReadProbesHaveTemperature,
            isLidOpen, isDisabled, TypeOK
<1>1. CASE ToggleOff
  BY <1>1 DEF ToggleOff, setPidMode, StoredMode, Config, lidParams, probeVars
<1>2. ASSUME NEW step \in ManualSteps, AdjustManual(step) PROVE SafetyInv'
  BY <1>2 DEF AdjustManual, setPidOutput, lidParams, probeVars
<1>3. CASE ResetConfig
  BY <1>3 DEF ResetConfig, LoadConfig, IsDefault, setPidMode
<1> QED
  BY <1>1, <1>2, <1>3 DEF Button

LEMMA RestartSafety == TypeOK /\ SafetyInv /\ Restart => SafetyInv'
  BY DEF SafetyInv, OutputGated, LidOnlyInRecovery, ManualSurvivesRestart,
     SettingsSurviveRestart, OnlyReadProbesHaveTemperature, isLidOpen, isDisabled,
     Restart, LoadConfig, setPidMode

LEMMA StepSafety == TypeOK /\ SafetyInv /\ [Next]_vars => SafetyInv'
<1> SUFFICES ASSUME TypeOK, SafetyInv, [Next]_vars PROVE SafetyInv'
  OBVIOUS
<1>1. CASE UNCHANGED vars
  BY <1>1
  DEF vars, modeVars, lidParams, probeVars, SafetyInv, OutputGated, LidOnlyInRecovery,
      ManualSurvivesRestart, SettingsSurviveRestart, OnlyReadProbesHaveTemperature,
      isLidOpen, isDisabled
<1> QED
  BY <1>1, DoWorkSafety, SettingSafety, LidSafety, ButtonSafety, RestartSafety DEF Next

\* All the safety invariants of the control core, in every reachable state.
THEOREM SafetyHolds == Spec => []SafetyInv
<1>1. Init => TypeOK /\ SafetyInv
  BY InitTypeOK, InitSafety
<1>2. TypeOK /\ SafetyInv /\ [Next]_vars => (TypeOK /\ SafetyInv)'
  BY StepTypeOK, StepSafety
<1> QED
  BY <1>1, <1>2, PTL DEF Spec

\* Off or with the lid open, the controller drives nothing.
THEOREM OutputAlwaysGated == Spec => []OutputGated
  BY SafetyHolds, PTL DEF SafetyInv

\* The lid countdown runs in RECOVERY only.
THEOREM LidAlwaysInRecovery == Spec => []LidOnlyInRecovery
  BY SafetyHolds, PTL DEF SafetyInv

\* A manual output is stored as such: no restart puts it under control.
THEOREM ManualAlwaysStored == Spec => []ManualSurvivesRestart
  BY SafetyHolds, PTL DEF SafetyInv

\* What is in use is what the next start loads.
THEOREM SettingsAlwaysStored == Spec => []SettingsSurviveRestart
  BY SafetyHolds, PTL DEF SafetyInv

\* A probe that is not read offers no reading.
THEOREM NoReadingWithoutProbe == Spec => []OnlyReadProbesHaveTemperature
  BY SafetyHolds, PTL DEF SafetyInv

\* The probe the controller steers by, step by step
LEMMA StepControlProbe ==
  ASSUME ~Panel, TypeOK, ControlProbeFollowsTypes, [Next]_vars
  PROVE  ControlProbeFollowsTypes'
<1> USE DEF ControlProbeFollowsTypes, IsControlProbe
<1>1. ASSUME NEW p \in Probes, NEW type \in ProbeTypes, StoreProbeType(p, type)
      PROVE  ControlProbeFollowsTypes'
  BY <1>1 DEF StoreProbeType, updateControlProbe
<1>2. CASE Restart
  <2>1. probeType' = config.probeType
    BY <1>2 DEF Restart, LoadConfig
  <2> QED
    BY <1>2, <2>1 DEF Restart, updateControlProbe
<1>3. ASSUME UNCHANGED <<probeType, ctrl>> PROVE ControlProbeFollowsTypes'
  BY <1>3
<1>4. CASE doWork
  BY <1>3, <1>4 DEF doWork
<1>5. CASE Setting
  <2>1. ASSUME UNCHANGED probeVars PROVE ControlProbeFollowsTypes'
    BY <1>3, <2>1 DEF probeVars
  <2> QED
    BY <1>1, <1>5, <2>1
    DEF Setting, StoreSetPoint, StoreManual, SetUnitsOff, StoreLidOffset, StoreLidDuration
<1>6. CASE LidCommand
  BY <1>3, <1>6 DEF LidCommand, StoreLidActive, probeVars
<1>7. ~Button /\ ~ToggleLid
  BY DEF Button, ToggleOff, AdjustManual, ResetConfig, ToggleLid
<1>8. CASE UNCHANGED vars
  BY <1>3, <1>8 DEF vars, probeVars
<1> QED
  BY <1>2, <1>4, <1>5, <1>6, <1>7, <1>8 DEF Next

\* Without a panel, as the program is built, the controller steers by the
\* first probe that is not disabled (updateControlProbe).  The panel's reset
\* of the configuration would enable probes without choosing anew.
THEOREM ControlProbeAlwaysFollows ==
  ASSUME ~Panel
  PROVE  Spec => []ControlProbeFollowsTypes
<1>1. Init => ControlProbeFollowsTypes
  BY ConstantsAssumption DEF Init, IsDefault, ControlProbeFollowsTypes, IsControlProbe
<1>2. TypeOK /\ ControlProbeFollowsTypes /\ [Next]_vars => ControlProbeFollowsTypes'
  BY StepControlProbe
<1> QED
  BY <1>1, <1>2, TypeCorrect, PTL DEF Spec

-----------------------------------------------------------------------------
(* The control core implements the abstract gate.  Every step that moves   *)
(* the gate has an output of 0 before it or drops it; only a measurement   *)
(* period that starts and ends in automatic control with the lid closed    *)
(* computes a new one.                                                     *)

LEMMA GateType == TypeOK => gateOf \in Gate!Gates
  BY DEF TypeOK, gateOf, Gate!Gates

LEMMA InitGate == Init => Gate!GateInit
<1> SUFFICES ASSUME Init PROVE Gate!GateInit
  OBVIOUS
<1>1. gateOf \in Gate!Gates
  BY InitTypeOK, GateType
<1> QED
  BY <1>1 DEF Init, Gate!GateInit

\* A step that drops the output moves the gate as it likes.
LEMMA DropIsSwitch == TypeOK' /\ pidOutput' = 0 => Gate!Switch
  BY DEF TypeOK, gateOf, Gate!Switch, Gate!Gates

LEMMA ManualIsDrive == TypeOK' /\ pidMode' = "MANUAL" => Gate!Drive
  BY DEF TypeOK, gateOf, isDisabled, Gate!Drive, Gate!Percent

LEMMA SameIsStutter == UNCHANGED modeVars => UNCHANGED Gate!gateVars
  BY DEF modeVars, gateOf, isDisabled, isLidOpen, Gate!gateVars

LEMMA DoWorkGate ==
  TypeOK /\ TypeOK' /\ doWork => Gate!GateNext \/ UNCHANGED Gate!gateVars
<1> SUFFICES ASSUME TypeOK, TypeOK', doWork
             PROVE  Gate!GateNext \/ UNCHANGED Gate!gateVars
  OBVIOUS
<1> USE DEF Gate!GateNext
<1>1. CASE Idle
  BY <1>1, SameIsStutter DEF Idle
<1>2. ASSUME Control, ~isLidOpen, pidMode' \in AutoModes, lidCountdown' = 0
      PROVE  Gate!GateNext
  <2>1. gateOf = "auto" /\ gateOf' = "auto"
    BY <1>2 DEF Control, gateOf, isDisabled, isLidOpen
  <2> QED
    BY <2>1 DEF Gate!Regulate, Gate!Percent, TypeOK
<1>3. ASSUME calcPidOutput, isLidOpen PROVE Gate!GateNext
  BY <1>3, DropIsSwitch DEF calcPidOutput
<1>4. CASE Control /\ Reached
  BY <1>2, <1>3, <1>4 DEF Reached
<1>5. CASE Control /\ CountDown
  BY <1>3, <1>5 DEF CountDown
<1>6. CASE Control /\ LidDetected
  BY <1>6, DropIsSwitch DEF LidDetected, resetLidOpenResumeCountdown
<1>7. CASE Control /\ Regulate
  BY <1>2, <1>7 DEF Control, Regulate, isLidOpen
<1> QED
  BY <1>1, <1>4, <1>5, <1>6, <1>7 DEF doWork, Control

LEMMA LidGate ==
  ASSUME SafetyInv, TypeOK', NEW active \in BOOLEAN, StoreLidActive(active)
  PROVE  Gate!GateNext \/ UNCHANGED Gate!gateVars
<1> USE DEF Gate!GateNext, StoreLidActive
<1>1. CASE active
  BY <1>1, DropIsSwitch DEF resetLidOpenResumeCountdown
<1>2. CASE ~active /\ isLidOpen
  <2>1. pidOutput' = 0
    BY <1>2 DEF SafetyInv, OutputGated
  <2> QED
    BY <2>1, DropIsSwitch
<1>3. CASE ~active /\ ~isLidOpen
  BY <1>3, SameIsStutter DEF isLidOpen, modeVars
<1> QED
  BY <1>1, <1>2, <1>3

LEMMA SettingGate ==
  TypeOK' /\ (Setting \/ Button \/ Restart)
    => Gate!GateNext \/ UNCHANGED Gate!gateVars
<1> SUFFICES ASSUME TypeOK', Setting \/ Button \/ Restart
             PROVE  Gate!GateNext \/ UNCHANGED Gate!gateVars
  OBVIOUS
<1> USE DEF Gate!GateNext
<1>1. ASSUME NEW mode, setPidMode(mode) PROVE Gate!GateNext
  BY <1>1, DropIsSwitch DEF setPidMode
<1>2. ASSUME NEW value, setPidOutput(value) PROVE Gate!GateNext
  BY <1>2, ManualIsDrive DEF setPidOutput
<1>3. CASE Setting
  BY <1>1, <1>2, <1>3, SameIsStutter
  DEF Setting, StoreSetPoint, StoreManual, SetUnitsOff, StoreLidOffset,
      StoreLidDuration, StoreProbeType
<1>4. CASE Button
  BY <1>1, <1>2, <1>4 DEF Button, ToggleOff, AdjustManual, ResetConfig, LoadConfig
<1>5. CASE Restart
  BY <1>1, <1>5 DEF Restart, LoadConfig
<1> QED
  BY <1>3, <1>4, <1>5

\* No output computed under one gate survives into another, for any number of
\* probes and any parameters: the control core refines OutputGate.
THEOREM GateIsRefined == Spec => GateRefined
<1>1. TypeOK /\ TypeOK' /\ SafetyInv /\ [Next]_vars => [Gate!GateNext]_(Gate!gateVars)
  <2> SUFFICES ASSUME TypeOK, TypeOK', SafetyInv, [Next]_vars
               PROVE  Gate!GateNext \/ UNCHANGED Gate!gateVars
    OBVIOUS
  <2>1. CASE UNCHANGED vars
    BY <2>1, SameIsStutter DEF vars
  <2>2. CASE LidCommand \/ ToggleLid
    BY <2>2, LidGate DEF LidCommand, ToggleLid, isLidOpen
  <2> QED
    BY <2>1, <2>2, DoWorkGate, SettingGate DEF Next
<1> QED
  BY <1>1, InitGate, TypeCorrect, SafetyHolds, PTL DEF Spec, GateRefined, Gate!GateSpec

-----------------------------------------------------------------------------
(* The control law implements the control core: every step of it is a step  *)
(* of the core, so what is proved of the core holds of it.                  *)

LEMMA LawSteps == [LawNext]_pidVars => [Next]_vars
<1> SUFFICES ASSUME [LawNext]_pidVars PROVE [Next]_vars
  OBVIOUS
<1>1. CASE SomePeriod
  BY <1>1 DEF SomePeriod, LawPeriod, Period, Next
<1>2. ASSUME NEW k \in Kis, StorePidConstant(k) PROVE UNCHANGED vars
  BY <1>2 DEF StorePidConstant, lidVars
<1>3. CASE OtherCommand
  BY <1>3 DEF OtherCommand, LidSwitched, Commanded, Next, Button
<1>4. CASE Restarting
  BY <1>4 DEF Restarting, Restarted, Next
<1>5. CASE UNCHANGED pidVars
  BY <1>5 DEF pidVars, lidVars
<1> QED
  BY <1>1, <1>2, <1>3, <1>4, <1>5 DEF LawNext

\* Whatever the terms, the law's output is one the core lets calcPidOutput
\* yield: Levels never keeps the law from a period.
LEMMA OutputIsLevel ==
  ASSUME TypeOK, temperature'[ctrl] \in Int, NEW i \in Int, NEW d \in Int
  PROVE  Output(i, d) \in Levels
<1> DEFINE n == Kp * error + i + d
<1>1. n \in Int
  BY ConstantsAssumption, LawAssumption DEF TypeOK, error
<1>2. Unit \in Nat \ {0} /\ \A k \in 0..100 : Clamp(Unit * k, 0, 100) \in Levels
  BY LawAssumption
<1> HIDE DEF n
<1>3. CASE n \in 0..100
  BY <1>2, <1>3 DEF Output, n
<1>4. CASE n < 0
  <2>1. Unit * n < 0
    BY <1>1, <1>2, <1>4
  <2> QED
    BY <1>2, <2>1 DEF Output, Clamp, n
<1>5. CASE n > 100
  <2>1. Unit * n > 100 /\ Unit * 100 >= 100
    BY <1>1, <1>2, <1>5
  <2> QED
    BY <1>2, <2>1 DEF Output, Clamp, n
<1> QED
  BY <1>1, <1>3, <1>4, <1>5

\* The control law with its integral implements the control core: mode machine,
\* lid events and gate are the core's whatever the law computes.
THEOREM LawImplementsCore == LawSpec => Spec
<1>1. LawInit => Init
  BY DEF LawInit, LidInit
<1> QED
  BY <1>1, LawSteps, PTL DEF LawSpec, Spec

-----------------------------------------------------------------------------
(* The integral                                                            *)

\* While the law stays in control, the output is one it computed from an
\* integral at least as large as the one it holds.
LawInv ==
  /\ integral \in Nat /\ ki \in Nat /\ regulated \in BOOLEAN
  /\ \A p \in Probes : hasTemp[p] => temperature[p] \in Temps
  /\ regulated =>
       \E e \in Errors, d \in Drifts, a \in Nat :
         integral <= a /\ pidOutput = Clamp(Unit * (Kp * e + a + d), 0, 100)

LEMMA LawInitInv == LawInit => LawInv
<1> SUFFICES ASSUME LawInit PROVE LawInv
  OBVIOUS
<1>1. ki \in Kis /\ integral = 0 /\ regulated = FALSE
  BY DEF LawInit
<1>2. \A p \in Probes : ~hasTemp[p]
  BY DEF LawInit, LidInit, Init
<1>3. ki \in Nat
  BY <1>1, LawAssumption
<1> QED
  BY <1>1, <1>2, <1>3 DEF LawInv

LEMMA ErrorType ==
  /\ Errors \subseteq Int
  /\ setPoint \in SetPoints /\ temperature'[ctrl] \in Temps => error \in Errors
<1>1. SetPoints \subseteq Int /\ Temps \subseteq Int
  BY ConstantsAssumption
<1>2. \A sp \in SetPoints, t \in Temps : sp - t \in Int /\ sp - t \in Errors
  BY <1>1 DEF Errors
<1>3. Errors \subseteq Int
  BY <1>2 DEF Errors
<1> QED
  BY <1>2, <1>3, Zenon DEF error

\* The law reads a probe that has a reading.
LEMMA PeriodReadings ==
  ASSUME TypeOK, LawInv, Measure
  PROVE  \A p \in Probes : hasTemp'[p] => temperature'[p] \in Temps
<1>1. PICK reading \in [Probes -> Temps \cup {NoReading}] :
        /\ hasTemp' = [p \in Probes |->
             IF probeType[p] = "INTERNAL" THEN reading[p] # NoReading ELSE hasTemp[p]]
        /\ temperature' = [p \in Probes |->
             IF probeType[p] = "INTERNAL" /\ reading[p] # NoReading
               THEN reading[p] ELSE temperature[p]]
  BY DEF Measure
<1> QED
  BY <1>1 DEF LawInv

LEMMA Half == \A n \in Nat : n \div 2 \in Nat /\ n \div 2 <= n
  OBVIOUS

LEMMA PeriodLaw ==
  ASSUME TypeOK, LawInv, NEW d \in Drifts, LawPeriod(d)
  PROVE  LawInv'
<1>1. /\ Measure /\ ki' = ki
      /\ UNCHANGED <<setPoint, ctrl>>
  BY DEF LawPeriod, Period, doWork
<1>2. \A p \in Probes : hasTemp'[p] => temperature'[p] \in Temps
  BY <1>1, PeriodReadings
<1>3. \A i \in Nat : Halved(i) \in Nat /\ Halved(i) <= i
  BY Half DEF Halved
<1>4. CASE ~InControl
  <2>1. integral' = Halved(integral) /\ regulated' = FALSE
    BY <1>4 DEF LawPeriod
  <2> QED
    BY <1>1, <1>2, <1>3, <2>1 DEF LawInv
<1>5. CASE InControl
  <2>1. /\ integral' = Halved(Accumulated)
        /\ regulated' = ~LidJustOpened
        /\ ~LidJustOpened => pidOutput' = Output(Accumulated, d)
    BY <1>5 DEF LawPeriod
  <2>2. ctrl \in Probes /\ setPoint \in SetPoints /\ temperature'[ctrl] \in Temps
    BY <1>2, <1>5 DEF TypeOK, InControl
  <2>3. error \in Errors /\ error \in Int
    BY <2>2, ErrorType
  <2>4. Accumulated \in Nat
    BY <2>3 DEF Accumulated, NotNegative, LawInv
  <2>5. integral' \in Nat /\ integral' <= Accumulated
    BY <1>3, <2>1, <2>4
  <2>6. regulated' =>
          integral' <= Accumulated
          /\ pidOutput' = Clamp(Unit * (Kp * error + Accumulated + d), 0, 100)
    BY <2>1, <2>5 DEF Output
  <2>7. PICK e \in Errors, a \in Nat : e = error /\ a = Accumulated
    BY <2>3, <2>4
  <2>8. regulated' =>
          \E e1 \in Errors, d1 \in Drifts, a1 \in Nat :
            integral' <= a1 /\ pidOutput' = Clamp(Unit * (Kp * e1 + a1 + d1), 0, 100)
    BY <2>6, <2>7
  <2>9. ki' \in Nat /\ regulated' \in BOOLEAN
    BY <1>1, <2>1 DEF LawInv
  <2> QED
    BY <1>2, <2>5, <2>8, <2>9 DEF LawInv
<1> QED
  BY <1>4, <1>5

\* A command changes no reading but takes that of a probe it changes.
LEMMA CommandReadings ==
  ASSUME TypeOK, LidSwitched \/ Commanded
  PROVE  \A p \in Probes :
           hasTemp'[p] => hasTemp[p] /\ temperature'[p] = temperature[p]
<1>1. CASE UNCHANGED probeVars
  BY <1>1 DEF probeVars
<1>2. ASSUME NEW p \in Probes, NEW type \in ProbeTypes, StoreProbeType(p, type)
      PROVE  \A q \in Probes :
               hasTemp'[q] => hasTemp[q] /\ temperature'[q] = temperature[q]
  BY <1>2 DEF StoreProbeType, TypeOK
<1> QED
  BY <1>1, <1>2
  DEF LidSwitched, LidCommand, ToggleLid, StoreLidActive, Commanded, Setting, StoreSetPoint,
      StoreManual, SetUnitsOff, StoreLidOffset, StoreLidDuration, ToggleOff, AdjustManual

LEMMA LawNextInv == TypeOK /\ LawInv /\ [LawNext]_pidVars => LawInv'
<1> SUFFICES ASSUME TypeOK, LawInv, [LawNext]_pidVars PROVE LawInv'
  OBVIOUS
<1>1. CASE SomePeriod
  BY <1>1, PeriodLaw DEF SomePeriod
<1>2. ASSUME NEW k \in Kis, StorePidConstant(k) PROVE LawInv'
  <2>1. /\ ki' \in Nat /\ integral' \in Nat /\ integral' <= integral
        /\ UNCHANGED <<vars, regulated>>
    BY <1>2, LawAssumption DEF StorePidConstant, lidVars, LawInv
  <2>2. UNCHANGED <<pidOutput, hasTemp, temperature>>
    BY <2>1 DEF vars, modeVars, probeVars
  <2>3. regulated =>
          \E e \in Errors, d \in Drifts, a \in Nat :
            integral' <= a /\ pidOutput = Clamp(Unit * (Kp * e + a + d), 0, 100)
    BY <2>1 DEF LawInv
  <2> QED
    BY <2>1, <2>2, <2>3 DEF LawInv
<1>3. CASE OtherCommand
  <2>1. /\ \A p \in Probes : hasTemp'[p] => temperature'[p] \in Temps
        /\ regulated' \in BOOLEAN /\ (regulated' => regulated /\ pidOutput' = pidOutput)
        /\ UNCHANGED <<ki, integral>>
    BY <1>3, CommandReadings DEF OtherCommand, LawInv
  <2>2. integral' \in Nat /\ ki' \in Nat
    BY <2>1 DEF LawInv
  <2>3. regulated' =>
          \E e \in Errors, d \in Drifts, a \in Nat :
            integral' <= a /\ pidOutput' = Clamp(Unit * (Kp * e + a + d), 0, 100)
    BY <2>1 DEF LawInv
  <2>4. \A p \in Probes : hasTemp'[p] => temperature'[p] \in Temps
    BY <2>1
  <2>5. regulated' \in BOOLEAN
    BY <2>1
  <2> QED
    BY <2>2, <2>3, <2>4, <2>5 DEF LawInv
<1>4. CASE Restarting
  <2>1. \A p \in Probes : ~hasTemp'[p]
    BY <1>4 DEF Restarting, Restarted, Restart
  <2> QED
    BY <1>4, <2>1 DEF Restarting, LawInv
<1>5. CASE UNCHANGED pidVars
  BY <1>5 DEF pidVars, lidVars, vars, modeVars, probeVars, LawInv
<1> QED
  BY <1>1, <1>2, <1>3, <1>4, <1>5 DEF LawNext

\* An integral that gives full power by itself grows only after an interruption
\* of the control (calcPidOutput's anti-windup).
THEOREM IntegralBounded == LawSpec => WindupOnlyAfterInterruption
<1> DEFINE A == integral' > integral /\ regulated => BelowFullPower(integral)
<1>1. TypeOK /\ LawInv /\ [LawNext]_pidVars => [A]_pidVars
  <2> SUFFICES ASSUME TypeOK, LawInv, LawNext, integral' > integral, regulated
               PROVE  BelowFullPower(integral)
    BY DEF pidVars
  <2>1. PICK d0 \in Drifts : LawPeriod(d0)
    <3>0. integral \in Nat
      BY DEF LawInv
    <3>1. ~OtherCommand
      BY <3>0 DEF OtherCommand
    <3>3. ~Restarting
      BY <3>0 DEF Restarting
    <3>2. ASSUME NEW k \in Kis, StorePidConstant(k) PROVE FALSE
      <4>1. integral' = 0 \/ integral' = integral
        BY <3>2 DEF StorePidConstant
      <4> QED
        BY <3>0, <4>1
    <3> QED
      BY <3>1, <3>2, <3>3 DEF LawNext, SomePeriod
  <2>2. integral \in Nat /\ ki \in Nat
    BY DEF LawInv
  <2>3. InControl /\ integral' = Halved(Accumulated)
    BY <2>1, <2>2, Half DEF LawPeriod, Halved
  <2>4. temperature'[ctrl] \in Temps /\ setPoint \in SetPoints
    <3>1. Measure /\ ctrl \in Probes
      BY <2>1 DEF LawPeriod, Period, doWork, TypeOK
    <3> QED
      BY <2>3, <3>1, PeriodReadings DEF InControl, TypeOK
  <2>5. error \in Int
    BY <2>4, ErrorType
  <2>6. MayAccumulate /\ Accumulated = NotNegative(integral + ki * error)
    BY <2>2, <2>3, Half DEF Accumulated, Halved
  <2>7. ~(error < 0)
    <3> SUFFICES ASSUME error < 0 PROVE FALSE
      OBVIOUS
    <3>1. ki * error <= 0 /\ ki * error \in Int
      BY <2>2, <2>5
    <3>2. Accumulated \in Nat /\ Accumulated <= integral
      BY <2>2, <2>6, <3>1 DEF NotNegative
    <3> QED
      BY <2>2, <2>3, <3>2, Half DEF Halved
  <2>8. pidOutput < 100
    BY <2>6, <2>7, LawAssumption DEF MayAccumulate, getPidIMax, TypeOK
  <2>9. PICK e \in Errors, d \in Drifts, a \in Nat :
          integral <= a /\ pidOutput = Clamp(Unit * (Kp * e + a + d), 0, 100)
    BY DEF LawInv
  <2>10. /\ e \in Int /\ d \in Int /\ Unit \in Nat /\ Kp \in Nat /\ Kp * e \in Int
    <3>1. e \in Int /\ d \in Int
      BY ErrorType, LawAssumption
    <3>2. Unit \in Nat /\ Kp \in Nat
      BY LawAssumption
    <3> QED
      BY <3>1, <3>2
  <2>11. PICK s \in Int, b \in Int : s = Kp * e + a + d /\ b = Kp * e + integral + d
    BY <2>2, <2>10
  <2>12. Unit * s < 100
    BY <2>8, <2>9, <2>10, <2>11 DEF Clamp
  <2>13. b <= s
    BY <2>2, <2>9, <2>10, <2>11
  <2>14. Unit * b <= Unit * s /\ Unit * b \in Int /\ Unit * s \in Int
    BY <2>10, <2>13
  <2>15. Unit * (Kp * e + integral + d) < 100
    BY <2>11, <2>12, <2>14
  <2> QED
    BY <2>15 DEF BelowFullPower
<1>2. TypeOK /\ LawInv /\ [LawNext]_pidVars => LawInv'
  BY LawNextInv
<1> QED
  BY <1>1, <1>2, LawInitInv, LawImplementsCore, TypeCorrect, PTL
  DEF LawSpec, WindupOnlyAfterInterruption

-----------------------------------------------------------------------------
(* Lid mode                                                                *)

\* Lid mode has lasted what its countdown has run, unless the duration was
\* retimed; the history variable stops at the lid duration.
LidInv ==
  /\ lidOpenFor \in Nat
  /\ isLidOpen /\ ~retimed => /\ lidCountdown <= lidOpenDuration
                              /\ lidOpenFor + lidCountdown >= lidOpenDuration

LEMMA PeriodLid ==
  ASSUME TypeOK, SafetyInv, LidInv, Period
  PROVE  /\ LidInv'
         /\ isLidOpen /\ ~isLidOpen' /\ pidMode' = "NORMAL"
              => lidOpenFor >= MinAutoResume \/ retimed
<1> USE DEF LidInv, isLidOpen
<1>1. /\ lidCountdown \in Nat /\ lidOpenDuration \in Nat /\ lidOpenFor \in Nat
      /\ MinAutoResume \in Nat /\ lidOpenDuration' = lidOpenDuration
  BY ConstantsAssumption DEF TypeOK, Period, doWork, lidParams
<1>2. isLidOpen' /\ retimed => retimed'
  BY ZenonT(20) DEF Period
<1>3. lidOpenFor' = IF ~(isLidOpen /\ isLidOpen') THEN 0
                    ELSE IF lidOpenFor < lidOpenDuration THEN lidOpenFor + 1
                    ELSE lidOpenFor
  BY DEF Period
<1>4. CASE Idle
  BY <1>1, <1>3, <1>4, <1>2 DEF Idle, modeVars
<1>5. CASE Control /\ Reached
  <2>1. lidCountdown' = 0 /\ lidOpenFor' = 0
    BY <1>3, <1>5 DEF Reached
  <2>2. isLidOpen /\ ~retimed => lidOpenDuration - lidCountdown > MinAutoResume
    BY <1>1, <1>5 DEF Reached, AtSetPoint, USub
  <2>3. isLidOpen /\ ~retimed => lidOpenFor >= MinAutoResume
    BY <1>1, <2>2
  <2> QED
    BY <2>1, <2>3
<1>6. CASE Control /\ CountDown
  <2>1. isLidOpen /\ lidCountdown' = lidCountdown - 1 /\ pidMode' = pidMode
    BY <1>6 DEF CountDown
  <2>2. pidMode = "RECOVERY"
    BY <2>1 DEF SafetyInv, LidOnlyInRecovery
  <2> QED
    BY <1>1, <1>3, <1>2, <2>1, <2>2
<1>7. CASE Control /\ LidDetected
  <2>1. ~isLidOpen /\ lidCountdown' = lidOpenDuration /\ lidOpenFor' = 0
    BY <1>3, <1>7 DEF LidDetected, resetLidOpenResumeCountdown
  <2> QED
    BY <1>1, <2>1
<1>8. CASE Control /\ Regulate
  <2>1. ~isLidOpen /\ lidCountdown' = lidCountdown /\ lidOpenFor' = 0
    BY <1>3, <1>8 DEF Regulate
  <2> QED
    BY <2>1
<1> QED
  BY <1>4, <1>5, <1>6, <1>7, <1>8 DEF Period, doWork, Control

\* A command that leaves lid mode leaves it for another mode than NORMAL.
LEMMA CommandLid ==
  ASSUME TypeOK, TypeOK', SafetyInv, LidInv, LidSwitched \/ Commanded \/ Restarted
  PROVE  /\ LidInv'
         /\ isLidOpen /\ ~isLidOpen' => pidMode' # "NORMAL"
<1> USE DEF LidInv, isLidOpen
<1>1. /\ lidCountdown \in Nat /\ lidOpenDuration \in Nat /\ lidOpenFor \in Nat
      /\ lidOpenDuration' \in Nat
  BY DEF TypeOK
<1>2. isLidOpen => pidMode = "RECOVERY"
  BY DEF SafetyInv, LidOnlyInRecovery
<1>3. CASE LidSwitched
  <2>1. PICK active \in BOOLEAN : StoreLidActive(active)
    BY <1>3 DEF LidSwitched, LidCommand, ToggleLid
  <2>2. lidOpenFor' = 0 /\ retimed' = FALSE
    BY <1>3 DEF LidSwitched
  <2>3. CASE active
    BY <1>1, <2>1, <2>2, <2>3 DEF StoreLidActive, resetLidOpenResumeCountdown, lidParams
  <2>4. CASE ~active
    BY <1>2, <2>1, <2>2, <2>4 DEF StoreLidActive
  <2> QED
    BY <2>3, <2>4
<1>4. CASE Commanded
  <2>1. lidOpenFor' = IF isLidOpen' THEN lidOpenFor ELSE 0
    BY <1>4 DEF Commanded
  <2>2. \/ UNCHANGED <<pidMode, lidCountdown>>
        \/ lidCountdown' = 0 /\ pidMode' # "NORMAL"
    BY <1>4
    DEF Commanded, Setting, StoreSetPoint, StoreManual, SetUnitsOff, StoreLidOffset,
        StoreLidDuration, StoreProbeType, ToggleOff, AdjustManual, setPidMode, setPidOutput,
        modeVars
  <2>3. retimed' = (isLidOpen' /\ (retimed \/ lidOpenDuration' \notin lidCountdown..lidOpenDuration))
    BY <1>4 DEF Commanded
  <2>5. ASSUME isLidOpen', ~retimed'
        PROVE  lidCountdown' <= lidOpenDuration' /\ lidOpenFor' + lidCountdown' >= lidOpenDuration'
    <3>1. ~retimed /\ lidOpenDuration' \in lidCountdown..lidOpenDuration
      BY <2>3, <2>5
    <3>2. lidCountdown' = lidCountdown /\ lidOpenFor' = lidOpenFor
      BY <2>1, <2>2, <2>5
    <3>3. lidCountdown <= lidOpenDuration /\ lidOpenFor + lidCountdown >= lidOpenDuration
      BY <2>5, <3>1, <3>2
    <3> QED
      BY <1>1, <3>1, <3>2, <3>3
  <2>6. lidOpenFor' \in Nat
    BY <1>1, <2>1
  <2> QED
    BY <2>2, <2>5, <2>6
<1>5. CASE Restarted
  <2>1. lidOpenFor' = 0 /\ retimed' = FALSE /\ lidCountdown' = 0 /\ pidMode' = config.pidMode
    BY <1>5 DEF Restarted, Restart, LoadConfig, setPidMode
  <2>2. config.pidMode # "NORMAL"
    BY DEF TypeOK, Config
  <2> QED
    BY <2>1, <2>2
<1> QED
  BY <1>3, <1>4, <1>5

\* The control law ends no lid event younger than the minimum: whatever opens
\* the lid, moves the set point meanwhile, or shortens the duration to no less
\* than the running countdown.  Only a duration raised, or shortened below the
\* countdown, while the lid is open can.
THEOREM LidAlwaysLastsMinimum == LawSpec => LidModeLastsMinimum
<1> DEFINE A == isLidOpen /\ ~isLidOpen' /\ pidMode' = "NORMAL"
                  => lidOpenFor >= MinAutoResume \/ retimed
           Core == TypeOK /\ SafetyInv
<1>1. LawInit => LidInv
  BY DEF LawInit, LidInit, Init, LidInv, isLidOpen
<1>2. Core /\ Core' /\ LidInv /\ [LawNext]_pidVars => LidInv' /\ [A]_lidVars
  <2> SUFFICES ASSUME Core, Core', LidInv, [LawNext]_pidVars
               PROVE  LidInv' /\ (A \/ UNCHANGED lidVars)
    OBVIOUS
  <2>2. CASE UNCHANGED lidVars
    BY <2>2 DEF lidVars, vars, modeVars, lidParams, LidInv, isLidOpen
  <2>3. CASE SomePeriod
    BY <2>3, PeriodLid DEF SomePeriod, LawPeriod
  <2>4. CASE OtherCommand \/ Restarting
    BY <2>4, CommandLid DEF OtherCommand, Restarting
  <2>5. ASSUME NEW k \in Kis, StorePidConstant(k) PROVE UNCHANGED lidVars
    BY <2>5 DEF StorePidConstant
  <2>6. UNCHANGED pidVars => UNCHANGED lidVars
    BY DEF pidVars
  <2> QED
    BY <2>2, <2>3, <2>4, <2>5, <2>6 DEF LawNext
<1> HIDE DEF Core
<1>3. LawSpec => []Core
  BY LawImplementsCore, TypeCorrect, SafetyHolds, PTL DEF Core
<1> QED
  BY <1>1, <1>2, <1>3, PTL DEF LawSpec, LidModeLastsMinimum

-----------------------------------------------------------------------------
(* Signals: alarms, alarm screen and LEDs                                   *)

\* The last of the ringing alarms is one.
LEMMA LastRinging ==
  ASSUME NEW rings, \E a \in Alarms : rings[a]
  PROVE  (CHOOSE a \in Alarms : rings[a] /\ \A b \in Alarms : rings[b] => b <= a) \in Alarms
<1>1. \E a \in Alarms : rings[a] /\ \A b \in Alarms : rings[b] => b <= a
  <2>1. Alarms \subseteq 0..7
    BY ConstantsAssumption, SignalsAssumption DEF Alarms
  <2> DEFINE above(k) == \E a \in Alarms : rings[a] /\ a >= k
             found(k) == \E a \in Alarms : rings[a] /\ \A b \in Alarms : rings[b] => b <= a
  <2>2. above(0) /\ ~above(8)
    BY <2>1
  <2>3. ASSUME NEW k \in 0..7, above(k), ~above(k + 1) PROVE found(k)
    BY <2>1, <2>3
  <2>4. \E k \in 0..7 : above(k) /\ ~above(k + 1)
    <3> HIDE DEF above
    <3>1. SUFFICES ASSUME \A k \in 0..7 : above(k) => above(k + 1) PROVE FALSE
      OBVIOUS
    <3>2. above(0) => above(1)
      BY <3>1
    <3>3. above(1) => above(2)
      BY <3>1
    <3>4. above(2) => above(3)
      BY <3>1
    <3>5. above(3) => above(4)
      BY <3>1
    <3>6. above(4) => above(5)
      BY <3>1
    <3>7. above(5) => above(6)
      BY <3>1
    <3>8. above(6) => above(7)
      BY <3>1
    <3>9. above(7) => above(8)
      BY <3>1
    <3> QED
      BY <2>2, <3>2, <3>3, <3>4, <3>5, <3>6, <3>7, <3>8, <3>9
  <2> QED
    BY <2>3, <2>4
<1> QED
  BY <1>1

-----------------------------------------------------------------------------
(* LEDs                                                                    *)

\* An LED as the manager may keep it: one that is lit is believed to be on.
LedOK(led) == led \in Led(Stimuli) /\ (led.lit => led.on # "Off")

\* The stimuli that may be assigned are there.
LEMMA ConfStimuli == LedConfs \subseteq Stimuli
  BY SignalsAssumption

LEMMA ShowOK ==
  ASSUME NEW led \in Led(Stimuli), NEW on \in Actions
  PROVE  LedOK(Show(led, on))
  BY DEF LedOK, Show, Led

LEMMA PublishOK ==
  ASSUME NEW led, LedOK(led), NEW b
  PROVE  LedOK(Publish(led, b))
<1> DEFINE seen  == [led EXCEPT !.triggered = Steady(b)]
           shown == Steady(led.invert # b)
<1>1. seen \in Led(Stimuli) /\ LedOK(seen) /\ shown \in Actions
  BY DEF LedOK, Led, Steady, Actions
<1>2. Publish(led, b) \in {seen, Show(seen, shown)}
  BY DEF Publish
<1> HIDE DEF seen, shown
<1> QED
  BY <1>1, <1>2, ShowOK

LEMMA BlinkOK ==
  ASSUME NEW led, LedOK(led), NEW count
  PROVE  LedOK(Blink(led, count))
<1>1. led \in Led(Stimuli)
  BY DEF LedOK
<1>2. [led EXCEPT !.triggered = "Off"] \in Led(Stimuli)
  BY <1>1 DEF Led, Actions
<1>3. LedOK(Show([led EXCEPT !.triggered = "Off"], "OneShot")) /\ LedOK(Show(led, "Off"))
  BY <1>1, <1>2, ShowOK DEF Actions
<1> QED
  BY <1>3 DEF Blink

LEMMA AssignOK ==
  ASSUME NEW led, LedOK(led), NEW stimulus \in LedConfs, NEW invert \in BOOLEAN
  PROVE  LedOK(Assign(led, stimulus, invert))
  BY ConfStimuli DEF LedOK, Led, Assign

LEMMA SelfTestOK ==
  ASSUME NEW stimulus \in Stimuli, NEW invert \in BOOLEAN
  PROVE  LedOK(SelfTest(stimulus, invert))
  BY DEF LedOK, Led, SelfTest, Actions

-----------------------------------------------------------------------------
(* The inductive invariant, alarms and LEDs apart                          *)

AlarmsOK ==
  /\ threshold \in [Alarms -> Int \ {0}] /\ stored \in [Alarms -> Int \ {0}]
  /\ armed \in [Alarms -> BOOLEAN] /\ ringing \in [Alarms -> BOOLEAN]
  /\ \A a \in Alarms : ringing[a] => armed[a] /\ Enabled(a)

ScreenOK == alarmId \in Alarms /\ alarmShown \in BOOLEAN

LedsOK ==
  /\ leds \in [Leds -> Led(Stimuli)]
  /\ \A l \in Leds : LedOK(leds[l])
  /\ blinkCount \in {0, 1}

SignalsInv == AlarmsOK /\ ScreenOK /\ LedsOK

LEMMA FirstAlarm == 0 \in Alarms
  BY ConstantsAssumption DEF Alarms

LEMMA InitInv == SigInit => SignalsInv
<1> SUFFICES ASSUME SigInit PROVE SignalsInv
  OBVIOUS
<1>1. AlarmsOK
  <2>1. /\ threshold = [a \in Alarms |-> -1] /\ stored = threshold
        /\ armed = [a \in Alarms |-> FALSE] /\ ringing = armed
    BY DEF SigInit
  <2>2. threshold \in [Alarms -> Int \ {0}]
    BY <2>1
  <2>3. armed \in [Alarms -> BOOLEAN] /\ ringing \in [Alarms -> BOOLEAN]
    BY <2>1
  <2>4. \A a \in Alarms : ringing[a] = FALSE
    BY <2>1
  <2> QED
    BY <2>1, <2>2, <2>3, <2>4 DEF AlarmsOK
<1>2. ScreenOK
  BY FirstAlarm DEF SigInit, ScreenOK
<1>3. LedsOK
  <2>1. PICK conf \in [Leds -> LedConfs] : leds = [l \in Leds |-> SelfTest(conf[l], FALSE)]
    BY DEF SigInit
  <2>2. ASSUME NEW l \in Leds PROVE LedOK(SelfTest(conf[l], FALSE))
    BY ConfStimuli, SelfTestOK
  <2>3. \A l \in Leds : LedOK(leds[l])
    BY <2>1, <2>2
  <2>4. leds \in [Leds -> Led(Stimuli)]
    BY <2>1, <2>3 DEF LedOK
  <2> QED
    BY <2>3, <2>4 DEF SigInit, LedsOK
<1> QED
  BY <1>1, <1>2, <1>3 DEF SignalsInv

\* A threshold moved, or an alarm silenced, leaves the alarm quiet.
LEMMA SetThresholdOK ==
  ASSUME AlarmsOK, NEW a \in Alarms, NEW value \in Int, setThreshold(a, value),
         stored' = [stored EXCEPT ![a] = IF value = 0 THEN @ ELSE value] \/ stored' = stored
  PROVE  AlarmsOK'
<1>1. /\ threshold' \in [Alarms -> Int \ {0}] /\ stored' \in [Alarms -> Int \ {0}]
      /\ armed' \in [Alarms -> BOOLEAN] /\ ringing' \in [Alarms -> BOOLEAN]
  BY DEF AlarmsOK, setThreshold
<1>2. ASSUME NEW b \in Alarms, ringing'[b] PROVE armed'[b] /\ Enabled(b)'
  <2>1. b # a
    BY <1>2 DEF AlarmsOK, setThreshold
  <2>2. ringing'[b] = ringing[b] /\ armed'[b] = armed[b] /\ threshold'[b] = threshold[b]
    BY <2>1 DEF AlarmsOK, setThreshold
  <2> QED
    BY <1>2, <2>2 DEF AlarmsOK, Enabled
<1> QED
  BY <1>1, <1>2 DEF AlarmsOK

\* A period rings armed alarms only, and disarms what it quiets for good.
LEMMA UpdateAlarmsOK ==
  ASSUME AlarmsOK, UpdateAlarms, UNCHANGED <<threshold, stored>>
  PROVE  AlarmsOK'
<1>1. ringing' \in [Alarms -> BOOLEAN] /\ armed' \in [Alarms -> BOOLEAN]
  BY DEF UpdateAlarms
<1>2. ASSUME NEW a \in Alarms, ringing'[a] PROVE armed'[a] /\ Enabled(a)'
  <2>1. Watched(a) /\ (ringing[a] \/ (armed[a] /\ Enabled(a)))
    BY <1>2 DEF UpdateAlarms
  <2>2. armed[a] /\ Enabled(a)
    BY <2>1 DEF AlarmsOK
  <2> QED
    BY <2>1, <2>2 DEF UpdateAlarms, Enabled
<1> QED
  BY <1>1, <1>2 DEF AlarmsOK

\* publishLeds keeps LEDs what they are.
LEMMA PublishAllOK ==
  ASSUME LedsOK, NEW published, PublishAll(published), UNCHANGED blinkCount
  PROVE  LedsOK'
<1>1. ASSUME NEW l \in Leds PROVE LedOK(leds'[l])
  <2>1. LedOK(leds[l]) /\ LedOK(Publish(leds[l], truths'[leds[l].stimulus]))
    BY PublishOK DEF LedsOK
  <2>2. leds'[l] \in {leds[l], Publish(leds[l], truths'[leds[l].stimulus])}
    BY DEF PublishAll
  <2> QED
    BY <2>1, <2>2
<1>2. leds' \in [Leds -> Led(Stimuli)]
  BY <1>1 DEF PublishAll, LedOK
<1> QED
  BY <1>1, <1>2 DEF LedsOK, LedOK

LEMMA PeriodInv == SignalsInv /\ newTempsAvail => SignalsInv'
<1> SUFFICES ASSUME SignalsInv, newTempsAvail PROVE SignalsInv'
  OBVIOUS
<1>1. AlarmsOK'
  BY UpdateAlarmsOK DEF newTempsAvail, SignalsInv
<1>2. LedsOK'
  BY PublishAllOK DEF newTempsAvail, SignalsInv
<1>3. ScreenOK'
  <2>1. CASE AnyRinging'
    <3>1. \E a \in Alarms : ringing'[a]
      BY <2>1 DEF AnyRinging
    <3>2. (CHOOSE a \in Alarms :
             ringing'[a] /\ \A b \in Alarms : ringing'[b] => b <= a) \in Alarms
      BY <3>1, LastRinging
    <3> QED
      BY <2>1, <3>2 DEF newTempsAvail, CheckAlarms, ScreenOK, AnyRinging
  <2>2. CASE ~AnyRinging'
    BY <2>2 DEF newTempsAvail, CheckAlarms, ScreenOK, SignalsInv, AnyRinging
  <2> QED
    BY <2>1, <2>2
<1> QED
  BY <1>1, <1>2, <1>3 DEF SignalsInv

LEMMA LedWorkInv == SignalsInv /\ LedWork => SignalsInv'
<1> SUFFICES ASSUME SignalsInv, LedWork PROVE SignalsInv'
  OBVIOUS
<1>1. LedsOK'
  <2>1. \A l \in Leds : LedOK(Blink(leds[l], blinkCount'))
    BY BlinkOK DEF SignalsInv, LedsOK
  <2>2. leds' = [l \in Leds |-> Blink(leds[l], blinkCount')]
    BY DEF LedWork
  <2>3. blinkCount' \in {0, 1}
    BY DEF LedWork, SignalsInv, LedsOK
  <2> QED
    BY <2>1, <2>2, <2>3 DEF LedsOK, LedOK
<1>2. AlarmsOK' /\ ScreenOK'
  BY DEF LedWork, SignalsInv, alarmVars, screenVars, AlarmsOK, ScreenOK, Enabled
<1> QED
  BY <1>1, <1>2 DEF SignalsInv

LEMMA StoreLimitInv ==
  ASSUME SignalsInv, NEW a \in Alarms, NEW value \in Limits(a), StoreAlarmLimit(a, value)
  PROVE  SignalsInv'
<1>1. value \in Int
  BY SignalsAssumption DEF Limits
<1>2. AlarmsOK'
  BY <1>1, SetThresholdOK DEF SignalsInv, StoreAlarmLimit
<1>3. ScreenOK' /\ LedsOK'
  BY DEF SignalsInv, StoreAlarmLimit, screenVars, ledVars, ScreenOK, LedsOK, LedOK
<1> QED
  BY <1>2, <1>3 DEF SignalsInv

LEMMA SilenceInv == SignalsInv /\ SilenceRingingAlarm => SignalsInv'
<1> SUFFICES ASSUME SignalsInv, SilenceRingingAlarm PROVE SignalsInv'
  OBVIOUS
<1>1. AlarmsOK'
  BY SetThresholdOK DEF SignalsInv, ScreenOK, SilenceRingingAlarm
<1>2. ScreenOK' /\ LedsOK'
  BY DEF SignalsInv, SilenceRingingAlarm, ledVars, ScreenOK, LedsOK, LedOK
<1> QED
  BY <1>1, <1>2 DEF SignalsInv

LEMMA StoreLedConfInv ==
  ASSUME SignalsInv, NEW l \in Leds, NEW stimulus \in LedConfs, NEW invert \in BOOLEAN,
         StoreLedConf(l, stimulus, invert)
  PROVE  SignalsInv'
<1>1. LedOK(Assign(leds[l], stimulus, invert))
  BY AssignOK DEF SignalsInv, LedsOK
<1>2. leds' = [leds EXCEPT ![l] = Assign(leds[l], stimulus, invert)] /\ blinkCount' = blinkCount
  BY DEF StoreLedConf
<1>3. LedsOK'
  <2>1. ASSUME NEW k \in Leds PROVE LedOK(leds'[k])
    <3>1. LedOK(leds[k]) /\ leds'[k] \in {leds[k], Assign(leds[l], stimulus, invert)}
      BY <1>2 DEF SignalsInv, LedsOK
    <3>2. k = l => leds'[k] = Assign(leds[l], stimulus, invert)
      BY <1>2 DEF SignalsInv, LedsOK
    <3> QED
      BY <1>1, <3>1, <3>2
  <2> QED
    BY <1>2, <2>1 DEF SignalsInv, LedsOK, LedOK
<1>4. AlarmsOK' /\ ScreenOK'
  BY DEF StoreLedConf, SignalsInv, alarmVars, screenVars, AlarmsOK, ScreenOK, Enabled
<1> QED
  BY <1>3, <1>4 DEF SignalsInv

LEMMA HomeButtonInv == SignalsInv /\ HomeButton => SignalsInv'
<1> SUFFICES ASSUME SignalsInv, HomeButton PROVE SignalsInv'
  OBVIOUS
<1>1. LedsOK'
  <2>1. CASE UNCHANGED leds
    BY <2>1 DEF HomeButton, SignalsInv, LedsOK, LedOK
  <2>2. CASE PublishAll(StatusStimuli)
    BY <2>2, PublishAllOK DEF HomeButton, SignalsInv
  <2> QED
    BY <2>1, <2>2 DEF HomeButton
<1>2. AlarmsOK' /\ ScreenOK'
  BY DEF HomeButton, SignalsInv, alarmVars, screenVars, AlarmsOK, ScreenOK, Enabled
<1> QED
  BY <1>1, <1>2 DEF SignalsInv

LEMMA RebootInv == SignalsInv /\ Reboot => SignalsInv'
<1> SUFFICES ASSUME SignalsInv, Reboot PROVE SignalsInv'
  OBVIOUS
<1>1. AlarmsOK'
  <2>1. /\ threshold' = stored /\ stored' = stored
        /\ armed' = [a \in Alarms |-> FALSE] /\ ringing' = [a \in Alarms |-> FALSE]
    BY DEF Reboot, LoadAlarms
  <2>2. stored \in [Alarms -> Int \ {0}]
    BY DEF SignalsInv, AlarmsOK
  <2>3. armed' \in [Alarms -> BOOLEAN] /\ ringing' \in [Alarms -> BOOLEAN]
    BY <2>1
  <2>4. \A a \in Alarms : ringing'[a] = FALSE
    BY <2>1
  <2> QED
    BY <2>1, <2>2, <2>3, <2>4 DEF AlarmsOK
<1>2. ScreenOK'
  BY FirstAlarm DEF Reboot, ScreenOK
<1>3. LedsOK'
  <2>1. \A l \in Leds : LedOK(SelfTest(leds[l].stimulus, leds[l].invert))
    BY SelfTestOK DEF SignalsInv, LedsOK, LedOK, Led
  <2> QED
    BY <2>1 DEF Reboot, LedsOK, LedOK
<1> QED
  BY <1>1, <1>2, <1>3 DEF SignalsInv

LEMMA NextInv == SignalsInv /\ [SigNext]_sigVars => SignalsInv'
<1> SUFFICES ASSUME SignalsInv, [SigNext]_sigVars PROVE SignalsInv'
  OBVIOUS
<1>1. CASE ControlCommand \/ UNCHANGED sigVars
  <2>1. UNCHANGED <<alarmVars, screenVars, ledVars>>
    BY <1>1 DEF ControlCommand, sigVars
  <2> QED
    BY <2>1 DEF alarmVars, screenVars, ledVars, SignalsInv, AlarmsOK, ScreenOK, LedsOK,
                LedOK, Enabled
<1> QED
  BY <1>1, PeriodInv, LedWorkInv, StoreLimitInv, SilenceInv, StoreLedConfInv,
     HomeButtonInv, RebootInv
  DEF SigNext

\* An alarm rings only if it was armed and its limit is in force, whatever
\* limits, silencings, lid events, restarts and lost probes come between.
THEOREM AlarmsRingArmed == SigSpec => []RingsOnlyIfArmed
<1>1. SignalsInv => RingsOnlyIfArmed
  <2> SUFFICES ASSUME SignalsInv PROVE RingsOnlyIfArmed
    OBVIOUS
  <2>1. \A l \in Leds : leds[l].lit => leds[l].on # "Off"
    BY DEF SignalsInv, LedsOK, LedOK
  <2> QED
    BY <2>1 DEF SignalsInv, AlarmsOK, ScreenOK, LedsOK, RingsOnlyIfArmed, SigTypeOK
<1> QED
  BY <1>1, InitInv, NextInv, PTL DEF SigSpec

\* While the controller is off or the lid open, a period leaves no alarm
\* ringing and no alarm screen (updateStatus, silenceAll, checkAlarms).
THEOREM PeriodsQuiet == SigSpec => QuietWhenOffOrLidOpen
<1>1. [SigNext]_sigVars =>
        [ newTempsAvail /\ (isDisabled \/ isLidOpen) => ~AnyRinging' /\ ~alarmShown' ]_sigVars
  <2> SUFFICES ASSUME newTempsAvail, isDisabled \/ isLidOpen
               PROVE  ~AnyRinging' /\ ~alarmShown'
    OBVIOUS
  <2>1. \A a \in Alarms : ~ringing'[a]
    BY DEF newTempsAvail, UpdateAlarms, Watched
  <2>2. ~AnyRinging'
    BY <2>1 DEF AnyRinging
  <2> QED
    BY <2>2 DEF newTempsAvail, CheckAlarms
<1> QED
  BY <1>1, PTL DEF SigSpec, QuietWhenOffOrLidOpen

\* Alarms, alarm screen and LEDs leave the control core to itself: what is
\* proved of the core holds of the composition.
THEOREM SignalsImplementCore == SigSpec => Spec
<1>1. SigInit => Init
  BY DEF SigInit
<1>2. [SigNext]_sigVars => [Next]_vars
  <2> SUFFICES ASSUME [SigNext]_sigVars PROVE [Next]_vars
    OBVIOUS
  <2>1. CASE newTempsAvail
    BY <2>1 DEF newTempsAvail, Next
  <2>2. CASE ControlCommand
    BY <2>2 DEF ControlCommand, Next
  <2>3. CASE HomeButton
    BY <2>3 DEF HomeButton, Next, Button
  <2>4. CASE Reboot
    BY <2>4 DEF Reboot, Next
  <2>5. CASE LedWork \/ SilenceRingingAlarm \/ UNCHANGED sigVars
    BY <2>5 DEF LedWork, SilenceRingingAlarm, sigVars
  <2>6. ASSUME NEW a \in Alarms, NEW value \in Limits(a), StoreAlarmLimit(a, value)
        PROVE  UNCHANGED vars
    BY <2>6 DEF StoreAlarmLimit
  <2>7. ASSUME NEW l \in Leds, NEW stimulus \in LedConfs, NEW invert \in BOOLEAN,
               StoreLedConf(l, stimulus, invert)
        PROVE  UNCHANGED vars
    BY <2>7 DEF StoreLedConf
  <2> QED
    BY <2>1, <2>2, <2>3, <2>4, <2>5, <2>6, <2>7 DEF SigNext
<1> QED
  BY <1>1, <1>2, PTL DEF SigSpec, Spec
=============================================================================
