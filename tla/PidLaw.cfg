\* The panel is not wired, as hm_AdcPins has it.  Lid durations of the minimum
\* and above it; an error of one degree alone is worth less than StartupSpeed.
SPECIFICATION LawSpec
CONSTANTS
  TempCount = 2
  SetPoints = {2}
  Temps = {1, 2, 3}
  NoReading = NoReading
  Levels = {0, 50, 100}
  ManualSteps = {}
  Durations = {1, 3}
  Offsets = {6}
  MinAutoResume = 1
  Word = 65536
  Panel = FALSE
  Unit = 50
  Kp = 1
  Kis = {0, 1}
  Drifts <- MCDrifts
  StartupSpeed = 75
  IntegralBound = 5
INVARIANTS
  ControlProbeFollowsTypes
PROPERTIES
  WindupOnlyAfterInterruption
  LidModeLastsMinimum
  LidModeEnds
  SettlesInNormal
  ErrorIsWorkedOff
