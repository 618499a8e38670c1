\* Two probes, all of the panel: the safety of the control core.
SPECIFICATION Spec
CONSTANTS
  TempCount = 2
  SetPoints = {2, 3}
  Temps = {1, 3}
  NoReading = NoReading
  Levels = {0, 60}
  ManualSteps <- MCManualSteps
  Durations = {1, 4}
  Offsets = {6, 60}
  MinAutoResume = 2
  Word = 65536
  Panel = TRUE
INVARIANTS
  TypeOK
  OutputGated
  LidOnlyInRecovery
  ManualSurvivesRestart
  SettingsSurviveRestart
  OnlyReadProbesHaveTemperature
PROPERTIES
  GateRefined
