SPECIFICATION SigSpec
CONSTANTS
  TempCount = 1
  SetPoints = {2}
  Temps = {0, 1, 2}
  NoReading = NoReading
  Levels = {100}
  ManualSteps = {251}
  Durations = {1}
  Offsets = {6}
  MinAutoResume = 0
  Word = 65536
  Panel = TRUE
  Leds = {led}
  LedConfs = {14}
  LowLimits <- MCLowLimits
  HighLimits = {0, 2}
INVARIANTS
  RingsOnlyIfArmed
PROPERTIES
  QuietWhenOffOrLidOpen
  PressingSilencesAll
  OneShotEnds
