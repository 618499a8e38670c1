SPECIFICATION Spec
CONSTANTS
  Top = 1
  Edited = {"SETPOINT", "MANUALMODE", "RESETCONFIG"}
  ActiveSets = {{}, {"HOME_FOOD2"}}
  MaxToasts = 3
INVARIANTS
  OneActionPerPress
PROPERTIES
  BrowsingKeepsSettings
  BackHome
