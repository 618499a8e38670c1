SPECIFICATION Spec
CONSTANTS
  Top = 1
  Edited = {"SETPOINT", "MANUALMODE", "RESETCONFIG"}
  ActiveSets = {{}, {"HOME_FOOD2"}}
  MaxToasts = 1
INVARIANT ToastKnowsTheWayBack
