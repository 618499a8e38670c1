\* One command at the wrong moment is enough.
SPECIFICATION FairSpec
CONSTANTS
  SetPoints = {2}
  Temps = {1, 2}
  Levels = {60}
  LidOpenOffset = 6
  Duration = 2
  MinAutoResume = 1
  Word = 5
INVARIANTS
  OffTakesEffect
