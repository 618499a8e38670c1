SPECIFICATION FairSpec
CONSTANTS
  SetPoints = {2, 3}
  Temps = {1, 3}
  Levels = {60}
  LidOpenOffset = 6
  Duration = 2
  MinAutoResume = 1
  Word = 5
INVARIANTS
  MemoryOK
  UnracedCommandHolds
PROPERTIES
  AutomaticModesHeal
