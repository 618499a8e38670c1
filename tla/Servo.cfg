SPECIFICATION ServoSpec
CONSTANTS
  Scale = 6
  Levels = {0, 10}
  MinPositions = {1}
  MaxPositions = {3}
  Ceilings = {0, 100}
  Inverts = {TRUE, FALSE}
INVARIANTS
  InRange
PROPERTIES
  ClosesWhenOff
