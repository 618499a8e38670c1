SPECIFICATION FanSpec
CONSTANTS
  Scale = 1
  Levels = {0, 16}
  MinSpeeds = {3}
  MaxSpeeds = {20}
  StartupSpeeds = {18}
  Floors = {0}
  FeedVolts = {TRUE}
  Inverts = {TRUE, FALSE}
  Feedbacks = {255}
INVARIANTS
  LongPwmDuty
PROPERTIES
  BlowerDriven
  BlowerStops
