SPECIFICATION Spec
CONSTANTS
  Byte = 4
  MAGIC = 3
  SetPoints = {4}
  DefaultSetPoint = 1
  MaxCommands = 4
INVARIANTS
  FileLagsOneByte
  StoredIsInUse
  MagicsSurvive
