SPECIFICATION SamplingSpec
CONSTANTS
  Pins = {1, 2}
  EnabledPins = {1}
  Samples = {3, 8}
  Tops = {2, 3}
  Byte = 256
  Threads = {"main", "server"}
  Chars = {"/", "5"}
  LineSize = 3
  MaxTyped = 4
  TopFor <- MCTopFor
INVARIANTS
  SamplingTypeOK
PROPERTIES
  ReadingIsMean
  ReadingsRecover
  LineObeyed
