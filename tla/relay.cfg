SPECIFICATION Spec
CONSTANTS
  c1 = c1
  c2 = c2
  Conn = {c1}
  Id = {1, 2, 3, 4}
  CompressedData = 3
  Kind <- MCKinds
  STOP = {4}
  KeySize <- MCKeySize
  Room = 3
  MaxSent = 3
  Hasty = {"up"}
  DefaultSettings <- MCDropSaved
  EVENT_CAPACITY = 2
  CLEAR_THRESHOLD = 3
  CLEAR_COUNT = 2
  Used = {"drop"}
  MaxClicks = 1
  MaxGroup = 1
  None = None
  Torn = Torn
INVARIANTS TypeOK Decryptable Intelligible WindowTruth
PROPERTIES ListedHeldBack SilentAfterStop
CHECK_DEADLOCK FALSE
