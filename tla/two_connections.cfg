SPECIFICATION FairSpec
CONSTANTS
  c1 = c1
  c2 = c2
  Conn = {c1, c2}
  Id = {1, 2, 3}
  CompressedData = 3
  Kind <- MCFragile
  STOP = {}
  KeySize <- MCShortKeys
  Room = 2
  MaxSent = 1
  Hasty = {}
  DefaultSettings <- MCDefault
  EVENT_CAPACITY = 1
  CLEAR_THRESHOLD = 3
  CLEAR_COUNT = 2
  Used = {"close"}
  MaxClicks = 1
  MaxGroup = 1
  None = None
  Torn = Torn
PROPERTIES Delivered
CHECK_DEADLOCK FALSE
