SPECIFICATION BoundedSpec
CONSTANTS
  named = named
  compressed = compressed
  compressed2 = compressed2
  unknown = unknown
  Code = {named, compressed, compressed2, unknown}
  Named = {named, compressed, compressed2}
  Containers = {compressed, compressed2}
  Depth = 2
  Traced <- MCTraced
  Id = {1, 2, 3}
  DefaultSettings <- MCDefault
  EVENT_CAPACITY = 2
  CLEAR_THRESHOLD = 3
  CLEAR_COUNT = 2
  Used = {"collapse", "highlight", "hide", "pause", "clear", "pretty", "save", "close"}
  MaxClicks = 5
  MaxGroup = 2
  MaxEvents = 5
  MaxWork = 5
  None = None
  Torn = Torn
INVARIANTS TypeOK HighlightExact FileNeverTorn ListInOrder ViewOfTraced
PROPERTIES Tidied
