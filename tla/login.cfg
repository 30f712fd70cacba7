SPECIFICATION Spec
CONSTANTS
  c1 = c1
  c2 = c2
  c3 = c3
  s1 = s1
  s2 = s2
  None = None
  Conn = {c1, c2}
  Session = {s1, s2}
  Account <- MCAccount
  Char <- MCOdd
  Index = {0, 1, 2}
  CharsOf <- MCOddCharsOf
  CharLocation <- MCOddLocation
  ShardLocation = 25565
  MaxEnters = 2
  MaxMoves = 0
  Discipline = "any"
INVARIANT
  PanicsOnlyUnlisted
CHECK_DEADLOCK FALSE
