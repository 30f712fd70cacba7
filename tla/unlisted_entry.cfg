SPECIFICATION Spec
CONSTANTS
  c1 = c1
  c2 = c2
  c3 = c3
  s1 = s1
  s2 = s2
  None = None
  Conn = {c1}
  Session = {s1}
  Account <- MCAccount
  Char <- MCTwo
  Index = {0}
  CharsOf <- MCCharsOf
  CharLocation <- MCOneLocation
  ShardLocation = 25565
  MaxEnters = 1
  MaxMoves = 0
  Discipline = "any"
INVARIANT
  CharCertainlyLoaded
CHECK_DEADLOCK FALSE
