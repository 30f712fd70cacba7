SPECIFICATION FairPlayingSpec
CONSTANTS
  c1 = c1
  c2 = c2
  c3 = c3
  s1 = s1
  s2 = s2
  None = None
  Conn = {c1, c2, c3}
  Session = {s1, s2}
  Account <- MCAccount
  Char <- MCTwo
  Index = {0}
  CharsOf <- MCCharsOf
  CharLocation <- MCOneLocation
  ShardLocation = 25565
  MaxEnters = 3
  MaxMoves = 2
  Discipline = "relogin"
INVARIANT
  OwnChannel
PROPERTY
  EntersWorld
CHECK_DEADLOCK FALSE
