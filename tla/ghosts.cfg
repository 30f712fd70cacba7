SPECIFICATION GhostSpec
CONSTANTS
  c1 = c1
  c2 = c2
  c3 = c3
  s1 = s1
  s2 = s2
  None = None
  Conn = {c1, c2}
  Session = {s1}
  Account <- MCAccount
  Char <- MCTwo
  Index = {0, 1}
  CharsOf <- MCOneAccount
  CharLocation <- MCOneLocation
  ShardLocation = 25565
  MaxEnters = 4
  MaxMoves = 1
  Discipline = "any"
INVARIANTS
  MovesFollowEnter
  MessageForOwner
  BorrowedSender
CHECK_DEADLOCK FALSE
