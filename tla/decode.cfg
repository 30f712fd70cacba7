SPECIFICATION FairSpec
CONSTANTS
  Base = 4
  U16 = 2
  Payload <- MCPayload
  IsText <- MCText
  Packets <- MCPackets
  Contents <- MCContents
  MaxInput = 7
  MaxValues = 4
INVARIANTS TypeOK Lossless Recovered ReadWhole
PROPERTIES Ends
CHECK_DEADLOCK FALSE
