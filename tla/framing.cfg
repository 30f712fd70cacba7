SPECIFICATION FairSpec
CONSTANTS
  Base = 3
  Capacity = 12
  MaxRead = 5
  Key <- MCKey
  Bodies <- MCAll
  Known <- MCKnown
  Readable <- MCReadable
  Untraceable <- MCUntraceable
  Fatal <- MCFatal
  MaxSent = 3
INVARIANTS TypeOK NothingLost KeyIsWhole SoundUntilHarmful
PROPERTIES DeliversStream
CHECK_DEADLOCK FALSE
