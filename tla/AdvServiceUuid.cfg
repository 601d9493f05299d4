SPECIFICATION CodecSpec
CONSTANTS
  W32 = 3
  W128 = 4
  Base <- MCBase
  ADDR = 2
  BUF = 9
  MFR_MAX = 3
  SVC_MAX = 2
  NAME_MAX = 2
  BATCH = 2
  Air <- ServiceAir
  Changes <- MCChanges
CHECK_DEADLOCK FALSE
INVARIANT ServiceKeepsUuid
