SPECIFICATION Spec
CONSTANTS
  N = 2
  Addr = {1, 2}
  ServiceCounts = {2}
INVARIANTS
  TypeOK
  SlotAccounting
  UsedSlotIsLive
  StreamInRange
  NoStaleIntent
  ToldUpIsHeld
