SPECIFICATION ServerSpec
CONSTANTS
  Device = {d1, d2}
  IdSpace = 3
  Limit <- PresenceLimit
  Payload <- Payloads
  max_len = 1
  OffsetMax = 2
  NotifyMax = 2
SYMMETRY Devices
CHECK_DEADLOCK FALSE
INVARIANTS
  TypeOK
  ClientsAreCentrals
  NotifiedInOrder
