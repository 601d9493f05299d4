SPECIFICATION DataSpec
CONSTANTS
  Tracked = {k1, k2}
  QUEUE_MAX = 2
  VersionSpace = 6
  Burst = 1
  AdvMax = 3
  W32 = 3
  W128 = 4
  Base <- MCBase
  ADDR = 2
  BUF = 9
  MFR_MAX = 3
  SVC_MAX = 2
  NAME_MAX = 2
  BATCH = 2
  Air <- MCAir
  Changes <- MCChanges
  Measurements <- MCMeasurements
  Beacons <- MCBeacons
  AutoConnect = TRUE
  Handles = {0, 1, 2}
  ActMax = 3
CHECK_DEADLOCK FALSE
INVARIANTS NoneLeftDiscovered ForwardedReparses BthomeDecodes BeaconIsRecognised
           OnAirIsMarked OutputHandleIsCurrent
PROPERTIES DeliveredInOrder LostOnlyToNewer WholeReportsOnly BackendsAgree WriteChainGoesOn
