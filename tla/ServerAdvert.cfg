SPECIFICATION FairSpec
CONSTANTS
  Device = {d1}
  IdSpace = 2
  Limit <- AdvertLimit
CHECK_DEADLOCK FALSE
INVARIANTS
  AdvertisedIsCurrent
PROPERTIES
  RetriesEnd
