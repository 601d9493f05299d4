SPECIFICATION Spec
CONSTANTS
  Reentrant = FALSE
  OpKinds = {}
  Limit <- SafetyLimit
INVARIANTS
  TypeOK
  ClientInv
  DiscoveredTracksLink
  DropIsReported
