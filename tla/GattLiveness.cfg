SPECIFICATION FairSpec
CONSTANTS
  Reentrant = FALSE
  OpKinds = {"READ", "GAP_READ", "READ_RSSI"}
  Limit <- OperationLimit
PROPERTIES
  ConnectingEnds
  DisconnectingEnds
  DropIsNoticed
  AnswersOnceInOrder
