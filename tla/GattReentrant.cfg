SPECIFICATION Spec
CONSTANTS
  Reentrant = TRUE
  OpKinds = {"READ", "WRITE", "SET_NOTIFY"}
  Limit <- AttemptLimit
INVARIANTS
  OneWalkAtATime
