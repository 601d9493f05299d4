SPECIFICATION Spec
CONSTANTS
  Reentrant = FALSE
  OpKinds = {}
  Limit <- AttemptLimit
PROPERTIES
  TeardownIsFinal
