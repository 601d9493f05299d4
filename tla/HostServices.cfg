SPECIFICATION HostSpec
CONSTANTS
  Pin = {p1, p2}
  FdLimit = 2
  GpioOpsMax = 4
  MqttOpsMax = 4
CHECK_DEADLOCK FALSE
INVARIANTS ClaimsMatch OutputHeld StaleRoundOnly ThreadHasHandle
PROPERTIES EdgeIsRead JoinEnds
