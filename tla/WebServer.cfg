SPECIFICATION WebFairSpec
CONSTANTS
  Conn = {c1, c2}
  Entity = {e1}
  TickMax = 1
  ValueMax = 1
CHECK_DEADLOCK FALSE
INVARIANTS OneAnswerOneClose HeldIsAlive
PROPERTIES StateReachesStream
