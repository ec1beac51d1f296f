SPECIFICATION Spec
CONSTANTS
  PortCount = 3
  Stops = 1
INVARIANTS SearchOfTurn NoRequestAsleep
PROPERTY Served
