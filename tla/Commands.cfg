CONSTANT Configs <- Programs
SPECIFICATION CSpec
INVARIANTS
  Ownership
  BatchInOrder
PROPERTIES
  QuitStopsBatches
CHECK_DEADLOCK FALSE
