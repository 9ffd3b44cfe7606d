CONSTANT Configs <- SmallProgram
SPECIFICATION CSpec
INVARIANTS
  NoDoubleFree
CHECK_DEADLOCK FALSE
