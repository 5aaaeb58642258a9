CONSTANT
  CheckCount = 1
SPECIFICATION Spec
INVARIANT
  TimeoutRemovesContainers
CHECK_DEADLOCK FALSE
