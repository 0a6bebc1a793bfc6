SPECIFICATION RequestSpec
CONSTANTS
  MaxContent = 1
  MaxInput = 1
INVARIANT
  NoImageAnywhere
CHECK_DEADLOCK FALSE
