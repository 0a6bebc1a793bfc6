SPECIFICATION RequestSpec
CONSTANTS
  MaxContent = 2
  MaxInput = 2
INVARIANTS
  ImagesStayBehind
  NothingElseChanges
  InstructionEndsInput
  ClientControlsStay
CHECK_DEADLOCK FALSE
