SPECIFICATION Spec
CONSTANTS
  Logs = {main, request}
  MaxLines = 2
INVARIANTS
  NeverInflated
  ErrorIsBounded
