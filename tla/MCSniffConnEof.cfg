SPECIFICATION Spec
CONSTANTS
  NumBytes = 5
  MaxRead = 3
  DataWithErr = TRUE
INVARIANTS EofIsEnd
