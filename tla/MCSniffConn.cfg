SPECIFICATION Spec
CONSTANTS
  NumBytes = 6
  MaxRead = 4
  DataWithErr = FALSE
INVARIANTS TypeOK Transparent NothingLost EofIsEnd
