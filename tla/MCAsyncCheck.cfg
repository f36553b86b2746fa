SPECIFICATION Spec
CONSTANTS
  Calls <- MCCalls
  Callers <- MCCallers
  Update = update
  c1 = c1
  c2 = c2
INVARIANT TypeOK
PROPERTIES
  AtomicRegister
  ChecksReturn
  UpdaterEnds
  LateAnswersEnd
