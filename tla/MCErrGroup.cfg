SPECIFICATION Spec
CONSTANTS
  Tasks = {t1, t2, t3}
  Heeding = {t1, t2}
  NoErr = NoErr
INVARIANTS TypeOK WaitsForAll RootCause NilMeansAllNil
PROPERTIES FirstErrorStays ErrorEndsWait
