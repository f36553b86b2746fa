SPECIFICATION Spec
CONSTANTS
  debug = debug  rpc = rpc  tls = tls  mux = mux
  NoErr = NoErr  Shared = TRUE
  c1 = c1  c2 = c2
  Conns = {c1, c2}
  Silent = {c2}
  Claims <- MCClaims
  First <- MCFirst
INVARIANTS TypeOK AlwaysFatal
PROPERTIES ProgramEnds StartersReturn
\* A silent client can stop the program for ever (ProgramEnds).
CHECK_DEADLOCK FALSE
