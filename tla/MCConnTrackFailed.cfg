SPECIFICATION Spec
CONSTANTS
  d1 = d1  d2 = d2  s1 = s1
  app = app  NoName = NoName
  w1 = w1  w2 = w2  w3 = w3
  Clients = {d1, d2}
  Servers = {s1}
  Names = {"default", app}
  OptFuncs <- MCOptFuncs
  WithName <- MCWithName
  CtxName <- MCCtxName
  Closers = {g1, g2, g3}
  Wraps = {w1, w2, w3}
  WrapKind <- MCWrapKind
  NoOne = NoOne
SYMMETRY Symmetry
INVARIANTS FailedIsTotal
