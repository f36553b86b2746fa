SPECIFICATION Spec
CONSTANTS
  a1 = a1  a2 = a2  a3 = a3
  x = x  y = y
  NoOne = NoOne
  Adds = {a1, a2, a3}
  MapOf <- MCMapOf
  NameOf <- MCNameOf
  CheckOf <- MCCheckOf
  Probers = {p1, p2}
  Scrapers = {s1}
INVARIANTS TypeOK BodyExplains AddedAreReported
PROPERTIES ProbeAnswers AddsGetThrough
