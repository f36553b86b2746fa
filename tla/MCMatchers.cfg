SPECIFICATION Spec
CONSTANTS
  Bytes <- MCBytes
  Inputs <- MCInputs
  Preface <- MCPreface
  MaxHTTPRead = 5
INVARIANT VerdictRight
PROPERTY MatcherAnswers
\* A matcher that has answered stops, and so does one with a silent client.
CHECK_DEADLOCK FALSE
