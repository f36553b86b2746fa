SPECIFICATION Spec
CONSTANTS
  http = http
  either = either
  noise = noise
  Conns = {http, either, noise}
  NumSls = 2
  Ss <- MCSs
  Sniffs <- MCSniffs
  BufLen = 1
  ErrhAnswers = {TRUE, FALSE}
INVARIANTS TypeOK NoSendOnClosed NoLeak DeliveredIntact ClosedIsFinal
PROPERTIES Routes
