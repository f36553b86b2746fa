SPECIFICATION Spec
CONSTANTS
  http = http
  either = either
  noise = noise
  Conns = {http, either}
  NumSls = 2
  Ss <- MCSs
  Sniffs <- MCSniffs
  BufLen = 1
  ErrhAnswers = {TRUE, FALSE}
PROPERTIES ShutdownCompletes ConnSettles
