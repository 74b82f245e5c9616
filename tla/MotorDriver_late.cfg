SPECIFICATION FairSpec
CONSTANTS
  Drives = {1}
  Steps = {1}
  Macro <- MCMacro
  StartSteps <- MCStartSteps
  Tries = 1
  AnswerDelay = 2
  Acks = {TRUE}
  Fragments = TRUE
  Simulation = FALSE
  JogLimit = 1
  MaxBacklog = 2
  None = None
PROPERTY CallReturns
