SPECIFICATION Spec
CONSTANTS
  Drives = {1, 2}
  Steps = {1}
  Macro <- MCMacro
  StartSteps <- MCStartSteps
  Tries = 2
  AnswerDelay = 2
  Acks = {TRUE, FALSE}
  Fragments = FALSE
  Simulation = FALSE
  JogLimit = 2
  MaxBacklog = 2
  None = None
INVARIANTS TypeOK QuietLine OwnResponse StatusTruthful RotationTruthful PromptInv
PROPERTY AnswersQueries
