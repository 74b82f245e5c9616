SPECIFICATION Spec
CONSTANTS
  Files <- MCFiles
  BufferSize = 28
  NoComments = TRUE
  NoFile = NoFile
  MaxLines = 3
INVARIANTS ParametersAreTheFile SettingsReachTheSensor
PROPERTY ReadingEnds
CHECK_DEADLOCK FALSE
