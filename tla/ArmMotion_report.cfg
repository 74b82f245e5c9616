SPECIFICATION ArmSpec
CONSTANTS
  Drives = {1, 2}
  Steps <- MCSteps
  Macro <- MCMacro
  StartSteps <- MCStartSteps
  Tries = 1
  AnswerDelay = 1
  Acks = {TRUE, FALSE}
  Fragments = FALSE
  Simulation = FALSE
  JogLimit = 2
  MaxBacklog = 2
  None = None
  Base = 1
  Elbow = 2
  Gear <- MCGear
  Places <- MCPlaces
  Pose <- MCPose
  Nowhere = "nowhere"
  Edges <- MCEdges
  HalfTurn = 1
  Field = 1
  Arcs = 1
  Rows = 2
  Turn = 4
INVARIANT ReportIsActual
