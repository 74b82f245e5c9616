SPECIFICATION ArmSpec
CONSTANTS
  Drives = {1, 2}
  Steps <- MCSteps
  Macro <- MCMacro
  StartSteps <- MCStartSteps
  Tries = 0
  AnswerDelay = 1
  Acks = {TRUE}
  Fragments = FALSE
  Simulation = FALSE
  JogLimit = 2
  MaxBacklog = 1
  None = None
  Base = 1
  Elbow = 2
  Gear <- MCGear
  Places <- MCPlaces
  Pose <- MCPose
  Nowhere = "nowhere"
  Edges <- MCNoEdges
  HalfTurn = 1
  Field = 1
  Arcs = 1
  Rows = 1
  Turn = 4
INVARIANT HomeInOrder
