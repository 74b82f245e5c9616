SPECIFICATION PlanFairSpec
CONSTANTS
  Readers = {"camera"}
  Order <- MCOrder
  ReaderOf <- MCOneReader
  Records = {1, 2}
  MatchOf <- MCMatch
  XOf <- MCX
  YOf <- MCY
  FovW = 4
  FovH = 4
  Goal = "goal"
  FirstTiers = {{}, {"alpha"}}
  Steady = TRUE
  None = None
INVARIANT FocusIsNearest
PROPERTIES CellFills WaitEnds
CONSTRAINT WaitsAndPlans
