SPECIFICATION Spec
CONSTANTS
  Upper = 17
  Fore = 10
  MinRadius = 8
  Epsilon = 1
  Extent = 30
  Points <- MCPoints
  Radius <- MCRadius
INVARIANTS TypeOK HandOnTarget TargetKept RotationsReadX
