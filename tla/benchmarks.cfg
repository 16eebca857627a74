SPECIFICATION Spec
CONSTANTS
  Widths <- MCWidths
  Horizon = 3
  Candidates = {c1, c2}
  Gates = {g1}
  MaxLook = 3
  Declarations <- MCDeclarations
  Units = 72
  Budget = 118
  Multipliers <- MCMultipliers
  MaxSteps = 3
  Values <- MCValues
INVARIANTS
  SimulatorsAgree
  RecoveryIsExact
  OverdrawnNeverDecides
  HonestCallersAreNeverRefused
  BoundCoversDistance
  StableMeansRobust
CHECK_DEADLOCK FALSE
