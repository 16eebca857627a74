SPECIFICATION Spec
CONSTANTS
  Runtime = {r1}
  Low = v1
  Mid = v2
  High = v3
  Value = {v1, v2, v3, v4}
  Count = 2
  Outcome <- MCOutcome
  Granting <- MCGranting
  Judge <- MCJudge
  Path = {path1, path2}
  Call = {c1, c2}
  None = None
  Empty = Empty
  MaxIssued <- MCOneChain
SYMMETRY MCSymmetry
INVARIANTS
  CallsAreAuthorized
PROPERTIES
  RolesAreFinal
CHECK_DEADLOCK FALSE
