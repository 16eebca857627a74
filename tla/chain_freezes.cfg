SPECIFICATION Spec
CONSTANTS
  Runtime = {r1, r2}
  Low = v1
  Mid = v2
  High = v3
  Value = {v2, v3}
  Count = 1
  Outcome <- MCOutcome
  Granting <- MCGranting
  Judge <- MCJudge
  Path = {path1, path2}
  Call = {c1}
  None = None
  Empty = Empty
  MaxIssued <- MCTwoFreezes
SYMMETRY MCSymmetry
INVARIANTS
  FreezesInUseAreReviewed
  RolesAreAuthorized
  ResultsRestOnTheirRole
CHECK_DEADLOCK FALSE
