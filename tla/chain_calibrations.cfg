SPECIFICATION Spec
CONSTANTS
  Runtime = {r1}
  Low = v1
  Mid = v2
  High = v3
  Value = {v1, v2, v3}
  Count = 1
  Outcome <- MCOutcome
  Granting <- MCGranting
  Judge <- MCJudge
  Path = {path1, path2, path3}
  Call = {c1}
  None = None
  Empty = Empty
  MaxIssued <- MCTwoCalibrations
SYMMETRY MCSymmetry
INVARIANTS
  TypeOK
  LockedFollowsCalibration
  AuditsRestOnAGrant
CHECK_DEADLOCK FALSE
