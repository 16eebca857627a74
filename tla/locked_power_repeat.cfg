SPECIFICATION Spec
CONSTANTS
  Proc = {p1, p2}
  NoProc = NoProc
  NoContext = NoContext
  Volatile <- MCInputsAndApproval
  MaxDrift = 0
  Faults = {"power"}
INVARIANT
  AnalysedAtMostOnce
CHECK_DEADLOCK FALSE
