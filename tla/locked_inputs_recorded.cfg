SPECIFICATION Spec
CONSTANTS
  Proc = {p1}
  NoProc = NoProc
  NoContext = NoContext
  Volatile <- MCInputsAndApproval
  MaxDrift = 1
  Faults = {}
INVARIANT
  RecordedInputsWereUsed
CHECK_DEADLOCK FALSE
