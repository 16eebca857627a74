SPECIFICATION FairSpec
CONSTANTS
  Proc = {p1, p2}
  NoProc = NoProc
  NoContext = NoContext
  Volatile <- MCInputsAndApproval
  MaxDrift = 1
  Faults = {"crash", "power"}
INVARIANT
  NoSpuriousFailure
PROPERTIES
  SomeRunIsCompleted
  DurableConsumptionIsPermanent
  EveryRunEnds
CHECK_DEADLOCK FALSE
