SPECIFICATION Spec
CONSTANTS
  BlockCount = 2
  CandidateCount = 2
  Signature <- MCSignature
  FixedOrder <- MCFixedOrder
  DevelopmentOrder <- MCDevelopmentOrder
  CostBudget = 90
  WithdrawalCount = 2
  CaseCount = 2
  None = None
  Tools = {t1}
  NoTool = NoTool
  DerivedFiles <- MCDerivedFiles
  Subjects = {"E"}
  MaxEdits = 1
  RaceSubject = "E"
INVARIANTS
  EveryOutcomeIsReported
CHECK_DEADLOCK FALSE
