SPECIFICATION Spec
CONSTANTS
  BlockCount = 2
  CandidateCount = 2
  Signature <- MCSignature
  FixedOrder <- MCFixedOrder
  DevelopmentOrder <- MCDevelopmentOrder
  CostBudget = 90
  WithdrawalCount = 2
  CaseCount = 2
  None = None
  Tools = {t1, t2}
  NoTool = NoTool
  DerivedFiles <- MCDerivedFiles
  Subjects <- MCAllSubjects
  MaxEdits = 1
  RaceSubject = "D0"
INVARIANTS
  ManifestSeals
  ExitTellsManifest
  PassedVerdictsAreTheOriginals
  UntouchedResultsPass
  DisagreementIsAdverse
PROPERTIES
  EveryAuditEnds
CHECK_DEADLOCK FALSE
