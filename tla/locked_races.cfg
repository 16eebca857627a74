SPECIFICATION Spec
CONSTANTS
  Proc = {p1, p2}
  NoProc = NoProc
  NoContext = NoContext
  Volatile <- MCVolatile
  MaxDrift = 2
  Faults = {"crash", "io", "analysis"}
SYMMETRY MCSymmetry
INVARIANTS
  TypeOK
  AnalysedAtMostOnce
  OutputsBelongToTheConsumer
  OutcomesExclude
  ReceiptCoversAnOutcome
  ResultRestsOnApprovedDocuments
  EndTellsRecords
PROPERTIES
  OutputsAreFinal
  ImplementsOneTimeUse
CHECK_DEADLOCK FALSE
