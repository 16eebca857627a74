SPECIFICATION Spec
CONSTANTS
  Engine = engine
  Probe = probe
  Plumbing = plumbing
  Tool = tool
  Protocol = protocol
  Paper = paper
  Role = role
  Original = original
  Changed = changed
  File = {engine, probe, plumbing, tool, protocol, paper, role}
  Content = {original, changed}
  Absent = absent
  Base <- MCBase
  BaseAllowlist <- MCBaseAllowlist
  Allowlists <- MCAllowlists
  V22Allowed <- MCV22Allowed
  Science <- MCScience
  Config = {protocol}
  Reviewed <- MCReviewed
  Call = {c1}
  MaxEdits = 2
  MaxRegistered = 2
INVARIANTS
  TypeOK
  DeltasAreDeclared
  ScienceStaysFrozen
  LedgersAgree
CHECK_DEADLOCK FALSE
