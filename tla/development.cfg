SPECIFICATION Spec
CONSTANTS
  Runs = {r1, r2}
  NoRun = NoRun
  Directories = {d1, d2, locked}
  Protected = {locked}
  Refused <- MCRefused
  EditedInputs <- MCEditedInputs
  MaxVersion = 2
INVARIANTS
  ManifestMeansComplete
PROPERTIES
  EveryRunEnds
  SeriesSpec
CHECK_DEADLOCK FALSE
