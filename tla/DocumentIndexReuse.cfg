SPECIFICATION Spec
CONSTANTS
  NumLangs = 2
  Pieces <- TwoVersions
  MaxPieces = 2
  SourceSets = {{1}}
  DatedVersions = {}
  Modes = {"llm"}
INVARIANTS
  WholeTextsStored
