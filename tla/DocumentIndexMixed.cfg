SPECIFICATION FairSpec
CONSTANTS
  NumLangs = 2
  Pieces <- ThreeVersions
  MaxPieces = 2
  SourceSets = {{1}, {1, 2}}
  DatedVersions = {2, 3}
  Modes = {"local", "llm"}
INVARIANTS
  CommittedIsWhole
  TranslationsFollowSource
  SkippedIsIndexed
  OriginalsAreWhole
PROPERTIES
  EventuallyIndexed
