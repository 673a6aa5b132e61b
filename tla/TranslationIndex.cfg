SPECIFICATION FairSpec
CONSTANTS
  NumLangs = 2
  Alphabet <- TwoLanguages
  Clients = {c1}
  MaxJobs = 2
  MaxVersion = 2
  Paged = FALSE
  OriginalSets = {{2}, {1, 2}}
  IndexModes = {"local", "llm"}
  ServerModes = {"local", "llm"}
INVARIANTS OneJobPerLanguage ReadyMatchesHash
PROPERTIES KeysAreReleased PendingPagesSettle
