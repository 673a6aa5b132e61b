SPECIFICATION Spec
CONSTANTS
  NumLangs = 3
  Alphabet <- ThreeLanguages
  Clients = {c1}
  MaxJobs = 2
  MaxVersion = 1
  Paged = TRUE
  OriginalSets = {{2, 3}}
  IndexModes = {}
  ServerModes = {"llm"}
PROPERTIES OriginalsAreKept
