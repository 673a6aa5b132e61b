SPECIFICATION CorpusFairSpec
CONSTANTS
  Pods = {p1}
  NumVotings = 2
  MayPass = {1, 2}
  MaxTextVersion = 2
INVARIANTS SelectionIsWhole
PROPERTIES NewestIsWritten CorpusConverges
