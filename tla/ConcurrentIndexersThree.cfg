SPECIFICATION FairSpec
CONSTANTS
  Docs = {d1, d2}
  People = {p, q}
  Runs = {a, b, c}
  Workers = {w1, w2, w3, w4}
  w1 = w1
  w2 = w2
  w3 = w3
  w4 = w4
  a = a
  b = b
  c = c
  d1 = d1
  d2 = d2
  p = p
  q = q
  Old = Old
  None = None
  RunOf <- WorkersRun
  Corpus <- RunsCorpus
  Parts <- TextParts
  Lists <- TextLists
INVARIANTS CountedPartsAgree DeadlockNeedsCrossing
PROPERTIES CommitReplacesAll RunsEnd
\* The runs end: RunsEnd says that they only stop there.
CHECK_DEADLOCK FALSE
