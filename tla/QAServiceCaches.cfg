SPECIFICATION FairSpec
CONSTANTS
  Clients = {c1, c2}
  Questions = {"taxes", "taxes?", "mail"}
  Contexts = {"fr", "de"}
  Keys <- Asked
  Sensitive = {"mail"}
  Short = {}
  Score <- Scores
  Threshold = 9
  SemanticEnabled = TRUE
  ExactTTL = 1
  SemanticTTL = 1
  ExactMaxEntries = 1
  SemanticMaxEntries = 1
  MaxLag = 1
  Versions = {0, 1}
INVARIANTS AnswersAreRelevant NothingSensitiveIsKept CachesAreBounded
PROPERTY StaleAnswersEnd
