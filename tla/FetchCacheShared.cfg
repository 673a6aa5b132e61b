SPECIFICATION FairSpec
CONSTANTS
  Processes = {p1, p2}
  MaxVersion = 2
  TTL = 1
  Retention = 2
  MaxRetries = 1
  ForceRefresh = FALSE
PROPERTIES HitsAreFresh RunsRecover StaleBodiesEnd
