SPECIFICATION FairSpec
CONSTANTS
  Documents = {d1, d2}
  NumTargets = 1
  MaxRetries = 1
  MaxLost = 1
INVARIANTS
  AggregatesMatchEvents
  MetricsCountCalls
  MetricsMeanTranslated
PROPERTIES
  DocumentsEnd
CHECK_DEADLOCK FALSE
