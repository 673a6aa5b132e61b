SPECIFICATION FairSpec
CONSTANTS
  NumGroups = 4
  RequestedWorkers = 3
  Mode = "llm"
  HasDeadline = TRUE
INVARIANTS ProcessedOnce SuccessIsComplete SuccessKeepsStarted FirstErrorIsCause
PROPERTIES CallReturns ImplementsJob
\* The call ends: CallReturns says that it only stops there.
CHECK_DEADLOCK FALSE
