SPECIFICATION CrawlSpec
CONSTANTS
  voting = voting
  affairs = affairs
  meeting = meeting
  elsewhere = elsewhere
  URLs <- AllURLs
  Allowed <- Ours
  SeedLists <- Seeds
  Affairs <- affairs
  DepthCaps = {1, 2}
  NodeCaps = {2, 3}
INVARIANTS NearestFirst CrawlIsComplete RequestedOnce
CHECK_DEADLOCK FALSE
