SPECIFICATION FairSpec
CONSTANTS
  Hosts = {h1, h2}
  Requests = {r1, r2}
  Period = 2
  Burst = 2
  Interval = 2
  MaxLag = 1
PROPERTIES ImplementsBucket NobodyStarves
