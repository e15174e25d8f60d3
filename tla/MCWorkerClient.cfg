SPECIFICATION FairSpec
CONSTANTS
  j1 = j1
  j2 = j2
  Jobs = {j1, j2}
  MaxChunks = 2
  Careful = {j1}
INVARIANTS
  WorkersMatchJobs
  HonestJobsEndRight
PROPERTIES
  CancelMeansAborted
  SettledForGood
  EveryJobSettles
CHECK_DEADLOCK FALSE
