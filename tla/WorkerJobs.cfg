\* Three attempts per job: fail, expire and settle in every order; fair clocks and polling.
SPECIFICATION FairSpec
CONSTANTS
  Worker = {w1, w2}
  Job = {j1, j2}
  MaxAttempts = 3
  NoWorker = NoWorker
  NoJob = NoJob
INVARIANTS TypeOK WithinBudget
PROPERTIES LatestAttemptSettles FollowsReferenceModel EveryJobEnds
CHECK_DEADLOCK FALSE
