SPECIFICATION FairSpec
CONSTANTS
  Workers = {w1, w2}
  Routes = {r1}
  NoRoute = NoRoute
  MaxRevisions = 1
  MaxResends = 0
  MaxAttempts = 2
  MaxTries = 2
  MaxFaults = 1
  MaxRestarts = 0
INVARIANTS
  TypeOK
  RecordsMirrorJobs
  OneSender
PROPERTIES
  EveryJobSettles
CHECK_DEADLOCK FALSE
