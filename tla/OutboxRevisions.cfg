SPECIFICATION Spec
CONSTANTS
  Workers = {w1, w2}
  Routes = {r1}
  NoRoute = NoRoute
  MaxRevisions = 2
  MaxResends = 1
  MaxAttempts = 1
  MaxTries = 1
  MaxFaults = 0
  MaxRestarts = 1
SYMMETRY Symmetry
INVARIANTS
  LifecycleFollowsProposal
PROPERTIES
  OutcomesAreFinal
CHECK_DEADLOCK FALSE
