SPECIFICATION FairSpec
CONSTANTS
  Requests = {r1, r2}
  Keys = {k1, k2}
  Clients = {c1}
  System = System
  None = None
  MaxAttempts = 2
  MaxVersion = 1
  MaxJobs = 1
INVARIANTS
  TypeOK
  ChainIntact
  AtomicEffects
  NoLostUpdate
  ReceiptsHonest
PROPERTIES
  EveryRequestEnds
  ImplementsCommandLog
CHECK_DEADLOCK FALSE
