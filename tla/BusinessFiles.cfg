\* Two files of any purpose, one request, one sweep and a fault of it.
SPECIFICATION Spec
CONSTANTS
  f1 = f1
  f2 = f2
  d1 = d1
  r1 = r1
  w1 = w1
  Files = {f1, f2}
  Purposes = {"PBC", "PAYMENT", "STAFF"}
  Digests = {d1}
  Requests = {r1}
  Sweepers = {w1}
  NoFile = NoFile
  NoDigest = NoDigest
  MaxSweep = 2
  MaxObjects = 1
  MaxFaults = 1
INVARIANTS
  TypeOK
  BytesAreThere
  ReceiptsAreTrue
  AnswersFormAChain
PROPERTIES
  LockedContentStays
CHECK_DEADLOCK FALSE
