\* Two files of the staff; the sweep takes as many as there are.
SPECIFICATION FairSpec
CONSTANTS
  f1 = f1
  f2 = f2
  d1 = d1
  r1 = r1
  w1 = w1
  Files = {f1, f2}
  Purposes = {"STAFF"}
  Digests = {d1}
  Requests = {r1}
  Sweepers = {w1}
  NoFile = NoFile
  NoDigest = NoDigest
  MaxSweep = 2
  MaxObjects = 1
  MaxFaults = 1
PROPERTIES
  AbandonedIsCleared
CHECK_DEADLOCK FALSE
