\* Evidence of a payment is committed while the archive is assembled.
SPECIFICATION Spec
CONSTANTS
  n1 = n1
  f1 = f1
  e1 = e1
  r1 = r1
  d1 = d1
  l1 = l1
  p1 = p1
  w1 = w1
  w2 = w2
  Notes = {n1}
  Files = {f1}
  Evidence = {e1}
  Receipts = {r1}
  Letters = {d1}
  Locks = {l1}
  Policies = {p1}
  Workers = {w1, w2}
  NoSeal = NoSeal
  MaxAttempts = 2
  MaxTries = 2
  MaxFaults = 0
PROPERTIES
  CommittedObjectsVerified
CHECK_DEADLOCK FALSE
