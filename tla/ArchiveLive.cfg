\* The fair system, with one fault; a note, a lock and a policy.
SPECIFICATION FairSpec
CONSTANTS
  n1 = n1
  f1 = f1
  e1 = e1
  r1 = r1
  d1 = d1
  l1 = l1
  p1 = p1
  w1 = w1
  w2 = w2
  Notes = {n1}
  Files = {}
  Evidence = {}
  Receipts = {}
  Letters = {}
  Locks = {l1}
  Policies = {p1}
  Workers = {w1, w2}
  NoSeal = NoSeal
  MaxAttempts = 2
  MaxTries = 2
  MaxFaults = 1
PROPERTIES
  DueIsSettled
CHECK_DEADLOCK FALSE
