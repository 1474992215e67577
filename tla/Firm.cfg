SPECIFICATION Spec
CONSTANTS
  Actors = {a, b}
  Cashiers = {a}
  Preparer = s
  LastDay = 2
  YearEnd = 1
  Entries = {e}
  Amounts = {2}
  MaxCorrections = 1
  Payments = {p, q}
  Fee = 2
  TaxBasisPoints = 5000
  TimeEntries = {t, u}
  DayMinutes = 1
  Starts = {1}
  MaxRates = 2
  MaxSnapshots = 1
  Parts = {"CLIENTS", "CONTACTS", "PEOPLE", "WEB", "LEADS", "LEDGER", "BILLING", "PRACTICE"}
  ClientCodes = {"A", "B"}
  Names = {"N"}
  Emails = {"m"}
  Roles = {"MD_GM", "OTHER"}
  Purposes = {"EL"}
  Files <- ImportFiles
  BatchSize = 1
  MaxClients = 3
  MaxContacts = 4
  Grades = {"PARTNER", "SENIOR"}
  MaxStaff = 2
  MaxProfiles = 3
  Visitors = {v, w}
  Addresses = {x}
  VisitLimit = 1
  Window = 2
  Retention = 2
  MaxTime = 2
  MaxLeads = 2
SYMMETRY Symmetry
INVARIANTS
  TypeOK
  NeverOverAllocated
  SnapshotsReproduce
  DirectoryHolds
PROPERTIES
  ClosedPeriodsAreFinal
  PastRatesAreFixed
  SettledFiguresAreFinal
CONSTRAINT Bounded
CHECK_DEADLOCK FALSE
