SPECIFICATION Spec
CONSTANTS
  partner = partner
  manager = manager
  Parts = {"KEYS", "STAFF", "DATES", "IMPORT", "PLAN"}
  Owners = {o1}
  MaxProposals = 2
  MaxChanges = 2
  MaxOwnerSaves = 2
  MaxEscalations = 1
  MaxDecisions = 3
  MaxDrafts = 1
  Partners = {partner}
  Managers = {manager}
  Seniors = {}
  Suggested = {"DRAFT_REPORT"}
  Phases = {"FIELDWORK", "PLANNING"}
  DayMinutes = 2
  LastDate = 2
  MaxVersion = 2
  MaxAssignments = 3
  Rows = 2
  Importers = {w, x}
  MaxImports = 2
  MaxMappings = 1
  MaxMaterialities = 2
  MaxRisks = 2
  MaxPlans = 1
  MaxRequests = 1
INVARIANTS
  TypeOK
  FieldworkRestsOnThePlan
  ReportsMeetTheCutoff
PROPERTIES
  KeysTurnTogether
  OnlyLeaveOverloads
CONSTRAINT Bounded
CHECK_DEADLOCK FALSE
