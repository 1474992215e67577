SPECIFICATION Spec
CONSTANTS
  p = p
  m = m
  w = w
  x = x
  Parts = {"WORK", "STEPS", "SAMPLE", "HANDED", "CONFIRM", "ADJUST", "FIND", "RELEASE", "DRIFT"}
  Partners = {p}
  Managers = {m}
  Seniors = {}
  Nobody = Nobody
  MaxConfirmations = 2
  Procedures = {w, x}
  Template <- OneStep
  Optional = {}
  Bands = {"GREEN", "RED"}
  Families = {"f", "g"}
  Rows = {"r"}
  MaxPlans = 1
  MaxTests = 3
  MaxAdjustments = 1
  MaxDifferences = 1
  MaxAnalyses = 1
  MaxRevision = 7
  MaxEvidence = 2
  MaxVersion = 9
  MaxSubmissions = 5
  MaxAssessments = 1
  MaxSrms = 1
  MaxDay = 2
  MaxOpinions = 1
  MaxStatements = 1
  MaxReports = 1
  MaxLetters = 1
  MaxRequests = 1
  MaxBundles = 2
  MaxRoutes = 2
  MaxFindings = 1
  MaxDispatches = 2
INVARIANTS ReleaseTypeOK
PROPERTIES HandoverIsEarned StatementsAreSettled ReleaseIsOfOneDay
CONSTRAINT Bounded
CHECK_DEADLOCK FALSE
