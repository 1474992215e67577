SPECIFICATION Spec
CONSTANTS
  p = p
  m = m
  w = w
  x = x
  Parts = {"DRIFT"}
  Partners = {p}
  Managers = {m}
  Seniors = {}
  Nobody = Nobody
  MaxConfirmations = 0
  Procedures = {w, x}
  Template <- OneStep
  Optional = {}
  Bands = {"GREEN", "RED"}
  Families = {"f"}
  Rows = {"r"}
  MaxPlans = 1
  MaxTests = 3
  MaxAdjustments = 0
  MaxDifferences = 1
  MaxAnalyses = 0
  MaxRevision = 7
  MaxEvidence = 1
  MaxVersion = 6
  MaxSubmissions = 5
  MaxAssessments = 1
  MaxSrms = 1
  MaxDay = 1
  MaxOpinions = 1
  MaxStatements = 1
  MaxReports = 1
  MaxLetters = 1
  MaxRequests = 1
  MaxBundles = 1
  MaxRoutes = 1
  MaxFindings = 1
  MaxDispatches = 1
PROPERTIES ReleasedOnCurrentSrm

CHECK_DEADLOCK FALSE
