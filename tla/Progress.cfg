\* Two separations and two sweepers; two employees; one asset, one category and
\* two transactions; two uploads nobody publishes and two cleanup workers;
\* two surveys, one of which may fail; one request under a workflow that is edited three
\* times while one of two approvers comes and goes.  No symmetry, for liveness.
SPECIFICATION ProgressSpec
CONSTANTS
  a1 = a1
  b1 = b1
  l1 = l1
  t1 = t1
  t2 = t2
  e1 = e1
  e2 = e2
  s1 = s1
  s2 = s2
  s3 = s3
  r1 = r1
  f1 = f1
  f2 = f2
  w1 = w1
  w2 = w2
  Users = {}
  Calls = {}
  MaxSessions = 0
  MaxChanges = 0
  NoUser = NoUser
  Separations = {s1, s2}
  Sweepers = {w1, w2}
  BatchSize = 1
  MaxFaults = 1
  Staff = {e1, e2}
  DayLength = 2
  LastDay = 3
  LastInstant = 4
  Zones = {0}
  Boundaries = {}
  DefaultBoundary = 1
  MaxPunches = 2
  SweepLimit = 1
  MaxFailures = 1
  AssetIds = {a1}
  CategoryIds = {b1}
  AllocationIds = {l1}
  AssetHolders = {e1}
  Jobs = {t1, t2}
  NoId = NoId
  Files = {f1, f2}
  Callers = {}
  Workers = {w1, w2}
  MaxCrashes = 1
  NoFile = NoFile
  NoWorker = NoWorker
  SurveyIds = {1, 2}
  Respondents = {e1}
  Units = {b1}
  Audiences <- MCAudiences
  Schedules <- MCSchedules
  SurveyWorkers = {w1}
  PageSize = 1
  LastTick = 1
  NoStep = NoStep
  Employees = {e1, a1, b1}
  Types = {t1}
  Requests = {r1}
  Owner <- MCOwner
  TypeOf <- MCType
  Steps = {s1, s2, s3}
  Periods <- MCPeriods
  WorkingDates = {1}
  Sandwich = {}
  HalfDay = {}
  Approvers <- MCApprovers
  InitialSeq <- MCSeq
  Policies = {0, 4}
  Corrections <- MCNone
  Deltas <- MCNone
  MaxEntitled = 4
  MaxEdits = 3
  MaxSeq = 3
  Removable = {}
  Changeable = {}
  Steady = {e1, a1}
CHECK_DEADLOCK FALSE
PROPERTIES
  DueOffboarded
  MissedPunchesExpire
  JobsFinish
  CleanupFinishes
  DueSurveysClose
  EventuallyDecided
