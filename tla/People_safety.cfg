\* Two accounts, two requests, two sweepers; two managers, requests, records and
\* clerks; two officers; two files, callers and workers;
\* one employee over three days with two time zones and two day boundaries; two
\* participants with two goals and two revisions.
SPECIFICATION PeopleSpec
CONSTANTS
  a1 = a1
  a2 = a2
  b1 = b1
  b2 = b2
  c1 = c1
  c2 = c2
  e1 = e1
  s1 = s1
  d1 = d1
  r1 = r1
  r2 = r2
  Users = {a1, a2}
  Calls = {b1, b2}
  MaxSessions = 3
  MaxChanges = 1
  NoUser = NoUser
  Separations = {s1}
  Sweepers = {c1, c2}
  BatchSize = 1
  MaxFaults = 0
  Owner = e1
  Managers = {a1, a2}
  ChangeRequests = {b1, b2}
  Records = {r1, r2}
  Documents = {d1}
  Clerks = {c1, c2}
  MaxValues = 2
  NoOne = NoOne
  Amounts <- MCAmounts
  Departments = {d1}
  Officers = {a1, a2}
  Files = {a1, a2}
  Callers = {b1, b2}
  Workers = {c1, c2}
  MaxCrashes = 2
  NoFile = NoFile
  NoWorker = NoWorker
  Staff = {e1}
  DayLength = 3
  LastDay = 3
  LastInstant = 6
  Zones = {0, 2}
  Boundaries = {0, 2}
  DefaultBoundary = 1
  MaxPunches = 2
  SweepLimit = 1
  MaxFailures = 0
  CycleIds = {c1, c2}
  Reviewees = {b1, b2}
  GoalIds = {a1, a2}
  GoalWeights = {1}
  FullWeight = 2
  Deadline <- MCDeadline
  LastDeadline = 1
  MaxRevisions = 2
SYMMETRY MCSymmetry
CHECK_DEADLOCK FALSE
INVARIANTS
  TokensHold
  OffboardedOnce
  ReviewsHold
  SettledOnce
  FilesAgree
  DaysHold
  CyclesHold
PROPERTIES
  CompletedIsFinal
