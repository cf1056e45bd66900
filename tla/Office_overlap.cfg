\* Two decisions on two lines of one employee.
SPECIFICATION ProofsSpec
CONSTANTS
  a1 = a1
  a2 = a2
  b1 = b1
  b2 = b2
  c1 = c1
  c2 = c2
  c3 = c3
  e1 = e1
  e2 = e2
  q1 = q1
  q2 = q2
  r1 = r1
  t1 = t1
  w1 = w1
  w2 = w2
  NoClaim = NoClaim
  Claims = {c1, c2, c3}
  Requests = {q1, q2}
  Want <- MCWant
  Clash <- MCClash
  Policies <- MCPolicies
  Worked = {1, 2}
  MaxDay = 4
  Lag = 1
  Month <- MCMonth
  Year <- MCYear
  SurveyIds = {1}
  Respondents = {q1}
  Units = {w1, w2}
  Audiences <- MCAudiences
  Schedules <- MCSchedules
  SurveyWorkers = {a1, a2}
  PageSize = 1
  LastTick = 2
  AssetIds = {r1}
  CategoryIds = {b1, b2}
  AllocationIds = {t1}
  AssetHolders = {e1}
  Jobs = {a1, a2}
  NoId = NoId
  TaxPayers = {e1, e2}
  Claimants = {e1}
  ProofLines = {b1, b2}
  Sections = {q1, q2}
  ProofAmounts = {1}
  TaxCalls = {a1, a2}
  Sources = {w1, w2}
  Spans <- MCSpans
  MaxDefinitions = 2
  MaxSettings = 2
  MaxRevisions = 2
  NoLine = NoLine
  NoCall = NoCall
CHECK_DEADLOCK FALSE
INVARIANT
  TotalAlwaysApproved
