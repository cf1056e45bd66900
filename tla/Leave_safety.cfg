\* Two requests of one employee and their approver, while HR edits the workflow
\* once, corrects and adjusts the balance, changes the leave type and the
\* requester becomes inactive and active again.
SPECIFICATION Spec
CONSTANTS
  e1 = e1
  a1 = a1
  b1 = b1
  t1 = t1
  r1 = r1
  r2 = r2
  s1 = s1
  s2 = s2
  s3 = s3
  NoStep = NoStep
  Employees = {e1, a1}
  Types = {t1}
  Requests = {r1, r2}
  Owner <- MCOwner
  TypeOf <- MCType
  Steps = {s1, s2, s3}
  Periods <- MCPeriods
  WorkingDates = {3}
  Sandwich = {}
  HalfDay = {t1}
  Approvers <- MCApprovers
  InitialSeq <- MCSeq
  Policies = {2}
  Corrections <- MCCorrections
  Deltas <- MCDeltas
  MaxEntitled = 2
  MaxEdits = 1
  MaxSeq = 3
  Removable = {s2}
  Changeable = {t1}
  Steady = {a1}
SYMMETRY MCSymmetry
INVARIANTS
  TypeOK
  NoHalfDayTwice
  BalanceAdds
  LedgerMatchesRequests
  WorkflowAgrees
  ApprovedByEveryStep
PROPERTY
  KeepsBooks
