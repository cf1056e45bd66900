\* One request; HR deletes the step it stands at.
SPECIFICATION FairSpec
CONSTANTS
  e1 = e1
  a1 = a1
  b1 = b1
  t1 = t1
  r1 = r1
  r2 = r2
  s1 = s1
  s2 = s2
  s3 = s3
  NoStep = NoStep
  Employees = {e1, a1}
  Types = {t1}
  Requests = {r1}
  Owner <- MCOwnerOne
  TypeOf <- MCTypeOne
  Steps = {s1, s2, s3}
  Periods <- MCDay
  WorkingDates = {3}
  Sandwich = {}
  HalfDay = {t1}
  Approvers <- MCApprovers
  InitialSeq <- MCSeq
  Policies = {0, 4}
  Corrections <- MCNone
  Deltas <- MCNone
  MaxEntitled = 4
  MaxEdits = 1
  MaxSeq = 3
  Removable = {s1}
  Changeable = {}
  Steady = {e1, a1}
PROPERTIES
  RecoversFromDeletedStep
