\* One row, two weeks, two batches, two requests of the employee; two claims; two
\* cycles over two months with two HR users; one candidate with two screens; an
\* anniversary, two days and two workers.
SPECIFICATION WorkSpec
CONSTANTS
  a1 = a1
  a2 = a2
  b1 = b1
  b2 = b2
  c1 = c1
  c2 = c2
  e1 = e1
  r1 = r1
  t1 = t1
  w1 = w1
  w2 = w2
  Rows = {r1}
  Weeks = {w1, w2}
  Batches = {b1, b2}
  Hours = {1, 2}
  WeekLimit = 2
  Clients = {a1, a2}
  Approvers = {c1, c2}
  Flow <- MCFlow
  NoBatch = NoBatch
  ClaimIds = {b1, b2}
  TripIds = {t1}
  ClaimAmounts = {1, 2}
  PolicyPool <- MCPolicies
  CategoryMaxima <- MCMaxima
  ClaimFlow <- MCClaimFlow
  TripFlow <- MCTripFlow
  Deciders = {e1, r1}
  NoTrip = NoTrip
  PayMonths = {1, 2}
  CycleIds = {a1, a2}
  Payees = {e1}
  OnLeave = e1
  ArrearIds = {r1}
  Pays = {1, 2}
  PayClerks = {b1, b2}
  MaxWrites = 2
  MaxRevision = 1
  NoCycle = NoCycle
  Applicants = {r1}
  Emails = {e1}
  Codes = {t1}
  Needs = {w1}
  Screens = {a1, a2}
  NoForm = NoForm
  MaxRevisions = 4
  MaxUploads = 1
  Calendar <- MCCalendar
  Occasions <- MCOccasions
  Users = {e1, r1, t1}
  Manager <- MCManager
  Readers = {t1}
  RulesPool <- MCRules
  Sweepers = {a1, a2}
SYMMETRY MCSymmetry
CHECK_DEADLOCK FALSE
INVARIANTS
  WeekHolds
  ClaimsHold
  PayHolds
  PrejoiningHolds
  CelebrationsHold
