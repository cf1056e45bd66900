\* Two workers race over two rows, with HR requeues, one crash and slow databases.
SPECIFICATION Spec
CONSTANTS
  w1 = w1
  w2 = w2
  NoWorker = NoWorker
  Events <- MCEvents
  Workers = {w1, w2}
  NSubs = 1
  GlobalHook = TRUE
  AlwaysOn = {1}
  Filter <- MCFilterOne
  Known <- MCEvents
  Entitled = {1, 2}
  Legacy = {}
  Cap = 2
  PostTicks = 1
  StaleTicks = 1
  MaxFailures = 2
  MaxAbandons = 1
  MaxRequeues = 1
SYMMETRY MCSymmetry
INVARIANTS
  TypeOK
  AckedBeforeProcessed
  GivenUpAfterCap
  SoleDeliverer
PROPERTIES
  ProcessedUnlessRaced
  DeliversAtLeastOnce
