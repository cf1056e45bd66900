\* One worker, one manual requeue, no crash: the requeue's check and its write
\* straddle the worker's mark_processed.
SPECIFICATION Spec
CONSTANTS
  w1 = w1
  w2 = w2
  NoWorker = NoWorker
  Events <- MCEvents
  Workers = {w1}
  NSubs = 1
  GlobalHook = FALSE
  AlwaysOn = {1}
  Filter <- MCFilterOne
  Known = {1}
  Entitled = {1}
  Legacy = {}
  Cap = 2
  PostTicks = 1
  StaleTicks = 1
  MaxFailures = 1
  MaxAbandons = 0
  MaxRequeues = 1
PROPERTIES
  ProcessedIsFinal
