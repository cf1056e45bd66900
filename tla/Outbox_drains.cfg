\* One worker; a subscription comes and goes, the worker crashes once and HR requeues
\* once.  The older row's module is not always the tenant's, and while it is not that row
\* stays PENDING, in front of the entitled one: which is settled all the same.
SPECIFICATION FairSpec
CONSTANTS
  w1 = w1
  w2 = w2
  NoWorker = NoWorker
  Events <- MCEvents
  Workers = {w1}
  NSubs = 2
  GlobalHook = FALSE
  AlwaysOn = {1}
  Filter <- MCFilter
  Known <- MCEvents
  Entitled = {2}
  Legacy = {1}
  Cap = 2
  PostTicks = 1
  StaleTicks = 1
  MaxFailures = 2
  MaxAbandons = 1
  MaxRequeues = 1
PROPERTIES
  EventuallySettled
