\* Two workers delete expired locks of one client.
CONSTANTS
  c1 = c1  c2 = c2  w1 = w1  w2 = w2
  NoClient = NoClient
  NoWorker = NoWorker
  Clients <- MCOneClient
  Workers <- MCTwoWorkers
  MaxLimit = 1
  Duration = 3
  ReleaseDelay = 2
  MutexTTL = 2
  BlockingTimeout = 1
  MaxStall = 1
  MaxRequest = 2
  MaxTime = 9
SPECIFICATION Spec
INVARIANTS LeaseKept
