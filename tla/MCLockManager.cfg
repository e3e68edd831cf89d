\* Two workers serve two clients of one task that needs one answer more.
CONSTANTS
  c1 = c1  c2 = c2  w1 = w1  w2 = w2
  NoClient = NoClient
  NoWorker = NoWorker
  Clients <- MCTwoClients
  Workers <- MCTwoWorkers
  MaxLimit = 1
  Duration = 3
  ReleaseDelay = 2
  MutexTTL = 2
  BlockingTimeout = 1
  MaxStall = 1
  MaxRequest = 2
  MaxTime = 9
SYMMETRY MCSymmetry
SPECIFICATION Spec
INVARIANTS TypeOK MutexExcludes HashOutlivesLeases
PROPERTIES RefusalJustified ImplementsSemaphore
