\* Two callers of one function, one write and its invalidation.
CONSTANTS
  c1 = c1  c2 = c2
  NoCaller = NoCaller
  Callers <- MCCallers
  Falsy <- MCFalsy
  MutexTTL = 1
  MaxVersion = 1
SPECIFICATION Spec
CHECK_DEADLOCK FALSE
INVARIANTS TypeOK OrderKept WaitersServed GroupCovers
PROPERTIES ImplementsCachedValue EveryCallReturns
