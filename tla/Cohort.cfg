\* Two participants, one subscription with one thread; cleanup of the first.
SPECIFICATION FairSpec
CONSTANTS
  Last = 2
  Subscriptions = 1
  Parallel = 1
  Targets <- First
  MaxStrays <- FirstOnce
INVARIANTS TypeOK RecordsHold NoOrphanRole RemovedIsGone
PROPERTIES ForeignUntouched CommandEnds
