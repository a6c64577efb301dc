SPECIFICATION ApartSpec
CONSTANTS
  Dataset = {d1}
  Owned = {}
  Writer = {x1}
  Worker = {w1, w2}
  MaxDeletions = 2
  Attempts = 2
  MaxFaults = 2
  MaxLost = 1
  None = None
INVARIANTS
  ErasedOnceDeleted
  AuditedOnce
PROPERTIES
  RetriesErase
CHECK_DEADLOCK FALSE
