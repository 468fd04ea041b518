\* The calls are two so that, without symmetry, liveness can be checked too.
SPECIFICATION FairSpec
CONSTANTS
  Calls = {c1,c2}
  NoCall = NoCall
  NotJson = NotJson
  MaxChildren = 2
CHECK_DEADLOCK FALSE
INVARIANTS Bookkeeping OwnAnswer NoOrphan
PROPERTIES AwaitsEnd
