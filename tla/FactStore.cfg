\* Whole appends; locks are contended, everything may fail, die or be deleted.
SPECIFICATION FairSpec
CONSTANTS
  Proc = {p1,p2}
  FactIds = {f1,f2,f3}
  NoFact = NoFact
  NoProc = NoProc
  Junk = Junk
  MaxItems = 2
  MaxRebuilds = 1
  TornWrites = FALSE
INVARIANTS AckedProjected ReportsTrue CurrentSuccessor CommittedOutcomesOnly
PROPERTIES RowsOnlyGrow ImplementsLedger CommandsEnd
