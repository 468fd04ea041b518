CONSTANTS
  Proc = {p1,p2}
  FactIds = {f1,f2}
  NoFact = NoFact
  NoProc = NoProc
  Junk = Junk
  MaxItems = 1
  MaxRebuilds = 1
  TornWrites = TRUE
SPECIFICATION Spec
INVARIANTS
  AckedReplayable
