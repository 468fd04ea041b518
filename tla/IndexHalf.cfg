CONSTANTS
  Builder = {b1, b2}
  Querier = {q1}
  MaxEdits = 0
  MaxFiles = 3
  MaxSteps = 2
  Nobody = Nobody
SPECIFICATION Spec
INVARIANTS
  IndexWhole
