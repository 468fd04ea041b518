SPECIFICATION Spec
CONSTANTS
  Builder = {b1, b2}
  Querier = {q1}
  MaxEdits = 1
  MaxFiles = 3
  MaxSteps = 1
  Nobody = Nobody
SYMMETRY Symmetric
INVARIANTS LoneBuildsSound QueriesFresh
PROPERTIES ImplementsRegister
