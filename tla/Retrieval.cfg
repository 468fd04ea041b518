SPECIFICATION RSpec
CONSTANTS
  MaxLength = 8
  Bodies <- AllBodies
  Target = 3
  PoolFactor = 1
  PoolFloor = 2
  WholeWeight = 10
  DefaultWeight = 7
  Absent = Absent
  Unparseable = Unparseable
  NoTitle = NoTitle
  Title = Title
  Blank = Blank
  NoIndex = NoIndex
  NoReply = NoReply
  ModelA = ModelA
  ModelB = ModelB
  Models = {ModelA, ModelB}
  IndexModels = {ModelA}
  Titles = {Title}
  Vaults <- MCVaults
  Questions <- MCQuestions
INVARIANTS ChunksSound FiltersFirst PageComplete ParetoOrder
