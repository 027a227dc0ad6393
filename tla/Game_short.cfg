CONSTANTS
  Lists <- HomeLists
  SaveSizes = {0, 1, 4, 5}
  MaxFile = 6
  IntBytes = 2
  FloatBytes = 2
  DoubleBytes = 4
  Games <- SavingGames
SPECIFICATION Spec
INVARIANTS
  SaveLongEnough
