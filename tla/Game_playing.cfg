\* The game's directory and the user's; an int is 2 bytes, a double 4.
CONSTANTS
  Lists <- HomeLists
  SaveSizes = {0, 1, 4, 5}
  MaxFile = 6
  IntBytes = 2
  FloatBytes = 2
  DoubleBytes = 4
  Games <- AllGames
SPECIFICATION Spec
INVARIANTS
  TypeOK
PROPERTIES
  KeepsShape
  Reloads
  StaysReleased
  QuitEnds
