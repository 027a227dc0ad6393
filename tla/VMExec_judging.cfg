\* A jump after a float and then an integer.
CONSTANTS
  Programs <- Judging
  CallbackValues = {0, 1}
  Word = 0
SPECIFICATION Spec
INVARIANTS
  JudgesLast
