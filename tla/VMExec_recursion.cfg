\* Recursion, in three sizes of stack.
CONSTANTS
  Programs <- Recursive
  CallbackValues = {0, 1}
  Word = 0
SPECIFICATION Spec
INVARIANTS
  TypeOK
  StackDiscipline
  OnlyRecursionExhausts
  ReturnsToCaller
  ReferencesLive
  InRange
PROPERTIES
  ImplementsCalls
