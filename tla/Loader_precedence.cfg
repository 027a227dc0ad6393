\* An or and an exclusive or without parentheses.
CONSTANTS
  Bits = 7
  Programs <- Mixing
  Instructions <- Valid
  MaxIncludes = 4
  MaxCalls = 3
  MaxPasses = 3
SPECIFICATION Spec
INVARIANTS
  Expands
