\* Two calls of a macro with a condition.
CONSTANTS
  Bits = 7
  Programs <- Deciding
  Instructions <- Valid
  MaxIncludes = 4
  MaxCalls = 3
  MaxPasses = 3
SPECIFICATION Spec
INVARIANTS
  Expands
