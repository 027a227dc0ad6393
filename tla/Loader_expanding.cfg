\* At most three nested includes and three nested calls.
CONSTANTS
  Bits = 7
  Programs <- AllPrograms
  Instructions <- Valid
  MaxIncludes = 4
  MaxCalls = 3
  MaxPasses = 3
SPECIFICATION Spec
INVARIANTS
  Expands
PROPERTIES
  Loads
