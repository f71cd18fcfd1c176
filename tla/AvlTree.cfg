SPECIFICATION Spec
CONSTANTS
  LastId = 8
  Doubled = {4}
  Entry <- MCEntry
INVARIANTS
  Ordered
  Balanced
PROPERTIES
  ImplementsTable
