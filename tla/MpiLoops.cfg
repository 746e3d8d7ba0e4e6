CONSTANTS
  Base = 4
  Size = 2
SPECIFICATION Spec
INVARIANTS
  ResultExact
  ArrayExact
