CONSTANTS
  Base = 256
  biL = 8
  ciL = 2
  MAX_LIMBS = 12
  HAVE_UDBL = FALSE
  WINDOW_SIZE = 3
  MAX_BITS = 39
  BIG_ENDIAN = FALSE
  RW_BUFFER = 12
  Programs <- MCPrograms
SPECIFICATION Spec
INVARIANTS
  ResultExact
  OperandsKept
  NoLeak
  WrittenExact
