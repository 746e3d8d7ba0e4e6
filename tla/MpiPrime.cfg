CONSTANTS
  Base = 16
  biL = 4
  ciL = 2
  MAX_LIMBS = 12
  HAVE_UDBL = TRUE
  WINDOW_SIZE = 1
  MAX_BITS = 8
  BIG_ENDIAN = TRUE
  RW_BUFFER = 12
  SmallPrimes <- Primes
  Jobs <- AllCalls
  RANDOM_TRIES = 3
  PICK_TRIES = 1
  CEIL_MAXUINT_DIV_SQRT2 = 12
  CandidateBound = 60
SPECIFICATION Spec
INVARIANTS
  RandomUniform
  PrimeNotRejected
  BaseIsLiar
  Generated
