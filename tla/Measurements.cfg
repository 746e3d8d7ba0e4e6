CONSTANTS
  HASH_NUMBER = 4
  HASH_SIZE = 32
  RAW_DATA_SIZE = 72
  MANIFEST_SIZE = 128
  SVN_SIZE = 8
  DEVICE_MODE_SIZE = 16
  COMMON_HEADER = 4
  DMTF_HEADER = 3
  MAX_RECORD = 4096
  Capacities <- Edges
SPECIFICATION Spec
INVARIANTS
  RecordComplete
  SummaryCovers
  KeyFreed
