\* The order of the design: cdr_lock_timer < cdr_lock_time < watchdog, and PLL, MMCM and
\* transceiver answer before the watchdog expires.
CONSTANTS
  CDR_TIME = 2
  cdr_lock_time = 10
  WATCHDOG = 32
  LOCK_TIME = 5
  MMCM_TIME = 2
  RESET_TIME = 2
  DROP_TIME = 1
  PulseBound = 2
  HangBound = 2
SPECIFICATION FairSpec
INVARIANT
  ReadyIsUp
  ReadyIsRecovered
PROPERTIES
  LinkComesUp
