\* i.MX6: the clocks while a job is in the ring.
SPECIFICATION Spec
CONSTANTS
  MACH = "IMX6"
  CacheLine = 8
  HASH_LEN = 1
  ROOT_KEY_LEN = 1
  CAAM_KB_HEADER_LEN = 1
  LenMod = 4
  MaxLen = 1
  MaxCalls = 1
  Faults = {}
INVARIANTS ClockOn
CHECK_DEADLOCK FALSE
