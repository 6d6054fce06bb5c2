\* i.MX7: two calls in a row, every failure, clocks gated at any time.
SPECIFICATION FairSpec
CONSTANTS
  MACH = "IMX7"
  CacheLine = 8
  HASH_LEN = 2
  ROOT_KEY_LEN = 2
  CAAM_KB_HEADER_LEN = 1
  LenMod = 4
  MaxLen = 3
  MaxCalls = 2
  Faults = {"env", "dma", "job", "assert", "rdsta", "gate"}
INVARIANTS TypeOK OwnResult DeviceUndisturbed SuccessMeansFilled RngInstantiated RingCoherent ClockOn
PROPERTIES CallReturns
CHECK_DEADLOCK FALSE
