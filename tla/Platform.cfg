\* Both SoCs: two processors on i.MX7, one on i.MX6UL.  MEMBASE is 0x9e000000.
SPECIFICATION Spec
CONSTANTS
  SOCS = {"imx7d", "imx6ul"}
  MEMBASE = 632
  MEMSIZE = 8
  KERNEL_LOAD_OFFSET = 0
  PriorRegions <- Prior
  RamChoices <- Ram
  GENTIMER_EXT = TRUE
  Faults = {"map_gic"}
INVARIANTS SealedExactly RegistersReached TimerReset
PROPERTY SealKept
CHECK_DEADLOCK FALSE
