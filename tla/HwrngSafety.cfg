\* Two clients, requests above one reply, a size_t that wraps.
SPECIFICATION Spec
CONSTANTS
  Chan = {c1, c2}
  Port = port_h
  NoHandle = nohandle
  NoMsg = nomsg
  BadMsg = badmsg
  MAX_HWRNG_MSG_SIZE = 2
  SizeMod = 4
  ReqLens = {0, 1, 3}
  MaxOwed = 5
  Faults = {"accept", "ctx_setup"}
SYMMETRY Symmetry
INVARIANTS TypeOK ListSound NoLostWakeup
PROPERTIES DropsOnlyForCause ImplementsService
