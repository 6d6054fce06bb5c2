\* A client is owed more than one reply holds.
SPECIFICATION FairSpec
CONSTANTS
  Chan = {c1}
  Port = port_h
  NoHandle = nohandle
  NoMsg = nomsg
  BadMsg = badmsg
  MAX_HWRNG_MSG_SIZE = 2
  SizeMod = 8
  ReqLens = {3}
  MaxOwed = 3
  Faults = {}
PROPERTIES RequestServed
