\* No client is owed more than one reply holds, every call may fail.
\* The process may end.
SPECIFICATION FairSpec
CONSTANTS
  Chan = {c1, c2}
  Port = port_h
  NoHandle = nohandle
  NoMsg = nomsg
  BadMsg = badmsg
  MAX_HWRNG_MSG_SIZE = 2
  SizeMod = 8
  ReqLens = {1}
  MaxOwed = 2
  Faults = {"port_create", "port_cookie", "accept", "ctx_setup", "poll_error", "wait_any", "caam"}
INVARIANTS DebtExact NeverIdleWithWork
PROPERTIES RequestServed HangupFreed
CHECK_DEADLOCK FALSE
