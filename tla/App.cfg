\* Both services on one loop, every call may fail.  The process may end.
SPECIFICATION FairSpec
CONSTANTS
  RngChan = {r1}
  KeyChan = {k1}
  RngPort = rng_port
  KeyPort = key_port
  NoHandle = nohandle
  NoMsg = nomsg
  BadMsg = badmsg
  MAX_HWRNG_MSG_SIZE = 2
  SizeMod = 4
  ReqLens = {1}
  MaxOwed = 2
  ShortMsg = shortmsg
  NoUuid = nouuid
  ss_uuid = ss
  hwcrypto_unittest_uuid = ss
  Uuid = {ss}
  HWKEY_MAX_PAYLOAD_SIZE = 1
  GetPayloads <- Name
  DerivePayloads <- Ikm
  OtherPayloads <- NoPayloads
  WITH_HWCRYPTO_UNITTEST = FALSE
  MaxPending = 1
  Faults = {"port_create", "port_cookie", "accept", "ctx_setup", "poll_error", "wait_any", "caam"}
INVARIANTS NoKeysUnderRng WipedBeforeService
PROPERTIES ConnectAnswered NoStarvation
CHECK_DEADLOCK FALSE
