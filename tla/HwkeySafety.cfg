\* One client slot used by both kinds of client, every kind of request and failure.
SPECIFICATION Spec
CONSTANTS
  Chan = {c1}
  Port = port_h
  NoHandle = nohandle
  NoMsg = nomsg
  ShortMsg = shortmsg
  NoUuid = nouuid
  ss_uuid = ss
  hwcrypto_unittest_uuid = ut
  Uuid = {ss, ut}
  HWKEY_MAX_PAYLOAD_SIZE = 2
  GetPayloads <- OddNames
  DerivePayloads <- AnyIkms
  OtherPayloads <- Unknown
  WITH_HWCRYPTO_UNITTEST = TRUE
  MaxPending = 2
  Faults = {"port_create", "accept", "poll_error", "wait_any", "caam"}
INVARIANTS TypeOK BuffersClean ReplyMatchesRequest
CHECK_DEADLOCK FALSE
