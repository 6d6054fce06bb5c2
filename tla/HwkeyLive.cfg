\* Two clients at once that may send a second request before they take a reply.
SPECIFICATION FairSpec
CONSTANTS
  Chan = {c1, c2}
  Port = port_h
  NoHandle = nohandle
  NoMsg = nomsg
  ShortMsg = shortmsg
  NoUuid = nouuid
  ss_uuid = ss
  hwcrypto_unittest_uuid = ut
  Uuid = {ss, ut}
  HWKEY_MAX_PAYLOAD_SIZE = 2
  GetPayloads <- OneName
  DerivePayloads <- NoPayloads
  OtherPayloads <- Unknown
  WITH_HWCRYPTO_UNITTEST = TRUE
  MaxPending = 2
  Faults = {"accept", "wait_any"}
PROPERTIES DropsOnlyForCause AnsweredOrClosed ImplementsKeyService
CHECK_DEADLOCK FALSE
