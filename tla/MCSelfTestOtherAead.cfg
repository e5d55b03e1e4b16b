CONSTANTS
  SRTP_AES_GCM_128 = SRTP_AES_GCM_128
  SRTP_AES_GCM_256 = SRTP_AES_GCM_256
  SRTP_AES_ICM_128 = SRTP_AES_ICM_128
  OTHER_AEAD_ID = OTHER_AEAD_ID
  K1 = K1  IV1 = IV1  A1 = A1  P1 = P1  P2 = P2  RP = RP  RK = RK  RIV = RIV
  Garbage = Garbage  Zeros = Zeros  NoKey = NoKey  NoIv = NoIv  NoAad = NoAad  NoTag = NoTag
  GcmAlgorithms <- MCGcmAlgorithms
  Plain <- MCPlain
  Suites <- MCSuitesOtherAead
  SelfTestTypes = {}
  UninitSizes = {0, 16}
  RandValues <- MCRandValues
  ByteOrder = "little"
  RandPlain = {RP}
  RandKeys = {RK}
  RandIvs = {RIV}
  NumRandTests = 2
  SELF_TEST_BUF_OCTETS = 128
  MAX_KEY_LEN = 64
  Faulty = FALSE
  Flaky = FALSE
  GetTagReadsLen = FALSE
  Debug = FALSE

SPECIFICATION Spec
CHECK_DEADLOCK FALSE

INVARIANT NoFalseAlarm
