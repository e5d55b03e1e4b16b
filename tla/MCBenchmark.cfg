CONSTANTS
  SRTP_AES_GCM_128 = SRTP_AES_GCM_128
  SRTP_AES_GCM_256 = SRTP_AES_GCM_256
  SRTP_AES_ICM_128 = SRTP_AES_ICM_128
  K1 = K1  P1 = P1
  Garbage = Garbage  Zeros = Zeros  NoKey = NoKey  NoIv = NoIv  NoAad = NoAad  NoTag = NoTag
  GcmAlgorithms <- MCGcmAlgorithms
  Plain = {P1}
  Types <- MCTypes
  BenchKey = K1
  BenchData = P1
  OctetsChoices = {0, 16}
  TrialsChoices = {0, 1, 4}
  ElapsedChoices = {0, 1, 3}
  SRTP_MAX_TAG_LEN = 16
  NonceBits = 2
  U64Bits = 20
  CLOCKS_PER_SEC = 1000
  Faulty = FALSE
  Flaky = TRUE
  GetTagReadsLen = TRUE

SPECIFICATION Spec
CHECK_DEADLOCK FALSE

INVARIANT TypeOK
INVARIANT NonceFresh
INVARIANT BufferFreed
INVARIANT SentinelSound
PROPERTY LifecycleSpec
