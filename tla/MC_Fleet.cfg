\* The parameters of the code: N = 2048, SIMD_COUNT = 8, GK_DIGITS = 2.
SPECIFICATION Spec
CONSTANTS
  LOG2_N = 11
  LOG2_SIMD = 3
  GK_DIGITS = 2
  Hashes <- MC_Hashes
CHECK_DEADLOCK FALSE
INVARIANTS EverySlotAddressable CandidateFillsItsShards LoopLengthsEven
PROPERTY StartUpCompletes
