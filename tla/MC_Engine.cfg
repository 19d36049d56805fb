SPECIFICATION EngineSpec
CONSTANTS
  t = 5
  q = 39889
  Q_FACTOR1 = 353
  Q_FACTOR2 = 113
  LOG2_N = 3
  LOG2_SIMD = 1
  LOG2_B = 8
  GK_DIGITS = 2
  Expand <- MC_Expand
  zeta <- MC_zeta
  Groups <- MC_Groups
  SeedSets = {"FirstSet", "SecondSet"}
  Databases <- MC_Databases
  SK_HWT = 3
  Keys <- MC_Keys
  NoiseChoices = {1}
  Noise <- MC_Noise
  GALOIS_KEY_LOG2_MODULUS = 15
  QUERY_LOG2_MODULUS = 13
  A_LOG2_RESPONSE_Q = 12
  B_LOG2_RESPONSE_Q = 8
  CTXT_PARTS = 9
  MaxSets = 2
  K = 3
  alpha = 1
  SignHalf = 16
  Regs = {x, y}
  Ints <- Ring_Ints
  U64s <- Ring_U64s
  LoopSignHalf = 24
  LoopN = 8
  LoopDigits = 2
  UNROLL_COUNT = 4
  Moduli = {7, 5}
  Gens = {5, 3, 9}
  Lens = {2, 4, 8}
  Scenarios = {"largest", "distinct"}
  Prepared <- Loop_Prepared
  Query <- Loop_Query
  Size = 5
INVARIANTS
  ResiduesRepresent
  StreamLengthExact RoundingIsBounded
  ReplyIsEntry EntriesAreFourierTransform HalvesStayInStep
  SumsFitAWord LoadsInBounds ReplyIsRotatedSum
  PermuteCorrect
PROPERTY Terminates
CHECK_DEADLOCK FALSE
