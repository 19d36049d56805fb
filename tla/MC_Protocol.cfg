SPECIFICATION StreamSpec
CONSTANTS
  BYTE_BITS = 2
  U32 = 2
  U64 = 3
  MAX_FRAME = 12
  Infos <- MC_Infos
  Payloads <- MC_Payloads
  MaxFrames = 2
CHECK_DEADLOCK FALSE
INVARIANT InfoOrError
PROPERTY ImplementsChannel
