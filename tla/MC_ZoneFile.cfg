SPECIFICATION ZoneSpec
CONSTANTS
  Lines <- MC_Lines
  Lower <- MC_Lower
  DummyHash <- MC_DummyHash
  MaxLines = 4
  Bad = Bad
  Nil = Nil
CHECK_DEADLOCK FALSE
INVARIANTS ParseIsFaithful ZoneNameIsCommonSuffix DumpAnswersAlike
