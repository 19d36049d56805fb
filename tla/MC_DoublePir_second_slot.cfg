SPECIFICATION Spec
CONSTANTS
  LOG2_N = 4
  LOG2_SIMD = 2
  GK_DIGITS = 2
  CTXT_PARTS = 2
  BATCH_COUNT = 2
  MaxRounds = 2
  None = None
  Garbage = Garbage
  Zero = Zero
  Batches <- SecondSlotOnly
  SlotsOf <- BoundarySlots
INVARIANTS
  BatchSlotsAreOptional
CHECK_DEADLOCK FALSE
