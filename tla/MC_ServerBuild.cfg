SPECIFICATION Spec
CONSTANTS
  n1 = n1
  n2 = n2
  n3 = n3
  Zone = {n1, n2, n3}
  Absent = {}
  RecordsOf <- MC_RecordsOf
  Records <- MC_Records
  NumSlots = 2
  Discs = {0, 63}
  MAX_REHASH_RETRIES = 2
  MAX_BUCKET_SALT_ATTEMPTS = 2
  BUCKET_BYTES = 60
  BYTE_BITS = 4
  DISC_BITS = 6
  COEFF_BITS = 5
  Rdata <- MC_Rdata
  MAX_ENTRIES_PER_BUCKET = 255
  SlotHashes <- MC_SlotHashes
  DiscHashes <- MC_DiscHashes
  None = None
CHECK_DEADLOCK FALSE
INVARIANTS TypeOK PresentNamesOwnRecords NoSaltSkipped ServedBytesDecode
PROPERTIES BuildTerminates ServesTheZone
