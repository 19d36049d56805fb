SPECIFICATION Spec
CONSTANTS
  Clients = {c1, c2}
  MaxVersion = 2
  Pieces <- MC_Pieces
  MaxFaults = 2
  None = None
  Hole = Hole
PROPERTY CacheHeals
INVARIANT QuietFileIsLastSave
