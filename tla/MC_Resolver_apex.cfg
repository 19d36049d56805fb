SPECIFICATION Spec
CONSTANTS
  a1 = a1
  a2 = a2
  a3 = a3
  Labels <- MC_Labels
  Addrs = {a1, a2, a3}
  Targets <- MC_Targets
  Zones <- MC_Zones
  NsLists <- MC_NsLists
  MAX_HOPS = 3
  None = None
  Err = Err
CHECK_DEADLOCK FALSE
PROPERTIES DelegatesDownward
