SPECIFICATION Spec
CONSTANTS
  c1 = c1
  c2 = c2
  Clients = {c1, c2}
  MaxBuilds = 2
  MaxSessions <- MC_MaxSessions
  MaxQueries = 2
  None = None
CHECK_DEADLOCK FALSE
INVARIANT ReplyMatchesRequest
PROPERTIES WorkersExit ImplementsService
