CONSTANTS
  Callers = {c1, c2}
  Certs <- OneCert
  Hosts <- MCHosts
  Changes <- MCChanges
  TTL = 2
  Setback = 1
  None = None
  MaxCalls = 3
  MaxChanges = 1
  MaxFailures = 1
  MaxTime = 3
SYMMETRY CallersAreAlike
SPECIFICATION Spec
INVARIANTS TypeOK
PROPERTIES PassWasSeen RefreshIsFresh CachedIsRecent
CHECK_DEADLOCK FALSE
