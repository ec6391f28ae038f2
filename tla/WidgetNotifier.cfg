CONSTANTS
  Notifiers = {n1, n2}
  Devices = {d1, d2}
  MinWidgetInterval = 2
  PollIntervals = {0, 3}
  MaxTime = 5
  MaxClaims = 3
SPECIFICATION Spec
INVARIANTS TypeOK SuccessesApart FailureCostsNothing QuietAfterSuccess
SYMMETRY Alike
CHECK_DEADLOCK FALSE
