CONSTANTS
  Notifiers = {n1}
  Devices = {d1, d2}
  MinWidgetInterval = 2
  PollIntervals = {0}
  MaxTime = 4
  MaxClaims = 3
SPECIFICATION Spec
INVARIANTS DevicePushesApart
CHECK_DEADLOCK FALSE
