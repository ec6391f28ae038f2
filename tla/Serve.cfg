CONSTANTS
  Setters = {s1, s2}
  Intervals = {0, 5, 300}
  WakeCap = 1
SPECIFICATION FairServeSpec
INVARIANTS ServeTypeOK NoLostWakeup PauseBound StoreOutlivesUsers
PROPERTIES KeepsCollecting SignalEndsServe HandlersReturn
CHECK_DEADLOCK FALSE
