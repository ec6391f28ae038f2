CONSTANTS
  Writers = {h1, p1}
  Tokens = {t1, t2}
  Environments = {production}
  Labels = {NoLabel, ipad}
  NoLabel = NoLabel
  Unregistered = Unregistered
  Handlers = {h1}
  Publishers = {p1}
  Files = {f1, f2, f3}
  NoFile = NoFile
  MaxOps = 4
SPECIFICATION Spec
INVARIANTS FileFollowsMemory AckedSurviveCrash EveryDeviceTried
PROPERTIES ImplementsRegistry
CHECK_DEADLOCK FALSE
