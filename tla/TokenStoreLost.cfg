CONSTANTS
  Tokens = {t1, t2}
  Environments = {production}
  Labels = {NoLabel}
  NoLabel = NoLabel
  Unregistered = Unregistered
  Writers = {h1, h2}
  Handlers = {h1, h2}
  Publishers = {}
  Files = {f1, f2, f3, f4}
  NoFile = NoFile
  MaxOps = 2
SPECIFICATION Spec
INVARIANTS PersistsEveryToken
CHECK_DEADLOCK FALSE
