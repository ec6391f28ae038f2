CONSTANTS
  Writers = {h1, h2}
  Files = {f1, f2, f3, f4}
  NoFile = NoFile
  Requests = {0, 2, 60}
  MinPollInterval = 5
  DefaultPollInterval = 300
  Overrides = {Absent, 30}
  RuleSets = {NoRules, r1}
  NoRules = NoRules
  Installed = Installed
  Absent = Absent
  MaxOps = 3
SPECIFICATION Spec
INVARIANTS TypeOK RestartKeepsSettings
PROPERTIES ImplementsSettings
CHECK_DEADLOCK FALSE
