CONSTANTS
  Writers = {h1, h2}
  Files = {f1, f2, f3, f4}
  NoFile = NoFile
  Requests = {0, 2, 60}
  MinPollInterval = 5
  DefaultPollInterval = 300
  Overrides = {Absent}
  RuleSets = {NoRules, r1}
  NoRules = NoRules
  Installed = Installed
  Absent = Absent
  MaxOps = 2
SPECIFICATION Spec
INVARIANTS SavesKeepOtherKeys
CHECK_DEADLOCK FALSE
