CONSTANTS
  RuleSets <- OneRuleSets
  Metrics = {"mem_percent"}
  Observations <- MCObservations
  Missing = Missing
  Services = {"nginx"}
  Steps <- MCSteps
  Never = Never
  Unknown = Unknown
  MaxSamples = 4
  MaxPatches = 2
SPECIFICATION Spec
INVARIANTS TypeOK AlertsFollowSamples Episodes OutagesAnnounced
CHECK_DEADLOCK FALSE
