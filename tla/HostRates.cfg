CONSTANTS
  Interfaces = {eth, wg}
  Pids = {p, q}
  None = None
  TopN = 1
  SampleInterval = 1
  MaxEvents = 4
  MaxPolls = 3
SPECIFICATION RatesSpec
INVARIANTS RatesTypeOK
PROPERTIES CPUIsTheBusyShare NetIsOfTheFirstLink TicksReportedOnce
CHECK_DEADLOCK FALSE
