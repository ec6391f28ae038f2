CONSTANTS
  Second = 2
  Hour = 3
  Capacity = 2
  None = None
  MaxTime = 5
  MaxGathered = 4
SPECIFICATION Spec
INVARIANTS TypeOK MemoryAnswers SQLiteAnswers LatestIsNewest
PROPERTIES AnswersOnlyGrow
CHECK_DEADLOCK FALSE
