SPECIFICATION FairSpec
CHECK_DEADLOCK FALSE
CONSTANTS
  c1 = c1
  c2 = c2
  Calls = {c1, c2}
  Enveloped = {c1}
  MaxTurns = 2
  MaxAttempts <- ConfiguredAttempts
  Concurrency = 2
PROPERTIES
  AnswersBindTheCall
  PausesFenceTheBatch
  RejectionStopsTheBatch
  RunEnds
