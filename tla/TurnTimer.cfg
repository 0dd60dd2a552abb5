\* Two turns of one second; what happens between two turns happens between any.
SPECIFICATION FairSpec
CONSTANTS
  Limit = 1
  MaxTurns = 2
INVARIANTS
  TypeOK
  SkippedOnlyByTimers
  OneStrayWrite
PROPERTIES
  TimersEnd
  TurnGoesOn
\* No turn need come after the last.
CHECK_DEADLOCK FALSE
