\* A relay, and the one that is started when it has ended.
SPECIFICATION FairSpec
CONSTANTS
  MaxRelays = 2
  MaxRequests = 2
  MaxAnswers = 2
  MaxPending = 1
INVARIANTS
  RelayHeard
  ClosedOnlyIfOverlapped
  EndsHaveACause
PROPERTIES
  RequestAnswered
\* No relay need be started after the last.
CHECK_DEADLOCK FALSE
