\* A burst of five packets, as playGame sends them at once to a table of two,
\* through a kernel that takes two.
SPECIFICATION FairSpec
CONSTANTS
  SndFrames = 2
  MaxSends = 5
INVARIANTS
  TypeOK
  PacketsArriveWhole
  NeverOlder
  LastGoesOut
  SpoiltAfterShort
PROPERTIES
  EverythingArrives
\* The sender need send nothing more.
CHECK_DEADLOCK FALSE
