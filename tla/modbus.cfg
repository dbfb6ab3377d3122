SPECIFICATION FairSpec
CONSTANTS
  Counts <- MCCounts
  Held = 3
  MaxCalls = 6
  None = None
INVARIANTS
  TypeOK
  RightRegister
  ReadingShowsLife
PROPERTY ReadEnds
CHECK_DEADLOCK FALSE
