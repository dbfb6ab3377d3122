SPECIFICATION FairSpec
CONSTANTS
  Capacity = 1
  SlowCycles = FALSE
  MaxQueue = 2
  MaxIdle = 2
  None = None
  RearmSoc = 1
  Presses = {0, 1, None}
  Ids = {1, 3, Fraction, Text}
  Fraction = Fraction
  Text = Text
INVARIANT ConsumedIsCounted
CHECK_DEADLOCK TRUE
