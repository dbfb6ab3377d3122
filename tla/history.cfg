\* Kills, reboots, failed reads and writes and clock changes together.
SPECIFICATION Spec
CONSTANTS
  Absent = Absent
  Capacity = 2
  Currents <- BankCurrents
  MaxCurrent = 2
  FullSoc = 2
  RearmSoc = 1
  MaxDt = 2
  SaveInterval = 2
  Leaps <- ClockSteps
  MaxTime = 5
  MaxLeaps = 1
  FileFaults = TRUE
INVARIANTS
  TypeOK
  CyclesNotInvented
  NoCycleLost
  ChargeNotInvented
  LossBounded
PROPERTY
  LifetimeCountersKept
