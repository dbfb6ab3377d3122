SPECIFICATION AcqSpec
CONSTANTS
  Readings <- MCReadings
  Blocks <- MCBlocks
  Jitters <- MCJitters
  Temps <- MCTemps
  Serials <- MCSerials
  Cells = {2500, 3300, 3410, 3650, 32767}
  Voltages = {1100, 1340, 1450, 32767}
  MaxVs = {1450, 1465, 32767}
  MinVs = {1100, 1455, 32767}
  Currents = {0, 300, 500, 32767}
  Socs = {10, 60, 32767}
  FaultWords = {0, 8, 324, 32767}
  SimSerial = SimSerial
  CellCeiling = 3650
  CellFloor = 2500
  TempMin = 0
  TempMax = 50
  SpreadWarn = 100
  SpreadAlarm = 200
  LowWarn = 2400
  LowAlarm = 2200
  HighWarn = 2880
  HighAlarm = 2920
  SocWarn = 15
  SocAlarm = 10
  None = None
INVARIANT BlockIsRead
