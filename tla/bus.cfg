SPECIFICATION FairSpec
CONSTANTS
  Paths <- MCPaths
  Redetect = "/Redetect"
  Unknown = Unknown
  Default <- MCDefault
  Scans <- MCScans
  Presses = {0, 1}
  MaxCalls = 2
  MaxWire = 1
INVARIANTS
  TypeOK
  MirrorExact
  WholeBank
PROPERTY MirrorCatchesUp
