\* The shipped program when a port is renumbered under it.
SPECIFICATION Spec
CONSTANTS
  NSlots = 2
  Ports = {1, 2, 3}
  Serials = {pA, pB, pC}
  NoPack = NoPack
  SimPack = SimPack
  FailThreshold = 3
  FailCap = 3
  Simulate = FALSE
  Hotplug = TRUE
  MappingFaults = FALSE
INVARIANT
  SeatsMatchFile
