\* The shipped program when the mapping file cannot be read once.
SPECIFICATION Spec
CONSTANTS
  NSlots = 2
  Ports = {1, 2, 3}
  Serials = {pA, pB, pC}
  NoPack = NoPack
  SimPack = SimPack
  FailThreshold = 3
  FailCap = 3
  Simulate = FALSE
  Hotplug = FALSE
  MappingFaults = TRUE
PROPERTY
  NeverReassigned
