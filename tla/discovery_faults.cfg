\* Everything that can go wrong does: padding on, hot re-plugging, file faults.
SPECIFICATION Spec
CONSTANTS
  NSlots = 2
  Ports = {1, 2}
  Serials = {pA, pB, pC}
  NoPack = NoPack
  SimPack = SimPack
  FailThreshold = 3
  FailCap = 3
  Simulate = TRUE
  Hotplug = TRUE
  MappingFaults = TRUE
SYMMETRY PackSymmetry
INVARIANTS
  TypeOK
  MappingInjective
  PresenceTracksFailures
  PresentHasData
  
