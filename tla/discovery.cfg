\* The shipped program: no padding, ports renumbered only by a reboot, a
\* mapping file that works.  No symmetry, for the liveness properties.
SPECIFICATION FairSpec
CONSTANTS
  NSlots = 2
  Ports = {1, 2, 3}
  Serials = {pA, pB, pC}
  NoPack = NoPack
  SimPack = SimPack
  FailThreshold = 3
  FailCap = 3
  Simulate = FALSE
  Hotplug = FALSE
  MappingFaults = FALSE
INVARIANT
  SeatsMatchFile
PROPERTIES
  NeverReassigned
  ImplementsDirectory
  AnsweringPackRejoins
  SilentPackLeaves
