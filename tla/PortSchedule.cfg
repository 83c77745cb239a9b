SPECIFICATION ScheduleSpec
CONSTANTS
  Layers = 3
  Connected = 2
  Width = 2
  SectorCycles = 2
  RechargeCycles = 3
  SectorsPerRow = 2
  Job = {1, 2, 3, 4}
INVARIANTS
  PortInv
  NoConflict
  NoIdlePort
  BoundsAreSafe
  CriticalPathWhenPortsSuffice
PROPERTIES
  StartsInOrder
