SPECIFICATION ScheduleSpec
CONSTANTS
  Layers = 2
  Connected = 2
  Width = 2
  SectorCycles = 2
  RechargeCycles = 3
  SectorsPerRow = 3
  Job = {1, 2, 3, 4}
INVARIANTS
  BoundsAreSafe
