\* Several days of runs, one of which may be disturbed.
SPECIFICATION Spec
CONSTANTS
  MaxDay = 3
  MaxRuns = 4
  Columns <- TwoColumns
  Readings <- FullOrPartial
  Absent = Absent
  MaxFaults = 1
INVARIANTS
  TypeOK
  LatestMirrorsDated
  OldIsPreviousDay
  HeaderFirst
  LatestWithinDated
PROPERTIES
  DatedOnlyGrow
