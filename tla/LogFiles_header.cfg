\* Two runs of a day, one of which may be killed, with full or partial polls.
SPECIFICATION Spec
CONSTANTS
  MaxDay = 1
  MaxRuns = 2
  Columns <- TwoColumns
  Readings <- FullOrPartial
  Absent = Absent
  MaxFaults = 1
INVARIANTS
  LatestDescribed
