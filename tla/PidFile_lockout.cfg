\* One kill, at any point.
SPECIFICATION FairSpec
CONSTANTS
  Pids = {p1, p2, p3}
  Absent = Absent
  Blank = Blank
  OverlappingStarts = FALSE
  ForeignPids <- NoPids
  KillablePoints <- AllPoints
  MaxKills = 1
PROPERTIES
  KeepsCollecting
