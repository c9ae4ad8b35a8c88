\* Two starts overlap.
SPECIFICATION Spec
CONSTANTS
  Pids = {p1, p2, p3}
  Absent = Absent
  Blank = Blank
  OverlappingStarts = TRUE
  ForeignPids <- NoPids
  KillablePoints <- NoPoints
  MaxKills = 0
SYMMETRY PidSymmetry
INVARIANTS
  MutualExclusion
