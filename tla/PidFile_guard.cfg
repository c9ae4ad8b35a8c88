\* Starts do not overlap; kills at any point; one process id may be taken by
\* another program.
SPECIFICATION FairSpec
CONSTANTS
  Pids = {p1, p2, p3}
  Absent = Absent
  Blank = Blank
  OverlappingStarts = FALSE
  ForeignPids = {p3}
  KillablePoints <- AllPoints
  MaxKills = 2
INVARIANTS
  TypeOK
  MutualExclusion
  WorkerRecorded
PROPERTIES
  KeepsCollectingOtherwise
