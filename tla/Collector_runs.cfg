\* Three runs, of two inverters, with every kind of command line.
SPECIFICATION FairSpec
CONSTANTS
  DefaultDirectory = "/default"
  NoAddress = ""
  Dashed <- TestDashed
  DebugOf <- TestDebugOf
  PathOf <- TestPathOf
  CommandLines <- TestCommandLines
  Inverters <- TwoInverters
  NameOf <- TestNameOf
  Polls <- TestPolls
  Foreign <- TestForeign
  MaxRuns = 3
INVARIANTS
  TypeOK
  RowsInPlace
  RowsAsTold
  RowsAligned
  NoneReadsZero
  DirectoriesInOrder
  RowsHaveDirectories
PROPERTIES
  EndsOrHangs
