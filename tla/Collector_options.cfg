\* One run, with the options of the usage text among others.
SPECIFICATION Spec
CONSTANTS
  DefaultDirectory = "/default"
  NoAddress = ""
  Dashed <- TestDashed
  DebugOf <- TestDebugOf
  PathOf <- TestPathOf
  CommandLines <- TestCommandLines
  Inverters <- TwoInverters
  NameOf <- TestNameOf
  Polls <- TestPolls
  Foreign <- TestForeign
  MaxRuns = 1
INVARIANTS
  DocumentedOptionsTaken
