\* Two faults of the inverter, any number of unasked packets, a link that may
\* break.
SPECIFICATION FairSpec
CONSTANTS
  NQ <- TableNQ
  RCtrl <- TableRCtrl
  ReachOf <- TableReachOf
  FullLen <- TableFullLen
  ShortLens <- TableShortLens
  Models <- TableModels
  NoModel = 0
  Lookup <- TableLookup
  DeviceCodes <- AnyCodes
  LinkMayFail = TRUE
  MaxFaults = 2
  MaxUnderWay = 1
INVARIANTS
  TypeOK
  Complete
PROPERTIES
  ImplementsPoll
  PollAdvances
  Finishes
  Delivers
