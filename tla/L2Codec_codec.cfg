\* Requests and awkward packets, with one byte damaged or none.
SPECIFICATION FairSpec
CONSTANTS
  Packets <- TestPackets
  MaxContent = 33
  Fcs <- tryfcs16
  Damages <- TestDamages
INVARIANTS
  TypeOK
  ReadsBack
  Delimited
  FitsLengthByte
  DamageDetected
PROPERTIES
  LoopsAdvance
  Terminates
