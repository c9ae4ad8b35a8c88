\* Three messages, two packets under way, two disturbances and one other packet.
SPECIFICATION FairSpec
CONSTANTS
  NMessages = 3
  Payload <- ShortPayload
  Addresses <- SomeAddresses
  Cuts = {5}
  MaxContent = 6
  MaxUnderWay = 2
  Junk <- SomeJunk
  HeaderJunk <- SomeHeaderJunk
  MaxFaults = 2
  MaxChatter = 1
INVARIANTS
  TypeOK
  DamageIsLocal
  AnswerIsFresh
PROPERTIES
  ImplementsDelivery
  ReadOrExit
