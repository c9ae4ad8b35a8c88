\* The inverter closes the connection or the link breaks.
SPECIFICATION FairSpec
CONSTANTS
  Byte <- Bits
  BUFSIZ = 3
  MaxQueue = 4
  PeerMayClose = TRUE
PROPERTIES
  ByteOrExit
