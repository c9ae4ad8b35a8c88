\* A buffer of three bytes; the link may close or break.
SPECIFICATION FairSpec
CONSTANTS
  Byte <- Bits
  BUFSIZ = 3
  MaxQueue = 4
  PeerMayClose = TRUE
INVARIANTS
  TypeOK
PROPERTIES
  ImplementsFifo
  ByteOrExitWhileUp
