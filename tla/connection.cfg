SPECIFICATION FairSpec
CONSTANTS
  Streams <- MCStreams
  Lengths <- MCLengths
  MaxRead = 2
INVARIANTS
  ConnTypeOK
  NothingLeaks
  WireInOrder
  NoLineBehind
  NoLostWakeup
PROPERTIES
  ImplementsLineStream
  ImplementsConnLife
  EveryLineRead
  HandshakeEnds
