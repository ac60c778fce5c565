SPECIFICATION FairSpec
CONSTANTS
  Streams <- MCStreams
  Lengths <- MCLengths
  MaxRead = 2
PROPERTY TriedAgainLater
