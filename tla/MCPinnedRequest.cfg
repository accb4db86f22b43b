SPECIFICATION FairSpec
CONSTANTS
  Timeout = 3
  Pieces = 3
INVARIANTS
  TypeOK
  OnlyToThePinned
  Bounded
PROPERTIES
  Implements
  Ends
