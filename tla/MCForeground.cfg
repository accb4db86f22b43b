SPECIFICATION FairSpec
CONSTANTS
  Numbers = {n1, n2}
  MaxSignals = 2
  MaxChanges = 2
INVARIANTS
  Released
  StatusTellsTruth
PROPERTIES
  NoOtherFileRead
  StopIsHonoured
