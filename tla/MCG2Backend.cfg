SPECIFICATION Spec
CONSTANTS
  Devices = {d1, d2}
  Commands = {c1, c2}
  Sessions = {s1, s2, s3, s4}
  LocalIds = {l1}
  Lifetime = 3
  Margin = 1
  Freshness = 2
  MaxElapsed = 3
  MaxFaults = 3
  None = None
INVARIANTS
  MemoryIsDurable
  LockoutHasCause
  ExpiryIsEarly
  TokenIsLive
  CommandIsChecked
  RefusedIsRenewed
SYMMETRY Symmetry
PROPERTIES
  Implements
