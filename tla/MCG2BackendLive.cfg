SPECIFICATION FairSpec
CONSTANTS
  Devices = {d1}
  Commands = {c1}
  Sessions = {s1, s2, s3, s4}
  LocalIds = {l1}
  Lifetime = 3
  Margin = 1
  Freshness = 1
  MaxElapsed = 3
  MaxFaults = 3
  None = None
PROPERTIES
  Recovers
