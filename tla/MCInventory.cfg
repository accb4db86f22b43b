SPECIFICATION Spec
CONSTANTS
  a = a
  b = b
  c = c
  d = d
  h1 = h1
  h2 = h2
  Invalid = Invalid
  Entries <- MCEntries
  Settings <- MCSettings
  PageSize = 2
  MaxPages = 2
  MaxListed = 4
  MaxChanges = 2
INVARIANTS
  SteadyIsExact
  BoundAsListed
  OneDeviceEach
