SPECIFICATION Spec
CONSTANTS
  MaxSaves = 3
  MaxFaults = 3
INVARIANTS
  NeverTorn
  NoLeftovers
  NoRollback
PROPERTIES
  Implements
