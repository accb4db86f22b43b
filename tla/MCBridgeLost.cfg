SPECIFICATION Spec
CONSTANTS
  NDevices = 1
  NAddresses = 1
  DeviceOf <- OneToOne
  Mode <- CommandOnly
  Refreshable = TRUE
  InitialObs <- Off
  Inputs <- BirthOnly
  MaxLosses = 1
  MaxMessages = 0
  MaxChanges = 0
  MaxTroubles = 1
  MaxRuns = 1
INVARIANTS
  LostConnectionIsRetried
