SPECIFICATION Spec
CONSTANTS
  NDevices = 2
  NAddresses = 2
  DeviceOf <- OneToOne
  Mode <- CommandOnly
  Refreshable = TRUE
  InitialObs <- Off
  Inputs <- MCInputs
  MaxLosses = 2
  MaxMessages = 1
  MaxChanges = 1
  MaxTroubles = 2
  MaxRuns = 1
INVARIANTS
  SubscribedWhenIdle
  CacheMatchesBroker
  RetainedMirrorsBackend
