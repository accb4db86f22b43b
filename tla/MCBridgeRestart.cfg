SPECIFICATION FairSpec
CONSTANTS
  NDevices = 1
  NAddresses = 1
  DeviceOf <- OneToOne
  Mode <- CommandOnly
  Refreshable = TRUE
  InitialObs <- Off
  Inputs <- MCInputs
  MaxLosses = 1
  MaxMessages = 1
  MaxChanges = 0
  MaxTroubles = 1
  MaxRuns = 2
INVARIANTS
  GracefulCloseIsOffline
  NoReplay
PROPERTIES
  WillReportsCrash
  StopEnds
  Settles
