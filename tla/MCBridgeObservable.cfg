SPECIFICATION Spec
CONSTANTS
  NDevices = 2
  NAddresses = 1
  DeviceOf <- OneToOne
  Mode <- Observable
  Refreshable = FALSE
  InitialObs <- MaybeNo
  Inputs <- AllInputs
  MaxLosses = 1
  MaxMessages = 1
  MaxChanges = 0
  MaxTroubles = 1
  MaxRuns = 2
INVARIANTS
  OnlineIsCurrent
  ObservationsAreMirrored
