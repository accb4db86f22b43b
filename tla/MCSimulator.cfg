SPECIFICATION Spec
CONSTANTS
  d1 = d1
  d2 = d2
  g1 = g1
  DeviceIds <- MCDeviceIds
  Synthetic <- MCSynthetic
  Words <- MCWords
  Documents <- MCDocuments
  Packages <- MCPackages
  Credentials <- MCCredentials
  Received <- MCReceived
  Commanded <- MCCommanded
  Others = {text}
  MaxSequence = 2
INVARIANTS
  TypeOK
  LoadedOpens
  TopicsAreDistinct
  ExactTopics
  BuiltAsDocumented
PROPERTIES
  Implements
CHECK_DEADLOCK FALSE
