\* A device and a simulator, one CA, two keys, one thing per page and one
\* failure.
SPECIFICATION LiveSpec
CONSTANTS
  Tracker = Tracker
  Simulator = Simulator
  Devices <- TrackerAndSimulator
  Simulators <- OneSimulator
  CAs = {ca1}
  NoCA = NoCA
  NoCert = NoCert
  MaxKeys = 2
  PageSize = 1
  MaxFaults = 1
INVARIANTS
  DeviceInvariant
  KeyMatchesCertificate
  NoCertificateLeftBehind
  DeletedForGood
PROPERTIES
  EveryDeviceConnects
CHECK_DEADLOCK FALSE
