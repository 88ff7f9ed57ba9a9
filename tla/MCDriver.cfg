\* Two clients with four devices and a job between them.
SPECIFICATION FairSpec
CONSTANTS
  Clients = {c1, c2}
  Devices = {d1, d2, d3, d4}
  Jobs = {j1}
  NULL = NULL
  Handles = {"h1", "h2"}
  Prefixes = {"CXX", "MY"}
  Ids = {"a", "b"}
  Configs <- MCConfigs
  Exports <- MCExports
  Errors = {"FATAL", "NOTSUPPORTED"}
INVARIANTS
  TypeOK
  LoadedWhileUsed
  OneInitialization
  DevicesOwned
  SessionsComplete
  DistinctIds
  JobsOnWritableSessions
PROPERTIES
  KeepsPromise
  CallsReturn
