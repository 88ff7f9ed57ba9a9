\* Every property, every list of one or two sites.
SPECIFICATION Spec
CONSTANTS
  DEVICE_ID = "cxx.default"
  DEVICE_VERSION = "1.0.0"
  QDMI_VERSION = "1.0.0"
  SiteLists <- MCSiteLists
  NONE = NONE
INVARIANTS
  TypeOK
  FetchAsAnnounced
  FidelityOfOperands
