\* Fourteen devices, programs of a gate, a failure of any one device call.
SPECIFICATION ToolSpec
CONSTANTS
  Devices <- MCDevices
  Programs <- MCPrograms
  Codes = {"SUCCESS", "WARN_GENERAL", "INVALIDARGUMENT", "FATAL"}
  Registers <- MCRegisters
  QNames = {"q", "cq"}
  NULL = NULL
INVARIANTS
  TypeOK
  MapNamesOperations
  PairsMakeUpTheList
  SimultaneousRelabelling
  GatesOnCoupledSites
  PlainRegisterResized
