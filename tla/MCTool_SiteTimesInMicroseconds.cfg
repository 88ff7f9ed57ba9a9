\* Devices of every unit, milliseconds and nanoseconds among them.
SPECIFICATION ToolSpec
CONSTANTS
  Devices <- MCDevices
  Programs <- MCPrograms
  Codes = {"SUCCESS", "WARN_GENERAL", "INVALIDARGUMENT", "FATAL"}
  Registers <- MCRegisters
  QNames = {"q", "cq"}
  NULL = NULL
INVARIANT
  SiteTimesInMicroseconds
