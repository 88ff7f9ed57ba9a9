\* Two clients on one device library, two devices between them, a job.
SPECIFICATION SysFairSpec
CONSTANTS
  Clients = {c1, c2}
  Devices = {d1, d2}
  Jobs = {j1}
  NULL = NULL
  Handles = {"h1", "h2"}
  Prefixes = {"CXX", "MY"}
  Ids = {"a", "b"}
  Configs <- MCConfigs
  Exports <- MCExports
  Errors = {"FATAL", "INVALIDARGUMENT", "BADSTATE", "NOTSUPPORTED", "OUTOFRANGE",
            "PERMISSIONDENIED", "OUTOFMEM", "undefined"}
  CXX <- MCCxx
  MY <- MCMy
  Payloads <- MCPayloads
  Formats = {"QASM2"}
  MaxPrograms = 1
  MaxShots = 0
  MaxVector = 1
  SubmitsBeforeWait = FALSE
INVARIANTS
  DeviceCallsAllowed
  HandlesAgree
  OpenSessionsUsable
PROPERTIES
  SysCallsReturn
  PolledJobEnds
