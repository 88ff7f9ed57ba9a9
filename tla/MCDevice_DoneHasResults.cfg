SPECIFICATION Spec
CONSTANTS
  Sessions = {s1}
  Jobs = {j1, j2}
  NULL = NULL
  Payloads <- MCTextPayloads
  Formats <- MCTextFormats
  MaxPrograms = 1
  MaxShots = 1
  MaxVector = 1
  SubmitsBeforeWait = FALSE
INVARIANT
  DoneHasResults
