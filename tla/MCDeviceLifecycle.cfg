\* Callers that submit before they wait: two sessions, two jobs.
SPECIFICATION Spec
CONSTANTS
  Sessions = {s1, s2}
  Jobs = {j1, j2}
  NULL = NULL
  Payloads <- MCOneText
  Formats <- MCTextFormats
  MaxPrograms = 2
  MaxShots = 1
  MaxVector = 1
  SubmitsBeforeWait = TRUE
INVARIANTS
  DoneHasResults
  NoUndefinedRead
  SubmitKnowsQubits
  OfflineIsQuiet
PROPERTIES
  ImplementsLifecycle
