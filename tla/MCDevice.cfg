\* Any caller: two jobs of one session, program lists of up to two programs,
\* a shot count no vector holds.
SPECIFICATION Spec
CONSTANTS
  Sessions = {s1}
  Jobs = {j1, j2}
  NULL = NULL
  Payloads <- MCPayloads
  Formats <- MCFormats
  MaxPrograms = 2
  MaxShots = 2
  MaxVector = 1
  SubmitsBeforeWait = FALSE
SYMMETRY JobSymmetry
INVARIANTS
  TypeOK
  ResultsMatchPrograms
  FormatKnownWithPrograms
PROPERTIES
  FailedCallChangesNothing
  SubmittedJobFrozen
