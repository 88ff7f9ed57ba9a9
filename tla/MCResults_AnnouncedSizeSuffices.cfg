\* Jobs without shots.
SPECIFICATION Spec
CONSTANTS
  NumQubits = 2
  Outputs = {1, 2}
  Amplitudes <- MCAmplitudes
  ShotCounts = {0, 1, 3}
  NONE = NONE
PROPERTY
  AnnouncedSizeSuffices
