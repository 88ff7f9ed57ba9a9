\* Two qubits: four basis states, up to three shots.
SPECIFICATION Spec
CONSTANTS
  NumQubits = 2
  Outputs = {1, 2}
  Amplitudes <- MCAmplitudes
  ShotCounts = {0, 1, 3}
  NONE = NONE
INVARIANTS
  TypeOK
  WrittenAsAnnounced
  ShotsReadBack
  HistogramCountsShots
  SparseVectorIsDense
PROPERTIES
  SizeDecides
