SPECIFICATION Spec
CONSTANTS
  Calls = {c1, c2}
  Workers = 1
  MaxPieces = 0
  MaxFaults = 1
  MaxCancels = 0
  Settings <- ClosedChecked
SYMMETRY CallSymmetry
INVARIANTS ForwardedOnlyRecorded LateVerdictUnused RecordsInOrder OnlyGovernedText
CHECK_DEADLOCK FALSE
