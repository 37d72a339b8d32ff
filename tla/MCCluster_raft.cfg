SPECIFICATION Spec
CONSTANTS
  Node = {n1, n2, n3}
  None = None
  MaxTerm = 2
  MaxElections = 3
  MaxLog = 1
  MaxBeats = 1
SYMMETRY NodeSymmetry
CHECK_DEADLOCK FALSE
INVARIANTS OneVotePerTerm OneWinnerPerBallot AppliedInLog
PROPERTIES TermFixedInOffice
