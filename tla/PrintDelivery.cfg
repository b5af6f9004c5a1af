\* Two clients with three requests; a failure, a restart, a new slice.
SPECIFICATION Spec
CONSTANTS
  c1 = c1 c2 = c2 None = None
  Clients <- TwoClients
  MaxOps = 3
  MaxSlices = 1
  MaxFaults = 1
  MaxRestarts = 1
INVARIANTS EvidenceIsTrue AnswersAreTrue StartsAreOnRecord ObservationsAreTrue
CHECK_DEADLOCK FALSE
SYMMETRY Symmetry
