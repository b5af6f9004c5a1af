\* Three calls of two processes, two files, three edits, a failure, a killed process.
SPECIFICATION Spec
CONSTANTS
  c1 = c1 c2 = c2 part = part dimensions = dimensions None = None
  Clients <- TwoClients
  Names <- TwoNames
  Main = part
  MaxOps = 3
  MaxEdits = 3
  MaxFaults = 1
  MaxKills = 1
INVARIANTS RevisionsAreSound AnswersAreKept
PROPERTIES HeadAdvances
CHECK_DEADLOCK FALSE
SYMMETRY Symmetry
