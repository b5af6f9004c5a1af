\* One transfer, whatever is declared and sent, with two requests that wait.
SPECIFICATION FairSpec
CONSTANTS
  t1 = t1 c1 = c1 c2 = c2 p1 = p1 p2 = p2 None = None Other = Other
  Transfers <- OneTransfer
  Clients <- TwoClients
  Paths <- TwoPaths
  Declarations <- AllDeclarations
  MaxTransfers = 1
  MaxReceipts = 2
  MaxBytes = 2
INVARIANTS AnswersAreTrue
PROPERTIES LaterChangesSurvive PermitsComeBack
CHECK_DEADLOCK FALSE

