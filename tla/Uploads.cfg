\* One upload at a time, two requests, a native worker in another process.
SPECIFICATION Spec
CONSTANTS
  u1 = u1 w1 = w1 c1 = c1 c2 = c2 Nobody = Nobody Torn = Torn None = None Unlimited = Unlimited
  Dirs <- OneUpload
  WorkDir = w1
  Clients <- TwoClients
  Margin = 1
  WorkSize = 1
  Budgets <- SomeBudgets
  MaxWorks = 1
  MaxUploads = 1
  MaxOps = 2
  ChunkSize = 2
  MaxChunks = 2
  MaxRestarts = 1
INVARIANTS PublishedIsAcknowledged CommitIsFinal HeldIsKept BudgetRespected
  NoCircularWait
CHECK_DEADLOCK FALSE
SYMMETRY Symmetry
