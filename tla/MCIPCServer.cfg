SPECIFICATION Spec
CONSTANTS
  c1 = c1
  c2 = c2
  r1 = r1
  r2 = r2
  e1 = e1
  Conns <- MCConns
  Requests <- MCRequests
  Events <- MCEvents
  MaxConcurrent = 1
  MaxInbox = 1
  Home <- MCHome
  Sends <- MCSends
  Fickle <- MCFickle
  WaitsForClients = TRUE
CHECK_DEADLOCK FALSE
INVARIANTS
  TypeOK
  BooksAreRight
PROPERTIES
  KeepsPromise
