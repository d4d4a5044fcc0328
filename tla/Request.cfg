SPECIFICATION FairSpec
CONSTANTS
  Callers = {c1, c2}
  Responders = {s1, s2}
  MaxSeq = 2
  Timeouts = TRUE
  Destroys = TRUE
  Reader = Reader
  Router = Router
  Nobody = Nobody
  NoMessage = NoMessage
CHECK_DEADLOCK FALSE
INVARIANTS
  ResponseOwned
  EntryAlive
PROPERTIES
  ImplementsRpc
  RequestReturns
