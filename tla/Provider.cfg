SPECIFICATION FairSpec
CONSTANTS
  Model <- MCModel
  Names <- MCNames
  Registrations <- MCRegistrations
  FirstValues <- MCFirstValues
  Settable <- MCSettable
  Staged <- MCStaged
  CountOf <- MCCountOf
  IdsOf <- MCIdsOf
  Clients = {"c"}
  Calls <- MCCalls
  MaxCalls = 2
  MaxFailures = 1
INVARIANTS ReadsTellTruth RegisteredAnswers
PROPERTIES BothOrNeither CallReturns
CHECK_DEADLOCK FALSE
