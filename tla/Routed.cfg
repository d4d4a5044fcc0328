SPECIFICATION Spec
CONSTANTS
  c1 = c1
  c2 = c2
  NoTopic = NoTopic
  Row = "{i}"
  RowTokens = {"1"}
  Advisory <- MCAdvisory
  Clients <- MCClients
  InboxOf <- MCInboxOf
  RouteIds = {1, 2}
  Workloads <- AllWorkloads
  MaxRoutes = 2
  MaxStale = 2
VIEW RouterState
SYMMETRY Symmetry
INVARIANTS
  TreeConsistent
  PartialQueryComplete
  ListenerReachable
  RowsReachTemplate
PROPERTIES
  ImplementsTable
  RequestNeverDropped
  DisconnectAdvised
