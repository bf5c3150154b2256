SPECIFICATION Spec
CONSTANTS
  c1 = c1
  c2 = c2
  c3 = c3
  Callers = {c1, c2, c3}
  NoCaller = NoCaller
  PgRels <- MCPg
  MongoRels <- MCMongo
  Stated <- MCStated
  Size <- MCSize
  Budget <- MCBudget
  PageBytes = 4
  Granted <- MCGranted
  MaxPages = 2
  Policies <- MCPolicies
  Queries <- MCQueries
  Capacity = 1
  MaxQueued = 1
  CatalogTtl = 2
  ReadyTtl = 1
  MaxTime = 2
  MaxSessions = 1
  MaxProbes = 2
  MaxOps = 3
  MaxChanges = 1
INVARIANTS DiscoveryBounded SlotsInv HealthFresh
SYMMETRY Symmetry
CHECK_DEADLOCK FALSE
