CONSTANTS
  a1 = a1
  p1 = p1
  p2 = p2
  p3 = p3
  d1 = d1
  d2 = d2
  None = None
  Apps = {a1}
  Built = {a1}
  Requests = {p1, p2}
  Rows = {d1, d2}
  Ops = {"deploy", "list", "get", "start", "stop", "restart", "delete", "restore"}
SPECIFICATION Spec
SYMMETRY Interchangeable
INVARIANTS
  TypeOK
  ActiveRowOwned
  DeployingExplained
PROPERTY HistoryRefined
