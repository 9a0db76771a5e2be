CONSTANTS
  a1 = a1
  p1 = p1
  p2 = p2
  p3 = p3
  d1 = d1
  d2 = d2
  None = None
  Apps = {a1}
  Built = {}
  Requests = {p1, p2}
  Rows = {d1, d2}
  Ops = {"deploy", "delete"}
SPECIFICATION Spec
INVARIANT NoContainerAfterDelete
