SPECIFICATION Spec
CONSTANTS
  r1 = r1
  r2 = r2
  c1 = c1
  c2 = c2
  c3 = c3
  Requests = {r1, r2}
  Clients = {c1, c2, c3}
  Acts = {"answer", "cancel", "delete"}
  Locals = {TRUE, FALSE}
  Policies = {"safe_with_auth", "write_allowed"}
SYMMETRY Interchangeable
INVARIANT SoleAnswer
PROPERTIES ImplementsPromise AuditAgrees
CHECK_DEADLOCK FALSE
