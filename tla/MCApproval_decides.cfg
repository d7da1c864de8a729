SPECIFICATION FairSpec
CONSTANTS
  r1 = r1
  r2 = r2
  c1 = c1
  c2 = c2
  c3 = c3
  Requests = {r1}
  Clients = {c1, c2}
  Acts = {"answer", "cancel", "delete"}
  Locals = {TRUE, FALSE}
  Policies = {"safe_with_auth", "write_allowed"}
PROPERTY EventuallyDecided
CHECK_DEADLOCK FALSE
