SPECIFICATION FairSpec
CONSTANTS
  n1 = n1
  n2 = n2
  c1 = c1
  c2 = c2
  Nodes = {n1, n2}
  Clients = {c1}
  Ops = {"cancel", "intervene", "delete"}
  Origins = {"run", "intervention", "task_rerun"}
  Brokers = {"up", "down"}
  Flushes = {TRUE, FALSE}
  Faults = {"raise", "soft", "hard"}
PROPERTY EventuallySettled
CHECK_DEADLOCK FALSE
