SPECIFICATION Spec
CONSTANTS
  n1 = n1
  n2 = n2
  c1 = c1
  c2 = c2
  Nodes = {n1}
  Clients = {c1, c2}
  Ops = {"cancel", "intervene", "delete"}
  Origins = {"run", "intervention", "task_rerun"}
  Brokers = {"up", "down"}
  Flushes = {TRUE, FALSE}
  Faults = {"raise", "soft", "hard", "crash"}
SYMMETRY Interchangeable
INVARIANTS CancelIsHonoured FailureReachesRow NoRunLeftActive CancelMarkSurvives
PROPERTIES ObservedCancelIsFinal ProgressKeepsCancel
CHECK_DEADLOCK FALSE
