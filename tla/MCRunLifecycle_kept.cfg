SPECIFICATION Spec
CONSTANTS
  n1 = n1
  n2 = n2
  c1 = c1
  c2 = c2
  Nodes = {n1}
  Clients = {c1}
  Ops = {"cancel"}
  Origins = {"run"}
  Brokers = {"up"}
  Flushes = {TRUE}
  Faults = {"raise"}
PROPERTY CancelledIsKept
CHECK_DEADLOCK FALSE
