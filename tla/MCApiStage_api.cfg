SPECIFICATION Spec
CONSTANTS
  a = a
  b = b
  x = x
  Resources = {a, b}
  HighRisk = {}
  NonMutating = {b}
  Names = {x}
  MaxChains = 3
  Scenarios <- MCScenarios
INVARIANTS TypeOK CallsAreBounded Accounted RequestsAreAllowed ChainsCleanUp
