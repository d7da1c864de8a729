SPECIFICATION Spec
CONSTANTS
  s1 = s1
  c1 = c1
  c2 = c2
  Secrets = {s1}
  Clients = {c1, c2}
  Texts <- MCTexts
  Models <- MCModels
  IntakeSteps <- MCSteps
  Required = {"target"}
  Intakes <- MCIntakes
  MaxMessages = 5
  MaxRequests = 4
  MaxRuns = 2
SYMMETRY MCSymmetry
INVARIANTS TypeOK RowAgrees RunsAreWanted TurnsServeTheUser
CHECK_DEADLOCK FALSE
