SPECIFICATION Spec
CONSTANTS
  Clients = {c1, c2}
  CaseIds = {t1, t2, t3}
  SuiteIds = {s1, s2}
  n1 = n1
  n2 = n2
  n3 = n3
  RunIds <- MCRunIds
  Runs <- MCRuns
  Accepted <- MCAccepted
  UserRows <- MCUserRows
  Texts = {"secret"}
  Generated <- MCGenerated
  MaxListed = 2
  MaxRequests = 4
SYMMETRY Symmetry
CHECK_DEADLOCK FALSE
INVARIANTS TypeOK SecretsStay SuccessorsRunTheCases SuiteRunsAreWhole
