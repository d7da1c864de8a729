SPECIFICATION Spec
CONSTANTS
  r1 = r1
  r2 = r2
  Requests = {r1, r2}
  Payloads <- MCPayloads
  Docs <- MCDocs
  Page <- MCPage
  Answered <- MCAnswered
  TTL = 0
  MaxTime = 1
  MaxEvents = 1
  MaxRequests = 2
SYMMETRY MCSymmetry
INVARIANTS TypeOK RunsStartProven LoginsAreRight
CHECK_DEADLOCK FALSE
