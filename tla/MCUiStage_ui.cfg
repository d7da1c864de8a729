SPECIFICATION Spec
CONSTANTS
  Refs <- MCRefs
  Runs = {r1}
  MaxCases = 6
  MaxItems = 4
  Scenarios <- MCScenarios
  Elements <- MCElements
  Parts <- MCParts
  Broken <- MCBroken
  Lands <- MCLands
  Leads <- MCLeads
  Enters <- MCEnters
  LoginScripts <- MCLoginScripts
  ModelCases <- MCModelCases
  MaxFaults = 1
  MaxRounds = 1
INVARIANTS TypeOK CasesArePrepared CommandsAreMeant ResultsAreTrue
PROPERTIES StageEnds
