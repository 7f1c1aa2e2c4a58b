CONSTANTS
  r1 = r1
  r2 = r2
  Requests <- TwoRequests
  Verdicts <- SomeVerdicts
  Labels <- SomeLabels
  Hosts <- SomeHosts
  MaxPurchases = 2
  MaxCalls = 4
  MaxFreeCalls = 3
SPECIFICATION Spec
CHECK_DEADLOCK FALSE
SYMMETRY SomeRequests
INVARIANTS OneRequestPerDecision AttributedToOwn ReportTellsOutcome ReportTellsOperator
