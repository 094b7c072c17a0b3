SPECIFICATION Spec
CONSTANTS
  a = a
  b = b
  c = c
  p1 = p1
  p2 = p2
  routeA = routeA
  routeB = routeB
  routeC = routeC
  gpt = gpt
  llama = llama
  Ids <- MCIds
  Providers = {p1, p2}
  Slashed <- MCSlashed
  Bare <- MCBare
  Routes <- MCSlashed
  Catalogs <- MCCatalogs
  Requested = {routeA, gpt}
  MaxEdits = 2
CHECK_DEADLOCK FALSE
INVARIANT TypeOK
INVARIANT DistinctCandidates
INVARIANT WeightsRespected
INVARIANT PlanAsDocumented
INVARIANT FirmFallbacksKept
