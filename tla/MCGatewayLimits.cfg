SPECIFICATION Spec
CONSTANTS
  r1 = r1
  r2 = r2
  m1 = m1
  m2 = m2
  m3 = m3
  p1 = p1
  p2 = p2
  Requests <- MCRequests
  Models <- MCModels
  Providers <- MCProviders
  ProviderOf <- MCProviderOf
  Price <- MCPrice
  Plans <- LimitPlans
  Modes = {"plan", "stream"}
  Owner <- MCOwner
  Allowed <- MCAllowed
  Limits <- MCLimits
  Statuses = {200, 500}
  BrokenBodies = TRUE
  MaxTokens = 1
  StoreFaults = FALSE
  Atomic = TRUE
  Threshold = 2
  Cooldown = 1
  MaxReports = 9
  MaxTime = 0
SYMMETRY Symmetry
PROPERTY ImplementsGate
