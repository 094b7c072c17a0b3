SPECIFICATION Spec
CONSTANTS
  r1 = r1
  r2 = r2
  m1 = m1
  m2 = m2
  m3 = m3
  p1 = p1
  p2 = p2
  Requests <- MCRequests
  Models <- MCModels
  Providers <- MCProviders
  ProviderOf <- MCProviderOf
  Price <- MCPrice
  Plans <- RetryPlans
  Modes = {"plan"}
  Owner <- MCOwner
  Allowed <- MCAllowed
  Limits <- NoLimits
  Statuses = {200, 401, 500}
  BrokenBodies = FALSE
  MaxTokens = 0
  StoreFaults = FALSE
  Atomic = FALSE
  Threshold = 2
  Cooldown = 1
  MaxReports = 9
  MaxTime = 1
SYMMETRY Symmetry
INVARIANT TypeOK
INVARIANT OneRowPerAttempt
INVARIANT FollowsPlan
INVARIANT AnswerIsLedgered
INVARIANT ShieldedOnceOpen
PROPERTY ImplementsHealth
