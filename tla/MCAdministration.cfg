SPECIFICATION AdministrationSpec
CONSTANTS
  e1 = e1
  e2 = e2
  k1 = k1
  l1 = l1
  l2 = l2
  u1 = u1
  u2 = u2
  h1 = h1
  h2 = h2
  ProviderIds = {"seed", "other"}
  ModelIds = {"model1", "model2"}
  LimitIds = {l1, l2}
  Admins = {"admin"}
  Upstreams = {"gpt"}
  Routes = {"seed/gpt", "other/gpt"}
  DefaultRoute <- MCDefaultRoute
  People = {"person"}
  DirectTypes = {"openai", "anthropic"}
  SeedProvider = "seed"
  SeedType = "openai"
  SeedModel = "model1"
  SeedUpstream = "gpt"
  None = None
  MaxOps = 3
  Exports = {e1, e2}
  Empty = Empty
  KeyIds = {k1}
  Owners = {u1, u2}
  Handlers = {h1, h2}
  Nobody = Nobody
  MaxSecrets = 3
SYMMETRY Symmetry
CHECK_DEADLOCK FALSE
INVARIANT NoStaleSecrets
INVARIANT ModelsComeWithProviders
INVARIANT OneSigner
INVARIANT RevocationHolds
PROPERTY DeletionTakesItsLimits
