SPECIFICATION Spec
CONSTANTS
  Clients = {"openai", "anthropic"}
  Upstreams = {"openai", "anthropic", "bedrock"}
  SomePolicies <- MCPolicies
  UserShapes <- MCUserShapes
  AnswerShapes <- MCAnswerShapes
  Contents <- MCContents
  MaxMessages = 5
  MaxSpecial = 1
CHECK_DEADLOCK FALSE
INVARIANT NothingLost
INVARIANT TurnsFit
INVARIANT SecretsStay
