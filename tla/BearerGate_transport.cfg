SPECIFICATION Spec
CONSTANTS
  Tasks = {t1}
  Users = {alice, bob}
  Transports = {x1}
  Clients = {c1, c2}
  AppClient = c1
  Broker = FALSE
  Jwks <- MCJwks
  Scopes = {"openid"}
  AllowedScopes = {"openid", "profile", "email", "aws.cognito.signin.user.admin"}
  Paths <- MCPaths
  LowerCase <- MCLowerCase
  AccessTTL = 2
  Leeway = 1
  Skew = 1
  Absent = Absent
  NoClaims = NoClaims
  NoToken = NoToken
  NoTransport = NoTransport
  Idle = Idle
  MaxTime = 3
  MaxRestarts = 1
  MaxTokens = 3
SYMMETRY Symmetry
INVARIANTS
  ToolsActForTheRequest
