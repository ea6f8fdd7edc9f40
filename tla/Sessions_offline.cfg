SPECIFICATION SSpec
CONSTANTS
  Tasks = {t1}
  Transports = {x1}
  Users = {alice, bob}
  Clients = {c1}
  Scopes = {"offline_access"}
  ScopeParams <- ScopeSets
  AllowedScopes = {"openid", "profile", "email", "aws.cognito.signin.user.admin"}
  Paths <- TwoPaths
  LowerCase <- SameCase
  AccessTTL = 1
  Leeway = 1
  Absent = Absent
  NoClaims = NoClaims
  NoToken = NoToken
  NoJwt = NoJwt
  NoTransport = NoTransport
  Idle = Idle
  MaxTime = 3
  MaxRestarts = 1
  MaxTokens = 3
  Tokens = {r1, r2, r3}
  Families = {f1, f2}
  NoRecord = NoRecord
  NoFamily = NoFamily
  RefreshTTL = 2
  NotYet = NotYet
SYMMETRY Symmetry
INVARIANTS
  ToolsRunOnGrantedTokens
  ToolsActForALogin
  EndedSessionsFade
  OpenSessionsCanRefresh
