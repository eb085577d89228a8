\* Two testers, one of them admitted, two browsers with a login each, and a restart.
SPECIFICATION GatedSpec
SYMMETRY Symmetry
CONSTANTS
  c1 = c1
  alice = alice
  bob = bob
  frank = frank
  t1 = t1
  u1 = u1
  s1 = s1
  None = None
  NotString = NotString
  NoKid = NoKid
  Clients = {c1}
  Subs = {alice}
  Testers = {bob, frank}
  Admitted = {bob}
  Tags = {t1}
  Uris = {u1}
  Verifiers = {}
  Secrets = {s1}
  ConfiguredClients <- MCClient
  Strict = FALSE
  StableKey = TRUE
  GateOn = TRUE
  UpstreamClaim = "upstream"
  PendingTtl = 1
  CodeTtl = 1
  RefreshTtl = 2
  AccessTtl = 1
  IdTtl = 1
  U64 = 1000
  MaxNow = 1
  MaxBoots = 1
  MaxMinted = 5
  MaxLogins = 1
  MaxPending = 0
  MaxRegistered = 0
  MaxServiceTokens = 0
  DefaultClaims <- MCNoDefaults
  TypedClaims <- MCPretend
  TypedExpiresIn <- MCNone
  UpstreamIdentity <- MCIdentity
  AdminOn = FALSE
  OverrideClaims = {}
  Requests <- MCRequest
  Usernames = {alice}
  PasswordScopes <- MCPassword
  Visits = {v1}
  Browsers = {b1, b2}
  NamedKeys = FALSE
  ChecksPkce = FALSE
  DiscoveryRetry = 1
  Leeway = 0
  TokenLife = 1
  MaxKeys = 1
  LoginTtl = 1
  SessionTtl = 1
  MaxStarted = 2
INVARIANTS
  GatedTypeOK
  TokensNameTheirTester
PROPERTIES
  LoginsPassTheGate
CHECK_DEADLOCK FALSE
