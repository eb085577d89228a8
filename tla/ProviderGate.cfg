\* Strict mode behind the gate: two configured clients, one that registers, two testers.
SPECIFICATION Spec
CONSTANTS
  c1 = c1
  c2 = c2
  alice = alice
  bob = bob
  frank = frank
  t1 = t1
  t2 = t2
  u1 = u1
  u2 = u2
  v1 = v1
  s1 = s1
  None = None
  NotString = NotString
  Clients = {c1, c2}
  Subs = {alice}
  Testers = {bob, frank}
  Tags = {t1, t2}
  Uris = {u1}
  Verifiers = {v1}
  Secrets = {s1}
  ConfiguredClients <- MCBothConfigured
  Strict = TRUE
  StableKey = FALSE
  GateOn = TRUE
  UpstreamClaim = "upstream"
  PendingTtl = 1
  CodeTtl = 1
  RefreshTtl = 2
  AccessTtl = 1
  IdTtl = 1
  U64 = 1000
  MaxNow = 1
  MaxBoots = 1
  MaxMinted = 8
  MaxLogins = 1
  MaxPending = 0
  MaxRegistered = 1
  MaxServiceTokens = 1
  DefaultClaims <- MCDefaults
  TypedClaims <- MCOdd
  TypedExpiresIn <- MCNone
  UpstreamIdentity <- MCIdentity
  AdminOn = TRUE
  OverrideClaims <- MCPretend
  Requests <- MCEitherProof
  Usernames = {alice}
  PasswordScopes <- MCOffline
INVARIANTS
  TokenMatchesLogin
  GatedLoginsAttributed
  StrictCodesBound
