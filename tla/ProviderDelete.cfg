\* A code is outstanding when the admin deletes its subject.
SPECIFICATION Spec
CONSTANTS
  c1 = c1
  c2 = c2
  alice = alice
  bob = bob
  frank = frank
  t1 = t1
  t2 = t2
  u1 = u1
  u2 = u2
  v1 = v1
  s1 = s1
  None = None
  NotString = NotString
  Clients = {c1}
  Subs = {alice}
  Testers = {}
  Tags = {t1, t2}
  Uris = {u1}
  Verifiers = {v1}
  Secrets = {s1}
  ConfiguredClients = {}
  Strict = FALSE
  StableKey = FALSE
  GateOn = FALSE
  UpstreamClaim = None
  PendingTtl = 1
  CodeTtl = 1
  RefreshTtl = 2
  AccessTtl = 1
  IdTtl = 1
  U64 = 1000
  MaxNow = 2
  MaxBoots = 0
  MaxMinted = 8
  MaxLogins = 2
  MaxPending = 0
  MaxRegistered = 0
  MaxServiceTokens = 0
  DefaultClaims <- MCNoDefaults
  TypedClaims <- MCPlain
  TypedExpiresIn <- MCNone
  UpstreamIdentity <- MCIdentity
  AdminOn = TRUE
  OverrideClaims = {}
  Requests <- MCOnlineLogin
  Usernames = {alice}
  PasswordScopes = {}
PROPERTIES
  DeleteLogsOutEverywhere
