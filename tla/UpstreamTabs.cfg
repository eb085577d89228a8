\* Two browsers, two callbacks at once, key rotation, a restart; an upstream that ignores PKCE.
SPECIFICATION Spec
SYMMETRY Symmetry
CONSTANTS
  Visits = {v1, v2}
  Browsers = {b1, b2}
  Testers = {t1}
  Admitted = {t1}
  None = None
  NoKid = NoKid
  NamedKeys = TRUE
  ChecksPkce = FALSE
  DiscoveryRetry = 1
  Leeway = 0
  TokenLife = 1
  LoginTtl = 1
  SessionTtl = 1
  MaxNow = 1
  MaxBoots = 1
  MaxKeys = 2
  MaxStarted = 2
INVARIANTS
  SessionIsOwnLogin
  TabsKeepTheirLogin
  CallbackFindsDiscovery
  RefusedKeysAreWithdrawn
PROPERTIES
  SessionsFollowLifecycle
CHECK_DEADLOCK FALSE
