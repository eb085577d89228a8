\* Discovery fails, is retried and recovers, also with two fetches at once, and nobody waits
\* for ever.  Sessions have no length: nobody is ever in.
SPECIFICATION FairSpec
CONSTANTS
  Visits = {v1, v2}
  Browsers = {b1}
  Testers = {t1}
  Admitted = {t1}
  None = None
  NoKid = NoKid
  NamedKeys = TRUE
  ChecksPkce = TRUE
  DiscoveryRetry = 2
  Leeway = 0
  TokenLife = 1
  LoginTtl = 1
  SessionTtl = 0
  MaxNow = 0
  MaxBoots = 0
  MaxKeys = 2
  MaxStarted = 2
PROPERTIES
  EveryVisitEnds
  SessionsFollowLifecycle
  OutageIsForgotten
CHECK_DEADLOCK FALSE
