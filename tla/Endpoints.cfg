\* Three origins, every way through proxies, every combination of the settings.
SPECIFICATION Spec
CONSTANTS
  Names = {"public", "svc"}
  None = None
  Inner <- MCInner
  Origins <- MCOrigins
  Typed <- MCTyped
  Internals <- MCInternals
INVARIANTS
  TypeOK
  BackendIsReachable
  PartiesAgreeOnIssuer
  TokensWorkAtEveryHost
