\* An INTERNAL_URL without the path of ISSUER_URL.
SPECIFICATION Spec
CONSTANTS
  Names = {"public", "svc"}
  None = None
  Inner <- MCInner
  Origins <- MCOrigins
  Typed <- MCTyped
  Internals <- MCBareInternal
INVARIANTS
  PathIsIssuers
