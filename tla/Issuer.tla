------------------------------- MODULE Issuer -------------------------------
(***************************************************************************)
(* The tokens this provider signs (token.rs): how the claims of a token    *)
(* are put together, and which tokens verify.                              *)
(***************************************************************************)
EXTENDS Store

CONSTANTS
    DefaultClaims,      \* the DEFAULT_CLAIMS setting
    AccessTtl, IdTtl,
    U64                 \* 2^64, scaled down: `exp` is computed in a u64

ASSUME IssuerAssumption ==
    /\ DefaultClaims \in Claims
    /\ U64 \in Nat \ {0}
    /\ AccessTtl \in 0 .. U64 - 1 /\ IdTtl \in 0 .. U64 - 1
    \* A setting holds no token that random_token is still to draw.
    /\ DefaultClaims["sid"] \notin Nat

PROTECTED == {"exp", "iat", "jti"}

\* User-supplied claims win over the base claims.
MergeClaims(base, user) ==
    [k \in ClaimName |-> IF k \notin PROTECTED /\ user[k] # None THEN user[k] ELSE base[k]]

BaseClaims(client) == [NoClaims EXCEPT !["sub"] = client, !["azp"] = client]

\* The claims both tokens of one issue share; p = [client, claims, sid, expiresIn, withId].
CommonClaims(p) ==
    LET merged == MergeClaims(MergeClaims(BaseClaims(p.client), DefaultClaims), p.claims)
    IN  [merged EXCEPT !["iat"] = now, !["sid"] = IF p.sid # None THEN p.sid ELSE @]

Sign(typ, claims) == [typ |-> typ, key |-> SigningKey, claims |-> claims]

\* The sum of two u64s wraps at most once.
Expiry(ttl) == IF now + ttl < U64 THEN now + ttl ELSE now + ttl - U64

\* Mutant of Token: the lifetime agreed at the login is not asked for.
Token_Configured(p, typ, ttl, jti) ==
    Sign(typ, [CommonClaims(p) EXCEPT !["exp"] = Expiry(ttl), !["jti"] = jti])

Token(p, typ, ttl, jti) ==
    Sign(typ, [CommonClaims(p) EXCEPT
                 !["exp"] = Expiry(IF p.expiresIn # None THEN p.expiresIn ELSE ttl),
                 !["jti"] = jti])

\* Mutant of Issue: both tokens get the same jti.
Issue_SharedJti(p, drawn) ==
    {Token(p, "at+jwt", AccessTtl, drawn + 1)}
        \cup (IF p.withId THEN {Token(p, "JWT", IdTtl, drawn + 1)} ELSE {})

\* The token set of one grant: an access token and, if asked for, an ID token.
\* Their jtis are the draws that follow `drawn`.
Issue(p, drawn) ==
    {Token(p, "at+jwt", AccessTtl, drawn + 1)}
        \cup (IF p.withId THEN {Token(p, "JWT", IdTtl, drawn + 2)} ELSE {})

VerifyAllowExpired(jwt) == jwt.key = SigningKey
Verify(jwt) == VerifyAllowExpired(jwt) /\ jwt.claims["exp"] > now
============================================================================
