--------------------------- MODULE LifecycleProofs ---------------------------
(***************************************************************************)
(* Proofs about how long tokens are good and about the life of a login:    *)
(* tokens live as agreed, only an admin brings one back to life, the       *)
(* provider implements LoginLifecycle, and the sweeper goes unnoticed.     *)
(***************************************************************************)
EXTENDS LoginProofs

----------------------------------------------------------------------------
(* What a token is signed with *)

\* The configured lifetime of a kind of token.
Configured(typ) == IF typ = "JWT" THEN IdTtl ELSE AccessTtl

\* The token ends ttl after it was signed, in a u64.
Ends(t, ttl) ==
    LET end == t.claims["iat"] + ttl
    IN  t.claims["exp"] = IF end < U64 THEN end ELSE end - U64

\* The token was signed now, for the parameters p of an issue, with a jti past `drawn`.
Signed(t, p, drawn) ==
    /\ t.key = SigningKey
    /\ t.claims["iat"] = now
    /\ Ends(t, IF p.expiresIn # None THEN p.expiresIn ELSE Configured(t.typ))
    /\ t.claims["jti"] > drawn
    /\ p.sid # None => t.claims["sid"] = p.sid
    /\ p.sid = None /\ p.claims["sid"] = None => t.claims["sid"] = DefaultClaims["sid"]

\* One token is signed for its parameters.
LEMMA TokenSigned ==
  ASSUME NEW p \in IssueParams, NEW typ \in {"at+jwt", "JWT"}, NEW drawn \in Nat,
         NEW jti \in Nat, jti > drawn, now \in Nat
  PROVE  Signed(Token(p, typ, Configured(typ), jti), p, drawn)
<1> DEFINE ttl == IF p.expiresIn # None THEN p.expiresIn ELSE Configured(typ)
           common == CommonClaims(p)
           exp == Expiry(ttl)
<1>1. /\ common \in Claims
      /\ p.sid # None => common["sid"] = p.sid
      /\ p.sid = None /\ p.claims["sid"] = None => common["sid"] = DefaultClaims["sid"]
      /\ common["iat"] = now
  BY CommonClaimsType
<1>2. Token(p, typ, Configured(typ), jti) =
        [typ |-> typ, key |-> SigningKey,
         claims |-> [common EXCEPT !["exp"] = exp, !["jti"] = jti]]
  BY DEF Token, Sign
<1>3. exp = IF now + ttl < U64 THEN now + ttl ELSE now + ttl - U64
  BY DEF Expiry
<1>0. ttl \in Nat /\ U64 \in Nat
  BY IssuerAssumption DEF IssueParams, Configured
<1> HIDE DEF common, exp
<1> DEFINE claims == [common EXCEPT !["exp"] = exp, !["jti"] = jti]
<1>4. claims["exp"] = exp /\ claims["jti"] = jti /\ claims["iat"] = now
  BY <1>1 DEF Claims, ClaimName
<1>5. claims["sid"] = common["sid"]
  BY <1>1 DEF Claims, ClaimName
<1> HIDE DEF claims, ttl
<1> DEFINE t == [typ |-> typ, key |-> SigningKey, claims |-> claims]
<1>6. t.typ = typ /\ t.key = SigningKey /\ t.claims = claims
  OBVIOUS
<1>7. t = Token(p, typ, Configured(typ), jti)
  BY <1>2 DEF claims
<1> HIDE DEF t
<1>8. Ends(t, ttl)
  <2>1. t.claims["iat"] = now /\ t.claims["exp"] = exp
    BY <1>4, <1>6
  <2> QED
    BY <1>0, <1>3, <2>1 DEF Ends
<1>9. Ends(t, IF p.expiresIn # None THEN p.expiresIn ELSE Configured(t.typ))
  BY <1>6, <1>8 DEF ttl
<1>10. Signed(t, p, drawn)
  BY <1>1, <1>4, <1>5, <1>6, <1>9 DEF Signed
<1> QED
  BY <1>7, <1>10

\* All tokens of an issue are signed for its parameters.
LEMMA IssueSigned ==
  ASSUME NEW p \in IssueParams, NEW drawn \in Nat, now \in Nat, NEW t \in Issue(p, drawn)
  PROVE  Signed(t, p, drawn)
<1>1. \/ t = Token(p, "at+jwt", Configured("at+jwt"), drawn + 1)
      \/ t = Token(p, "JWT", Configured("JWT"), drawn + 2)
  BY DEF Issue, Configured
<1>2. drawn + 1 \in Nat /\ drawn + 2 \in Nat /\ drawn + 1 > drawn /\ drawn + 2 > drawn
  OBVIOUS
<1> QED
  BY <1>1, <1>2, TokenSigned

\* A token of a step that issues some: for a login, or for a client and no login.
Issued(t) ==
    \E p \in IssueParams, drawn \in Nat :
        /\ drawn >= minted /\ t \in Issue(p, drawn)
        /\ \/ p.sid = None /\ p.claims["sid"] = None /\ p.expiresIn = None
           \/ \E l \in logins' : l.sid = p.sid /\ l.expiresIn = p.expiresIn

\* The tokens a user is granted are issued for the login they are granted under.
LEMMA UserTokensIssued ==
  ASSUME NEW g, UserLogin(g), NEW claims \in Claims, NEW withId \in BOOLEAN,
         NEW drawn \in Nat, drawn >= minted, NEW t \in UserTokens(g, claims, withId, drawn),
         NEW l \in logins', l.sid = g.sid, l.expiresIn = g.expiresIn
  PROVE  Issued(t)
<1> DEFINE named == WithUpstreamClaim(claims, g.upstream)
           p == [client |-> g.client, claims |-> named, sid |-> g.sid,
                 expiresIn |-> g.expiresIn, withId |-> withId]
<1>1. named \in Claims
  BY ClaimsExcept, TokenEndpointAssumption DEF WithUpstreamClaim, UserLogin, Value
<1>2. t \in Issue(p, drawn)
  BY DEF UserTokens
<1> HIDE DEF named
<1>3. p \in IssueParams /\ l.sid = p.sid /\ l.expiresIn = p.expiresIn
  BY <1>1 DEF IssueParams, UserLogin
<1> QED
  BY <1>2, <1>3 DEF Issued

\* Every new token is issued by a grant.
LEMMA NextIssued ==
  ASSUME IInv, [Next]_vars, NEW t \in jwts' \ jwts
  PROVE  Issued(t)
<1> USE DEF worldVars, storeVars
<1>0. minted \in Nat /\ minted >= minted
  BY DEF IInv, TypeOK
<1>1. ASSUME NEW who \in GateSessions, LogIn(who) PROVE FALSE
  BY <1>1 DEF LogIn, GetAuthorize, PostAuthorize, PostAsUpstream, IssueCode
<1>2. CASE Grant
  <2>1. PICK client \in KnownIds, secret \in KnownSecrets :
          \/ \E e \in codes, uri \in Uris \cup {None}, verifier \in Verifiers \cup {None} :
               \/ RedeemCode(e, client, secret, uri, verifier)
               \/ WasteCode(e, client, secret, uri, verifier)
          \/ \E e \in refresh : \/ Rotate(e, client, secret)
                                \/ WasteRefresh(e, client, secret)
          \/ \E username \in Usernames, scope \in PasswordScopes :
               Password(client, secret, username, scope.offline, scope.openid)
          \/ ClientCredentials(client, secret)
    BY <1>2 DEF Grant
  <2>2. client \in ClientId
    BY KnownIdsType
  <2>3. ASSUME NEW e \in codes, NEW uri, NEW verifier,
               RedeemCode(e, client, secret, uri, verifier)
        PROVE  Issued(t)
    <3> DEFINE l == LoginOf(e)
    <3>1. /\ UserLogin(l) /\ l \in logins' /\ e.claims \in Claims
      BY <2>3 DEF UserLogin, LoginOf, CodeEntry, AuthRequest, IInv, TypeOK,
                  CredentialMatchesLogin, RedeemCode
    <3>2. t \in UserTokens(l, e.claims, TRUE, minted)
      BY <2>3 DEF RedeemCode
    <3> HIDE DEF l
    <3> QED
      BY <1>0, <3>1, <3>2, UserTokensIssued
  <2>4. ASSUME NEW e \in codes, NEW uri, NEW verifier,
               WasteCode(e, client, secret, uri, verifier)
        PROVE  FALSE
    BY <2>4 DEF WasteCode
  <2>5. ASSUME NEW e \in refresh, Rotate(e, client, secret) PROVE Issued(t)
    <3> DEFINE l == Agreed(e)
    <3>1. /\ UserLogin(e) /\ l \in logins' /\ l.sid = e.sid /\ l.expiresIn = e.expiresIn
      BY <2>5 DEF UserLogin, RefreshEntry, IInv, TypeOK, CredentialMatchesLogin, Agreed, Rotate
    <3>2. RefreshClaims(e) \in Claims
      BY RefreshClaimsType
    <3>3. t \in UserTokens(e, RefreshClaims(e), TRUE, minted)
      BY <2>5 DEF Rotate
    <3> HIDE DEF l
    <3> QED
      BY <1>0, <3>1, <3>2, <3>3, UserTokensIssued
  <2>6. ASSUME NEW e \in refresh, WasteRefresh(e, client, secret) PROVE FALSE
    BY <2>6 DEF WasteRefresh
  <2>7. ASSUME NEW username \in Usernames, NEW scope \in PasswordScopes,
               Password(client, secret, username, scope.offline, scope.openid)
        PROVE  Issued(t)
    <3> DEFINE claims == [NoClaims EXCEPT !["sub"] = username]
               l == [sid |-> minted + 1, client |-> client, claims |-> claims,
                     offline |-> scope.offline, expiresIn |-> None, upstream |-> None]
    <3>1. scope.openid \in BOOLEAN /\ username \in Subs
      BY RequestsAssumption
    <3>2. claims \in Claims
      BY <3>1, NoClaimsType DEF Claims, ClaimName, Value
    <3>3. l \in logins' /\ t \in UserTokens(l, claims, scope.openid, minted + 1)
      BY <2>7 DEF Password
    <3> HIDE DEF claims
    <3>4. UserLogin(l)
      BY <1>0, <2>2 DEF UserLogin
    <3> HIDE DEF l
    <3>5. minted + 1 \in Nat /\ minted + 1 >= minted
      BY <1>0
    <3> QED
      BY <3>1, <3>2, <3>3, <3>4, <3>5, UserTokensIssued
  <2>8. ASSUME ClientCredentials(client, secret) PROVE Issued(t)
    <3> DEFINE claims == [NoClaims EXCEPT !["sub"] = client]
               p == [client |-> client, claims |-> claims, sid |-> None, expiresIn |-> None,
                     withId |-> FALSE]
    <3>1. claims \in Claims /\ claims["sid"] = None
      BY <2>2, NoClaimsType DEF Claims, ClaimName, ClientId, Value, NoClaims
    <3>2. t \in Issue(p, minted)
      BY <2>8 DEF ClientCredentials
    <3> HIDE DEF claims
    <3>3. p \in IssueParams
      BY <2>2, <3>1 DEF IssueParams
    <3> QED
      BY <1>0, <3>1, <3>2, <3>3 DEF Issued
  <2> QED
    BY <2>1, <2>3, <2>4, <2>5, <2>6, <2>7, <2>8
<1>3. CASE End
  BY <1>3 DEF End, RevokeRefresh, RevokeJwt, EndSession
<1>4. CASE Admin
  BY <1>4 DEF Admin, PutSubject, DeleteSubject, EndAdminSession
<1>5. ASSUME NEW uris, NEW public, Register(uris, public) PROVE FALSE
  BY <1>5 DEF Register
<1>6. CASE Tick
  BY <1>6 DEF Tick
<1>7. CASE Sweep
  BY <1>7 DEF Sweep
<1>8. CASE Restart
  BY <1>8 DEF Restart
<1>9. CASE UNCHANGED vars
  BY <1>9 DEF vars
<1> QED
  BY <1>1, <1>2, <1>3, <1>4, <1>5, <1>6, <1>7, <1>8, <1>9 DEF Next, Serve

----------------------------------------------------------------------------
(* Tokens live as agreed *)

\* The token ends as agreed at its login in ls, or as configured if it has none there or
\* nothing was agreed.
Timed(t, ls) ==
    /\ t.claims["iat"] \in Nat
    /\ \E ttl \in 0 .. U64 - 1 :
         /\ Ends(t, ttl)
         /\ \A l \in ls : l.sid = t.claims["sid"] /\ l.expiresIn # None => ttl = l.expiresIn
         /\ (\A l \in ls : l.sid = t.claims["sid"] => l.expiresIn = None)
              => ttl = Configured(t.typ)

\* The invariant behind TokensLiveAsAgreed.
TimeInv ==
    /\ LInv
    /\ \A l \in logins : l.expiresIn \in Askable
    /\ \A t \in jwts : Timed(t, logins)

\* A token just issued ends as agreed.
LEMMA IssuedTimed ==
  ASSUME IInv, LInv', \A l \in logins' : l.expiresIn \in Askable,
         NEW t, Issued(t)
  PROVE  Timed(t, logins')
<1>1. now \in Nat /\ minted \in Nat
  BY DEF IInv, TypeOK
<1>2. PICK p \in IssueParams, drawn \in Nat :
        /\ t \in Issue(p, drawn)
        /\ \/ p.sid = None /\ p.claims["sid"] = None /\ p.expiresIn = None
           \/ \E l \in logins' : l.sid = p.sid /\ l.expiresIn = p.expiresIn
  BY DEF Issued
<1>3. Signed(t, p, drawn)
  BY <1>1, <1>2, IssueSigned
<1>4. \A l \in logins' : l.sid \in Nat /\ l.sid # None
  BY SettingsAssumption DEF LInv, IInv, TypeOK, Login
<1>5. Configured(t.typ) \in 0 .. U64 - 1
  BY IssuerAssumption DEF Configured
<1>6. CASE p.sid = None /\ p.claims["sid"] = None /\ p.expiresIn = None
  <2>1. t.claims["sid"] = DefaultClaims["sid"] /\ Ends(t, Configured(t.typ))
    BY <1>3, <1>6 DEF Signed
  <2>2. \A l \in logins' : l.sid # t.claims["sid"]
    BY <1>4, <2>1, IssuerAssumption
  <2> QED
    BY <1>1, <1>3, <1>5, <2>1, <2>2 DEF Timed, Signed
<1>7. CASE \E l \in logins' : l.sid = p.sid /\ l.expiresIn = p.expiresIn
  <2>1. PICK l \in logins' : l.sid = p.sid /\ l.expiresIn = p.expiresIn
    BY <1>7
  <2>2. t.claims["sid"] = l.sid
    BY <1>3, <1>4, <2>1 DEF Signed
  <2>3. \A m \in logins' : m.sid = t.claims["sid"] => m = l
    BY <2>2 DEF LInv, SidsOfLogins
  <2>4. CASE l.expiresIn = None
    BY <1>1, <1>3, <1>5, <2>1, <2>2, <2>3, <2>4 DEF Timed, Signed
  <2>5. CASE l.expiresIn # None
    <3>1. l.expiresIn \in 0 .. U64 - 1 /\ Ends(t, l.expiresIn)
      BY <1>3, <2>1, <2>5 DEF Signed, Askable
    <3> QED
      BY <1>1, <1>3, <2>2, <2>3, <2>5, <3>1 DEF Timed, Signed
  <2> QED
    BY <2>4, <2>5
<1> QED
  BY <1>2, <1>6, <1>7

\* A later login changes nothing for a token that is already out.
LEMMA TimedStays ==
  ASSUME LInv, LInv', NewLoginsOnly, NEW t \in jwts, Timed(t, logins)
  PROVE  Timed(t, logins')
<1>1. minted \in Nat /\ \A l \in logins : l.sid \in Nat /\ l.sid <= minted
  BY DEF LInv, IInv, TypeOK, Drawn, Login
<1>2. CASE t.claims["sid"] = DefaultClaims["sid"]
  <2>1. \A l \in logins' : l.sid \in Nat /\ l.sid # t.claims["sid"]
    BY <1>2, IssuerAssumption DEF LInv, IInv, TypeOK, Login
  <2> QED
    BY <2>1 DEF Timed, NewLoginsOnly
<1>3. CASE t.claims["sid"] # DefaultClaims["sid"]
  <2>1. PICK l \in logins : l.sid = t.claims["sid"]
    BY <1>3 DEF LInv, TokenMatchesLogin
  <2>2. \A m \in logins' \ logins : m.sid # t.claims["sid"]
    BY <1>1, <2>1 DEF NewLoginsOnly
  <2> QED
    BY <2>2 DEF Timed, NewLoginsOnly
<1> QED
  BY <1>2, <1>3

\* A step keeps what tokens were signed for.
LEMMA NextTimeInv ==
  ASSUME TimeInv, [Next]_vars
  PROVE  TimeInv'
<1>1. IInv /\ LInv /\ LInv' /\ NewLoginsOnly
  BY NextLInv, NextNewLogins DEF TimeInv, LInv
<1>2. \A l \in logins' : l.expiresIn \in Askable
  BY <1>1 DEF TimeInv, NewLoginsOnly
<1>3. ASSUME NEW t \in jwts' PROVE Timed(t, logins')
  <2>1. CASE t \in jwts
    BY <1>1, <2>1, TimedStays DEF TimeInv
  <2>2. CASE t \notin jwts
    BY <1>1, <1>2, <2>2, NextIssued, IssuedTimed
  <2> QED
    BY <2>1, <2>2
<1> QED
  BY <1>1, <1>2, <1>3 DEF TimeInv, Timed, Ends, Configured, Askable

\* A token verifies until the lifetime agreed at its login is over and not a second longer,
\* whatever was typed, however often the login was refreshed, and although the sum that makes
\* `exp` may wrap.
THEOREM LifetimeHolds == Spec => []TokensLiveAsAgreed
<1>1. Init => TimeInv
  <2>1. Init => LInv
    BY InitIInv DEF Init, StoreInit, LInv, TokenMatchesLogin, SidsOfLogins
  <2> QED
    BY <2>1 DEF Init, StoreInit, TimeInv
<1>2. TimeInv /\ [Next]_vars => TimeInv'
  BY NextTimeInv
<1>3. ASSUME TimeInv PROVE TokensLiveAsAgreed
  <2> SUFFICES ASSUME NEW t \in jwts
               PROVE  LET end == t.claims["iat"] + Lifetime(t) IN
                        /\ Verify(t) => now < end
                        /\ VerifyAllowExpired(t) /\ now < end /\ end < U64 => Verify(t)
    BY DEF TokensLiveAsAgreed
  <2>1. /\ now \in Nat /\ t.claims["iat"] \in Nat /\ U64 \in Nat
        /\ \A l \in logins : l.expiresIn \in Askable
    BY <1>3, IssuerAssumption DEF TimeInv, LInv, IInv, TypeOK, Timed
  <2>2. PICK ttl \in 0 .. U64 - 1 :
          /\ Ends(t, ttl)
          /\ \A l \in logins : l.sid = t.claims["sid"] /\ l.expiresIn # None
                                 => ttl = l.expiresIn
          /\ (\A l \in logins : l.sid = t.claims["sid"] => l.expiresIn = None)
               => ttl = Configured(t.typ)
    BY <1>3 DEF TimeInv, Timed
  <2> DEFINE typed == {l.expiresIn : l \in {m \in logins : m.sid = t.claims["sid"]}} \ {None}
  <2>3. typed = {} => ttl = Configured(t.typ)
    BY <2>2
  <2>4. \A x \in typed : x = ttl
    BY <2>2
  <2>5. Lifetime(t) = ttl
    <3>1. Lifetime(t) = IF typed # {} THEN CHOOSE x \in typed : TRUE ELSE Configured(t.typ)
      BY DEF Lifetime, Configured
    <3>2. typed # {} => (CHOOSE x \in typed : TRUE) \in typed
      OBVIOUS
    <3> HIDE DEF typed
    <3> QED
      BY <2>3, <2>4, <3>1, <3>2
  <2> HIDE DEF typed
  <2> QED
    BY <2>1, <2>2, <2>5 DEF Ends, Verify, VerifyAllowExpired
<1> QED
  BY <1>1, <1>2, <1>3, PTL DEF Spec

----------------------------------------------------------------------------
(* Only an admin brings a token back to life *)

\* What is revoked is a token handed out, until that token's own end; no token is signed
\* with a key to come.
MemoryInv ==
    /\ IInv
    /\ \A t \in jwts : t.key <= boots
    /\ \A r \in revokedJti : /\ r.jti <= minted
                             /\ \A t \in jwts : r.jti = t.claims["jti"] => r.exp = t.claims["exp"]

\* A step that is no restart forgets a revoked jti only when it is expired, and remembers
\* only those of tokens handed out.
Remembers ==
    /\ boots' = boots
    /\ \A r \in revokedJti' : \/ r \in revokedJti
                              \/ \E t \in jwts : r = [jti |-> t.claims["jti"],
                                                      exp |-> t.claims["exp"]]
    /\ \A r \in revokedJti \ revokedJti' : r.exp <= now

\* The step lets no time pass, takes no token away and touches no revoked jti.
Plain ==
    /\ now' = now /\ minted' >= minted /\ jwts \subseteq jwts' /\ boots' = boots
    /\ revokedJti' = revokedJti

\* No step turns back time or takes tokens away; a restart forgets what was revoked.
LEMMA NextMemory ==
  ASSUME IInv, [Next]_vars
  PROVE  /\ now' >= now /\ minted' >= minted /\ jwts \subseteq jwts'
         /\ \/ Remembers
            \/ boots' = boots + 1 /\ revokedJti' = {} /\ refresh' = {} /\ UNCHANGED jwts
<1> USE DEF worldVars, storeVars
<1>1. now \in Nat /\ minted \in Nat /\ \A r \in revokedJti : r.exp \in Nat
  BY DEF IInv, TypeOK
<1>2. ASSUME NEW who \in GateSessions, LogIn(who) PROVE Plain
  <2>1. ASSUME NEW req, NEW upstream, GetAuthorize(req, upstream) PROVE Plain
    BY <1>1, <2>1 DEF GetAuthorize, Plain
  <2>2. ASSUME NEW req, NEW claims, NEW expiresIn, NEW upstream,
               IssueCode(req, claims, expiresIn, upstream)
        PROVE  Plain
    BY <1>1, <2>2 DEF IssueCode, Plain
  <2> QED
    BY <1>2, <2>1, <2>2 DEF LogIn, PostAuthorize, PostAsUpstream
<1>3. ASSUME Grant PROVE Plain
  <2>1. ASSUME NEW client, NEW secret, NEW username, NEW offline, NEW openid,
               Password(client, secret, username, offline, openid)
        PROVE  Plain
    BY <1>1, <2>1 DEF Password, Plain
  <2>2. ASSUME NEW e, NEW client, NEW secret, NEW uri, NEW verifier,
               RedeemCode(e, client, secret, uri, verifier)
        PROVE  Plain
    <3>1. minted' = minted + 3 /\ UNCHANGED <<now, boots, revokedJti>>
      BY <2>2 DEF RedeemCode
    <3>2. jwts \subseteq jwts'
      BY <2>2 DEF RedeemCode
    <3> QED
      BY <1>1, <3>1, <3>2 DEF Plain
  <2>3. ASSUME NEW e, NEW client, NEW secret, NEW uri, NEW verifier,
               WasteCode(e, client, secret, uri, verifier)
        PROVE  Plain
    BY <1>1, <2>3 DEF WasteCode, Plain
  <2>4. ASSUME NEW e, NEW client, NEW secret, Rotate(e, client, secret) PROVE Plain
    <3>1. minted' = minted + 3 /\ UNCHANGED <<now, boots, revokedJti>>
      BY <2>4 DEF Rotate
    <3>2. jwts \subseteq jwts'
      BY <2>4 DEF Rotate
    <3> QED
      BY <1>1, <3>1, <3>2 DEF Plain
  <2>5. ASSUME NEW e, NEW client, NEW secret, WasteRefresh(e, client, secret) PROVE Plain
    BY <1>1, <2>5 DEF WasteRefresh, Plain
  <2>6. ASSUME NEW client, NEW secret, ClientCredentials(client, secret) PROVE Plain
    BY <1>1, <2>6 DEF ClientCredentials, Plain
  <2> QED
    BY <1>3, <2>1, <2>2, <2>3, <2>4, <2>5, <2>6 DEF Grant
<1>4. ASSUME End
      PROVE  /\ now' = now /\ minted' = minted /\ jwts' = jwts /\ boots' = boots
             /\ \A r \in revokedJti' : \/ r \in revokedJti
                                       \/ \E t \in jwts : r = [jti |-> t.claims["jti"],
                                                               exp |-> t.claims["exp"]]
             /\ revokedJti \subseteq revokedJti'
  BY <1>4 DEF End, RevokeRefresh, RevokeJwt, EndSession
<1>5. ASSUME Admin PROVE Plain
  BY <1>1, <1>5 DEF Admin, PutSubject, DeleteSubject, EndAdminSession, Plain
<1>6. ASSUME NEW uris, NEW public, Register(uris, public) PROVE Plain
  BY <1>1, <1>6 DEF Register, Plain
<1>7. ASSUME Tick
      PROVE  /\ now' >= now /\ minted' = minted /\ jwts' = jwts /\ boots' = boots
             /\ revokedJti' = revokedJti
  BY <1>1, <1>7 DEF Tick
<1>8. ASSUME Sweep
      PROVE  /\ now' = now /\ minted' = minted /\ jwts' = jwts /\ boots' = boots
             /\ revokedJti' = {r \in revokedJti : r.exp > now}
  BY <1>8 DEF Sweep, UnexpiredJti
<1>9. ASSUME Restart
      PROVE  /\ now' = now /\ minted' = minted /\ jwts' = jwts /\ boots' = boots + 1
             /\ revokedJti' = {} /\ refresh' = {}
  BY <1>9 DEF Restart
<1>10. CASE UNCHANGED vars
  BY <1>1, <1>10 DEF vars, Remembers
<1>11. Plain => Remembers /\ now' >= now
  BY <1>1 DEF Plain, Remembers
<1>12. End => Remembers
  BY <1>4 DEF Remembers
<1>13. Tick \/ Sweep => Remembers
  BY <1>1, <1>7, <1>8 DEF Remembers
<1> QED
  BY <1>1, <1>2, <1>3, <1>4, <1>5, <1>6, <1>7, <1>8, <1>9, <1>10, <1>11, <1>12, <1>13
  DEF Next, Serve, Plain

\* A step keeps the memory of revoked tokens.
LEMMA NextMemoryInv == ASSUME MemoryInv, [Next]_vars PROVE MemoryInv'
<1>1. IInv /\ IInv'
  BY NextIInv DEF MemoryInv
<1>2. /\ now \in Nat /\ minted \in Nat /\ minted' \in Nat /\ boots \in Nat /\ boots' \in Nat
      /\ \A t \in jwts' : t.key \in Nat
      /\ \A r \in revokedJti' : r.jti \in Nat
  BY <1>1 DEF IInv, TypeOK, Jwt
<1>3. /\ now' >= now /\ minted' >= minted /\ jwts \subseteq jwts'
      /\ \/ Remembers
         \/ boots' = boots + 1 /\ revokedJti' = {} /\ refresh' = {} /\ UNCHANGED jwts
  BY <1>1, NextMemory
<1>4. ASSUME NEW t \in jwts' \ jwts
      PROVE  t.key <= boots' /\ t.claims["jti"] > minted
  <2>1. PICK p \in IssueParams, drawn \in Nat : drawn >= minted /\ t \in Issue(p, drawn)
    BY <1>1, <1>4, NextIssued DEF Issued
  <2>2. Signed(t, p, drawn)
    BY <1>2, <2>1, IssueSigned
  <2>3. t.claims["jti"] \in Nat
    BY <1>1, <1>4 DEF IInv, Drawn
  <2>4. SigningKey <= boots /\ boots <= boots'
    BY <1>2, <1>3 DEF SigningKey, Remembers
  <2> QED
    BY <1>2, <2>1, <2>2, <2>3, <2>4 DEF Signed
<1>5. \A t \in jwts : t.key <= boots'
  BY <1>2, <1>3 DEF MemoryInv, Remembers
<1>6. \A t \in jwts : t.claims["jti"] \in Nat /\ t.claims["jti"] <= minted
  BY <1>1, <1>2 DEF IInv, Drawn
<1>7. ASSUME NEW r \in revokedJti'
      PROVE  /\ r.jti <= minted
             /\ \A t \in jwts : r.jti = t.claims["jti"] => r.exp = t.claims["exp"]
  <2>1. CASE r \in revokedJti
    BY <2>1 DEF MemoryInv
  <2>2. CASE r \notin revokedJti
    <3>1. PICK u \in jwts : r.jti = u.claims["jti"] /\ r.exp = u.claims["exp"]
      BY <1>3, <1>7, <2>2 DEF Remembers
    <3> QED
      BY <1>1, <1>6, <3>1 DEF IInv, JtiUnique
  <2> QED
    BY <2>1, <2>2
<1>8. ASSUME NEW r \in revokedJti'
      PROVE  /\ r.jti <= minted'
             /\ \A t \in jwts' : r.jti = t.claims["jti"] => r.exp = t.claims["exp"]
  <2>1. r.jti <= minted'
    BY <1>2, <1>3, <1>7
  <2>2. \A t \in jwts' \ jwts : r.jti # t.claims["jti"]
    <3>1. \A t \in jwts' : t.claims["jti"] \in Nat
      BY <1>1 DEF IInv, Drawn
    <3> QED
      BY <1>2, <1>4, <1>7, <3>1
  <2> QED
    BY <1>7, <2>1, <2>2
<1> QED
  BY <1>1, <1>4, <1>5, <1>8 DEF MemoryInv

\* A token that was inactive becomes active again only if an admin enables its subject, and a
\* revoked one never does: the sweeper forgets a jti no sooner than the token is dead, and a
\* restart changes the key (one loaded from the settings stays: see RevocationIsRemembered).
THEOREM OnlyAdminReactivates == Spec => ReactivatedOnlyByAdmin
<1>1. Init => MemoryInv
  BY InitIInv DEF Init, StoreInit, MemoryInv
<1>2. MemoryInv /\ [Next]_vars => MemoryInv'
  BY NextMemoryInv
<1>3. ASSUME MemoryInv, [Next]_vars
      PROVE  /\ boots' = boots \/ ~StableKey =>
                  \A t \in jwts : ~Active(t) /\ Active(t)'
                      => IsDisabled(SubOf(t.claims)) /\ ~Revoked(t.claims)
             /\ \A e \in refresh \cap refresh' :
                  e.claims["jti"] = None /\ ~RefreshActive(e) /\ RefreshActive(e)'
                  => IsDisabled(SubOf(e.claims)) /\ Live(e)
  <2>1. IInv /\ now \in Nat /\ now' \in Nat /\ boots \in Nat
    BY <1>3, NextIInv DEF MemoryInv, IInv, TypeOK
  <2>2. /\ now' >= now
        /\ \/ Remembers
           \/ boots' = boots + 1 /\ revokedJti' = {} /\ refresh' = {} /\ UNCHANGED jwts
    BY <1>3, <2>1, NextMemory
  <2>3. ASSUME boots' = boots \/ ~StableKey, NEW t \in jwts, ~Active(t), Active(t)'
        PROVE  IsDisabled(SubOf(t.claims)) /\ ~Revoked(t.claims)
    <3>1. /\ t.key = SigningKey' /\ t.claims["exp"] > now'
          /\ ~\E r \in revokedJti' : r.jti = t.claims["jti"]
      BY <2>3 DEF Active, Verify, VerifyAllowExpired, IsBlocked, Revoked
    <3>2. t.key \in Nat /\ t.key <= boots /\ t.claims["exp"] \in Nat
      BY <1>3, <2>1 DEF MemoryInv, IInv, Drawn, TypeOK, Jwt
    <3>3. Remembers /\ boots' = boots
      BY <2>1, <2>2, <2>3, <3>1, <3>2 DEF SigningKey, Remembers
    <3>4. Verify(t)
      BY <2>1, <2>2, <3>1, <3>2, <3>3 DEF Verify, VerifyAllowExpired, SigningKey
    <3>5. ~Revoked(t.claims)
      <4> SUFFICES ASSUME NEW r \in revokedJti, r.jti = t.claims["jti"] PROVE FALSE
        BY DEF Revoked
      <4>1. r.exp = t.claims["exp"] /\ r \notin revokedJti'
        BY <1>3, <3>1 DEF MemoryInv
      <4>2. r.exp <= now
        BY <3>3, <4>1 DEF Remembers
      <4> QED
        BY <2>1, <2>2, <3>1, <3>2, <4>1, <4>2
    <3> QED
      BY <2>3, <3>4, <3>5 DEF Active, IsBlocked
  <2>4. ASSUME NEW e \in refresh \cap refresh', e.claims["jti"] = None,
               ~RefreshActive(e), RefreshActive(e)'
        PROVE  IsDisabled(SubOf(e.claims)) /\ Live(e)
    <3>1. e.expires \in Nat /\ ~(e.expires <= now')
      BY <2>1, <2>4 DEF RefreshActive, Live, IsExpired, IInv, TypeOK, RefreshEntry
    <3>2. Live(e)
      BY <2>1, <2>2, <3>1 DEF Live, IsExpired
    <3>3. ~Revoked(e.claims)
      BY <2>1, <2>4, SettingsAssumption DEF Revoked, IInv, TypeOK
    <3> QED
      BY <2>4, <3>2, <3>3 DEF RefreshActive, IsBlocked
  <2> QED
    BY <2>3, <2>4
<1> QED
  BY <1>1, <1>2, <1>3, PTL DEF Spec, ReactivatedOnlyByAdmin

----------------------------------------------------------------------------
(* The provider implements LoginLifecycle *)

\* The variables of LoginLifecycle, as functions of the provider's.
PhaseBar == [s \in Tokens |-> Phase(s)]
IssuedBar == [s \in Tokens |-> IssuedFor(s)]

\* Is a login with the sid good for a code, is it good for a refresh token, was it made?
HasCode(s) == \E e \in codes : e.sid = s /\ Live(e)
HasRefresh(s) == \E e \in refresh : e.sid = s /\ Live(e)
Made(s) == \E l \in logins : l.sid = s

\* What a phase says, at any state: at most one of the first two holds, and neither before
\* the login is made.
LEMMA PhaseValue ==
  ASSUME NEW code, NEW tokens, NEW made, NEW phase, ~(code /\ tokens), code \/ tokens => made,
         phase = CASE code -> "code"
                   [] tokens -> "tokens"
                   [] OTHER -> IF made THEN "over" ELSE "unused"
  PROVE  /\ phase = "code" <=> code
         /\ phase = "tokens" <=> tokens
         /\ phase = "unused" <=> ~made
         /\ phase \in {"unused", "code", "tokens", "over"}
<1>1. CASE code
  BY <1>1
<1>2. CASE tokens /\ ~code
  BY <1>2
<1>3. CASE ~tokens /\ ~code
  BY <1>3
<1> QED
  BY <1>1, <1>2, <1>3

\* The phase of a login is what its live credential says.
PhaseFits(s) ==
    /\ Phase(s) = "code" <=> HasCode(s)
    /\ Phase(s) = "tokens" <=> HasRefresh(s)
    /\ Phase(s) = "unused" <=> ~Made(s)
    /\ Phase(s) \in {"unused", "code", "tokens", "over"}

\* The credential of a login tells its phase.
LEMMA PhaseNow == ASSUME IInv, NEW s PROVE PhaseFits(s)
<1>1. ~(HasCode(s) /\ HasRefresh(s))
  BY DEF IInv, OneCredentialPerLogin, HasCode, HasRefresh
<1>2. HasCode(s) \/ HasRefresh(s) => Made(s)
  BY DEF IInv, CredentialMatchesLogin, HasCode, HasRefresh, Made, LoginOf, Agreed
<1>3. Phase(s) = CASE HasCode(s) -> "code"
                   [] HasRefresh(s) -> "tokens"
                   [] OTHER -> IF Made(s) THEN "over" ELSE "unused"
  BY DEF Phase, HasCode, HasRefresh, Made, Sessions, Unexpired
<1> QED
  BY <1>1, <1>2, <1>3, PhaseValue DEF PhaseFits

\* The same, after a step.
LEMMA PhaseNext == ASSUME IInv', NEW s PROVE PhaseFits(s)'
<1>1. ~(HasCode(s)' /\ HasRefresh(s)')
  BY DEF IInv, OneCredentialPerLogin, HasCode, HasRefresh
<1>2. HasCode(s)' \/ HasRefresh(s)' => Made(s)'
  BY DEF IInv, CredentialMatchesLogin, HasCode, HasRefresh, Made, LoginOf, Agreed
<1>3. Phase(s)' = CASE HasCode(s)' -> "code"
                    [] HasRefresh(s)' -> "tokens"
                    [] OTHER -> IF Made(s)' THEN "over" ELSE "unused"
  BY DEF Phase, HasCode, HasRefresh, Made, Sessions, Unexpired
<1> QED
  BY <1>1, <1>2, <1>3, PhaseValue DEF PhaseFits

\* A login that gets its code is a Begin of LoginLifecycle.
LEMMA BeginBar ==
  ASSUME NEW s \in Tokens, Phase(s) = "unused", Phase(s)' = "code",
         \A r \in Tokens \ {s} : Phase(r)' = Phase(r),
         \A r \in Tokens : IssuedFor(r)' = IssuedFor(r)
  PROVE  Lifecycle!LifeNext
<1>1. PhaseBar' = [PhaseBar EXCEPT ![s] = "code"] /\ IssuedBar' = IssuedBar
  BY DEF PhaseBar, IssuedBar
<1> QED
  BY <1>1 DEF Lifecycle!LifeNext, Lifecycle!Begin, PhaseBar, IssuedBar

\* The phase a grant leaves its login in: with a refresh token, if it is good for a second.
Granted == IF RefreshTtl # 0 THEN "tokens" ELSE "over"

\* Two new tokens for a login that is not over are an IssueTokens.
LEMMA IssueBar ==
  ASSUME NEW s \in Tokens, Phase(s) # "over", Phase(s)' = Granted,
         \A r \in Tokens \ {s} : Phase(r)' = Phase(r) /\ IssuedFor(r)' = IssuedFor(r),
         NEW a \in Tokens, NEW b \in Tokens, \A r \in Tokens : {a, b} \cap IssuedFor(r) = {},
         IssuedFor(s)' = IssuedFor(s) \cup {a, b}
  PROVE  Lifecycle!LifeNext
<1>1. /\ PhaseBar' = [PhaseBar EXCEPT ![s] = Granted]
      /\ IssuedBar' = [IssuedBar EXCEPT ![s] = @ \cup {a, b}]
  BY DEF PhaseBar, IssuedBar
<1>2. \A r \in Tokens : {a, b} \cap IssuedBar[r] = {}
  BY DEF IssuedBar
<1>3. PhaseBar[s] # "over"
  BY DEF PhaseBar
<1>4. \E x, y \in Tokens : /\ \A r \in Tokens : {x, y} \cap IssuedBar[r] = {}
                           /\ IssuedBar' = [IssuedBar EXCEPT ![s] = @ \cup {x, y}]
  BY <1>1, <1>2
<1>5. Lifecycle!IssueTokens(s)
  BY <1>1, <1>3, <1>4, Zenon DEF Lifecycle!IssueTokens, PhaseBar, IssuedBar, Granted
<1> QED
  BY <1>5, Zenon DEF Lifecycle!LifeNext

\* Logins that end, any number at once, are a Finish.
LEMMA FinishBar ==
  ASSUME \A s \in Tokens : /\ Phase(s)' \in {"unused", "code", "tokens", "over"}
                           /\ Phase(s)' # Phase(s)
                                => Phase(s) \in {"code", "tokens"} /\ Phase(s)' = "over"
                           /\ IssuedFor(s)' = IssuedFor(s)
  PROVE  Lifecycle!LifeNext
<1>1. PhaseBar' \in [Tokens -> Lifecycle!Phases] /\ IssuedBar' = IssuedBar
  BY DEF PhaseBar, IssuedBar, Lifecycle!Phases
<1>2. \A s \in Tokens : PhaseBar'[s] # PhaseBar[s]
                          => PhaseBar[s] \in {"code", "tokens"} /\ PhaseBar'[s] = "over"
  BY DEF PhaseBar
<1> QED
  BY <1>1, <1>2 DEF Lifecycle!LifeNext, Lifecycle!Finish, PhaseBar, IssuedBar

\* No step but a login or a grant to a user does more than end logins.
LEMMA StepFinishes ==
  ASSUME IInv, IInv', codes' \subseteq codes, refresh' \subseteq refresh, now' >= now,
         logins' = logins, jwts \subseteq jwts',
         \A t \in jwts' \ jwts : t.claims["sid"] = DefaultClaims["sid"]
  PROVE  Lifecycle!LifeNext
<1> SUFFICES ASSUME NEW s \in Tokens
             PROVE  /\ Phase(s)' \in {"unused", "code", "tokens", "over"}
                    /\ Phase(s)' # Phase(s)
                         => Phase(s) \in {"code", "tokens"} /\ Phase(s)' = "over"
                    /\ IssuedFor(s)' = IssuedFor(s)
  BY FinishBar
<1>1. PhaseFits(s) /\ PhaseFits(s)'
  BY PhaseNow, PhaseNext
<1>2. now \in Nat /\ now' \in Nat
      /\ \A e \in codes \cup refresh : e.expires \in Nat
  BY DEF IInv, TypeOK, CodeEntry, RefreshEntry
<1>3. (HasCode(s)' => HasCode(s)) /\ (HasRefresh(s)' => HasRefresh(s))
  BY <1>2 DEF HasCode, HasRefresh, Live, IsExpired
<1>4. Made(s)' <=> Made(s)
  BY DEF Made
<1>5. /\ Phase(s)' \in {"unused", "code", "tokens", "over"}
      /\ Phase(s)' # Phase(s) => Phase(s) \in {"code", "tokens"} /\ Phase(s)' = "over"
  BY <1>1, <1>3, <1>4 DEF PhaseFits
<1>6. s # DefaultClaims["sid"]
  BY IssuerAssumption DEF Tokens
<1>7. IssuedFor(s)' = IssuedFor(s)
  BY <1>6 DEF IssuedFor
<1> QED
  BY <1>5, <1>7

\* A login form begins the login of the sid it draws.
LEMMA StepBegins ==
  ASSUME LInv, LInv', NEW req, NEW claims, NEW expiresIn, NEW upstream,
         IssueCode(req, claims, expiresIn, upstream)
  PROVE  Lifecycle!LifeNext
<1>1. IInv /\ IInv' /\ now \in Nat /\ minted \in Nat
  BY DEF LInv, IInv, TypeOK
<1>2. PICK s : s = minted + 2
  OBVIOUS
<1>3. PICK e : /\ e.sid = s /\ LoginOf(e).sid = s /\ ~(e.expires <= now)
               /\ codes' = codes \cup {e} /\ logins' = logins \cup {LoginOf(e)}
               /\ UNCHANGED <<now, refresh, jwts>>
  <2> DEFINE entry == [code |-> minted + 1, req |-> req, claims |-> claims, sid |-> minted + 2,
                       expiresIn |-> expiresIn, upstream |-> upstream,
                       expires |-> now + CodeTtl]
  <2>1. /\ codes' = codes \cup {entry} /\ logins' = logins \cup {LoginOf(entry)}
        /\ UNCHANGED <<now, refresh, jwts>>
    BY DEF IssueCode, worldVars
  <2>2. entry.sid = s /\ LoginOf(entry).sid = s /\ ~(entry.expires <= now)
    BY <1>1, <1>2, SettingsAssumption DEF LoginOf
  <2> QED
    BY <2>1, <2>2
<1>4. s \in Tokens /\ \A l \in logins : l.sid # s
  BY <1>1, <1>2, SettingsAssumption DEF IInv, Drawn, TypeOK, Login, IssueCode, CanMint, Tokens
<1>5. Phase(s) = "unused"
  BY <1>1, <1>4, PhaseNow DEF PhaseFits, Made
<1>6. Phase(s)' = "code"
  <2>1. HasCode(s)'
    BY <1>3 DEF HasCode, Live, IsExpired
  <2> QED
    BY <1>1, <2>1, PhaseNext DEF PhaseFits
<1>7. ASSUME NEW r \in Tokens \ {s} PROVE Phase(r)' = Phase(r)
  <2>1. (HasCode(r)' <=> HasCode(r)) /\ (HasRefresh(r)' <=> HasRefresh(r))
    BY <1>3, <1>7 DEF HasCode, HasRefresh, Live, IsExpired
  <2>2. Made(r)' <=> Made(r)
    BY <1>3, <1>7 DEF Made
  <2>3. PhaseFits(r) /\ PhaseFits(r)'
    BY <1>1, PhaseNow, PhaseNext
  <2> QED
    BY <2>1, <2>2, <2>3 DEF PhaseFits
<1>8. \A r \in Tokens : IssuedFor(r)' = IssuedFor(r)
  BY <1>3 DEF IssuedFor
<1> QED
  BY <1>4, <1>5, <1>6, <1>7, <1>8, BeginBar

\* The jtis of some tokens.
JtisOf(tokens) == {t.claims["jti"] : t \in tokens}

\* A grant to a user that leaves every other login alone issues the tokens of its own.
LEMMA StepIssues ==
  ASSUME IInv, IInv', NEW s \in Tokens, NEW tokens, NEW a \in Tokens, NEW b \in Tokens,
         a > minted, b > minted,
         JtisOf(tokens) = {a, b}, \A t \in tokens : t.claims["sid"] = s,
         now' = now, jwts' = jwts \cup tokens,
         HasCode(s) \/ HasRefresh(s) \/ ~Made(s), Phase(s)' = Granted,
         \A e : e.sid # s => (e \in codes' <=> e \in codes) /\ (e \in refresh' <=> e \in refresh),
         logins \subseteq logins', \A l \in logins' \ logins : l.sid = s
  PROVE  Lifecycle!LifeNext
<1>1. Phase(s) # "over"
  BY PhaseNow DEF PhaseFits
<1>2. ASSUME NEW r \in Tokens \ {s}
      PROVE  Phase(r)' = Phase(r) /\ IssuedFor(r)' = IssuedFor(r)
  <2>1. (HasCode(r)' <=> HasCode(r)) /\ (HasRefresh(r)' <=> HasRefresh(r))
    BY <1>2 DEF HasCode, HasRefresh, Live, IsExpired
  <2>2. Made(r)' <=> Made(r)
    BY <1>2 DEF Made
  <2>3. PhaseFits(r) /\ PhaseFits(r)'
    BY PhaseNow, PhaseNext
  <2>4. IssuedFor(r)' = IssuedFor(r)
    BY <1>2 DEF IssuedFor
  <2> QED
    BY <2>1, <2>2, <2>3, <2>4 DEF PhaseFits
<1>3. \A r \in Tokens : {a, b} \cap IssuedFor(r) = {}
  <2>1. \A t \in jwts : t.claims["jti"] # a /\ t.claims["jti"] # b
    BY DEF IInv, Drawn, TypeOK, Tokens
  <2> QED
    BY <2>1 DEF IssuedFor
<1>4. IssuedFor(s)' = IssuedFor(s) \cup {a, b}
  <2>1. IssuedFor(s)' = IssuedFor(s) \cup JtisOf(tokens)
    BY DEF IssuedFor, JtisOf
  <2> QED
    BY <2>1
<1> QED
  BY <1>1, <1>2, <1>3, <1>4, IssueBar

\* A grant to a user draws one jti or two.
LEMMA UserTokensJtis ==
  ASSUME NEW g, UserLogin(g), NEW claims \in Claims, NEW drawn \in Nat,
         now \in Nat, boots \in Nat
  PROVE  /\ JtisOf(UserTokens(g, claims, TRUE, drawn)) = {drawn + 1, drawn + 2}
         /\ JtisOf(UserTokens(g, claims, FALSE, drawn)) = {drawn + 1}
<1> DEFINE named == WithUpstreamClaim(claims, g.upstream)
           p == [client |-> g.client, claims |-> named, sid |-> g.sid,
                 expiresIn |-> g.expiresIn, withId |-> TRUE]
           q == [client |-> g.client, claims |-> named, sid |-> g.sid,
                 expiresIn |-> g.expiresIn, withId |-> FALSE]
           access == Token(p, "at+jwt", AccessTtl, drawn + 1)
           id == Token(p, "JWT", IdTtl, drawn + 2)
           only == Token(q, "at+jwt", AccessTtl, drawn + 1)
<1>1. named \in Claims
  BY ClaimsExcept, TokenEndpointAssumption DEF WithUpstreamClaim, UserLogin, Value
<1>2. /\ UserTokens(g, claims, TRUE, drawn) = {access, id}
      /\ UserTokens(g, claims, FALSE, drawn) = {only}
  BY DEF UserTokens, Issue
<1> HIDE DEF named
<1>3. p \in IssueParams /\ q \in IssueParams
  BY <1>1 DEF IssueParams, UserLogin
<1> HIDE DEF p, q
<1>4. /\ access.claims["jti"] = drawn + 1 /\ id.claims["jti"] = drawn + 2
      /\ only.claims["jti"] = drawn + 1
  <2>1. AccessTtl \in Nat /\ IdTtl \in Nat /\ drawn + 1 \in Nat /\ drawn + 2 \in Nat
    BY IssuerAssumption
  <2> QED
    BY <1>3, <2>1, TokenType
<1> HIDE DEF access, id, only
<1> QED
  BY <1>2, <1>4 DEF JtisOf

\* Its tokens name the login.
LEMMA UserTokensSid ==
  ASSUME NEW g, UserLogin(g), NEW claims \in Claims, NEW withId \in BOOLEAN,
         NEW drawn \in Nat, now \in Nat, boots \in Nat
  PROVE  \A t \in UserTokens(g, claims, withId, drawn) : t.claims["sid"] = g.sid
BY UserTokensType

\* The refresh token of a grant is all its login is good for, if it is good for anything.
LEMMA NewRefreshGrants ==
  ASSUME IInv', now \in Nat, now' = now, NEW token, NEW g, NewRefresh(token, g) \in refresh'
  PROVE  Phase(g.sid)' = Granted
<1>1. PICK f \in refresh' : f.sid = g.sid /\ f.expires = now + RefreshTtl
  BY DEF NewRefresh
<1>2. ~HasCode(g.sid)' /\ Made(g.sid)'
  BY <1>1 DEF HasCode, Made, IInv, OneCredentialPerLogin, CredentialMatchesLogin, Agreed
<1>3. HasRefresh(g.sid)' <=> RefreshTtl # 0
  <2>1. HasRefresh(g.sid)' <=> ~(f.expires <= now)
    BY <1>1 DEF HasRefresh, Live, IsExpired, IInv, OneCredentialPerLogin
  <2> QED
    BY <1>1, <2>1, SettingsAssumption
<1> QED
  BY <1>2, <1>3, PhaseNext DEF PhaseFits, Granted

\* A code exchange.
LEMMA RedeemImplements ==
  ASSUME IInv, IInv', \A l \in logins : l.sid > 0, NEW e \in codes, NEW client, NEW secret,
         NEW uri, NEW verifier, RedeemCode(e, client, secret, uri, verifier)
  PROVE  Lifecycle!LifeNext
<1>1. now \in Nat /\ boots \in Nat /\ minted \in Nat /\ e \in CodeEntry
  BY DEF IInv, TypeOK
<1>2. PICK g : g = LoginOf(e)
  OBVIOUS
<1>3. g \in logins /\ g.sid = e.sid /\ UserLogin(g) /\ e.claims \in Claims
  BY <1>1, <1>2 DEF UserLogin, LoginOf, CodeEntry, AuthRequest, IInv, CredentialMatchesLogin
<1>4. /\ jwts' = jwts \cup UserTokens(g, e.claims, TRUE, minted)
      /\ codes' = codes \ {e} /\ refresh' = refresh \cup {NewRefresh(minted + 3, g)}
      /\ logins' = logins /\ now' = now /\ Live(e) /\ minted + 3 <= MaxMinted
  BY <1>2 DEF RedeemCode, Redeemable, TakeCode, CanMint, worldVars
<1>5. PICK tokens, a, b :
        /\ tokens = UserTokens(g, e.claims, TRUE, minted) /\ a = minted + 1 /\ b = minted + 2
  OBVIOUS
<1>6. /\ JtisOf(tokens) = {a, b}
      /\ \A t \in tokens : t.claims["sid"] = g.sid
  <2>1. JtisOf(UserTokens(g, e.claims, TRUE, minted)) = {minted + 1, minted + 2}
    BY <1>1, <1>3, UserTokensJtis, Zenon
  <2>2. \A t \in UserTokens(g, e.claims, TRUE, minted) : t.claims["sid"] = g.sid
    BY <1>1, <1>3, UserTokensSid, Zenon
  <2> QED
    BY <1>5, <2>1, <2>2
<1>7. /\ g.sid \in Tokens /\ a \in Tokens /\ b \in Tokens /\ a > minted /\ b > minted
  BY <1>1, <1>3, <1>4, <1>5, SettingsAssumption DEF Tokens, IInv, Drawn, CodeEntry
<1>8. HasCode(g.sid) /\ Phase(g.sid)' = Granted
  BY <1>1, <1>3, <1>4, NewRefreshGrants DEF HasCode
<1>9. NewRefresh(minted + 3, g).sid = g.sid
  BY DEF NewRefresh
<1>10. \A f : f.sid # g.sid
         => (f \in codes' <=> f \in codes) /\ (f \in refresh' <=> f \in refresh)
  BY <1>3, <1>4, <1>9
<1> QED
  BY <1>4, <1>5, <1>6, <1>7, <1>8, <1>10, StepIssues

\* A refresh.
LEMMA RotateImplements ==
  ASSUME IInv, IInv', \A l \in logins : l.sid > 0, NEW e \in refresh, NEW client, NEW secret,
         Rotate(e, client, secret)
  PROVE  Lifecycle!LifeNext
<1>1. now \in Nat /\ boots \in Nat /\ minted \in Nat /\ e \in RefreshEntry
  BY DEF IInv, TypeOK
<1>2. UserLogin(e) /\ e.sid > 0
  BY <1>1 DEF UserLogin, RefreshEntry, IInv, CredentialMatchesLogin, Agreed
<1>3. PICK claims : claims = RefreshClaims(e)
  OBVIOUS
<1>4. claims \in Claims
  BY <1>3, RefreshClaimsType
<1>5. /\ jwts' = jwts \cup UserTokens(e, claims, TRUE, minted)
      /\ codes' = codes /\ refresh' = (refresh \ {e}) \cup {NewRefresh(minted + 3, e)}
      /\ logins' = logins /\ now' = now /\ Live(e) /\ minted + 3 <= MaxMinted
  BY <1>3 DEF Rotate, TakeRefresh, CanMint, worldVars
<1>6. PICK tokens, a, b :
        /\ tokens = UserTokens(e, claims, TRUE, minted) /\ a = minted + 1 /\ b = minted + 2
  OBVIOUS
<1>7. /\ JtisOf(tokens) = {a, b}
      /\ \A t \in tokens : t.claims["sid"] = e.sid
  <2>1. JtisOf(UserTokens(e, claims, TRUE, minted)) = {minted + 1, minted + 2}
    BY <1>1, <1>2, <1>4, UserTokensJtis, Zenon
  <2>2. \A t \in UserTokens(e, claims, TRUE, minted) : t.claims["sid"] = e.sid
    BY <1>1, <1>2, <1>4, UserTokensSid, Zenon
  <2> QED
    BY <1>6, <2>1, <2>2
<1>8. /\ e.sid \in Tokens /\ a \in Tokens /\ b \in Tokens /\ a > minted /\ b > minted
  BY <1>1, <1>2, <1>5, <1>6, SettingsAssumption DEF Tokens, IInv, Drawn, RefreshEntry
<1>9. HasRefresh(e.sid) /\ Phase(e.sid)' = Granted
  BY <1>1, <1>5, NewRefreshGrants DEF HasRefresh
<1>10. NewRefresh(minted + 3, e).sid = e.sid
  BY DEF NewRefresh
<1>11. \A f : f.sid # e.sid
         => (f \in codes' <=> f \in codes) /\ (f \in refresh' <=> f \in refresh)
  BY <1>5, <1>10
<1> QED
  BY <1>5, <1>6, <1>7, <1>8, <1>9, <1>11, StepIssues

\* A login without a browser.
LEMMA PasswordImplements ==
  ASSUME IInv, IInv', NEW client \in ClientId, NEW secret, NEW username \in Subs,
         NEW offline \in BOOLEAN, NEW openid \in BOOLEAN,
         Password(client, secret, username, offline, openid)
  PROVE  Lifecycle!LifeNext
<1>1. now \in Nat /\ boots \in Nat /\ minted \in Nat
  BY DEF IInv, TypeOK
<1>2. PICK claims : claims = [NoClaims EXCEPT !["sub"] = username]
  OBVIOUS
<1>3. claims \in Claims
  BY <1>2, NoClaimsType DEF Claims, ClaimName, Value
<1>4. PICK s, token : s = minted + 1 /\ token = minted + (IF openid THEN 4 ELSE 3)
  OBVIOUS
<1>5. PICK g : g = [sid |-> s, client |-> client, claims |-> claims, offline |-> offline,
                    expiresIn |-> None, upstream |-> None]
  OBVIOUS
<1>6. g.sid = s /\ UserLogin(g)
  BY <1>1, <1>4, <1>5 DEF UserLogin
<1>7. /\ jwts' = jwts \cup UserTokens(g, claims, openid, s)
      /\ codes' = codes /\ refresh' = refresh \cup {NewRefresh(token, g)}
      /\ logins' = logins \cup {g} /\ now' = now /\ token <= MaxMinted
  BY <1>2, <1>4, <1>5 DEF Password, worldVars
<1>8. PICK tokens, a, b : /\ tokens = UserTokens(g, claims, openid, s)
                          /\ a = s + 1 /\ b = IF openid THEN s + 2 ELSE s + 1
  OBVIOUS
<1>9. /\ JtisOf(tokens) = {a, b}
      /\ \A t \in tokens : t.claims["sid"] = s
  <2>1. s \in Nat
    BY <1>1, <1>4
  <2>2. JtisOf(UserTokens(g, claims, openid, s)) = {a, b}
    <3>1. UserLogin(g)
      BY <1>6
    <3>2. /\ JtisOf(UserTokens(g, claims, TRUE, s)) = {s + 1, s + 2}
          /\ JtisOf(UserTokens(g, claims, FALSE, s)) = {s + 1}
      BY <1>1, <1>3, <2>1, <3>1, UserTokensJtis, Zenon
    <3>3. (openid = TRUE => {a, b} = {s + 1, s + 2}) /\ (openid = FALSE => {a, b} = {s + 1})
      BY <1>8
    <3>4. openid = TRUE \/ openid = FALSE
      OBVIOUS
    <3> QED
      BY <3>2, <3>3, <3>4, Zenon
  <2>3. \A t \in UserTokens(g, claims, openid, s) : t.claims["sid"] = s
    <3>1. \A t \in UserTokens(g, claims, openid, s) : t.claims["sid"] = g.sid
      BY <1>1, <1>3, <1>6, <2>1, UserTokensSid
    <3> QED
      BY <1>6, <3>1
  <2> QED
    BY <1>8, <2>2, <2>3
<1>10. s \in Tokens /\ a \in Tokens /\ b \in Tokens /\ a > minted /\ b > minted
  BY <1>1, <1>4, <1>7, <1>8, SettingsAssumption DEF Tokens
<1>11. ~Made(s) /\ Phase(s)' = Granted
  <2>1. ~Made(s)
    BY <1>1, <1>4 DEF Made, IInv, Drawn, TypeOK, Login
  <2> QED
    BY <1>1, <1>6, <1>7, <2>1, NewRefreshGrants
<1>12. NewRefresh(token, g).sid = s
  BY <1>6 DEF NewRefresh
<1>13. \A f : f.sid # s
         => (f \in codes' <=> f \in codes) /\ (f \in refresh' <=> f \in refresh)
  BY <1>7, <1>12
<1>14. logins \subseteq logins' /\ \A l \in logins' \ logins : l.sid = s
  BY <1>6, <1>7
<1> QED
  BY <1>7, <1>8, <1>9, <1>10, <1>11, <1>13, <1>14, StepIssues

\* A step of the provider is one of LoginLifecycle, or none.
LEMMA NextImplements ==
  ASSUME LInv, LInv', \A l \in logins : l.sid > 0, [Next]_vars
  PROVE  Lifecycle!LifeNext
<1> USE DEF worldVars, storeVars
<1>1. IInv /\ IInv' /\ now \in Nat /\ now <= now /\ minted \in Nat
  BY DEF LInv, IInv, TypeOK
<1>2. ASSUME NEW who \in GateSessions, LogIn(who) PROVE Lifecycle!LifeNext
  <2>1. ASSUME NEW req, NEW upstream, GetAuthorize(req, upstream) PROVE Lifecycle!LifeNext
    <3>1. UNCHANGED <<now, codes, refresh, logins, jwts>>
      BY <2>1 DEF GetAuthorize
    <3> QED
      BY <1>1, <3>1, StepFinishes
  <2> QED
    BY <1>2, <2>1, StepBegins DEF LogIn, PostAuthorize, PostAsUpstream
<1>3. CASE Grant
  <2>1. PICK client \in KnownIds, secret \in KnownSecrets :
          \/ \E e \in codes, uri \in Uris \cup {None}, verifier \in Verifiers \cup {None} :
               \/ RedeemCode(e, client, secret, uri, verifier)
               \/ WasteCode(e, client, secret, uri, verifier)
          \/ \E e \in refresh : \/ Rotate(e, client, secret)
                                \/ WasteRefresh(e, client, secret)
          \/ \E username \in Usernames, scope \in PasswordScopes :
               Password(client, secret, username, scope.offline, scope.openid)
          \/ ClientCredentials(client, secret)
    BY <1>3 DEF Grant
  <2>2. client \in ClientId
    BY <1>1, KnownIdsType
  <2>3. ASSUME NEW e \in codes, NEW uri, NEW verifier,
               WasteCode(e, client, secret, uri, verifier)
        PROVE  Lifecycle!LifeNext
    <3>1. codes' \subseteq codes /\ UNCHANGED <<now, refresh, logins, jwts>>
      BY <2>3 DEF WasteCode, TakeCode
    <3> QED
      BY <1>1, <3>1, StepFinishes
  <2>4. ASSUME NEW e \in refresh, WasteRefresh(e, client, secret)
        PROVE  Lifecycle!LifeNext
    <3>1. refresh' \subseteq refresh /\ UNCHANGED <<now, codes, logins, jwts>>
      BY <2>4 DEF WasteRefresh, TakeRefresh
    <3> QED
      BY <1>1, <3>1, StepFinishes
  <2>5. ASSUME NEW username \in Usernames, NEW scope \in PasswordScopes,
               Password(client, secret, username, scope.offline, scope.openid)
        PROVE  Lifecycle!LifeNext
    <3>1. scope.offline \in BOOLEAN /\ scope.openid \in BOOLEAN /\ username \in Subs
      BY RequestsAssumption
    <3> QED
      BY <1>1, <2>2, <2>5, <3>1, PasswordImplements
  <2>6. ASSUME ClientCredentials(client, secret) PROVE Lifecycle!LifeNext
    <3>1. jwts \subseteq jwts' /\ UNCHANGED <<now, codes, refresh, logins>>
      BY <2>6 DEF ClientCredentials
    <3>2. \A t \in jwts' \ jwts : t.claims["sid"] = DefaultClaims["sid"]
      BY <1>1, <2>2, <2>6, ClientCredentialsNoSid
    <3> QED
      BY <1>1, <3>1, <3>2, StepFinishes
  <2> QED
    BY <1>1, <2>1, <2>3, <2>4, <2>5, <2>6, RedeemImplements, RotateImplements
<1>4. CASE End
  <2>1. refresh' \subseteq refresh /\ UNCHANGED <<now, codes, logins, jwts>>
    BY <1>4 DEF End, RevokeRefresh, RevokeJwt, EndSession, RevokeSession
  <2> QED
    BY <1>1, <2>1, StepFinishes
<1>5. CASE Admin
  <2>1. refresh' \subseteq refresh /\ UNCHANGED <<now, codes, logins, jwts>>
    BY <1>5 DEF Admin, PutSubject, DeleteSubject, EndAdminSession, RevokeRefreshFor, RevokeSid
  <2> QED
    BY <1>1, <2>1, StepFinishes
<1>6. ASSUME NEW uris, NEW public, Register(uris, public) PROVE Lifecycle!LifeNext
  <2>1. UNCHANGED <<now, codes, refresh, logins, jwts>>
    BY <1>6 DEF Register
  <2> QED
    BY <1>1, <2>1, StepFinishes
<1>7. CASE Tick
  <2>1. now' >= now /\ UNCHANGED <<codes, refresh, logins, jwts>>
    BY <1>1, <1>7 DEF Tick
  <2> QED
    BY <1>1, <2>1, StepFinishes
<1>8. CASE Sweep
  <2>1. codes' \subseteq codes /\ refresh' \subseteq refresh /\ UNCHANGED <<now, logins, jwts>>
    BY <1>8 DEF Sweep, Unexpired
  <2> QED
    BY <1>1, <2>1, StepFinishes
<1>9. CASE Restart
  <2>1. codes' \subseteq codes /\ refresh' \subseteq refresh /\ UNCHANGED <<now, logins, jwts>>
    BY <1>9 DEF Restart
  <2> QED
    BY <1>1, <2>1, StepFinishes
<1>10. CASE UNCHANGED vars
  <2>1. UNCHANGED <<now, codes, refresh, logins, jwts>>
    BY <1>10 DEF vars
  <2> QED
    BY <1>1, <2>1, StepFinishes
<1> QED
  BY <1>2, <1>3, <1>4, <1>5, <1>6, <1>7, <1>8, <1>9, <1>10 DEF Next, Serve

\* The provider implements LoginLifecycle: a login begins once, has a code or a refresh token
\* and then nothing, for good; its tokens are its own.
THEOREM ProviderImplementsLifecycle == Spec => LoginsFollowLifecycle
<1> DEFINE Inv == LInv /\ \A l \in logins : l.sid > 0
<1>1. Init => Inv /\ Lifecycle!LifeInit
  <2> SUFFICES ASSUME Init PROVE Inv /\ Lifecycle!LifeInit
    OBVIOUS
  <2>1. Inv
    BY InitIInv DEF Init, StoreInit, LInv, TokenMatchesLogin, SidsOfLogins
  <2>2. IInv /\ \A s : ~Made(s)
    BY <2>1 DEF LInv, Init, StoreInit, Made
  <2>3. \A s \in Tokens : Phase(s) = "unused" /\ IssuedFor(s) = {}
    BY <2>2, PhaseNow DEF PhaseFits, IssuedFor, Init, StoreInit
  <2> QED
    BY <2>1, <2>3 DEF Lifecycle!LifeInit
<1>2. Inv /\ [Next]_vars => Inv'
  <2> SUFFICES ASSUME Inv, [Next]_vars PROVE Inv'
    OBVIOUS
  <2>1. LInv' /\ NewLoginsOnly /\ minted \in Nat /\ \A l \in logins' : l.sid \in Nat
    BY NextLInv, NextNewLogins DEF LInv, IInv, TypeOK, Login
  <2> QED
    BY <2>1 DEF NewLoginsOnly
<1>3. Inv /\ Inv' /\ [Next]_vars => [Lifecycle!LifeNext]_Lifecycle!lifeVars
  BY NextImplements
<1> QED
  BY <1>1, <1>2, <1>3, PTL DEF Spec, LoginsFollowLifecycle, Lifecycle!LifeSpec

\* A login that is over gets no credential and no token ever again, whichever of its old codes
\* and refresh tokens are presented, whatever an admin puts and however often the process
\* restarts: what LoginLifecycle promises of one login.
THEOREM OverForGood ==
  Spec => [][\A s \in Tokens : Phase(s) = "over" =>
               Phase(s)' = "over" /\ IssuedFor(s)' = IssuedFor(s)]_vars
<1>1. [Lifecycle!LifeNext]_Lifecycle!lifeVars =>
        [\A s \in Tokens : Phase(s) = "over" =>
           Phase(s)' = "over" /\ IssuedFor(s)' = IssuedFor(s)]_vars
  <2> DEFINE phase == [s \in Tokens |-> Phase(s)]
             issued == [s \in Tokens |-> IssuedFor(s)]
  <2> SUFFICES ASSUME [Lifecycle!LifeNext]_Lifecycle!lifeVars, NEW s \in Tokens, phase[s] = "over"
               PROVE  phase'[s] = phase[s] /\ issued'[s] = issued[s]
    OBVIOUS
  <2>1. CASE UNCHANGED <<phase, issued>>
    BY <2>1
  <2>2. CASE \E r \in Tokens : Lifecycle!Begin(r)
    BY <2>2 DEF Lifecycle!Begin
  <2>3. CASE \E r \in Tokens : Lifecycle!IssueTokens(r)
    BY <2>3 DEF Lifecycle!IssueTokens
  <2>4. CASE Lifecycle!Finish
    BY <2>4 DEF Lifecycle!Finish
  <2> QED
    BY <2>1, <2>2, <2>3, <2>4 DEF Lifecycle!LifeNext, Lifecycle!lifeVars
<1> QED
  BY <1>1, ProviderImplementsLifecycle, PTL DEF LoginsFollowLifecycle, Lifecycle!LifeSpec

----------------------------------------------------------------------------
(* One login at a time *)

\* The step makes, takes or replaces credentials of the login with the sid s only, of those
\* that are good for anything.
TouchesOnly(s) ==
    /\ \A e : e.sid # s /\ Live(e) =>
         (e \in codes' <=> e \in codes) /\ (e \in refresh' <=> e \in refresh)
    /\ logins \subseteq logins' /\ \A l \in logins' \ logins : l.sid = s

\* A step that lets no time pass and touches one login leaves the others their phase.
LEMMA OthersKeepPhase ==
  ASSUME IInv, IInv', now' = now, NEW s, TouchesOnly(s), NEW r, r # s
  PROVE  Phase(r)' = Phase(r)
<1>1. (HasCode(r)' <=> HasCode(r)) /\ (HasRefresh(r)' <=> HasRefresh(r))
  BY DEF TouchesOnly, HasCode, HasRefresh, Live, IsExpired
<1>2. Made(r)' <=> Made(r)
  BY DEF TouchesOnly, Made
<1>3. PhaseFits(r) /\ PhaseFits(r)'
  BY PhaseNow, PhaseNext
<1> QED
  BY <1>1, <1>2, <1>3 DEF PhaseFits

\* A login form touches the login it makes.
LEMMA IssueCodeTouches ==
  ASSUME NEW req, NEW claims, NEW expiresIn, NEW upstream,
         IssueCode(req, claims, expiresIn, upstream)
  PROVE  TouchesOnly(minted + 2)
<1>1. PICK e : /\ e.sid = minted + 2 /\ LoginOf(e).sid = minted + 2
               /\ codes' = codes \cup {e} /\ refresh' = refresh
               /\ logins' = logins \cup {LoginOf(e)}
  BY DEF IssueCode, LoginOf
<1> QED
  BY <1>1 DEF TouchesOnly

\* A grant touches the login it is for.
LEMMA GrantTouches == ASSUME Grant PROVE \E s : TouchesOnly(s)
<1> USE DEF worldVars, storeVars
<1>1. ASSUME NEW e, NEW client, NEW secret, NEW uri, NEW verifier,
             RedeemCode(e, client, secret, uri, verifier)
      PROVE  TouchesOnly(e.sid)
  <2>1. PICK f : f.sid = e.sid /\ refresh' = refresh \cup {f}
    BY <1>1 DEF RedeemCode, NewRefresh, LoginOf
  <2> QED
    BY <1>1, <2>1 DEF RedeemCode, TakeCode, TouchesOnly
<1>2. ASSUME NEW e, NEW client, NEW secret, NEW uri, NEW verifier,
             WasteCode(e, client, secret, uri, verifier)
      PROVE  TouchesOnly(e.sid)
  BY <1>2 DEF WasteCode, TakeCode, TouchesOnly
<1>3. ASSUME NEW e, NEW client, NEW secret, Rotate(e, client, secret) PROVE TouchesOnly(e.sid)
  <2>1. PICK f : f.sid = e.sid /\ refresh' = (refresh \ {e}) \cup {f}
    BY <1>3 DEF Rotate, TakeRefresh, NewRefresh
  <2> QED
    BY <1>3, <2>1 DEF Rotate, TouchesOnly
<1>4. ASSUME NEW e, NEW client, NEW secret, WasteRefresh(e, client, secret)
      PROVE  TouchesOnly(e.sid)
  BY <1>4 DEF WasteRefresh, TakeRefresh, TouchesOnly
<1>5. ASSUME NEW client, NEW secret, NEW username, NEW offline, NEW openid,
             Password(client, secret, username, offline, openid)
      PROVE  TouchesOnly(minted + 1)
  <2>1. PICK l, f : /\ l.sid = minted + 1 /\ f.sid = minted + 1
                    /\ logins' = logins \cup {l} /\ refresh' = refresh \cup {f}
    BY <1>5 DEF Password, NewRefresh
  <2> QED
    BY <1>5, <2>1 DEF Password, TouchesOnly
<1>6. ASSUME NEW client, NEW secret, ClientCredentials(client, secret)
      PROVE  TouchesOnly(None)
  BY <1>6 DEF ClientCredentials, TouchesOnly
<1> QED
  BY <1>1, <1>2, <1>3, <1>4, <1>5, <1>6 DEF Grant

\* What ends a login at a request of its client touches that login.
LEMMA EndTouches == ASSUME End PROVE \E s : TouchesOnly(s)
<1>1. ASSUME NEW e, NEW client, NEW secret, RevokeRefresh(e, client, secret)
      PROVE  TouchesOnly(e.sid)
  BY <1>1 DEF RevokeRefresh, TouchesOnly
<1>2. ASSUME NEW jwt, NEW client, NEW secret, RevokeJwt(jwt, client, secret)
      PROVE  TouchesOnly(None)
  BY <1>2 DEF RevokeJwt, TouchesOnly
<1>3. ASSUME NEW hint, EndSession(hint) PROVE TouchesOnly(hint.claims["sid"])
  BY <1>3 DEF EndSession, RevokeSession, TouchesOnly
<1> QED
  BY <1>1, <1>2, <1>3 DEF End

\* A step that lets no time pass and keeps the process touches one login, or it removes a
\* subject.
LEMMA NextTouches ==
  ASSUME IInv, [Next]_vars, now' = now, boots' = boots
  PROVE  (\E s : TouchesOnly(s)) \/ (\E sub \in Subs : DeleteSubject(sub))
<1>1. now \in Nat /\ boots \in Nat
  BY DEF IInv, TypeOK
<1>2. ASSUME NEW who \in GateSessions, LogIn(who) PROVE \E s : TouchesOnly(s)
  <2>1. ASSUME NEW req, NEW upstream, GetAuthorize(req, upstream) PROVE TouchesOnly(None)
    BY <2>1 DEF GetAuthorize, TouchesOnly
  <2> QED
    BY <1>2, <2>1, IssueCodeTouches DEF LogIn, PostAuthorize, PostAsUpstream
<1>3. ASSUME Admin
      PROVE  (\E s : TouchesOnly(s)) \/ (\E sub \in Subs : DeleteSubject(sub))
  <2>1. ASSUME NEW sub, NEW claims, NEW disabled, PutSubject(sub, claims, disabled)
        PROVE  TouchesOnly(None)
    BY <2>1 DEF PutSubject, TouchesOnly
  <2>2. ASSUME NEW sid, EndAdminSession(sid) PROVE TouchesOnly(sid)
    BY <2>2 DEF EndAdminSession, RevokeSid, TouchesOnly
  <2> QED
    BY <1>3, <2>1, <2>2 DEF Admin
<1>4. ASSUME NEW uris, NEW public, Register(uris, public) PROVE TouchesOnly(None)
  BY <1>4 DEF Register, TouchesOnly
<1>5. ASSUME Sweep PROVE TouchesOnly(None)
  BY <1>5 DEF Sweep, Unexpired, TouchesOnly
<1>6. ~Tick /\ ~Restart
  BY <1>1 DEF Tick, Restart
<1>7. ASSUME UNCHANGED vars PROVE TouchesOnly(None)
  BY <1>7 DEF vars, TouchesOnly
<1> QED
  BY <1>2, <1>3, <1>4, <1>5, <1>6, <1>7, GrantTouches, EndTouches DEF Next, Serve

\* Who removes a subject ends logins that are about it, and no others.
LEMMA DeletionTouches ==
  ASSUME LInv, LInv', NEW sub, DeleteSubject(sub), NEW l \in logins',
         Phase(l.sid)' # Phase(l.sid)
  PROVE  SubOf(l.claims) = sub
<1>1. /\ IInv /\ IInv' /\ now' = now /\ codes' = codes /\ logins' = logins
      /\ refresh' = {e \in refresh : SubOf(e.claims) # sub}
  BY DEF LInv, DeleteSubject, RevokeRefreshFor, worldVars
<1>2. ASSUME \A e \in refresh : e.sid = l.sid => SubOf(e.claims) # sub PROVE FALSE
  <2>1. (HasCode(l.sid)' <=> HasCode(l.sid)) /\ (HasRefresh(l.sid)' <=> HasRefresh(l.sid))
    BY <1>1, <1>2 DEF HasCode, HasRefresh, Live, IsExpired
  <2>2. Made(l.sid)' <=> Made(l.sid)
    BY <1>1 DEF Made
  <2>3. PhaseFits(l.sid) /\ PhaseFits(l.sid)'
    BY <1>1, PhaseNow, PhaseNext
  <2> QED
    BY <2>1, <2>2, <2>3 DEF PhaseFits
<1>3. PICK e \in refresh : e.sid = l.sid /\ SubOf(e.claims) = sub
  BY <1>2
<1>4. Agreed(e) \in logins /\ Agreed(e).sid = l.sid /\ Agreed(e).claims = e.claims
  BY <1>1, <1>3 DEF IInv, CredentialMatchesLogin, Agreed
<1>5. Agreed(e) = l
  BY <1>1, <1>4 DEF LInv, SidsOfLogins
<1> QED
  BY <1>3, <1>4, <1>5

\* Whatever ends a login leaves every other login its code or its refresh token, but for the
\* clock, a restart and the removal of the subject they share.
THEOREM LoginsAreApart == Spec => LoginsEndApart
<1>1. ASSUME LInv, LInv', [Next]_vars, now' = now, boots' = boots,
             NEW l \in logins', NEW m \in logins',
             Phase(l.sid)' # Phase(l.sid), Phase(m.sid)' # Phase(m.sid)
      PROVE  \/ l = m
             \/ \E sub \in Subs : /\ DeleteSubject(sub)
                                  /\ SubOf(l.claims) = sub /\ SubOf(m.claims) = sub
  <2>1. IInv /\ IInv'
    BY <1>1 DEF LInv
  <2>2. ASSUME NEW s, TouchesOnly(s) PROVE l = m
    <3>1. l.sid = s /\ m.sid = s
      BY <1>1, <2>1, <2>2, OthersKeepPhase
    <3> QED
      BY <1>1, <3>1 DEF LInv, SidsOfLogins
  <2>3. ASSUME NEW sub \in Subs, DeleteSubject(sub)
        PROVE  SubOf(l.claims) = sub /\ SubOf(m.claims) = sub
    BY <1>1, <2>3, DeletionTouches
  <2> QED
    BY <1>1, <2>1, <2>2, <2>3, NextTouches
<1>2. LInv /\ LInv' /\ [Next]_vars =>
        [now' = now /\ boots' = boots =>
           \A l, m \in logins' :
              Phase(l.sid)' # Phase(l.sid) /\ Phase(m.sid)' # Phase(m.sid) =>
                 \/ l = m
                 \/ \E sub \in Subs : /\ DeleteSubject(sub)
                                      /\ SubOf(l.claims) = sub /\ SubOf(m.claims) = sub]_vars
  BY <1>1
<1> QED
  BY <1>2, LoginInvariance, PTL DEF Spec, LoginsEndApart

----------------------------------------------------------------------------
(* What is expired is reclaimed *)

\* Nothing in memory shares its name with anything else of its kind.
NamesUnique ==
    /\ \A e \in pending : e.key <= minted /\ \A f \in pending : e.key = f.key => e = f
    /\ \A e, f \in codes : e.code = f.code => e = f
    /\ \A e, f \in refresh : e.token = f.token => e = f

NInv == IInv /\ NamesUnique

\* What the step adds to a map is one entry with a name drawn in it.
NewNames ==
    /\ \A e \in pending' \ pending : /\ e.key \in minted + 1 .. minted'
                                     /\ \A f \in pending' \ pending : e = f
    /\ \A e \in codes' \ codes : /\ e.code \in minted + 1 .. minted'
                                 /\ \A f \in codes' \ codes : e = f
    /\ \A e \in refresh' \ refresh : /\ e.token \in minted + 1 .. minted'
                                     /\ \A f \in refresh' \ refresh : e = f

\* Nothing is added.
NoNames == pending' \subseteq pending /\ codes' \subseteq codes /\ refresh' \subseteq refresh

\* A step that adds nothing is a case of NewNames.
LEMMA NoNewNames == ASSUME NoNames PROVE NewNames
BY DEF NoNames, NewNames

\* A grant names the refresh token it hands out with a draw.
LEMMA GrantNames == ASSUME IInv, Grant PROVE NewNames
<1> USE DEF worldVars, storeVars
<1>1. minted \in Nat
  BY DEF IInv, TypeOK
<1>2. ASSUME NEW f, NEW n \in {3, 4}, f.token = minted + n, minted' = minted + n,
             refresh' \subseteq refresh \cup {f}, codes' \subseteq codes, pending' = pending
      PROVE  NewNames
  BY <1>1, <1>2 DEF NewNames
<1>3. ASSUME NEW e, NEW client, NEW secret, NEW uri, NEW verifier,
             RedeemCode(e, client, secret, uri, verifier)
      PROVE  NewNames
  <2>1. /\ NewRefresh(minted + 3, LoginOf(e)).token = minted + 3 /\ minted' = minted + 3
        /\ refresh' = refresh \cup {NewRefresh(minted + 3, LoginOf(e))}
        /\ codes' \subseteq codes /\ pending' = pending
    BY <1>3 DEF RedeemCode, NewRefresh, TakeCode
  <2> QED
    BY <1>2, <2>1
<1>4. ASSUME NEW e, NEW client, NEW secret, Rotate(e, client, secret) PROVE NewNames
  <2>1. /\ NewRefresh(minted + 3, e).token = minted + 3 /\ minted' = minted + 3
        /\ refresh' \subseteq refresh \cup {NewRefresh(minted + 3, e)}
        /\ codes' = codes /\ pending' = pending
    BY <1>4 DEF Rotate, NewRefresh, TakeRefresh
  <2> QED
    BY <1>2, <2>1
<1>5. ASSUME NEW client, NEW secret, NEW username, NEW offline, NEW openid,
             Password(client, secret, username, offline, openid)
      PROVE  NewNames
  <2>1. PICK n, f :
          /\ n \in {3, 4} /\ f.token = minted + n /\ minted' = minted + n
          /\ refresh' = refresh \cup {f}
    <3>1. CASE openid
      BY <1>5, <3>1 DEF Password, NewRefresh
    <3>2. CASE ~openid
      BY <1>5, <3>2 DEF Password, NewRefresh
    <3> QED
      BY <3>1, <3>2
  <2>2. codes' = codes /\ pending' = pending
    BY <1>5 DEF Password
  <2> QED
    BY <1>2, <2>1, <2>2
<1>6. ASSUME NEW e, NEW client, NEW secret, NEW uri, NEW verifier,
             \/ WasteCode(e, client, secret, uri, verifier) \/ WasteRefresh(e, client, secret)
             \/ ClientCredentials(client, secret)
      PROVE  NoNames
  BY <1>6 DEF WasteCode, WasteRefresh, ClientCredentials, TakeCode, TakeRefresh, NoNames
<1> QED
  BY <1>3, <1>4, <1>5, <1>6, NoNewNames DEF Grant

\* Every step names what it adds with a draw.
LEMMA NextNames == ASSUME IInv, [Next]_vars PROVE NewNames
<1> USE DEF worldVars, storeVars
<1>1. minted \in Nat
  BY DEF IInv, TypeOK
<1>2. ASSUME NEW who \in GateSessions, LogIn(who) PROVE NewNames
  <2>1. ASSUME NEW req, NEW upstream, GetAuthorize(req, upstream) PROVE NewNames
    <3>1. PICK e : e.key = minted + 1 /\ pending' = pending \cup {e}
      BY <2>1 DEF GetAuthorize
    <3>2. minted' = minted + 1 /\ codes' = codes /\ refresh' = refresh
      BY <2>1 DEF GetAuthorize
    <3> QED
      BY <1>1, <3>1, <3>2 DEF NewNames
  <2>2. ASSUME NEW req, NEW claims, NEW expiresIn, NEW upstream,
               IssueCode(req, claims, expiresIn, upstream)
        PROVE  NewNames
    <3>1. PICK e : e.code = minted + 1 /\ codes' = codes \cup {e}
      BY <2>2 DEF IssueCode
    <3>2. minted' = minted + 2 /\ pending' = pending /\ refresh' = refresh
      BY <2>2 DEF IssueCode
    <3> QED
      BY <1>1, <3>1, <3>2 DEF NewNames
  <2> QED
    BY <1>2, <2>1, <2>2 DEF LogIn, PostAuthorize, PostAsUpstream
<1>3. CASE End \/ Admin
  BY <1>3, NoNewNames DEF End, Admin, RevokeRefresh, RevokeJwt, EndSession, PutSubject,
     DeleteSubject, EndAdminSession, RevokeSession, RevokeRefreshFor, RevokeSid, NoNames
<1>4. CASE (\E uris \in SUBSET Uris, public \in BOOLEAN : Register(uris, public)) \/ Sweep
  BY <1>4, NoNewNames DEF Register, Sweep, Unexpired, NoNames
<1>5. CASE Tick \/ Restart \/ UNCHANGED vars
  BY <1>5, NoNewNames DEF Tick, Restart, vars, NoNames
<1> QED
  BY <1>2, <1>3, <1>4, <1>5, GrantNames DEF Next, Serve

\* Names stay unique.
LEMMA NamesInvariance == Spec => []NInv
<1>1. Init => NInv
  BY InitIInv DEF Init, StoreInit, NInv, NamesUnique
<1>2. ASSUME NInv, [Next]_vars PROVE NInv'
  <2>1. IInv /\ IInv' /\ NewNames /\ minted' >= minted
    BY <1>2, NextIInv, NextMemory, NextNames DEF NInv
  <2>2. /\ minted \in Nat /\ minted' \in Nat
        /\ \A e \in pending \cup pending' : e.key \in Nat
        /\ \A e \in codes \cup codes' : e.code \in Nat
        /\ \A e \in refresh \cup refresh' : e.token \in Nat
    BY <2>1 DEF IInv, TypeOK, PendingEntry, CodeEntry, RefreshEntry
  <2>3. /\ \A e \in pending : e.key <= minted
        /\ \A e \in codes : e.code <= minted
        /\ \A e \in refresh : e.token <= minted
    BY <1>2, <2>1 DEF NInv, NamesUnique, IInv, Drawn
  <2>4. \A e \in pending' : e.key <= minted'
                            /\ \A f \in pending' : e.key = f.key => e = f
    BY <1>2, <2>1, <2>2, <2>3 DEF NewNames, NInv, NamesUnique
  <2>5. \A e, f \in codes' : e.code = f.code => e = f
    BY <1>2, <2>1, <2>2, <2>3 DEF NewNames, NInv, NamesUnique
  <2>6. \A e, f \in refresh' : e.token = f.token => e = f
    BY <1>2, <2>1, <2>2, <2>3 DEF NewNames, NInv, NamesUnique
  <2> QED
    BY <2>1, <2>4, <2>5, <2>6 DEF NInv, NamesUnique
<1> QED
  BY <1>1, <1>2, PTL DEF Spec

\* What of memory is named n, and whether it is expired.
PendingOf(n) == {e \in pending : e.key = n}
CodeOf(n) == {e \in codes : e.code = n}
RefreshOf(n) == {e \in refresh : e.token = n}
Spent(entries) == \E e \in entries : IsExpired(e)
JtiOver(n) == \E r \in revokedJti : r.jti = n /\ r.exp <= now

\* What is expired stays so until it goes, and when it goes nothing has its name.
LEMMA ExpiredStays ==
  ASSUME NInv, NInv', [Next]_vars, NEW n
  PROVE  /\ Spent(PendingOf(n)) => Spent(PendingOf(n))' \/ PendingOf(n)' = {}
         /\ Spent(CodeOf(n)) => Spent(CodeOf(n))' \/ CodeOf(n)' = {}
         /\ Spent(RefreshOf(n)) => Spent(RefreshOf(n))' \/ RefreshOf(n)' = {}
<1>1. IInv /\ IInv' /\ NewNames /\ now' >= now
  BY NextMemory, NextNames DEF NInv
<1>2. /\ now \in Nat /\ now' \in Nat /\ minted \in Nat /\ minted' \in Nat
      /\ \A e \in pending \cup pending' : e.key \in Nat /\ e.expires \in Nat
      /\ \A e \in codes \cup codes' : e.code \in Nat /\ e.expires \in Nat
      /\ \A e \in refresh \cup refresh' : e.token \in Nat /\ e.expires \in Nat
  BY <1>1 DEF IInv, TypeOK, PendingEntry, CodeEntry, RefreshEntry
<1>3. /\ \A e \in pending : e.key <= minted
      /\ \A e \in codes : e.code <= minted
      /\ \A e \in refresh : e.token <= minted
  BY <1>1 DEF NInv, NamesUnique, IInv, Drawn
<1>4. ASSUME NEW e \in pending, e.key = n, IsExpired(e), PendingOf(n)' # {}
      PROVE  e \in pending' /\ IsExpired(e)'
  <2>1. PICK f \in pending' : f.key = n
    BY <1>4 DEF PendingOf
  <2>2. f \in pending
    BY <1>1, <1>2, <1>3, <1>4, <2>1 DEF NewNames
  <2>3. f = e
    BY <1>4, <2>1, <2>2 DEF NInv, NamesUnique
  <2> QED
    BY <1>1, <1>2, <1>4, <2>1, <2>3 DEF IsExpired
<1>5. ASSUME NEW e \in codes, e.code = n, IsExpired(e), CodeOf(n)' # {}
      PROVE  e \in codes' /\ IsExpired(e)'
  <2>1. PICK f \in codes' : f.code = n
    BY <1>5 DEF CodeOf
  <2>2. f \in codes
    BY <1>1, <1>2, <1>3, <1>5, <2>1 DEF NewNames
  <2>3. f = e
    BY <1>5, <2>1, <2>2 DEF NInv, NamesUnique
  <2> QED
    BY <1>1, <1>2, <1>5, <2>1, <2>3 DEF IsExpired
<1>6. ASSUME NEW e \in refresh, e.token = n, IsExpired(e), RefreshOf(n)' # {}
      PROVE  e \in refresh' /\ IsExpired(e)'
  <2>1. PICK f \in refresh' : f.token = n
    BY <1>6 DEF RefreshOf
  <2>2. f \in refresh
    BY <1>1, <1>2, <1>3, <1>6, <2>1 DEF NewNames
  <2>3. f = e
    BY <1>6, <2>1, <2>2 DEF NInv, NamesUnique
  <2> QED
    BY <1>1, <1>2, <1>6, <2>1, <2>3 DEF IsExpired
<1> QED
  BY <1>4, <1>5, <1>6 DEF Spent, PendingOf, CodeOf, RefreshOf

\* The sweeper leaves nothing with the name of what was expired.
LEMMA SweepReclaims ==
  ASSUME NInv, Sweep, NEW n
  PROVE  /\ Spent(PendingOf(n)) => PendingOf(n)' = {}
         /\ Spent(CodeOf(n)) => CodeOf(n)' = {}
         /\ Spent(RefreshOf(n)) => RefreshOf(n)' = {}
         /\ ~JtiOver(n)'
<1>1. /\ pending' = {e \in pending : ~IsExpired(e)} /\ codes' = {e \in codes : ~IsExpired(e)}
      /\ refresh' = {e \in refresh : ~IsExpired(e)} /\ now' = now
      /\ revokedJti' = {r \in revokedJti : r.exp > now}
  BY DEF Sweep, Unexpired, UnexpiredJti, Live, worldVars
<1>2. now \in Nat /\ \A r \in revokedJti : r.exp \in Nat
  BY DEF NInv, IInv, TypeOK
<1> QED
  BY <1>1, <1>2 DEF Spent, PendingOf, CodeOf, RefreshOf, JtiOver, NInv, NamesUnique

\* If the sweeper is fair and has something to do whenever anything is expired, whatever is
\* expired is removed from memory: from the login pages to the revoked jtis.
THEOREM SweeperReclaims == FairSpec /\ []SweeperSeesExpired => ExpiredIsReclaimed
<1>1. ASSUME NEW n
      PROVE  FairSpec /\ []SweeperSeesExpired =>
               /\ Spent(PendingOf(n)) ~> PendingOf(n) = {}
               /\ Spent(CodeOf(n)) ~> CodeOf(n) = {}
               /\ Spent(RefreshOf(n)) ~> RefreshOf(n) = {}
               /\ JtiOver(n) ~> ~JtiOver(n)
  <2>1. SweeperSeesExpired =>
          \/ ENABLED <<Sweep>>_vars
          \/ ~(Spent(PendingOf(n)) \/ Spent(CodeOf(n)) \/ Spent(RefreshOf(n)) \/ JtiOver(n))
    BY DEF SweeperSeesExpired, Spent, PendingOf, CodeOf, RefreshOf, JtiOver
  <2>2. NInv /\ NInv' /\ [Next]_vars =>
          /\ Spent(PendingOf(n)) => Spent(PendingOf(n))' \/ (PendingOf(n) = {})'
          /\ Spent(CodeOf(n)) => Spent(CodeOf(n))' \/ (CodeOf(n) = {})'
          /\ Spent(RefreshOf(n)) => Spent(RefreshOf(n))' \/ (RefreshOf(n) = {})'
    BY ExpiredStays
  <2>3. NInv /\ <<Sweep>>_vars =>
          /\ Spent(PendingOf(n)) => (PendingOf(n) = {})'
          /\ Spent(CodeOf(n)) => (CodeOf(n) = {})'
          /\ Spent(RefreshOf(n)) => (RefreshOf(n) = {})'
          /\ ~JtiOver(n)'
    BY SweepReclaims
  <2> QED
    BY <2>1, <2>2, <2>3, NamesInvariance, PTL DEF FairSpec, Spec
<1>2. ASSUME NEW n
      PROVE  /\ (\E e \in pending : e.key = n /\ IsExpired(e)) <=> Spent(PendingOf(n))
             /\ (~\E e \in pending : e.key = n) <=> PendingOf(n) = {}
             /\ (\E e \in codes : e.code = n /\ IsExpired(e)) <=> Spent(CodeOf(n))
             /\ (~\E e \in codes : e.code = n) <=> CodeOf(n) = {}
             /\ (\E e \in refresh : e.token = n /\ IsExpired(e)) <=> Spent(RefreshOf(n))
             /\ (~\E e \in refresh : e.token = n) <=> RefreshOf(n) = {}
             /\ (\E r \in revokedJti : r.jti = n /\ r.exp <= now) <=> JtiOver(n)
  BY DEF Spent, PendingOf, CodeOf, RefreshOf, JtiOver
<1>3. ASSUME NEW n \in Tokens
      PROVE  FairSpec /\ []SweeperSeesExpired =>
               /\ (\E e \in pending : e.key = n /\ IsExpired(e)) ~> ~\E e \in pending : e.key = n
               /\ (\E e \in codes : e.code = n /\ IsExpired(e)) ~> ~\E e \in codes : e.code = n
               /\ (\E e \in refresh : e.token = n /\ IsExpired(e))
                    ~> ~\E e \in refresh : e.token = n
               /\ (\E r \in revokedJti : r.jti = n /\ r.exp <= now)
                    ~> ~\E r \in revokedJti : r.jti = n /\ r.exp <= now
  BY <1>1, <1>2, PTL
<1> QED
  BY <1>3 DEF ExpiredIsReclaimed

----------------------------------------------------------------------------
(* When the sweeper comes makes no difference *)

\* Nothing happens in the eyes of the forgetful provider.
Unnoticed == UNCHANGED Eager!vars

\* Everything but the codes and refresh tokens reads alike on both sides.
LEMMA EagerReads ==
  /\ Eager!KnownIds = KnownIds /\ Eager!KnownSecrets = KnownSecrets
  /\ Eager!GateSessions = GateSessions
  /\ \A c, s : Eager!Authenticated(c, s) <=> Authenticated(c, s)
  /\ \A c, s : Eager!Trusted(c, s) <=> Trusted(c, s)
  /\ \A req : Eager!ValidRequest(req) <=> ValidRequest(req)
  /\ \A n : Eager!CanMint(n) <=> CanMint(n)
  /\ \A claims : Eager!SubOf(claims) = SubOf(claims)
  /\ \A sub : Eager!IsDisabled(sub) <=> IsDisabled(sub)
  /\ \A e : (Eager!Live(e) <=> Live(e)) /\ (Eager!IsExpired(e) <=> IsExpired(e))
  /\ \A e : Eager!LoginOf(e) = LoginOf(e)
  /\ \A S : Eager!Cardinality(S) = Cardinality(S)
BY DEF Eager!KnownIds, KnownIds, Eager!KnownSecrets, KnownSecrets, Eager!GateSessions,
   GateSessions, Eager!Authenticated, Authenticated, Eager!Trusted, Trusted, Eager!ValidRequest,
   ValidRequest, Eager!CanMint, CanMint, Eager!SubOf, SubOf, Eager!AsStr, AsStr,
   Eager!IsDisabled, IsDisabled, Eager!Live, Live, Eager!IsExpired, IsExpired, Eager!LoginOf,
   LoginOf, Eager!Cardinality, Cardinality

\* The tokens and credentials that are made are made alike.
LEMMA EagerMakes ==
  /\ \A p, n : Eager!Issue(p, n) = Issue(p, n)
  /\ \A l, claims, withId, n :
       Eager!UserTokens(l, claims, withId, n) = UserTokens(l, claims, withId, n)
  /\ \A n, l : Eager!NewRefresh(n, l) = NewRefresh(n, l)
  /\ \A e : Eager!RefreshClaims(e) = RefreshClaims(e)
  /\ Eager!NoClaims = NoClaims
<1>1. Eager!NoClaims = NoClaims
  BY DEF Eager!NoClaims, NoClaims, Eager!ClaimName, ClaimName
<1>2. \A base, user : Eager!MergeClaims(base, user) = MergeClaims(base, user)
  BY DEF Eager!MergeClaims, MergeClaims, Eager!ClaimName, ClaimName, Eager!PROTECTED, PROTECTED
<1>3. \A client : Eager!BaseClaims(client) = BaseClaims(client)
  BY <1>1 DEF Eager!BaseClaims, BaseClaims
<1>4. \A p : Eager!CommonClaims(p) = CommonClaims(p)
  BY <1>2, <1>3 DEF Eager!CommonClaims, CommonClaims
<1>5. \A p, typ, ttl, jti : Eager!Token(p, typ, ttl, jti) = Token(p, typ, ttl, jti)
  BY <1>4 DEF Eager!Token, Token, Eager!Sign, Sign, Eager!Expiry, Expiry, Eager!SigningKey,
     SigningKey
<1>6. \A p, n : Eager!Issue(p, n) = Issue(p, n)
  BY <1>5 DEF Eager!Issue, Issue
<1>7. \A claims, upstream :
        Eager!WithUpstreamClaim(claims, upstream) = WithUpstreamClaim(claims, upstream)
  BY DEF Eager!WithUpstreamClaim, WithUpstreamClaim
<1>8. \A l, claims, withId, n :
        Eager!UserTokens(l, claims, withId, n) = UserTokens(l, claims, withId, n)
  BY <1>6, <1>7 DEF Eager!UserTokens, UserTokens
<1>9. \A n, l : Eager!NewRefresh(n, l) = NewRefresh(n, l)
  BY DEF Eager!NewRefresh, NewRefresh
<1>10. \A e : Eager!RefreshClaims(e) = RefreshClaims(e)
  <2> TAKE e
  <2>1. Eager!SubOf(e.claims) = SubOf(e.claims)
    BY EagerReads
  <2> QED
    BY <2>1 DEF Eager!RefreshClaims, RefreshClaims
<1> QED
  BY <1>1, <1>6, <1>8, <1>9, <1>10

\* While the clock stands still, what is kept changes as the map does: what is taken out is
\* gone if it was there, what is put in is kept, and what is live is there.
LEMMA KeptNow ==
  ASSUME IInv, now' = now
  PROVE  /\ \A e \in codes : Live(e) => e \in Kept(codes)
         /\ \A e \in refresh : Live(e) => e \in Kept(refresh)
         /\ codes' = codes => Kept(codes)' = Kept(codes)
         /\ refresh' = refresh => Kept(refresh)' = Kept(refresh)
         /\ \A gone : codes' = codes \ gone => Kept(codes)' = Kept(codes) \ gone
         /\ \A gone : refresh' = refresh \ gone => Kept(refresh)' = Kept(refresh) \ gone
         /\ \A f : codes' = codes \cup {f} /\ f.expires >= now
              => Kept(codes)' = Kept(codes) \cup {f}
         /\ \A f : refresh' = refresh \cup {f} /\ f.expires >= now
              => Kept(refresh)' = Kept(refresh) \cup {f}
<1>1. now \in Nat /\ \A e \in codes \cup refresh : e.expires \in Nat
  BY DEF IInv, TypeOK, CodeEntry, RefreshEntry
<1> QED
  BY <1>1 DEF Kept, Live, IsExpired

\* A code comes of a login alike.
LEMMA IssueCodeUnseen ==
  ASSUME IInv, NEW req, NEW claims, NEW expiresIn, NEW upstream,
         IssueCode(req, claims, expiresIn, upstream)
  PROVE  Eager!IssueCode(req, claims, expiresIn, upstream)
<1>1. PICK f : f = [code |-> minted + 1, req |-> req, claims |-> claims, sid |-> minted + 2,
                    expiresIn |-> expiresIn, upstream |-> upstream, expires |-> now + CodeTtl]
  OBVIOUS
<1>2. codes' = codes \cup {f} /\ refresh' = refresh /\ now' = now
  BY <1>1 DEF IssueCode, worldVars
<1>3. f.expires >= now
  BY <1>1, SettingsAssumption DEF IInv, TypeOK
<1>4. Kept(codes)' = Kept(codes) \cup {f} /\ Kept(refresh)' = Kept(refresh)
  BY <1>2, <1>3, KeptNow
<1> QED
  BY <1>1, <1>4, EagerReads DEF IssueCode, Eager!IssueCode, worldVars, Eager!worldVars

\* A browser at the login page is served alike.
LEMMA LogInUnseen ==
  ASSUME IInv, NEW upstream \in GateSessions, LogIn(upstream)
  PROVE  Eager!LogIn(upstream)
<1>1. PICK req \in Requests :
        \/ GetAuthorize(req, upstream)
        \/ \E expiresIn \in TypedExpiresIn :
             \/ \E typed \in TypedClaims, username \in Usernames :
                  PostAuthorize(req, typed, username, expiresIn, upstream)
             \/ PostAsUpstream(req, expiresIn, upstream)
  BY DEF LogIn
<1>2. CASE GetAuthorize(req, upstream)
  <2>1. Kept(codes)' = Kept(codes) /\ Kept(refresh)' = Kept(refresh)
    BY <1>2, KeptNow DEF GetAuthorize, worldVars
  <2>2. Eager!GetAuthorize(req, upstream)
    BY <1>2, <2>1, EagerReads DEF GetAuthorize, Eager!GetAuthorize, worldVars, Eager!worldVars
  <2> QED
    BY <2>2 DEF Eager!LogIn
<1>3. ASSUME NEW expiresIn \in TypedExpiresIn, NEW typed \in TypedClaims,
             NEW username \in Usernames,
             PostAuthorize(req, typed, username, expiresIn, upstream)
      PROVE  Eager!LogIn(upstream)
  <2>1. Eager!Persona(typed, username) = Persona(typed, username)
    BY DEF Eager!Persona, Persona
  <2>2. Eager!PostAuthorize(req, typed, username, expiresIn, upstream)
    BY <1>3, <2>1, EagerReads, IssueCodeUnseen DEF PostAuthorize, Eager!PostAuthorize
  <2> QED
    BY <2>2 DEF Eager!LogIn
<1>4. ASSUME NEW expiresIn \in TypedExpiresIn, PostAsUpstream(req, expiresIn, upstream)
      PROVE  Eager!LogIn(upstream)
  <2>1. Eager!PostAsUpstream(req, expiresIn, upstream)
    BY <1>4, EagerReads, IssueCodeUnseen DEF PostAsUpstream, Eager!PostAsUpstream
  <2> QED
    BY <2>1 DEF Eager!LogIn
<1> QED
  BY <1>1, <1>2, <1>3, <1>4

\* A grant is made, or refused, alike; who presents what is expired is told of it whether it
\* is still there or not.
LEMMA GrantUnseen == ASSUME IInv, Grant PROVE Eager!Grant \/ Unnoticed
<1>1. PICK client \in KnownIds, secret \in KnownSecrets :
        \/ \E e \in codes, uri \in Uris \cup {None}, verifier \in Verifiers \cup {None} :
             \/ RedeemCode(e, client, secret, uri, verifier)
             \/ WasteCode(e, client, secret, uri, verifier)
        \/ \E e \in refresh : \/ Rotate(e, client, secret)
                              \/ WasteRefresh(e, client, secret)
        \/ \E username \in Usernames, scope \in PasswordScopes :
             Password(client, secret, username, scope.offline, scope.openid)
        \/ ClientCredentials(client, secret)
  BY DEF Grant
<1>2. client \in Eager!KnownIds /\ secret \in Eager!KnownSecrets
  BY EagerReads
<1> USE DEF worldVars, storeVars, Eager!worldVars, Eager!storeVars
<1>3. \A token, g : NewRefresh(token, g).expires >= now
  BY SettingsAssumption DEF NewRefresh, IInv, TypeOK
<1>4. ASSUME NEW e \in codes, NEW uri \in Uris \cup {None},
             NEW verifier \in Verifiers \cup {None}, RedeemCode(e, client, secret, uri, verifier)
      PROVE  Eager!Grant
  <2>1. Live(e) /\ codes' = codes \ {e} /\ now' = now
        /\ refresh' = refresh \cup {NewRefresh(minted + 3, LoginOf(e))}
    BY <1>4 DEF RedeemCode, Redeemable, TakeCode
  <2>2. /\ e \in Kept(codes) /\ Kept(codes)' = Kept(codes) \ {e}
        /\ Kept(refresh)' = Kept(refresh) \cup {NewRefresh(minted + 3, LoginOf(e))}
    <3>1. e \in Kept(codes) /\ Kept(codes)' = Kept(codes) \ {e}
      BY <2>1, KeptNow
    <3>2. Kept(refresh)' = Kept(refresh) \cup {NewRefresh(minted + 3, LoginOf(e))}
      BY <1>3, <2>1, KeptNow
    <3> QED
      BY <3>1, <3>2
  <2>3. Eager!RedeemCode(e, client, secret, uri, verifier)
    BY <1>4, <2>2, EagerReads, EagerMakes
    DEF RedeemCode, Redeemable, Eager!RedeemCode, Eager!Redeemable, Eager!TakeCode
  <2> QED
    BY <1>2, <2>2, <2>3 DEF Eager!Grant
<1>5. ASSUME NEW e \in codes, NEW uri \in Uris \cup {None},
             NEW verifier \in Verifiers \cup {None}, WasteCode(e, client, secret, uri, verifier)
      PROVE  Eager!Grant \/ Unnoticed
  <2>1. /\ codes' = codes \ {e} /\ now' = now /\ refresh' = refresh
        /\ Kept(codes)' = Kept(codes) \ {e} /\ Kept(refresh)' = Kept(refresh)
    BY <1>5, KeptNow DEF WasteCode, TakeCode
  <2>2. CASE e \in Kept(codes)
    <3>1. Eager!WasteCode(e, client, secret, uri, verifier)
      BY <1>5, <2>1, EagerReads
      DEF WasteCode, Redeemable, Eager!WasteCode, Eager!Redeemable, Eager!TakeCode
    <3> QED
      BY <1>2, <2>2, <3>1 DEF Eager!Grant
  <2>3. CASE e \notin Kept(codes)
    BY <1>5, <2>1, <2>3 DEF WasteCode, Unnoticed, Eager!vars
  <2> QED
    BY <2>2, <2>3
<1>6. ASSUME NEW e \in refresh, Rotate(e, client, secret) PROVE Eager!Grant
  <2>1. /\ Live(e) /\ codes' = codes /\ now' = now
        /\ refresh' = (refresh \ {e}) \cup {NewRefresh(minted + 3, e)}
    BY <1>6 DEF Rotate, TakeRefresh
  <2>2. /\ e \in Kept(refresh) /\ Kept(codes)' = Kept(codes)
        /\ Kept(refresh)' = (Kept(refresh) \ {e}) \cup {NewRefresh(minted + 3, e)}
    <3>1. e \in Kept(refresh) /\ Kept(codes)' = Kept(codes)
      BY <2>1, KeptNow
    <3>2. Kept(refresh)' = (Kept(refresh) \ {e}) \cup {NewRefresh(minted + 3, e)}
      BY <1>3, <2>1 DEF Kept
    <3> QED
      BY <3>1, <3>2
  <2>3. Eager!Rotate(e, client, secret)
    BY <1>6, <2>2, EagerReads, EagerMakes
    DEF Rotate, Taken, Eager!Rotate, Eager!Taken, Eager!TakeRefresh
  <2> QED
    BY <1>2, <2>2, <2>3 DEF Eager!Grant
<1>7. ASSUME NEW e \in refresh, WasteRefresh(e, client, secret) PROVE Eager!Grant \/ Unnoticed
  <2>1. /\ refresh' = refresh \ {e} /\ now' = now /\ codes' = codes
        /\ Kept(refresh)' = Kept(refresh) \ {e} /\ Kept(codes)' = Kept(codes)
    BY <1>7, KeptNow DEF WasteRefresh, TakeRefresh
  <2>2. CASE e \in Kept(refresh)
    <3>1. Eager!WasteRefresh(e, client, secret)
      BY <1>7, <2>1, EagerReads
      DEF WasteRefresh, Taken, Eager!WasteRefresh, Eager!Taken, Eager!TakeRefresh
    <3> QED
      BY <1>2, <2>2, <3>1 DEF Eager!Grant
  <2>3. CASE e \notin Kept(refresh)
    BY <1>7, <2>1, <2>3 DEF WasteRefresh, Unnoticed, Eager!vars
  <2> QED
    BY <2>2, <2>3
<1>8. ASSUME NEW username \in Usernames, NEW scope \in PasswordScopes,
             Password(client, secret, username, scope.offline, scope.openid)
      PROVE  Eager!Grant
  <2>1. PICK claims, sid, token, login :
          /\ claims = [NoClaims EXCEPT !["sub"] = username] /\ sid = minted + 1
          /\ token = minted + (IF scope.openid THEN 4 ELSE 3)
          /\ login = [sid |-> sid, client |-> client, claims |-> claims,
                      offline |-> scope.offline, expiresIn |-> None, upstream |-> None]
    OBVIOUS
  <2>2. /\ codes' = codes /\ now' = now
        /\ refresh' = refresh \cup {NewRefresh(token, login)}
    BY <1>8, <2>1 DEF Password
  <2>3. /\ Kept(codes)' = Kept(codes)
        /\ Kept(refresh)' = Kept(refresh) \cup {NewRefresh(token, login)}
    BY <1>3, <2>2, KeptNow
  <2>4. Eager!Password(client, secret, username, scope.offline, scope.openid)
    BY <1>8, <2>1, <2>3, EagerReads, EagerMakes DEF Password, Eager!Password
  <2> QED
    BY <1>2, <2>4 DEF Eager!Grant
<1>9. CASE ClientCredentials(client, secret)
  <2>1. Kept(codes)' = Kept(codes) /\ Kept(refresh)' = Kept(refresh)
    BY <1>9, KeptNow DEF ClientCredentials
  <2>2. Eager!ClientCredentials(client, secret)
    BY <1>9, <2>1, EagerReads, EagerMakes DEF ClientCredentials, Eager!ClientCredentials
  <2> QED
    BY <1>2, <2>2 DEF Eager!Grant
<1> QED
  BY <1>1, <1>4, <1>5, <1>6, <1>7, <1>8, <1>9

\* What ends a login does so alike; a token it would have been the end of may be gone.
LEMMA EndUnseen == ASSUME IInv, End PROVE Eager!End \/ Unnoticed
<1> USE DEF worldVars, Eager!worldVars
<1>1. KnownIds = Eager!KnownIds /\ KnownSecrets = Eager!KnownSecrets
  BY EagerReads
<1>2. ASSUME NEW client \in KnownIds, NEW secret \in KnownSecrets, NEW e \in refresh,
             RevokeRefresh(e, client, secret)
      PROVE  Eager!End \/ Unnoticed
  <2>1. Kept(codes)' = Kept(codes) /\ Kept(refresh)' = Kept(refresh) \ {e}
    BY <1>2, KeptNow DEF RevokeRefresh
  <2>2. CASE e \in Kept(refresh)
    <3>1. Eager!RevokeRefresh(e, client, secret)
      BY <1>2, <2>1, EagerReads DEF RevokeRefresh, Eager!RevokeRefresh
    <3> QED
      BY <1>1, <2>2, <3>1 DEF Eager!End
  <2>3. CASE e \notin Kept(refresh)
    BY <1>2, <2>1, <2>3 DEF RevokeRefresh, Unnoticed, Eager!vars
  <2> QED
    BY <2>2, <2>3
<1>3. ASSUME NEW client \in KnownIds, NEW secret \in KnownSecrets, NEW jwt \in jwts,
             RevokeJwt(jwt, client, secret)
      PROVE  Eager!End
  <2>1. Kept(codes)' = Kept(codes) /\ Kept(refresh)' = Kept(refresh)
    BY <1>3, KeptNow DEF RevokeJwt
  <2>2. Eager!VerifyAllowExpired(jwt) <=> VerifyAllowExpired(jwt)
    BY DEF Eager!VerifyAllowExpired, VerifyAllowExpired, Eager!SigningKey, SigningKey
  <2>3. Eager!AsStr(jwt.claims["azp"]) = AsStr(jwt.claims["azp"])
    BY DEF Eager!AsStr, AsStr
  <2>4. Eager!RevokeJwt(jwt, client, secret)
    BY <1>3, <2>1, <2>2, <2>3, EagerReads DEF RevokeJwt, Eager!RevokeJwt
  <2> QED
    BY <1>1, <2>4 DEF Eager!End
<1>4. ASSUME NEW hint \in jwts, EndSession(hint) PROVE Eager!End
  <2>1. PICK sid, client : sid = hint.claims["sid"] /\ client = AsStr(hint.claims["azp"])
    OBVIOUS
  <2>2. Kept(codes)' = Kept(codes) /\ Kept(refresh)' = Eager!RevokeSession(sid, client)
    <3>1. codes' = codes /\ now' = now /\ refresh' = RevokeSession(sid, client)
      BY <1>4, <2>1 DEF EndSession
    <3> QED
      BY <3>1 DEF Kept, RevokeSession, Eager!RevokeSession
  <2>3. Eager!VerifyAllowExpired(hint) <=> VerifyAllowExpired(hint)
    BY DEF Eager!VerifyAllowExpired, VerifyAllowExpired, Eager!SigningKey, SigningKey
  <2>4. Eager!AsStr(hint.claims["azp"]) = client
    BY <2>1 DEF Eager!AsStr, AsStr
  <2>5. Eager!EndSession(hint)
    BY <1>4, <2>1, <2>2, <2>3, <2>4 DEF EndSession, Eager!EndSession
  <2> QED
    BY <2>5 DEF Eager!End
<1> QED
  BY <1>2, <1>3, <1>4 DEF End

\* An admin is obeyed alike; a login to be ended may be gone.
LEMMA AdminUnseen == ASSUME IInv, Admin PROVE Eager!Admin \/ Unnoticed
<1> USE DEF worldVars, Eager!worldVars
<1>1. ASSUME NEW sub \in Subs, NEW claims \in OverrideClaims, NEW disabled \in BOOLEAN,
             PutSubject(sub, claims, disabled)
      PROVE  Eager!PutSubject(sub, claims, disabled)
  <2>1. Kept(codes)' = Kept(codes) /\ Kept(refresh)' = Kept(refresh)
    BY <1>1, KeptNow DEF PutSubject
  <2> QED
    BY <1>1, <2>1 DEF PutSubject, Eager!PutSubject
<1>2. ASSUME NEW sub \in Subs, DeleteSubject(sub) PROVE Eager!DeleteSubject(sub)
  <2>1. Kept(codes)' = Kept(codes) /\ Kept(refresh)' = Eager!RevokeRefreshFor(sub)
    <3>1. codes' = codes /\ now' = now /\ refresh' = RevokeRefreshFor(sub)
      BY <1>2 DEF DeleteSubject
    <3>2. \A e : Eager!SubOf(e.claims) = SubOf(e.claims)
      BY EagerReads
    <3> QED
      BY <3>1, <3>2 DEF Kept, RevokeRefreshFor, Eager!RevokeRefreshFor
  <2> QED
    BY <1>2, <2>1 DEF DeleteSubject, Eager!DeleteSubject
<1>3. ASSUME NEW e \in refresh, EndAdminSession(e.sid)
      PROVE  \/ e \in Kept(refresh) /\ Eager!EndAdminSession(e.sid)
             \/ Unnoticed
  <2>1. /\ codes' = codes /\ now' = now
        /\ refresh' = {f \in refresh : f.sid # e.sid} /\ refresh' = refresh \ {e}
    BY <1>3 DEF EndAdminSession, RevokeSid, IInv, OneCredentialPerLogin
  <2>2. /\ Kept(codes)' = Kept(codes) /\ Kept(refresh)' = Kept(refresh) \ {e}
        /\ Kept(refresh)' = Eager!RevokeSid(e.sid)
    BY <2>1 DEF Kept, Eager!RevokeSid
  <2>3. CASE e \in Kept(refresh)
    BY <1>3, <2>2, <2>3 DEF EndAdminSession, Eager!EndAdminSession
  <2>4. CASE e \notin Kept(refresh)
    BY <1>3, <2>2, <2>4 DEF EndAdminSession, Unnoticed, Eager!vars
  <2> QED
    BY <2>3, <2>4
<1> QED
  BY <1>1, <1>2, <1>3 DEF Admin, Eager!Admin

\* A client is registered alike.
LEMMA RegisterUnseen ==
  ASSUME IInv, NEW uris, NEW public, Register(uris, public)
  PROVE  Eager!Register(uris, public)
<1>1. Kept(codes)' = Kept(codes) /\ Kept(refresh)' = Kept(refresh)
  BY KeptNow DEF Register, worldVars
<1> QED
  BY <1>1, EagerReads DEF Register, Eager!Register, worldVars, Eager!worldVars

\* The sweeper finds what the last tick has left.
LEMMA SweepUnseen == ASSUME IInv, Sweep PROVE Eager!Sweep
<1>1. now \in Nat /\ \A e \in codes \cup refresh : e.expires \in Nat
  BY DEF IInv, TypeOK, CodeEntry, RefreshEntry
<1>2. now' = now /\ codes' = Unexpired(codes) /\ refresh' = Unexpired(refresh)
  BY DEF Sweep, worldVars
<1>3. Kept(codes)' = Eager!Unexpired(Kept(codes)) /\ Kept(refresh)' = Eager!Unexpired(Kept(refresh))
  BY <1>1, <1>2 DEF Kept, Unexpired, Live, IsExpired, Eager!Unexpired, Eager!Live, Eager!IsExpired
<1>4. Eager!Unexpired(pending) = Unexpired(pending) /\ Eager!UnexpiredJti = UnexpiredJti
  BY DEF Unexpired, Live, IsExpired, Eager!Unexpired, Eager!Live, Eager!IsExpired,
     UnexpiredJti, Eager!UnexpiredJti
<1> QED
  BY <1>3, <1>4 DEF Sweep, Eager!Sweep, worldVars, Eager!worldVars

\* What expires with a tick is forgotten with it.
LEMMA TickUnseen == ASSUME IInv, Tick PROVE Eager!ForgetfulTick
<1>1. now \in Nat /\ \A e \in codes \cup refresh : e.expires \in Nat
  BY DEF IInv, TypeOK, CodeEntry, RefreshEntry
<1>2. now' = now + 1 /\ codes' = codes /\ refresh' = refresh
  BY DEF Tick, storeVars
<1>3. Kept(codes)' = Eager!Unexpired(Kept(codes)) /\ Kept(refresh)' = Eager!Unexpired(Kept(refresh))
  BY <1>1, <1>2 DEF Kept, Eager!Unexpired, Eager!Live, Eager!IsExpired
<1> QED
  BY <1>3 DEF Tick, Eager!ForgetfulTick, storeVars

\* A new process has nothing to forget.
LEMMA RestartUnseen == ASSUME Restart PROVE Eager!Restart
<1>1. Kept(codes)' = {} /\ Kept(refresh)' = {}
  BY DEF Restart, Kept
<1> QED
  BY <1>1 DEF Restart, Eager!Restart

\* Every step is one of the forgetful provider, or nothing to it.
LEMMA StepUnseen == ASSUME IInv, [Next]_vars PROVE [Eager!EagerNext]_(Eager!vars)
<1>1. ASSUME NEW upstream \in GateSessions, LogIn(upstream) PROVE Eager!EagerNext
  <2>1. upstream \in Eager!GateSessions /\ Eager!LogIn(upstream)
    BY <1>1, EagerReads, LogInUnseen
  <2> QED
    BY <2>1 DEF Eager!EagerNext
<1>2. CASE Grant \/ End \/ Admin
  BY <1>2, GrantUnseen, EndUnseen, AdminUnseen DEF Eager!EagerNext, Eager!Serve, Unnoticed
<1>3. ASSUME NEW uris \in SUBSET Uris, NEW public \in BOOLEAN, Register(uris, public)
      PROVE  Eager!EagerNext
  BY <1>3, RegisterUnseen DEF Eager!EagerNext, Eager!Serve
<1>4. CASE Sweep
  BY <1>4, SweepUnseen DEF Eager!EagerNext, Eager!Serve
<1>5. CASE Tick
  BY <1>5, TickUnseen DEF Eager!EagerNext
<1>6. CASE Restart
  BY <1>6, RestartUnseen DEF Eager!EagerNext
<1>7. CASE UNCHANGED vars
  <2>1. Kept(codes)' = Kept(codes) /\ Kept(refresh)' = Kept(refresh)
    BY <1>7, KeptNow DEF vars
  <2> QED
    BY <1>7, <2>1 DEF vars, Eager!vars
<1> QED
  BY <1>1, <1>2, <1>3, <1>4, <1>5, <1>6, <1>7 DEF Next, Serve

\* When the sweeper comes makes no difference: what the provider does to the codes and
\* refresh tokens that are not yet overdue, and everything else it does, could be done by one
\* that forgets them with the clock.
THEOREM SweeperUnseen == Spec => SweeperIsInvisible
<1>1. Init => Eager!Init
  BY DEF Init, StoreInit, Eager!Init, Eager!StoreInit, Kept
<1>2. IInv /\ [Next]_vars => [Eager!EagerNext]_(Eager!vars)
  BY StepUnseen
<1> QED
  BY <1>1, <1>2, Invariance, PTL DEF Spec, SweeperIsInvisible, Eager!EagerSpec
=============================================================================
