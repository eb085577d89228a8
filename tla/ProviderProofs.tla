--------------------------- MODULE ProviderProofs ---------------------------
(***************************************************************************)
(* Proofs about the provider, for every value of the constants.            *)
(***************************************************************************)
EXTENDS ProviderProperties, TLAPS

----------------------------------------------------------------------------
(* Lemmas on claims and tokens *)

\* The absent claims are a claim set.
LEMMA NoClaimsType == NoClaims \in Claims
  BY DEF NoClaims, Claims, Value

\* A claim set with one claim replaced is a claim set.
LEMMA ClaimsExcept ==
  ASSUME NEW c \in Claims, NEW k \in ClaimName, NEW v \in Value
  PROVE  [c EXCEPT ![k] = v] \in Claims
  BY DEF Claims

\* merge_claims makes a claim set of two.
LEMMA MergeType ==
  ASSUME NEW base \in Claims, NEW user \in Claims
  PROVE  MergeClaims(base, user) \in Claims
  BY DEF MergeClaims, Claims

\* The parameters of an issue (IssueParams).
IssueParams == [client : ClientId, claims : Claims, sid : Nat \cup {None},
                expiresIn : Nat \cup {None}, withId : BOOLEAN]

\* The claims that a token takes from its persona as they are.
Personal == ClaimName \ {"iat", "exp", "jti", "sid"}

\* The claims both tokens share are a claim set: the sid is that of the login if there is
\* one, and the claims of the login other than the protected ones win.
LEMMA CommonClaimsType ==
  ASSUME NEW p \in IssueParams, now \in Nat
  PROVE  /\ CommonClaims(p) \in Claims
         /\ p.sid # None => CommonClaims(p)["sid"] = p.sid
         /\ p.sid = None /\ p.claims["sid"] = None
              => CommonClaims(p)["sid"] = DefaultClaims["sid"]
         /\ CommonClaims(p)["iat"] = now
         /\ \A k \in Personal : p.claims[k] # None => CommonClaims(p)[k] = p.claims[k]
<1> DEFINE base == BaseClaims(p.client)
           defaults == MergeClaims(base, DefaultClaims)
           merged == MergeClaims(defaults, p.claims)
<1>1. p.client \in Value /\ p.sid \in Value /\ p.claims \in Claims /\ now \in Value
  BY DEF IssueParams, ClientId, Value
<1>2. base \in Claims /\ base["sid"] = None
  BY <1>1, NoClaimsType DEF BaseClaims, NoClaims, Claims, ClaimName
<1>3. /\ defaults \in Claims
      /\ defaults["sid"] = DefaultClaims["sid"]
  BY <1>2, MergeType, IssuerAssumption DEF MergeClaims, ClaimName, PROTECTED
<1>4. merged \in Claims
  BY <1>1, <1>3, MergeType
<1>5. /\ merged["sid"] \in Value
      /\ p.claims["sid"] = None => merged["sid"] = DefaultClaims["sid"]
      /\ \A k \in Personal : p.claims[k] # None => merged[k] = p.claims[k]
  BY <1>3, <1>4 DEF Claims, ClaimName, MergeClaims, PROTECTED, Personal
<1>6. CommonClaims(p) = [merged EXCEPT !["iat"] = now,
                                       !["sid"] = IF p.sid # None THEN p.sid ELSE @]
  BY DEF CommonClaims
<1> HIDE DEF merged
<1> QED
  BY <1>1, <1>4, <1>5, <1>6 DEF Claims, ClaimName, Personal

\* A token made for the parameters p of an issue: a JWT with a whole `exp`, the sid of the
\* login, and the persona and tester of the claims.
MadeFor(t, p) ==
    /\ t \in Jwt
    /\ t.claims["exp"] \in Nat
    /\ p.sid # None => t.claims["sid"] = p.sid
    /\ p.sid = None /\ p.claims["sid"] = None => t.claims["sid"] = DefaultClaims["sid"]
    /\ \A k \in Personal : p.claims[k] # None => t.claims[k] = p.claims[k]

\* A signed token has the jti it was given and is made for the parameters.
LEMMA TokenType ==
  ASSUME NEW p \in IssueParams, NEW typ \in {"at+jwt", "JWT"}, NEW ttl \in Nat,
         NEW jti \in Nat, now \in Nat, boots \in Nat
  PROVE  /\ MadeFor(Token(p, typ, ttl, jti), p)
         /\ Token(p, typ, ttl, jti).claims["jti"] = jti
<1> DEFINE exp == Expiry(IF p.expiresIn # None THEN p.expiresIn ELSE ttl)
           common == CommonClaims(p)
<1>1. exp \in Nat
  BY IssuerAssumption DEF Expiry, IssueParams
<1>2. SigningKey \in Nat
  BY DEF SigningKey
<1>3. /\ common \in Claims
      /\ p.sid # None => common["sid"] = p.sid
      /\ p.sid = None /\ p.claims["sid"] = None => common["sid"] = DefaultClaims["sid"]
      /\ common["iat"] = now
      /\ \A k \in Personal : p.claims[k] # None => common[k] = p.claims[k]
  BY CommonClaimsType
<1>4. Token(p, typ, ttl, jti) =
        [typ |-> typ, key |-> SigningKey,
         claims |-> [common EXCEPT !["exp"] = exp, !["jti"] = jti]]
  BY DEF Token, Sign
<1>5. exp \in Value /\ jti \in Value
  BY <1>1 DEF Value
<1> HIDE DEF exp, common
<1> QED
  BY <1>1, <1>2, <1>3, <1>4, <1>5 DEF Claims, ClaimName, Jwt, MadeFor, Personal

\* JWTs of one issue: their jtis are different draws of an interval.
NewTokens(tokens, first, last) ==
    /\ \A t \in tokens : /\ t \in Jwt
                         /\ t.claims["exp"] \in Nat
                         /\ t.claims["jti"] \in first .. last
    /\ \A t, u \in tokens : t.claims["jti"] = u.claims["jti"] => t = u

\* The last jti an issue draws.
LastJti(drawn, withId) == drawn + (IF withId THEN 2 ELSE 1)

\* An issue yields one or two tokens made for its parameters, with jtis drawn for them,
\* all different.
LEMMA IssueType ==
  ASSUME NEW p \in IssueParams, NEW drawn \in Nat, now \in Nat, boots \in Nat
  PROVE  /\ \A t \in Issue(p, drawn) : MadeFor(t, p)
         /\ NewTokens(Issue(p, drawn), drawn + 1, LastJti(drawn, p.withId))
<1> DEFINE access == Token(p, "at+jwt", AccessTtl, drawn + 1)
           id == Token(p, "JWT", IdTtl, drawn + 2)
<1>1. MadeFor(access, p) /\ access.claims["jti"] = drawn + 1
  BY TokenType, IssuerAssumption
<1>2. MadeFor(id, p) /\ id.claims["jti"] = drawn + 2
  BY TokenType, IssuerAssumption
<1>3. Issue(p, drawn) = {access} \cup (IF p.withId THEN {id} ELSE {})
  BY DEF Issue
<1> HIDE DEF access, id
<1>4. p.withId \in BOOLEAN
  BY DEF IssueParams
<1> QED
  BY <1>1, <1>2, <1>3, <1>4 DEF NewTokens, LastJti, MadeFor

\* The login or refresh token a grant to a user is made for.
UserLogin(l) ==
    /\ l.client \in ClientId /\ l.sid \in Nat /\ l.expiresIn \in Nat \cup {None}
    /\ l.upstream \in Testers \cup {None}

\* The tokens a user is granted name the login, its persona and its tester.
LEMMA UserTokensType ==
  ASSUME NEW l, UserLogin(l), NEW claims \in Claims, NEW withId \in BOOLEAN,
         NEW drawn \in Nat, now \in Nat, boots \in Nat
  PROVE  LET tokens == UserTokens(l, claims, withId, drawn)
         IN  /\ NewTokens(tokens, drawn + 1, LastJti(drawn, withId))
             /\ \A t \in tokens : /\ t.claims["sid"] = l.sid
                                  /\ claims["sub"] # None => t.claims["sub"] = claims["sub"]
                                  /\ UpstreamClaim \notin {None, "sid"} /\ l.upstream # None
                                       => t.claims[UpstreamClaim] = l.upstream
<1> DEFINE named == WithUpstreamClaim(claims, l.upstream)
           p == [client |-> l.client, claims |-> named, sid |-> l.sid,
                 expiresIn |-> l.expiresIn, withId |-> withId]
<1>1. /\ named \in Claims
      /\ named["sub"] = claims["sub"]
      /\ UpstreamClaim # None /\ l.upstream # None => named[UpstreamClaim] = l.upstream
  BY ClaimsExcept, TokenEndpointAssumption
  DEF WithUpstreamClaim, UserLogin, Claims, ClaimName, Value, RESERVED_CLAIMS
<1> HIDE DEF named
<1>2. p \in IssueParams
  BY <1>1 DEF IssueParams, UserLogin
<1>3. l.sid # None
  BY SettingsAssumption DEF UserLogin
<1>4. /\ p.sid = l.sid /\ p.claims = named /\ p.withId = withId
  OBVIOUS
<1>5. UserTokens(l, claims, withId, drawn) = Issue(p, drawn)
  BY DEF UserTokens, named
<1> HIDE DEF p
<1>6. /\ \A t \in Issue(p, drawn) : MadeFor(t, p)
      /\ NewTokens(Issue(p, drawn), drawn + 1, LastJti(drawn, withId))
  BY <1>2, <1>4, IssueType
<1> QED
  BY <1>1, <1>3, <1>4, <1>5, <1>6, TokenEndpointAssumption, SettingsAssumption
  DEF MadeFor, Personal, RESERVED_CLAIMS, ClaimName

----------------------------------------------------------------------------
(* What steps of one kind keep *)

\* A step that hands out no token and adds no credential keeps the invariant.
LEMMA RemovalKeeps ==
  ASSUME IInv, TypeOK', Named', codes' \subseteq codes, refresh' \subseteq refresh,
         minted' >= minted, UNCHANGED <<jwts, logins>>
  PROVE  IInv'
<1>1. Drawn'
  BY DEF IInv, Drawn, TypeOK, CodeEntry, RefreshEntry, Login
<1>2. OneCredentialPerLogin'
  BY DEF IInv, OneCredentialPerLogin
<1>3. CredentialMatchesLogin'
  BY DEF IInv, CredentialMatchesLogin, LoginOf, Agreed
<1>4. JtiUnique'
  BY DEF IInv, JtiUnique
<1> QED
  BY <1>1, <1>2, <1>3, <1>4 DEF IInv

\* Tokens with newly drawn jtis keep what the invariant says of the tokens.
LEMMA JwtsGrow ==
  ASSUME IInv, NEW tokens, NEW first \in Nat, NEW last \in Nat, minted' \in Nat,
         NewTokens(tokens, first, last), minted < first, last <= minted', minted <= minted',
         jwts' = jwts \cup tokens
  PROVE  /\ jwts' \subseteq Jwt /\ JtiUnique'
         /\ \A t \in jwts' : t.claims["jti"] \in 1 .. minted' /\ t.claims["exp"] \in Nat
<1>1. minted \in Nat /\ jwts \subseteq Jwt
  BY DEF IInv, TypeOK
<1>2. \A t \in jwts : t.claims["jti"] \in 1 .. minted /\ t.claims["exp"] \in Nat
  BY DEF IInv, Drawn
<1>3. \A t \in jwts : t.claims["jti"] \in 1 .. minted'
  BY <1>1, <1>2
<1>4. \A t \in tokens : t.claims["jti"] \in 1 .. minted' /\ t.claims["exp"] \in Nat
  BY <1>1 DEF NewTokens
<1>5. \A t \in jwts, u \in tokens : t.claims["jti"] # u.claims["jti"]
  BY <1>1, <1>2 DEF NewTokens
<1>6. \A t, u \in jwts : t.claims["jti"] = u.claims["jti"] => t = u
  BY DEF IInv, JtiUnique
<1>7. JtiUnique'
  BY <1>5, <1>6 DEF JtiUnique, NewTokens
<1>8. jwts' \subseteq Jwt
  BY <1>1 DEF NewTokens
<1> QED
  BY <1>2, <1>3, <1>4, <1>7, <1>8

----------------------------------------------------------------------------
(* The actions *)

\* A successful login keeps the invariant: the code and the sid are new.
LEMMA IssueCodeKeeps ==
  ASSUME IInv, NEW req \in AuthRequest, NEW claims \in Claims, claims["sub"] # None,
         NEW expiresIn \in Nat \cup {None}, NEW upstream \in Testers \cup {None},
         IssueCode(req, claims, expiresIn, upstream)
  PROVE  IInv'
<1> DEFINE entry == [code |-> minted + 1, req |-> req, claims |-> claims, sid |-> minted + 2,
                     expiresIn |-> expiresIn, upstream |-> upstream, expires |-> now + CodeTtl]
<1>1. minted \in Nat /\ now \in Nat
  BY DEF IInv, TypeOK
<1>2. /\ codes' = codes \cup {entry}
      /\ logins' = logins \cup {LoginOf(entry)}
      /\ minted' = minted + 2
      /\ UNCHANGED <<worldVars, pending, refresh, clients, subjects, revokedJti, jwts>>
  BY DEF IssueCode
<1>3. entry \in CodeEntry
  BY <1>1, SettingsAssumption DEF CodeEntry
<1>4. LoginOf(entry) \in Login /\ LoginOf(entry).sid = minted + 2
  BY <1>3 DEF LoginOf, Login, CodeEntry, AuthRequest
<1>5. entry.code = minted + 1 /\ entry.sid = minted + 2
  OBVIOUS
<1>6. LoginOf(entry).claims["sub"] # None
  BY DEF LoginOf
<1> HIDE DEF entry
<1>7. TypeOK'
  BY <1>1, <1>2, <1>3, <1>4 DEF IInv, TypeOK, worldVars
<1>8. Drawn'
  BY <1>1, <1>2, <1>4, <1>5 DEF IInv, TypeOK, Drawn, CodeEntry, RefreshEntry, Login
<1>9. Named'
  BY <1>2, <1>6 DEF IInv, Named
<1>10. OneCredentialPerLogin'
  <2>1. /\ \A e \in codes : e.sid # entry.sid
        /\ \A e \in refresh : e.sid # entry.sid
    BY <1>1, <1>5 DEF IInv, TypeOK, Drawn, CodeEntry, RefreshEntry
  <2> QED
    BY <1>2, <2>1 DEF IInv, OneCredentialPerLogin
<1>11. CredentialMatchesLogin'
  BY <1>2 DEF IInv, CredentialMatchesLogin, LoginOf, Agreed
<1>12. JtiUnique'
  BY <1>2 DEF IInv, JtiUnique
<1> QED
  BY <1>7, <1>8, <1>9, <1>10, <1>11, <1>12 DEF IInv

\* The login form keeps the invariant, whatever was typed.
LEMMA PostAuthorizeKeeps ==
  ASSUME IInv, NEW req \in AuthRequest, NEW typed \in Claims, NEW username \in Subs,
         NEW expiresIn \in Nat \cup {None}, NEW upstream,
         PostAuthorize(req, typed, username, expiresIn, upstream)
  PROVE  IInv'
<1>1. Persona(typed, username) \in Claims /\ Persona(typed, username)["sub"] # None
  BY ClaimsExcept, SettingsAssumption DEF Persona, Claims, ClaimName, Value
<1>2. upstream \in Testers \cup {None}
  BY DEF PostAuthorize, GateSessions
<1> QED
  BY <1>1, <1>2, IssueCodeKeeps DEF PostAuthorize

\* Logging in as oneself keeps the invariant.
LEMMA PostAsUpstreamKeeps ==
  ASSUME IInv, NEW req \in AuthRequest, NEW expiresIn \in Nat \cup {None}, NEW upstream,
         PostAsUpstream(req, expiresIn, upstream)
  PROVE  IInv'
<1> DEFINE claims == [UpstreamIdentity[upstream] EXCEPT !["sub"] = upstream]
<1>1. upstream \in Testers /\ upstream # None
  BY DEF PostAsUpstream, GateSessions
<1>2. claims \in Claims /\ claims["sub"] # None
  BY <1>1, LoginAssumption DEF Claims, ClaimName, Value
<1> QED
  BY <1>1, <1>2, IssueCodeKeeps DEF PostAsUpstream

\* A new refresh token is one, for what the login (or the token before it) agreed to.
LEMMA NewRefreshType ==
  ASSUME NEW token \in Nat, NEW l, UserLogin(l), l.claims \in Claims, l.offline \in BOOLEAN,
         now \in Nat
  PROVE  /\ NewRefresh(token, l) \in RefreshEntry
         /\ NewRefresh(token, l).token = token
         /\ NewRefresh(token, l).sid = l.sid
         /\ Agreed(NewRefresh(token, l)) = Agreed(l)
  BY SettingsAssumption DEF NewRefresh, UserLogin, RefreshEntry, Agreed

\* A refresh token that takes the place of the only credential of its login, if it had one,
\* leaves it the only one.
LEMMA SuccessorKeeps ==
  ASSUME IInv, NEW kept \in SUBSET refresh, NEW r, refresh' = kept \cup {r},
         codes' \subseteq codes, logins \subseteq logins', Agreed(r) \in logins',
         \A e \in codes' : e.sid # r.sid, \A e \in kept : e.sid # r.sid
  PROVE  OneCredentialPerLogin' /\ CredentialMatchesLogin'
  BY DEF IInv, OneCredentialPerLogin, CredentialMatchesLogin, Agreed, LoginOf

\* The claims of a refresh are a claim set about the persona of the login, also when an
\* admin replaced them.
LEMMA RefreshClaimsType ==
  ASSUME IInv, NEW e \in refresh
  PROVE  /\ RefreshClaims(e) \in Claims
         /\ RefreshClaims(e)["sub"] = e.claims["sub"]
<1> DEFINE overrides == {s \in subjects : s.sub = SubOf(e.claims) /\ s.claims # None}
<1>1. CASE overrides = {}
  BY <1>1 DEF RefreshClaims, IInv, TypeOK, RefreshEntry
<1>2. CASE overrides # {}
  <2> DEFINE s == CHOOSE x \in overrides : TRUE
  <2>1. s \in overrides
    BY <1>2
  <2>2. /\ s \in subjects /\ s.sub \in Subs /\ s.claims \in Claims
        /\ s.sub = SubOf(e.claims) /\ s.claims["sub"] = s.sub
    BY <2>1 DEF IInv, TypeOK, Subject, Named
  <2>3. e.claims["sub"] = s.sub
    BY <2>2, SettingsAssumption DEF SubOf, AsStr
  <2>4. RefreshClaims(e) = s.claims
    BY <1>2 DEF RefreshClaims
  <2> HIDE DEF s
  <2> QED
    BY <2>2, <2>3, <2>4
<1> QED
  BY <1>1, <1>2

\* A code exchange keeps the invariant: the refresh token takes the place of the code.
LEMMA RedeemCodeKeeps ==
  ASSUME IInv, NEW e \in codes, NEW client, NEW secret, NEW uri, NEW verifier,
         RedeemCode(e, client, secret, uri, verifier)
  PROVE  IInv'
<1> DEFINE l == LoginOf(e)
           tokens == UserTokens(l, e.claims, TRUE, minted)
           r == NewRefresh(minted + 3, l)
<1>1. /\ minted \in Nat /\ now \in Nat /\ boots \in Nat /\ e \in CodeEntry
  BY DEF IInv, TypeOK
<1>2. /\ UserLogin(l) /\ l.claims \in Claims /\ l.offline \in BOOLEAN
      /\ e.claims \in Claims /\ l.sid = e.sid /\ l \in logins /\ Agreed(l) = l
  BY <1>1 DEF UserLogin, LoginOf, CodeEntry, AuthRequest, IInv, CredentialMatchesLogin, Agreed
<1>3. /\ codes' = codes \ {e} /\ refresh' = refresh \cup {r} /\ jwts' = jwts \cup tokens
      /\ minted' = minted + 3
      /\ UNCHANGED <<worldVars, pending, clients, subjects, revokedJti, logins>>
  BY DEF RedeemCode, TakeCode
<1> HIDE DEF l
<1>4. /\ r \in RefreshEntry /\ r.token = minted + 3 /\ r.sid = e.sid /\ Agreed(r) = l
  BY <1>1, <1>2, NewRefreshType
<1>5. NewTokens(tokens, minted + 1, minted + 2)
  BY <1>1, <1>2, UserTokensType DEF LastJti
<1> HIDE DEF r, tokens
<1>6. /\ jwts' \subseteq Jwt /\ JtiUnique'
      /\ \A t \in jwts' : t.claims["jti"] \in 1 .. minted' /\ t.claims["exp"] \in Nat
  <2>1. /\ minted + 1 \in Nat /\ minted + 2 \in Nat /\ minted' \in Nat
        /\ minted < minted + 1 /\ minted + 2 <= minted' /\ minted <= minted'
    BY <1>1, <1>3
  <2>2. jwts' = jwts \cup tokens
    BY <1>3
  <2> QED
    BY <1>5, <2>1, <2>2, JwtsGrow
<1>7. TypeOK'
  BY <1>1, <1>3, <1>4, <1>6 DEF IInv, TypeOK, worldVars
<1>8. Drawn'
  BY <1>1, <1>3, <1>4, <1>6 DEF IInv, TypeOK, Drawn, CodeEntry, RefreshEntry, Login
<1>9. Named'
  BY <1>3 DEF IInv, Named
<1>10. \A f \in codes' : f.sid # r.sid
  BY <1>3, <1>4 DEF IInv, OneCredentialPerLogin
<1>11. \A f \in refresh : f.sid # r.sid
  BY <1>4 DEF IInv, OneCredentialPerLogin
<1>12. OneCredentialPerLogin' /\ CredentialMatchesLogin'
  BY <1>2, <1>3, <1>4, <1>10, <1>11, SuccessorKeeps
<1> QED
  BY <1>6, <1>7, <1>8, <1>9, <1>12 DEF IInv

\* A refresh keeps the invariant: the new refresh token takes the place of the old one.
LEMMA RotateKeeps ==
  ASSUME IInv, NEW e \in refresh, NEW client, NEW secret, Rotate(e, client, secret)
  PROVE  IInv'
<1> DEFINE tokens == UserTokens(e, RefreshClaims(e), TRUE, minted)
           r == NewRefresh(minted + 3, e)
           kept == refresh \ {e}
<1>1. /\ minted \in Nat /\ now \in Nat /\ boots \in Nat /\ e \in RefreshEntry
  BY DEF IInv, TypeOK
<1>2. UserLogin(e) /\ e.claims \in Claims /\ e.offline \in BOOLEAN /\ Agreed(e) \in logins
  BY <1>1 DEF UserLogin, RefreshEntry, IInv, CredentialMatchesLogin
<1>3. /\ refresh' = kept \cup {r} /\ jwts' = jwts \cup tokens
      /\ minted' = minted + 3
      /\ UNCHANGED <<worldVars, pending, codes, clients, subjects, revokedJti, logins>>
  BY DEF Rotate, TakeRefresh
<1>4. /\ r \in RefreshEntry /\ r.token = minted + 3 /\ r.sid = e.sid /\ Agreed(r) = Agreed(e)
  BY <1>1, <1>2, NewRefreshType
<1>5. NewTokens(tokens, minted + 1, minted + 2)
  BY <1>1, <1>2, RefreshClaimsType, UserTokensType DEF LastJti
<1> HIDE DEF r, tokens
<1>6. /\ jwts' \subseteq Jwt /\ JtiUnique'
      /\ \A t \in jwts' : t.claims["jti"] \in 1 .. minted' /\ t.claims["exp"] \in Nat
  <2>1. /\ minted + 1 \in Nat /\ minted + 2 \in Nat /\ minted' \in Nat
        /\ minted < minted + 1 /\ minted + 2 <= minted' /\ minted <= minted'
    BY <1>1, <1>3
  <2>2. jwts' = jwts \cup tokens
    BY <1>3
  <2> QED
    BY <1>5, <2>1, <2>2, JwtsGrow
<1>7. TypeOK'
  BY <1>1, <1>3, <1>4, <1>6 DEF IInv, TypeOK, worldVars
<1>8. Drawn'
  BY <1>1, <1>3, <1>4, <1>6 DEF IInv, TypeOK, Drawn, CodeEntry, RefreshEntry, Login
<1>9. Named'
  BY <1>3 DEF IInv, Named
<1>10. (\A f \in codes' : f.sid # r.sid) /\ (\A f \in kept : f.sid # r.sid)
  BY <1>3, <1>4 DEF IInv, OneCredentialPerLogin
<1>11. OneCredentialPerLogin' /\ CredentialMatchesLogin'
  BY <1>2, <1>3, <1>4, <1>10, SuccessorKeeps
<1> QED
  BY <1>6, <1>7, <1>8, <1>9, <1>11 DEF IInv

\* A password grant keeps the invariant: its login, refresh token and tokens are new.
LEMMA PasswordKeeps ==
  ASSUME IInv, NEW client \in ClientId, NEW secret, NEW username \in Subs,
         NEW offline \in BOOLEAN, NEW openid \in BOOLEAN,
         Password(client, secret, username, offline, openid)
  PROVE  IInv'
<1> DEFINE claims == [NoClaims EXCEPT !["sub"] = username]
           token == minted + (IF openid THEN 4 ELSE 3)
           l == [sid |-> minted + 1, client |-> client, claims |-> claims,
                 offline |-> offline, expiresIn |-> None, upstream |-> None]
           tokens == UserTokens(l, claims, openid, minted + 1)
           r == NewRefresh(token, l)
<1>1. /\ minted \in Nat /\ now \in Nat /\ boots \in Nat
  BY DEF IInv, TypeOK
<1>2. claims \in Claims /\ claims["sub"] # None
  BY NoClaimsType, SettingsAssumption DEF Claims, ClaimName, Value
<1>3. /\ refresh' = refresh \cup {r} /\ jwts' = jwts \cup tokens
      /\ minted' = token /\ logins' = logins \cup {l}
      /\ UNCHANGED <<worldVars, pending, codes, clients, subjects, revokedJti>>
  BY DEF Password
<1> HIDE DEF claims
<1>4. /\ UserLogin(l) /\ l.claims \in Claims /\ l.offline \in BOOLEAN
      /\ l \in Login /\ l.sid = minted + 1 /\ l.claims["sub"] # None /\ Agreed(l) = l
  BY <1>1, <1>2 DEF UserLogin, Login, Agreed
<1> HIDE DEF l
<1>5. /\ token \in Nat /\ minted + 1 <= token /\ LastJti(minted + 1, openid) < token
      /\ LastJti(minted + 1, openid) \in Nat
  BY <1>1 DEF LastJti
<1> HIDE DEF token
<1>6. /\ r \in RefreshEntry /\ r.token = token /\ r.sid = minted + 1 /\ Agreed(r) = l
  BY <1>1, <1>4, <1>5, NewRefreshType
<1>7. NewTokens(tokens, minted + 2, LastJti(minted + 1, openid))
  BY <1>1, <1>2, <1>4, UserTokensType
<1> HIDE DEF r, tokens
<1>8. /\ jwts' \subseteq Jwt /\ JtiUnique'
      /\ \A t \in jwts' : t.claims["jti"] \in 1 .. minted' /\ t.claims["exp"] \in Nat
  <2>1. /\ minted + 2 \in Nat /\ minted < minted + 2 /\ minted <= minted' /\ minted' \in Nat
        /\ LastJti(minted + 1, openid) \in Nat /\ LastJti(minted + 1, openid) <= minted'
    BY <1>1, <1>3, <1>5
  <2>2. jwts' = jwts \cup tokens
    BY <1>3
  <2> QED
    BY <1>7, <2>1, <2>2, JwtsGrow
<1>9. TypeOK'
  BY <1>1, <1>3, <1>4, <1>5, <1>6, <1>8 DEF IInv, TypeOK, worldVars
<1>10. Drawn'
  BY <1>1, <1>3, <1>4, <1>5, <1>6, <1>8 DEF IInv, TypeOK, Drawn, CodeEntry, RefreshEntry, Login
<1>11. Named'
  BY <1>3, <1>4 DEF IInv, Named
<1>12. (\A e \in codes' : e.sid # r.sid) /\ (\A e \in refresh : e.sid # r.sid)
  BY <1>1, <1>3, <1>6 DEF IInv, TypeOK, Drawn, CodeEntry, RefreshEntry
<1>13. OneCredentialPerLogin' /\ CredentialMatchesLogin'
  BY <1>3, <1>6, <1>12, SuccessorKeeps
<1> QED
  BY <1>8, <1>9, <1>10, <1>11, <1>13 DEF IInv

\* A client_credentials grant keeps the invariant: it only adds an access token.
LEMMA ClientCredentialsKeeps ==
  ASSUME IInv, NEW client \in ClientId, NEW secret, ClientCredentials(client, secret)
  PROVE  IInv'
<1> DEFINE claims == [NoClaims EXCEPT !["sub"] = client]
           p == [client |-> client, claims |-> claims, sid |-> None, expiresIn |-> None,
                 withId |-> FALSE]
           tokens == Issue(p, minted)
<1>1. /\ minted \in Nat /\ now \in Nat /\ boots \in Nat
  BY DEF IInv, TypeOK
<1>2. claims \in Claims
  BY NoClaimsType DEF Claims, ClaimName, ClientId, Value
<1>3. /\ jwts' = jwts \cup tokens /\ minted' = minted + 1
      /\ UNCHANGED <<worldVars, storeVars, logins>>
  BY DEF ClientCredentials
<1> HIDE DEF claims
<1>4. p \in IssueParams /\ p.withId = FALSE
  BY <1>2 DEF IssueParams
<1> HIDE DEF p
<1>5. NewTokens(tokens, minted + 1, minted + 1)
  BY <1>1, <1>4, IssueType DEF LastJti
<1> HIDE DEF tokens
<1>6. /\ jwts' \subseteq Jwt /\ JtiUnique'
      /\ \A t \in jwts' : t.claims["jti"] \in 1 .. minted' /\ t.claims["exp"] \in Nat
  <2>1. /\ minted + 1 \in Nat /\ minted' \in Nat
        /\ minted < minted + 1 /\ minted + 1 <= minted' /\ minted <= minted'
    BY <1>1, <1>3
  <2>2. jwts' = jwts \cup tokens
    BY <1>3
  <2> QED
    BY <1>5, <2>1, <2>2, JwtsGrow
<1>7. TypeOK'
  BY <1>1, <1>3, <1>6 DEF IInv, TypeOK, worldVars, storeVars
<1>8. Drawn'
  BY <1>1, <1>3, <1>6 DEF IInv, TypeOK, Drawn, storeVars, CodeEntry, RefreshEntry, Login
<1>9. Named' /\ OneCredentialPerLogin' /\ CredentialMatchesLogin'
  BY <1>3 DEF IInv, Named, OneCredentialPerLogin, CredentialMatchesLogin, LoginOf, Agreed,
              storeVars
<1> QED
  BY <1>6, <1>7, <1>8, <1>9 DEF IInv

----------------------------------------------------------------------------
(* The theorems *)

\* In the initial state nothing was drawn and nobody logged in.
LEMMA InitIInv == Init => IInv
  BY SettingsAssumption
  DEF Init, StoreInit, IInv, TypeOK, Drawn, Named, OneCredentialPerLogin,
      CredentialMatchesLogin, JtiUnique

\* No request, sweep, tick or restart breaks the invariant.
LEMMA NextIInv == IInv /\ [Next]_vars => IInv'
<1> SUFFICES ASSUME IInv, [Next]_vars PROVE IInv'
  OBVIOUS
<1> USE SettingsAssumption DEF worldVars, storeVars
<1>1. ASSUME NEW client \in KnownIds PROVE client \in ClientId
  BY <1>1 DEF KnownIds, IInv, TypeOK, Client, ClientId
<1>2. ASSUME NEW who \in GateSessions, LogIn(who) PROVE IInv'
  <2>0. TypedExpiresIn \subseteq Nat \cup {None}
    BY LoginAssumption, IssuerAssumption
  <2>1. ASSUME NEW req \in Requests, NEW upstream, GetAuthorize(req, upstream) PROVE IInv'
    <3>1. TypeOK'
      BY <2>1, RequestsAssumption DEF GetAuthorize, IInv, TypeOK, PendingEntry
    <3>2. Named' /\ minted' >= minted
      BY <2>1 DEF GetAuthorize, IInv, TypeOK, Named
    <3> QED
      BY <2>1, <3>1, <3>2, RemovalKeeps DEF GetAuthorize
  <2>2. ASSUME NEW req \in Requests, NEW typed \in TypedClaims, NEW username \in Usernames,
               NEW expiresIn \in TypedExpiresIn, NEW upstream,
               PostAuthorize(req, typed, username, expiresIn, upstream)
        PROVE  IInv'
    BY <2>0, <2>2, PostAuthorizeKeeps, RequestsAssumption, LoginAssumption
  <2>3. ASSUME NEW req \in Requests, NEW expiresIn \in TypedExpiresIn, NEW upstream,
               PostAsUpstream(req, expiresIn, upstream)
        PROVE  IInv'
    BY <2>0, <2>3, PostAsUpstreamKeeps, RequestsAssumption
  <2> QED
    BY <1>2, <2>1, <2>2, <2>3 DEF LogIn
<1>3. CASE Grant
  <2>1. ASSUME NEW e \in codes, NEW client, NEW secret, NEW uri, NEW verifier,
               WasteCode(e, client, secret, uri, verifier)
        PROVE  IInv'
    <3>1. TypeOK'
      BY <2>1 DEF WasteCode, TakeCode, IInv, TypeOK
    <3>2. Named' /\ minted' >= minted
      BY <2>1 DEF WasteCode, IInv, TypeOK, Named
    <3> QED
      BY <2>1, <3>1, <3>2, RemovalKeeps DEF WasteCode, TakeCode
  <2>2. ASSUME NEW e \in refresh, NEW client, NEW secret, WasteRefresh(e, client, secret)
        PROVE  IInv'
    <3>1. TypeOK'
      BY <2>2 DEF WasteRefresh, TakeRefresh, IInv, TypeOK
    <3>2. Named' /\ minted' >= minted
      BY <2>2 DEF WasteRefresh, IInv, TypeOK, Named
    <3> QED
      BY <2>2, <3>1, <3>2, RemovalKeeps DEF WasteRefresh, TakeRefresh
  <2>3. ASSUME NEW client \in KnownIds, NEW secret, NEW username \in Usernames,
               NEW scope \in PasswordScopes,
               Password(client, secret, username, scope.offline, scope.openid)
        PROVE  IInv'
    <3>1. scope.offline \in BOOLEAN /\ scope.openid \in BOOLEAN /\ username \in Subs
      BY RequestsAssumption
    <3> QED
      BY <1>1, <2>3, <3>1, PasswordKeeps
  <2> QED
    BY <1>1, <1>3, <2>1, <2>2, <2>3, RedeemCodeKeeps, RotateKeeps, ClientCredentialsKeeps
    DEF Grant
<1>4. CASE End
  <2>1. ASSUME NEW e \in refresh, NEW client, NEW secret, RevokeRefresh(e, client, secret)
        PROVE  IInv'
    <3>1. TypeOK' /\ Named' /\ minted' >= minted
      BY <2>1 DEF RevokeRefresh, IInv, TypeOK, Named
    <3> QED
      BY <2>1, <3>1, RemovalKeeps DEF RevokeRefresh
  <2>2. ASSUME NEW jwt \in jwts, NEW client, NEW secret, RevokeJwt(jwt, client, secret)
        PROVE  IInv'
    <3>1. jwt.claims["jti"] \in Nat /\ jwt.claims["exp"] \in Nat
      BY DEF IInv, Drawn
    <3>2. TypeOK' /\ Named' /\ minted' >= minted
      BY <2>2, <3>1 DEF RevokeJwt, IInv, TypeOK, Named
    <3> QED
      BY <2>2, <3>2, RemovalKeeps DEF RevokeJwt
  <2>3. ASSUME NEW hint \in jwts, EndSession(hint) PROVE IInv'
    <3>1. TypeOK' /\ Named' /\ minted' >= minted
      BY <2>3 DEF EndSession, RevokeSession, IInv, TypeOK, Named
    <3> QED
      BY <2>3, <3>1, RemovalKeeps DEF EndSession, RevokeSession
  <2> QED
    BY <1>4, <2>1, <2>2, <2>3 DEF End
<1>5. CASE Admin
  <2>1. ASSUME NEW sub \in Subs, NEW claims \in OverrideClaims, NEW disabled \in BOOLEAN,
               PutSubject(sub, claims, disabled)
        PROVE  IInv'
    <3> DEFINE forced == IF claims = None THEN None ELSE [claims EXCEPT !["sub"] = sub]
               entry == [sub |-> sub, claims |-> forced, disabled |-> disabled]
    <3>1. forced \in Claims \cup {None} /\ (forced # None => forced["sub"] = sub)
      BY SessionAssumption DEF Claims, ClaimName, Value
    <3>2. subjects' = {s \in subjects : s.sub # sub} \cup {entry}
      BY <2>1 DEF PutSubject
    <3> HIDE DEF forced
    <3>3. TypeOK'
      BY <2>1, <3>1, <3>2 DEF PutSubject, IInv, TypeOK, Subject
    <3>4. Named' /\ minted' >= minted
      BY <2>1, <3>1, <3>2 DEF PutSubject, IInv, TypeOK, Named
    <3> QED
      BY <2>1, <3>3, <3>4, RemovalKeeps DEF PutSubject
  <2>2. ASSUME NEW sub \in Subs, DeleteSubject(sub) PROVE IInv'
    <3>1. TypeOK' /\ Named' /\ minted' >= minted
      BY <2>2 DEF DeleteSubject, RevokeRefreshFor, IInv, TypeOK, Named
    <3> QED
      BY <2>2, <3>1, RemovalKeeps DEF DeleteSubject, RevokeRefreshFor
  <2>3. ASSUME NEW e \in refresh, EndAdminSession(e.sid) PROVE IInv'
    <3>1. TypeOK' /\ Named' /\ minted' >= minted
      BY <2>3 DEF EndAdminSession, RevokeSid, IInv, TypeOK, Named
    <3> QED
      BY <2>3, <3>1, RemovalKeeps DEF EndAdminSession, RevokeSid
  <2> QED
    BY <1>5, <2>1, <2>2, <2>3 DEF Admin
<1>6. ASSUME NEW uris \in SUBSET Uris, NEW public \in BOOLEAN, Register(uris, public)
      PROVE  IInv'
  <2>1. TypeOK'
    BY <1>6 DEF Register, IInv, TypeOK, Client, ClientId
  <2>2. Named' /\ minted' >= minted
    BY <1>6 DEF Register, IInv, TypeOK, Named
  <2> QED
    BY <1>6, <2>1, <2>2, RemovalKeeps DEF Register
<1>7. CASE Tick
  <2>1. TypeOK' /\ Named' /\ minted' >= minted
    BY <1>7 DEF Tick, IInv, TypeOK, Named
  <2> QED
    BY <1>7, <2>1, RemovalKeeps DEF Tick
<1>8. CASE Sweep
  <2>1. TypeOK' /\ Named' /\ minted' >= minted
    BY <1>8 DEF Sweep, Unexpired, UnexpiredJti, IInv, TypeOK, Named
  <2> QED
    BY <1>8, <2>1, RemovalKeeps DEF Sweep, Unexpired
<1>9. CASE Restart
  <2>1. TypeOK' /\ Named' /\ minted' >= minted
    BY <1>9 DEF Restart, IInv, TypeOK, Named
  <2> QED
    BY <1>9, <2>1, RemovalKeeps DEF Restart
<1>10. CASE UNCHANGED vars
  <2>1. TypeOK' /\ Named' /\ minted' >= minted
    BY <1>10 DEF vars, IInv, TypeOK, Named
  <2> QED
    BY <1>10, <2>1, RemovalKeeps DEF vars
<1> QED
  BY <1>2, <1>3, <1>4, <1>5, <1>6, <1>7, <1>8, <1>9, <1>10 DEF Next, Serve

\* The inductive invariant holds throughout.
LEMMA Invariance == Spec => []IInv
  BY InitIInv, NextIInv, PTL DEF Spec

\* Type correctness: every variable keeps its type.
THEOREM TypeCorrect == Spec => []TypeOK
<1>1. IInv => TypeOK
  BY DEF IInv
<1> QED
  BY <1>1, Invariance, PTL

\* A login never has two credentials, however codes, refreshes and logins interleave.
THEOREM OneCredential == Spec => []OneCredentialPerLogin
<1>1. IInv => OneCredentialPerLogin
  BY DEF IInv
<1> QED
  BY <1>1, Invariance, PTL

\* A credential stays what was agreed at its login through every exchange, rotation and
\* admin override.
THEOREM CredentialFaithful == Spec => []CredentialMatchesLogin
<1>1. IInv => CredentialMatchesLogin
  BY DEF IInv
<1> QED
  BY <1>1, Invariance, PTL

\* No two tokens ever have the same jti, across restarts too.
THEOREM UniqueJtis == Spec => []JtiUnique
<1>1. IInv => JtiUnique
  BY DEF IInv
<1> QED
  BY <1>1, Invariance, PTL
=============================================================================
