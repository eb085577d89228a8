----------------------------- MODULE LoginProofs -----------------------------
(***************************************************************************)
(* Proofs about logins and the tokens that name them: whose they are, who  *)
(* may get them, and what a logout leaves.                                 *)
(***************************************************************************)
EXTENDS ProviderProofs

----------------------------------------------------------------------------
(* What one step may do to logins, codes and tokens *)

\* The lifetimes a login may ask for, or None.
Askable == 0 .. U64 - 1 \cup {None}

\* A step makes at most one login; its sid is new, and so is that of a new code.
NewLoginsOnly ==
    /\ logins \subseteq logins'
    /\ \A l \in logins' \ logins : l.sid > minted /\ l.expiresIn \in Askable
    /\ \A l, m \in logins' \ logins : l = m
    /\ \A e \in codes' \ codes : e.sid > minted

\* A new token with a sid names a login of its persona and tester that is not disabled and
\* whose code, if it had one, is exchanged.
Attributed(t) ==
    \E l \in logins' :
        /\ l.sid = t.claims["sid"]
        /\ l.claims["sub"] = t.claims["sub"]
        /\ UpstreamClaim \notin {None, "sid"} /\ l.upstream # None
             => t.claims[UpstreamClaim] = l.upstream
        /\ ~IsDisabled(SubOf(t.claims))
        /\ \A e \in codes' : e.sid # l.sid

\* The tokens of a grant to a user are attributed, if their claims are about the persona of
\* a login that is not disabled and is no longer good for a code.
LEMMA UserTokensAttributed ==
  ASSUME IInv, NEW g, UserLogin(g), NEW claims \in Claims, NEW withId \in BOOLEAN,
         NEW drawn \in Nat, NEW l \in logins', NEW t \in UserTokens(g, claims, withId, drawn),
         l.sid = g.sid, l.upstream = g.upstream,
         l.claims["sub"] = claims["sub"], claims["sub"] # None,
         ~IsDisabled(SubOf(claims)), \A e \in codes' : e.sid # g.sid
  PROVE  Attributed(t)
<1>1. now \in Nat /\ boots \in Nat
  BY DEF IInv, TypeOK
<1>2. /\ t.claims["sid"] = g.sid
      /\ t.claims["sub"] = claims["sub"]
      /\ UpstreamClaim \notin {None, "sid"} /\ g.upstream # None
           => t.claims[UpstreamClaim] = g.upstream
  BY <1>1, UserTokensType
<1>3. SubOf(t.claims) = SubOf(claims)
  BY <1>2 DEF SubOf
<1> QED
  BY <1>2, <1>3 DEF Attributed

\* The tokens of a code exchange are attributed.
LEMMA RedeemCodeAttributed ==
  ASSUME IInv, NEW e \in codes, NEW client, NEW secret, NEW uri, NEW verifier,
         RedeemCode(e, client, secret, uri, verifier), NEW t \in jwts' \ jwts
  PROVE  Attributed(t)
<1> DEFINE l == LoginOf(e)
<1>1. minted \in Nat /\ e \in CodeEntry
  BY DEF IInv, TypeOK
<1>2. /\ UserLogin(l) /\ l \in logins /\ l.sid = e.sid /\ l.claims = e.claims
      /\ e.claims \in Claims
  BY <1>1 DEF UserLogin, LoginOf, CodeEntry, AuthRequest, IInv, CredentialMatchesLogin
<1>3. /\ logins' = logins /\ codes' = codes \ {e}
      /\ t \in UserTokens(l, e.claims, TRUE, minted)
      /\ ~IsDisabled(SubOf(e.claims))
  BY DEF RedeemCode, Redeemable, TakeCode
<1> HIDE DEF l
<1>4. e.claims["sub"] # None
  BY <1>2 DEF IInv, Named
<1>5. \A f \in codes' : f.sid # e.sid
  BY <1>3 DEF IInv, OneCredentialPerLogin
<1> QED
  BY <1>1, <1>2, <1>3, <1>4, <1>5, UserTokensAttributed

\* The tokens of a refresh are attributed, under an admin's claims too.
LEMMA RotateAttributed ==
  ASSUME IInv, NEW e \in refresh, NEW client, NEW secret, Rotate(e, client, secret),
         NEW t \in jwts' \ jwts
  PROVE  Attributed(t)
<1> DEFINE l == Agreed(e)
           claims == RefreshClaims(e)
<1>1. minted \in Nat /\ e \in RefreshEntry
  BY DEF IInv, TypeOK
<1>2. /\ UserLogin(e) /\ l \in logins /\ l.sid = e.sid /\ l.upstream = e.upstream
      /\ l.claims = e.claims
  BY <1>1 DEF UserLogin, RefreshEntry, IInv, CredentialMatchesLogin, Agreed
<1>3. claims \in Claims /\ claims["sub"] = e.claims["sub"]
  BY RefreshClaimsType
<1>4. /\ logins' = logins /\ codes' = codes
      /\ t \in UserTokens(e, claims, TRUE, minted)
      /\ ~IsDisabled(SubOf(e.claims))
  BY DEF Rotate, Taken
<1> HIDE DEF l, claims
<1>5. claims["sub"] # None /\ SubOf(claims) = SubOf(e.claims)
  BY <1>2, <1>3 DEF IInv, Named, SubOf
<1>6. \A f \in codes' : f.sid # e.sid
  BY <1>4 DEF IInv, OneCredentialPerLogin
<1> QED
  BY <1>1, <1>2, <1>3, <1>4, <1>5, <1>6, UserTokensAttributed

\* The tokens of a password grant are attributed to the login it makes.
LEMMA PasswordAttributed ==
  ASSUME IInv, NEW client \in ClientId, NEW secret, NEW username \in Subs,
         NEW offline \in BOOLEAN, NEW openid \in BOOLEAN,
         Password(client, secret, username, offline, openid), NEW t \in jwts' \ jwts
  PROVE  Attributed(t)
<1> DEFINE claims == [NoClaims EXCEPT !["sub"] = username]
           l == [sid |-> minted + 1, client |-> client, claims |-> claims,
                 offline |-> offline, expiresIn |-> None, upstream |-> None]
<1>1. minted \in Nat
  BY DEF IInv, TypeOK
<1>2. claims \in Claims /\ claims["sub"] # None
  BY NoClaimsType, SettingsAssumption DEF Claims, ClaimName, Value
<1>3. /\ logins' = logins \cup {l} /\ codes' = codes
      /\ t \in UserTokens(l, claims, openid, minted + 1)
      /\ ~IsDisabled(SubOf(claims))
  BY DEF Password
<1> HIDE DEF claims
<1>4. UserLogin(l) /\ l.sid = minted + 1 /\ l.claims = claims /\ l \in logins'
  BY <1>1, <1>3 DEF UserLogin
<1> HIDE DEF l
<1>5. \A e \in codes' : e.sid # l.sid
  BY <1>1, <1>3, <1>4 DEF IInv, Drawn, TypeOK, CodeEntry
<1> QED
  BY <1>1, <1>2, <1>3, <1>4, <1>5, UserTokensAttributed

\* The token of a client_credentials grant names no login.
LEMMA ClientCredentialsNoSid ==
  ASSUME IInv, NEW client \in ClientId, NEW secret,
         ClientCredentials(client, secret), NEW t \in jwts' \ jwts
  PROVE  t.claims["sid"] = DefaultClaims["sid"]
<1> DEFINE claims == [NoClaims EXCEPT !["sub"] = client]
           p == [client |-> client, claims |-> claims, sid |-> None, expiresIn |-> None,
                 withId |-> FALSE]
<1>1. minted \in Nat /\ now \in Nat /\ boots \in Nat
  BY DEF IInv, TypeOK
<1>2. claims \in Claims /\ claims["sid"] = None
  BY NoClaimsType DEF Claims, ClaimName, ClientId, Value, NoClaims
<1>3. t \in Issue(p, minted)
  BY DEF ClientCredentials
<1> HIDE DEF claims
<1>4. p \in IssueParams /\ p.sid = None /\ p.claims["sid"] = None
  BY <1>2 DEF IssueParams
<1> HIDE DEF p
<1>5. MadeFor(t, p)
  BY <1>1, <1>3, <1>4, IssueType
<1> QED
  BY <1>4, <1>5 DEF MadeFor

\* The names a client may go by are client ids.
LEMMA KnownIdsType == ASSUME IInv PROVE KnownIds \subseteq ClientId
  BY DEF KnownIds, IInv, TypeOK, Client, ClientId

\* Every new token that names a login is attributed: no other step signs one.
LEMMA NextAttributed ==
  ASSUME IInv, [Next]_vars, NEW t \in jwts' \ jwts, t.claims["sid"] # DefaultClaims["sid"]
  PROVE  Attributed(t)
<1> USE DEF worldVars, storeVars
<1>1. ASSUME NEW who \in GateSessions, LogIn(who) PROVE FALSE
  BY <1>1 DEF LogIn, GetAuthorize, PostAuthorize, PostAsUpstream, IssueCode
<1>2. CASE Grant
  <2>1. PICK client \in KnownIds, secret \in KnownSecrets :
          \/ \E e \in codes, uri \in Uris \cup {None}, verifier \in Verifiers \cup {None} :
               \/ RedeemCode(e, client, secret, uri, verifier)
               \/ WasteCode(e, client, secret, uri, verifier)
          \/ \E e \in refresh : \/ Rotate(e, client, secret)
                                \/ WasteRefresh(e, client, secret)
          \/ \E username \in Usernames, scope \in PasswordScopes :
               Password(client, secret, username, scope.offline, scope.openid)
          \/ ClientCredentials(client, secret)
    BY <1>2 DEF Grant
  <2>2. client \in ClientId
    BY KnownIdsType
  <2>3. ASSUME NEW e \in codes, NEW uri, NEW verifier,
               WasteCode(e, client, secret, uri, verifier)
        PROVE  FALSE
    BY <2>3 DEF WasteCode
  <2>4. ASSUME NEW e \in refresh, WasteRefresh(e, client, secret) PROVE FALSE
    BY <2>4 DEF WasteRefresh
  <2>5. ASSUME NEW username \in Usernames, NEW scope \in PasswordScopes,
               Password(client, secret, username, scope.offline, scope.openid)
        PROVE  Attributed(t)
    <3>1. scope.offline \in BOOLEAN /\ scope.openid \in BOOLEAN /\ username \in Subs
      BY RequestsAssumption
    <3> QED
      BY <2>2, <2>5, <3>1, PasswordAttributed
  <2> QED
    BY <2>1, <2>2, <2>3, <2>4, <2>5, RedeemCodeAttributed, RotateAttributed,
       ClientCredentialsNoSid
<1>3. CASE End
  BY <1>3 DEF End, RevokeRefresh, RevokeJwt, EndSession
<1>4. CASE Admin
  BY <1>4 DEF Admin, PutSubject, DeleteSubject, EndAdminSession
<1>5. ASSUME NEW uris \in SUBSET Uris, NEW public \in BOOLEAN, Register(uris, public)
      PROVE  FALSE
  BY <1>5 DEF Register
<1>6. CASE Tick
  BY <1>6 DEF Tick
<1>7. CASE Sweep
  BY <1>7 DEF Sweep
<1>8. CASE Restart
  BY <1>8 DEF Restart
<1>9. CASE UNCHANGED vars
  BY <1>9 DEF vars
<1> QED
  BY <1>1, <1>2, <1>3, <1>4, <1>5, <1>6, <1>7, <1>8, <1>9 DEF Next, Serve

\* A login form makes one login, with a sid just drawn.
LEMMA IssueCodeNew ==
  ASSUME IInv, NEW req, NEW claims, NEW expiresIn \in TypedExpiresIn, NEW upstream,
         IssueCode(req, claims, expiresIn, upstream)
  PROVE  NewLoginsOnly
  BY LoginAssumption DEF IssueCode, NewLoginsOnly, LoginOf, IInv, TypeOK, Askable

\* A step makes at most one login, with a sid just drawn.
LEMMA NextNewLogins == ASSUME IInv, [Next]_vars PROVE NewLoginsOnly
<1> USE DEF worldVars, storeVars, NewLoginsOnly
<1>1. ASSUME NEW who \in GateSessions, LogIn(who) PROVE NewLoginsOnly
  <2>1. ASSUME NEW req, NEW upstream, GetAuthorize(req, upstream) PROVE NewLoginsOnly
    BY <2>1 DEF GetAuthorize
  <2> QED
    BY <1>1, <2>1, IssueCodeNew DEF LogIn, PostAuthorize, PostAsUpstream
<1>2. CASE Grant
  <2>1. ASSUME NEW client, NEW secret, NEW username, NEW offline, NEW openid,
               Password(client, secret, username, offline, openid)
        PROVE  NewLoginsOnly
    BY <2>1 DEF Password, IInv, TypeOK, Askable
  <2>2. ASSUME NEW e \in codes, NEW client, NEW secret, NEW uri, NEW verifier,
               \/ RedeemCode(e, client, secret, uri, verifier)
               \/ WasteCode(e, client, secret, uri, verifier)
        PROVE  NewLoginsOnly
    BY <2>2 DEF RedeemCode, WasteCode, TakeCode
  <2>3. ASSUME NEW e \in refresh, NEW client, NEW secret,
               Rotate(e, client, secret) \/ WasteRefresh(e, client, secret)
        PROVE  NewLoginsOnly
    BY <2>3 DEF Rotate, WasteRefresh
  <2>4. ASSUME NEW client, NEW secret, ClientCredentials(client, secret)
        PROVE  NewLoginsOnly
    BY <2>4 DEF ClientCredentials
  <2> QED
    BY <1>2, <2>1, <2>2, <2>3, <2>4 DEF Grant
<1>3. CASE End
  BY <1>3 DEF End, RevokeRefresh, RevokeJwt, EndSession
<1>4. CASE Admin
  BY <1>4 DEF Admin, PutSubject, DeleteSubject, EndAdminSession
<1>5. ASSUME NEW uris \in SUBSET Uris, NEW public \in BOOLEAN, Register(uris, public)
      PROVE  NewLoginsOnly
  BY <1>5 DEF Register
<1>6. CASE Tick
  BY <1>6 DEF Tick
<1>7. CASE Sweep
  BY <1>7 DEF Sweep, Unexpired
<1>8. CASE Restart
  BY <1>8 DEF Restart
<1>9. CASE UNCHANGED vars
  BY <1>9 DEF vars
<1> QED
  BY <1>1, <1>2, <1>3, <1>4, <1>5, <1>6, <1>7, <1>8, <1>9 DEF Next, Serve

----------------------------------------------------------------------------
(* Tokens and logins *)

\* A step keeps tokens about their logins, and sids apart.
LEMMA NextLInv ==
  ASSUME LInv, [Next]_vars
  PROVE  LInv'
<1>1. IInv /\ IInv'
  BY NextIInv DEF LInv
<1>2. NewLoginsOnly
  BY <1>1, NextNewLogins
<1>3. ASSUME NEW t \in jwts' \ jwts, t.claims["sid"] # DefaultClaims["sid"] PROVE Attributed(t)
  BY <1>1, <1>3, NextAttributed
<1>4. ASSUME NEW t \in jwts, t.claims["sid"] # DefaultClaims["sid"]
      PROVE  \E l \in logins : /\ l.sid = t.claims["sid"]
                               /\ l.claims["sub"] = t.claims["sub"]
                               /\ UpstreamClaim \notin {None, "sid"} /\ l.upstream # None
                                    => t.claims[UpstreamClaim] = l.upstream
  BY <1>4 DEF LInv, TokenMatchesLogin
<1>5. TokenMatchesLogin'
  BY <1>2, <1>3, <1>4 DEF TokenMatchesLogin, Attributed, NewLoginsOnly
<1>6. minted \in Nat /\ \A l \in logins : l.sid \in Nat /\ l.sid <= minted
  BY <1>1 DEF IInv, TypeOK, Drawn, Login
<1>7. \A l, m \in logins' : l.sid = m.sid => l = m
  <2>1. \A l \in logins, m \in logins' \ logins : l.sid # m.sid
    BY <1>2, <1>6 DEF NewLoginsOnly
  <2> QED
    BY <1>2, <2>1 DEF NewLoginsOnly, LInv, SidsOfLogins
<1>8. ASSUME NEW t \in jwts', NEW e \in codes' PROVE t.claims["sid"] # e.sid
  <2>1. e.sid \in Nat /\ e.sid # None
    BY <1>1, SettingsAssumption DEF IInv, TypeOK, CodeEntry
  <2>2. CASE t.claims["sid"] = DefaultClaims["sid"]
    BY <2>1, <2>2, IssuerAssumption
  <2>3. CASE t.claims["sid"] # DefaultClaims["sid"] /\ t \notin jwts
    BY <1>3, <2>3 DEF Attributed
  <2>4. CASE t.claims["sid"] # DefaultClaims["sid"] /\ t \in jwts /\ e \in codes
    BY <2>4 DEF LInv, SidsOfLogins
  <2>5. CASE t.claims["sid"] # DefaultClaims["sid"] /\ t \in jwts /\ e \notin codes
    BY <1>2, <1>4, <1>6, <2>1, <2>5 DEF NewLoginsOnly
  <2> QED
    BY <2>2, <2>3, <2>4, <2>5
<1> QED
  BY <1>1, <1>5, <1>7, <1>8 DEF LInv, SidsOfLogins

\* The stronger invariant holds throughout.
LEMMA LoginInvariance == Spec => []LInv
<1>1. Init => LInv
  BY InitIInv DEF Init, StoreInit, LInv, TokenMatchesLogin, SidsOfLogins
<1>2. LInv /\ [Next]_vars => LInv'
  BY NextLInv
<1> QED
  BY <1>1, <1>2, PTL DEF Spec

\* Every token that carries a sid is about the persona and the tester of that login, whatever
\* was typed at login and whatever an admin put since.
THEOREM TokenProvenance == Spec => []TokenMatchesLogin
<1>1. LInv => TokenMatchesLogin
  BY DEF LInv
<1> QED
  BY <1>1, LoginInvariance, PTL

\* A logout with any token of an online login (whose `azp` was not typed over) leaves the
\* login no credential, whenever it comes.
THEOREM LogoutIsFinal == Spec => []LogoutEndsLogin
<1>1. ASSUME LInv PROVE LogoutEndsLogin
  <2> SUFFICES ASSUME NEW t \in jwts, NEW l \in logins, l.sid = t.claims["sid"],
                      l.client = t.claims["azp"], ~l.offline,
                      NEW e \in codes \cup RevokeSession(l.sid, l.client), e.sid = l.sid
               PROVE  FALSE
    BY DEF LogoutEndsLogin
  <2>1. CASE e \in codes
    BY <1>1, <2>1 DEF LInv, SidsOfLogins
  <2>2. CASE e \in RevokeSession(l.sid, l.client)
    <3>1. e \in refresh /\ ~(e.sid = l.sid /\ e.client = l.client /\ ~e.offline)
      BY <2>2 DEF RevokeSession
    <3>2. Agreed(e) \in logins /\ Agreed(e).sid = l.sid
      BY <1>1, <3>1 DEF LInv, IInv, CredentialMatchesLogin, Agreed
    <3>3. Agreed(e) = l
      BY <1>1, <3>2 DEF LInv, SidsOfLogins
    <3> QED
      BY <3>1, <3>3 DEF Agreed
  <2> QED
    BY <2>1, <2>2
<1> QED
  BY <1>1, LoginInvariance, PTL

\* No step issues a token to a user who is disabled at that moment.
THEOREM DisabledGetNothing == Spec => NoMintWhileDisabled
<1>1. IInv /\ [Next]_vars =>
        [\A t \in jwts' \ jwts :
           t.claims["sid"] # DefaultClaims["sid"] => ~IsDisabled(SubOf(t.claims))]_vars
  BY NextAttributed DEF Attributed
<1> QED
  BY <1>1, Invariance, PTL DEF Spec, NoMintWhileDisabled

----------------------------------------------------------------------------
(* Who may log in *)

\* Behind the gate a login form makes a login of the tester whose session came with it.
LEMMA IssueCodeGated ==
  ASSUME NEW req, NEW claims, NEW expiresIn, NEW upstream \in GateSessions,
         GatedLoginsAttributed, IssueCode(req, claims, expiresIn, upstream)
  PROVE  GatedLoginsAttributed'
<1> DEFINE entry == [code |-> minted + 1, req |-> req, claims |-> claims, sid |-> minted + 2,
                     expiresIn |-> expiresIn, upstream |-> upstream, expires |-> now + CodeTtl]
<1>1. logins' = logins \cup {LoginOf(entry)} /\ LoginOf(entry).upstream = upstream
  BY DEF IssueCode, LoginOf
<1>2. GateOn => upstream \in Testers
  BY DEF GateSessions
<1> QED
  BY <1>1, <1>2 DEF GatedLoginsAttributed

\* No step makes a login behind the gate that is neither a tester's nor a trusted client's.
LEMMA NextGated == GatedLoginsAttributed /\ [Next]_vars => GatedLoginsAttributed'
<1> SUFFICES ASSUME GatedLoginsAttributed, [Next]_vars PROVE GatedLoginsAttributed'
  OBVIOUS
<1> USE DEF worldVars, storeVars
<1>1. ASSUME logins' = logins PROVE GatedLoginsAttributed'
  BY <1>1 DEF GatedLoginsAttributed
<1>2. ASSUME NEW who \in GateSessions, LogIn(who) PROVE GatedLoginsAttributed'
  <2>1. ASSUME NEW req, NEW upstream, GetAuthorize(req, upstream)
        PROVE  GatedLoginsAttributed'
    BY <1>1, <2>1 DEF GetAuthorize
  <2> QED
    BY <1>2, <2>1, IssueCodeGated DEF LogIn, PostAuthorize, PostAsUpstream
<1>3. CASE Grant
  <2>1. ASSUME NEW client, NEW secret, NEW username, NEW offline, NEW openid,
               Password(client, secret, username, offline, openid)
        PROVE  GatedLoginsAttributed'
    <3>1. PICK l : logins' = logins \cup {l} /\ l.client = client
      BY <2>1 DEF Password
    <3>2. GateOn => \E c \in ConfiguredClients : c.id = client /\ c.secret # None
      BY <2>1 DEF Password, Trusted
    <3> QED
      BY <3>1, <3>2 DEF GatedLoginsAttributed
  <2>2. ASSUME NEW e, NEW client, NEW secret, NEW uri, NEW verifier,
               \/ RedeemCode(e, client, secret, uri, verifier)
               \/ WasteCode(e, client, secret, uri, verifier)
        PROVE  GatedLoginsAttributed'
    BY <1>1, <2>2 DEF RedeemCode, WasteCode
  <2>3. ASSUME NEW e, NEW client, NEW secret,
               Rotate(e, client, secret) \/ WasteRefresh(e, client, secret)
        PROVE  GatedLoginsAttributed'
    BY <1>1, <2>3 DEF Rotate, WasteRefresh
  <2>4. ASSUME NEW client, NEW secret, ClientCredentials(client, secret)
        PROVE  GatedLoginsAttributed'
    BY <1>1, <2>4 DEF ClientCredentials
  <2> QED
    BY <1>3, <2>1, <2>2, <2>3, <2>4 DEF Grant
<1>4. CASE End
  BY <1>1, <1>4 DEF End, RevokeRefresh, RevokeJwt, EndSession
<1>5. CASE Admin
  BY <1>1, <1>5 DEF Admin, PutSubject, DeleteSubject, EndAdminSession
<1>6. ASSUME NEW uris, NEW public, Register(uris, public) PROVE GatedLoginsAttributed'
  BY <1>1, <1>6 DEF Register
<1>7. CASE Tick
  BY <1>1, <1>7 DEF Tick
<1>8. CASE Sweep
  BY <1>1, <1>8 DEF Sweep
<1>9. CASE Restart
  BY <1>1, <1>9 DEF Restart
<1>10. CASE UNCHANGED vars
  BY <1>1, <1>10 DEF vars
<1> QED
  BY <1>2, <1>3, <1>4, <1>5, <1>6, <1>7, <1>8, <1>9, <1>10 DEF Next, Serve

\* Behind the gate every login ever made is attributable: to a tester, or to a client that
\* the operator configured with a secret; registering a client at run time does not help.
THEOREM GateHolds == Spec => []GatedLoginsAttributed
<1>1. Init => GatedLoginsAttributed
  BY DEF Init, StoreInit, GatedLoginsAttributed
<1> QED
  BY <1>1, NextGated, PTL DEF Spec

----------------------------------------------------------------------------
(* Strict mode *)

\* A login form in strict mode makes a code that its client's registration allows.
LEMMA IssueCodeStrict ==
  ASSUME StrictCodesBound, NEW req, NEW claims, NEW expiresIn, NEW upstream,
         ValidRequest(req), IssueCode(req, claims, expiresIn, upstream)
  PROVE  StrictCodesBound'
<1>1. PICK entry : codes' = codes \cup {entry} /\ entry.req = req /\ clients' = clients
  BY DEF IssueCode
<1> QED
  BY <1>1 DEF StrictCodesBound, ValidRequest

\* No step leaves a code whose client's registration does not allow it.
LEMMA NextStrict == StrictCodesBound /\ [Next]_vars => StrictCodesBound'
<1> SUFFICES ASSUME StrictCodesBound, [Next]_vars PROVE StrictCodesBound'
  OBVIOUS
<1> USE DEF worldVars, storeVars
<1>1. ASSUME codes' \subseteq codes, clients \subseteq clients' PROVE StrictCodesBound'
  BY <1>1 DEF StrictCodesBound
<1>2. ASSUME NEW who \in GateSessions, LogIn(who) PROVE StrictCodesBound'
  <2>1. ASSUME NEW req, NEW upstream, GetAuthorize(req, upstream) PROVE StrictCodesBound'
    BY <1>1, <2>1 DEF GetAuthorize
  <2> QED
    BY <1>2, <2>1, IssueCodeStrict DEF LogIn, PostAuthorize, PostAsUpstream
<1>3. CASE Grant
  <2>1. ASSUME NEW client, NEW secret, NEW username, NEW offline, NEW openid,
               Password(client, secret, username, offline, openid)
        PROVE  StrictCodesBound'
    BY <1>1, <2>1 DEF Password
  <2>2. ASSUME NEW e, NEW client, NEW secret, NEW uri, NEW verifier,
               \/ RedeemCode(e, client, secret, uri, verifier)
               \/ WasteCode(e, client, secret, uri, verifier)
        PROVE  StrictCodesBound'
    BY <1>1, <2>2 DEF RedeemCode, WasteCode, TakeCode
  <2>3. ASSUME NEW e, NEW client, NEW secret,
               Rotate(e, client, secret) \/ WasteRefresh(e, client, secret)
        PROVE  StrictCodesBound'
    BY <1>1, <2>3 DEF Rotate, WasteRefresh
  <2>4. ASSUME NEW client, NEW secret, ClientCredentials(client, secret)
        PROVE  StrictCodesBound'
    BY <1>1, <2>4 DEF ClientCredentials
  <2> QED
    BY <1>3, <2>1, <2>2, <2>3, <2>4 DEF Grant
<1>4. CASE End
  BY <1>1, <1>4 DEF End, RevokeRefresh, RevokeJwt, EndSession
<1>5. CASE Admin
  BY <1>1, <1>5 DEF Admin, PutSubject, DeleteSubject, EndAdminSession
<1>6. ASSUME NEW uris, NEW public, Register(uris, public) PROVE StrictCodesBound'
  BY <1>1, <1>6 DEF Register
<1>7. CASE Tick
  BY <1>1, <1>7 DEF Tick
<1>8. CASE Sweep
  BY <1>1, <1>8 DEF Sweep, Unexpired
<1>9. CASE Restart
  BY <1>9 DEF Restart, StrictCodesBound
<1>10. CASE UNCHANGED vars
  BY <1>1, <1>10 DEF vars
<1> QED
  BY <1>2, <1>3, <1>4, <1>5, <1>6, <1>7, <1>8, <1>9, <1>10 DEF Next, Serve

\* In strict mode every outstanding code is for a client still registered, a redirect URI of
\* it, and has a code challenge if the client has no secret.
THEOREM StrictHolds == Spec => []StrictCodesBound
<1>1. Init => StrictCodesBound
  BY DEF Init, StoreInit, StrictCodesBound
<1> QED
  BY <1>1, NextStrict, PTL DEF Spec
=============================================================================
