# A verification of nano-mockidp

nano-mockidp is a mock OpenID Connect provider: anyone logs in as any persona, applications
exchange codes, refresh tokens, log out; an admin disables personas or replaces their claims
at run time; an upstream identity provider may gate who gets in. All state is in memory.
This directory holds a TLA+ model of it, what TLC checks of the model, and what TLAPS proves.

Paths below are relative to the repository (`src/store.rs` is the file of that name in the
crate's `src/`).

## 1. Inventory

| Component | State it keeps | Operations | Talks to |
|---|---|---|---|
| Store (`src/store.rs`, `src/state.rs`) | `pending`, `codes`, `refresh`, `clients`, `subjects`, `revoked_jti` behind one mutex | insert, take, revoke, look up, list, sweep | everybody below |
| Sweeper (`src/lib.rs`) | — | every 60 s removes what expired | store |
| Token issuing (`src/token.rs`) | — (key and settings) | merge claims, sign, verify | clock, key |
| Authorization endpoint (`src/routes/authorize.rs`) | — | login page (GET), login form (POST) → code | store, gate |
| Token endpoint (`src/routes/token.rs`) | — | four grants; takes codes and refresh tokens | store, token issuing |
| Revocation, logout (`src/routes/revoke.rs`, `session.rs`) | — | revoke a token, end a login | store, token verification |
| Introspection, userinfo | — | is this token accepted? | store, token verification |
| Admin (`src/routes/admin.rs`) | — | put/delete a subject, list and end sessions | store |
| Registration (`src/routes/register.rs`) | — | add a client | store |
| Upstream gate (`src/upstream/mod.rs`, `gate.rs`) | none in the server: sealed cookies in browsers, a key per process | start login, callback, check cookie | upstream client |
| Upstream client (`src/upstream/client.rs`) | cached discovery document, last failure, cached JWKS | discover, exchange, verify ID token | the upstream provider |
| Keys, URLs, configuration (`src/keys.rs`, `urls.rs`, `config.rs`) | fixed at start | pure functions | — |
| Router, process (`src/routes/mod.rs`, `main.rs`) | — | dispatch | all |

**Concurrency.** `main.rs:7` runs one thread. The store's handlers await nothing after their
request is read, so each is atomic, even the refresh grant, which locks the store three times
(`routes/token.rs:315`, `:128`). They interleave with one another, with the sweeper and with
the clock. The upstream gate's handlers do await (discovery, JWKS, code exchange) and
interleave at those points.

**Failure.** A restart loses the store but not the tokens people hold, which verify again
when the key comes from a seed or a PEM. Clients may repeat, abandon or reorder requests, and
present anyone's code, refresh token or JWT. Everything expires.

**What is hard.** The order inside the handlers (a code is taken before it is checked), state
that is stale when used (a persona disabled since login, an override put or removed between
refreshes), identity that must survive many steps (the sid of a login, its kind, its tester),
claims typed by anyone that end up in decisions (`azp`, `sub`, the tester's claim), the second
at which something expires. The full list, each at its line, is under `hazards` in
`PROJECT.json`.

**What makes each part correct.** A login has one credential at a time and is over for good
when that is gone; a credential stays what was agreed at login; tokens are about the login's
persona and tester; nobody disabled gets tokens; revoked stays revoked; logout ends the login;
strict mode and the gate cannot be walked around by registering a client; nothing expired
stays in memory.

## 2. Modules

The provider. Each module EXTENDS the one before it; all share the variables of `Store`.

| Module | Models | Actions |
|---|---|---|
| `Store` | maps, expiries, removals, sweeper, clock, restart | `Sweep`, `Tick`, `Restart` |
| `Issuer` | claims merging, token sets, verification | — |
| `ClientRegistry` | client authentication, trusted clients, request validation, registration | `Register` |
| `LoginEndpoint` | GET/POST `/authorize` | `GetAuthorize`, `PostAuthorize`, `PostAsUpstream` |
| `TokenEndpoint` | POST `/token` | `RedeemCode`, `WasteCode`, `Rotate`, `WasteRefresh`, `Password`, `ClientCredentials` |
| `SessionEndpoints` | `/revoke`, `/end_session`, `/admin` | `RevokeRefresh`, `RevokeJwt`, `EndSession`, `PutSubject`, `DeleteSubject`, `EndAdminSession` |
| `Provider` | the router: all of the above, interleaved | `Next`, `Spec`, `FairSpec` |
| `LoginLifecycle` | abstract: what the provider promises about one login | `Begin`, `IssueTokens`, `Finish` |
| `EagerProvider` | abstract: the provider with a memory that forgets by itself | those of `Provider`, with `ForgetfulTick` for `Tick` |
| `ProviderProperties` | the properties, the inductive invariants, the refinement mapping | |
| `MCProvider` | inputs for TLC | |
| `ProviderProofs`, `LoginProofs`, `LifecycleProofs` | the TLAPS proofs | |

The upstream side, a family of its own:

| Module | Models | Actions |
|---|---|---|
| `UpstreamClient` | the `Upstream` struct (discovery and key caches, ID-token checks); the upstream itself, external | fetches, `LogInUpstream`, `Rotate`, `Retire` |
| `UpstreamGate` | start of a login, callback, sealed cookies; all of it interleaved | `StartLogin`, `BeginDiscovery`, `Callback`, `ExchangeServed`, `ExchangeAnswered`, `JwksServed`, `JwksArrives`, `Abandon`, `Restart`, … |
| `GateLifecycle` | abstract: who may be let in with a browser, how often and for how long | `Begin`, `Vouch`, `Enter`, `Waste`, `Pass`, `Forget` |
| `UpstreamProperties`, `MCUpstream` | the properties and the refinement mapping; the instances for TLC | |
| `GateProofs`, `GateRefinement`, `KeyProofs` | the TLAPS proofs | |

Both together, and the URLs:

| Module | Models | Actions |
|---|---|---|
| `GatedProvider` | the provider behind its gate as one process: one clock, one restart, and a browser reaches the login page with the gate cookie it holds then (`GatedLogIn`) | the actions of both |
| `MCGated`, `GatedProofs` | an instance for TLC; the TLAPS proofs | |
| `Endpoints` | the issuer and the endpoint URLs a relying party finds, by the origin it asked at, the proxies in between and the settings | `Discover`, `Obtain` |
| `MCEndpoints`, `EndpointProofs` | an instance for TLC; the TLAPS proofs | |

**State.** The maps are sets of records with their key as a field. A token, sid, jti, client id
or secret made by `random_token` is a number, drawn from the counter `minted`: 256 random bits
are taken to be new each time. `now` counts seconds, `boots` restarts; a signing key is the
number of the boot that made it, or 0 if it is loaded from the settings. `jwts` is what clients
hold: every access and ID token handed out. `logins` is a history variable: the agreement of
each login (client, claims, kind, lifetime, tester) as it was made.

**Data.** A claim set maps a fixed set of claim names to a value or `None`. `tag` stands for
every claim the code only copies. `UpstreamClaim` is the name `UPSTREAM_SUB_TOKEN_CLAIM` gives
the tester: one of the claim names, but not those the code refuses. `NotString` is a JSON value
that is not a string: `sub_of` reads it as absent. Audience, scope (other than `offline_access`
and `openid`), nonce, `auth_time` and the wording of answers are left out. A PKCE challenge
equals its verifier: SHA-256 is taken to be injective. `exp` is the sum modulo `U64` that a
release build computes from the clock and a lifetime typed at login; the runs make `U64` small
where the wrap matters.

**Handlers.** A handler that succeeds is an action whose guard is the conjunction of its checks
and whose effect is everything it changes. Failing paths that change nothing are no action. Two
failing paths do change state and are actions: `WasteCode` (the code is gone although the
request is refused) and `WasteRefresh` (the refresh token is gone although it is expired or
another client's). The refresh grant of a disabled subject leaves the token, because the code
looks before it takes (`Taken`).

**The upstream side.** Here handlers await, so a request is a *visit* that waits at a step
(`discover`, `exchange`, `jwks`), and an action is what runs between two awaits. What the
upstream does and the arrival of its answer are two steps (`ExchangeServed` and
`ExchangeAnswered`, `JwksServed` and `JwksArrives`): in between time passes, keys change and the
process may restart. A visit may also be abandoned: a closed connection drops its request where
it waits. A discovery document whose authorization endpoint is no URL is cached and lets nobody
on (`NoLoginAfterDiscovery`); a return address that is too long (414) changes nothing and is no
action. The three random values of an upstream login are one number. A sealed cookie is a record with the number of the
process that sealed it; browsers keep cookies past their `Max-Age`. `meta_err` is the age of
the failure, on a clock of its own (`Instant`). The upstream issues a code per login and
tester, redeems it once, signs with its newest key, publishes and withdraws keys; a JWKS answer
is what it published when it answered, and may arrive much later. Any code it ever issued may
come with any callback. `iss` and `aud` are left out, and whether a tester may pass
(`claim_allows`, the size of the cookie) is the set `Admitted`. Only the start of a login
fetches discovery: at a callback it is always cached, which `CallbackFindsDiscovery` states.
The guard `meta` of `Callback` rests on it.

**The composition.** The handlers of the provider are atomic and those of the gate wait, in one
process. The two halves meet in two places only: a browser's login page asks
`gate.session(&headers)`, so `GatedLogIn(b)` is the provider's login for the tester whose gate
cookie `b` holds and which still opens; and `Tick` and `Restart` are those of both. By itself
the provider takes any tester for the outcome of the gate (`GateSessions`); the composition
shows that this loses nothing.

**URLs.** An origin is a scheme, a host name and a port that may be left out. A request arrives
with the headers a direct client, one proxy of three manners, or two proxies in a row give it;
the model computes from them what `RequestBase` does. The three manners: X-Forwarded-Host with
the port, X-Forwarded-Host without it next to X-Forwarded-Port, and Host as the client sent it.
A proxy that passes Host stripped of its port, with X-Forwarded-Port alone, is not among them:
`urls.rs:29` completes only an X-Forwarded-Host, so the port is lost there. Nor is a proxy that
is configured to lie: that the provider believes the headers is its documented design.

**Environment.** Any known client id and any known secret may come with any code, refresh token
or JWT that exists. Guesses of random tokens are not modelled.

## 3. What is checked

| Run | Configuration | Checks |
|---|---|---|
| `ProviderTokens` | two applications, two logins of alice, one online and one offline, typed `azp` of the other application, password grants; an admin who replaces claims (also with bob as `sub`), disables, enables, deletes, ends sessions | `TypeOK`, `OneCredentialPerLogin`, `CredentialMatchesLogin`, `LogoutEndsLogin`, `JtiUnique`, `TokenMatchesLogin`, `NoMintWhileDisabled`, `ReactivatedOnlyByAdmin`, `LoginsEndApart` |
| `ProviderLifecycle` | `FairSpec`; two logins with and without a typed lifetime, a clock whose sums wrap, a login page, a restart with a new key | `TokensLiveAsAgreed`, `LoginsFollowLifecycle`, `SweeperIsInvisible`, `ReactivatedOnlyByAdmin`, `ExpiredIsReclaimed` |
| `ProviderGate` | strict mode, gate, tester claim, two testers, a confidential and a public client, one registered at run time, default claims with a `sid`, a restart | `TokenMatchesLogin`, `GatedLoginsAttributed`, `StrictCodesBound` |
| `UpstreamTabs` | two browsers, two logins, two visits, two keys, a restart; an upstream that ignores PKCE | `SessionIsOwnLogin`, `TabsKeepTheirLogin`, `CallbackFindsDiscovery`, `RefusedKeysAreWithdrawn`, `SessionsFollowLifecycle` |
| `UpstreamOutage` | `FairSpec` of the gate; failures of every kind, two fetches at once, sessions of no length | `EveryVisitEnds`, `OutageIsForgotten`, `SessionsFollowLifecycle` |
| `GatedProvider` | provider and gate together: two browsers, two testers of whom one may pass, a login upstream each, an upstream that names no keys, a restart with a stable key | `GatedTypeOK`, `TokensNameTheirTester`, `LoginsPassTheGate` |
| `Endpoints` | three origins, every way through proxies, every combination of the four URL settings | `TypeOK`, `BackendIsReachable`, `PartiesAgreeOnIssuer`, `TokensWorkAtEveryHost` |
| `ProviderDelete`, `ProviderAzp`, `ProviderForeign`, `ProviderForget`, `EndpointPaths` | see section 5 | the deviation each shows |

What the properties say is in the comments above them. In short:

- `OneCredentialPerLogin` relates `codes` and `refresh`: a sid is on one entry of either. It is
  broken by a code or refresh token that can be used twice, whatever the order of requests.
- `CredentialMatchesLogin` relates credentials to the history: rotation changes nothing agreed.
- `TokenMatchesLogin` relates JWTs to the history: `sub` and tester of the sid's login.
- `LogoutEndsLogin` is about a logout that may come at any moment, with any of the login's old
  tokens: it leaves no credential. It excludes logins whose `azp` was typed over (finding 2).
- `NoMintWhileDisabled`, `ReactivatedOnlyByAdmin` are step properties: no step hands a token to
  a disabled subject, and only enabling a subject brings a token back to life. A restart that
  loads the same key is excepted (finding 4); one that makes a new key is not.
- `TokensLiveAsAgreed` relates `exp` to the lifetime agreed at the login, refreshes and
  overflow included: a token dies early if the sum wraps, and never late.
- `LoginsFollowLifecycle` maps a login to *unused, code, tokens, over* by its live credential,
  and to the tokens issued for it. Steps that only remove what is expired map to stuttering; a
  restart ends all logins at once.
- `LoginsEndApart` is about a step and two logins: a logout, a revocation, a misuse or a sweep
  changes where one login is, not both; only deleting the subject of both does.
- `SweeperIsInvisible` compares the provider with one that drops expired codes and refresh tokens
  at the tick: whatever lingers until the sweep, no request has another effect on tokens, logins
  and the other maps. It is broken by any handler that uses an entry without asking whether it
  is expired.
- `ExpiredIsReclaimed` is liveness of memory: whatever expires, in whichever map, is removed in
  the end, the login pages that no handler reads included.
- `SessionIsOwnLogin` relates a browser's session to what the upstream asserted: the tester
  logged in for a login of this browser, begun with this process.
- `SessionsFollowLifecycle` says it of steps: a browser is let in for somebody the upstream
  vouched for in it, at most once for each time the upstream did, however many tabs present the
  code; it stays in exactly for the length of a session, whatever its other tabs do, and is out
  after a restart.
- `TabsKeepTheirLogin`: no other login, in whatever tab, costs a login its cookie. A browser that
  drops a cookie by its `Max-Age` is not modelled, so this is a promise for `LOGIN_TTL`.
- `CallbackFindsDiscovery`: a late failure of another visit does not undo the cache.
- `RefusedKeysAreWithdrawn` is about key rotation against late JWKS answers: with an upstream
  that names its keys, a key is missed only if the upstream has withdrawn it.
- `EveryVisitEnds`, `OutageIsForgotten` are liveness of the client: a rejected key is looked for
  once, and a remembered failure is not remembered for ever, also when it was the late failure
  of a second fetch.
- `LoginsPassTheGate`, `TokensNameTheirTester` need both halves. The first is about each login
  and every browser whose form makes it (`GatedLogIn(b)`): since the process started the
  upstream vouched for that login's tester in that very browser, so a code carried over from
  another browser lets nobody in. The second: the tester's claim of every later token of the
  login names somebody admitted, whatever was typed or put meanwhile.
- `BackendIsReachable`, `PartiesAgreeOnIssuer`, `TokensWorkAtEveryHost` relate what several
  parties computed at several origins: endpoints, issuer and the check of a token fit together.
  Where an `INTERNAL_URL` leads every backend to one host, all tokens have one issuer.

Every property of a passing run comes with a mutant of the code that it catches
(`mutants` in `PROJECT.json`); the mutated operators stand next to the originals.

**Bounds.** `MaxNow`, `MaxBoots`, `MaxMinted`, `MaxLogins`, `MaxPending`, `MaxRegistered`,
`MaxServiceTokens`, `MaxKeys`, `MaxStarted`. Lifetimes are one to three seconds and the clock
runs to one or two, so everything can expire while something else is alive. Two logins suffice
for the properties that compare logins (they compare two at a time). A login takes two draws, an
exchange three and a refresh three (fewer without an ID token): eight let one login be made,
exchanged and refreshed, or one be exchanged while a second is made. Two exchanged logins side
by side are the theorems'. `U64` is 4 where
overflow is the question, so that a typed lifetime wraps late in the run and not early, and
1000, out of reach, elsewhere.

On the upstream side two visits show every race of two answers, two logins every swap of codes,
two keys a cache that is a rotation behind. Browsers and visits are symmetric in the safety
runs. `UpstreamOutage` has two logins at once, so that two fetches of discovery can fail one after
the other, and `SessionTtl = 0`. `UpstreamTabs` has one tester, who may pass: that the rest may not
shows in `GatedProvider`, which has two. `GatedProvider` has one visit, one login per tester, one
persona and no admin, since its halves are checked by themselves; what `TokensNameTheirTester`
says of overrides is the theorem's, and so is `REFRESH_TOKEN_TTL=0` in `LoginsFollowLifecycle`.
The safety theorems below have none of these bounds.

**Fairness.** In the provider only `Sweep` is fair, weakly: `spawn_sweeper` loops for ever and
its task is always ready again after a tick. Clients, people and the admin need never do
anything, and time may stop. In the gate every wait ends (`WF_vars(Settles(v))`), because the
HTTP client has a timeout of ten seconds, and the failure of discovery ages.
`OutageIsForgotten` names its own assumptions about the world: failures and abandoned visits
stop, visitors keep coming.

**Deadlock** is checked in every run of the provider: the sweeper can always run. The gate has
no task of its own and stands still when nobody comes, so its runs do not check deadlock, and
neither does that of the composition; `EveryVisitEnds` says that no request hangs.

## 4. What is proved

For all values of the constants that satisfy the named assumptions of the modules (any number of
clients, personas, testers, browsers, claims, logins, keys, restarts, any lifetimes):

| Theorem (module) | States |
|---|---|
| `TypeCorrect` (`ProviderProofs`) | `Spec => []TypeOK` |
| `OneCredential` (`ProviderProofs`) | `Spec => []OneCredentialPerLogin` |
| `CredentialFaithful` (`ProviderProofs`) | `Spec => []CredentialMatchesLogin` |
| `UniqueJtis` (`ProviderProofs`) | `Spec => []JtiUnique` |
| `TokenProvenance` (`LoginProofs`) | `Spec => []TokenMatchesLogin` |
| `LogoutIsFinal` (`LoginProofs`) | `Spec => []LogoutEndsLogin` |
| `DisabledGetNothing` (`LoginProofs`) | `Spec => NoMintWhileDisabled` |
| `GateHolds` (`LoginProofs`) | `Spec => []GatedLoginsAttributed` |
| `StrictHolds` (`LoginProofs`) | `Spec => []StrictCodesBound` |
| `LifetimeHolds` (`LifecycleProofs`) | `Spec => []TokensLiveAsAgreed` |
| `OnlyAdminReactivates` (`LifecycleProofs`) | `Spec => ReactivatedOnlyByAdmin` |
| `ProviderImplementsLifecycle` (`LifecycleProofs`) | `Spec => LoginsFollowLifecycle` |
| `OverForGood` (`LifecycleProofs`) | of `Spec`: a login that is over stays over and gets no more tokens |
| `LoginsAreApart` (`LifecycleProofs`) | `Spec => LoginsEndApart` |
| `SweeperUnseen` (`LifecycleProofs`) | `Spec => SweeperIsInvisible` |
| `SweeperReclaims` (`LifecycleProofs`) | `FairSpec /\ []SweeperSeesExpired => ExpiredIsReclaimed` |
| `GateTyped` (`GateProofs`) | `Spec => []TypeOK` of the gate |
| `SessionsAreOwn` (`GateProofs`) | `Spec => []SessionIsOwnLogin` |
| `TabsKeep` (`GateProofs`) | `Spec => []TabsKeepTheirLogin` |
| `CallbacksFindDiscovery` (`GateProofs`) | `Spec => []CallbackFindsDiscovery` |
| `VisitsEnd` (`GateProofs`) | `FairSpec /\ []EveryWaitCanEnd => EveryVisitEnds` |
| `GateImplementsLifecycle` (`GateRefinement`) | `Spec => SessionsFollowLifecycle` |
| `RefusedAreWithdrawn` (`KeyProofs`) | `NamedKeys`: `Spec => []RefusedKeysAreWithdrawn` |
| `Composition` (`GatedProofs`) | `GatedSpec => Spec /\ G!Spec`: each half does what it does by itself |
| `GatedTyped` (`GatedProofs`) | `GatedSpec => []GatedTypeOK` |
| `GateKeepsItsPromise` (`GatedProofs`) | `GatedSpec => SessionsFollowLifecycle` |
| `ProviderKeepsItsPromise` (`GatedProofs`) | `GatedSpec => LoginsFollowLifecycle`, `LoginsEndApart`, `SweeperIsInvisible`, `[]LogoutEndsLogin`, `[]TokensLiveAsAgreed` |
| `GateIsPassed` (`GatedProofs`) | `GatedSpec => LoginsPassTheGate` |
| `TestersAreNamed` (`GatedProofs`) | `GatedSpec => []TokensNameTheirTester` |
| `UrlsTyped` (`EndpointProofs`) | `Spec => []TypeOK` of the URLs |
| `BackendsReachable` (`EndpointProofs`) | `Spec => []BackendIsReachable` |
| `IssuersAgree` (`EndpointProofs`) | `Spec => []PartiesAgreeOnIssuer` |
| `TokensTravel` (`EndpointProofs`) | `Spec => []TokensWorkAtEveryHost` |

So every safety property of a passing run is proved as well as checked, for every setting the
code accepts. That includes `DEFAULT_CLAIMS` with a `sid`, `UPSTREAM_SUB_TOKEN_CLAIM=sid`, and
lifetimes of zero: with `REFRESH_TOKEN_TTL=0` the exchange is the end of a login (`Refreshable`
in `LoginLifecycle`), and with `UPSTREAM_SESSION_TTL=0` the callback lets nobody in (`Session` in
`GateLifecycle`). What is assumed:

- `SettingsAssumption`, `UpstreamAssumption`, `GateAssumption` and the like give the constants their
  types and keep the model values apart (`None` is no token, no tester, no request and no JWKS). Pages and
  codes live for more than no time: their lifetimes are constants of the code.
- `DefaultClaims["sid"] \notin Nat` (`IssuerAssumption`): the operator's settings do not guess a
  token that `random_token` is still to draw.
- `NamedKeys` (one theorem): the upstream puts a `kid` on its keys; without one a rotation is not
  noticed (section 6).

**Tokens and credentials.** None of the properties is inductive alone. `TypeOK` is not:
`RevokeJwt` copies `jti` and `exp` of a token into `revoked_jti`, so the invariant must know that
these are numbers in every token ever signed, whatever was typed; the protected claims make it
so. `OneCredentialPerLogin` is not: it needs that every sid in sight was drawn, so that the next
one is new (`Drawn`). Tokens being about the right persona needs that an override is about the
subject it is stored under (`Named`), which the PUT handler forces. `IInv` is the conjunction;
`NextIInv` has one step per action. Steps that only remove go through `RemovalKeeps`, steps that
sign tokens through `UserTokensType` and `JwtsGrow`, exchanges and rotations through
`SuccessorKeeps`.

`LoginProofs` builds on it. `Attributed` says what a step may do to a new token: it names a
login of its persona and tester, not disabled at that moment, with no code left. It gives
`DisabledGetNothing` at once and, with `SidsOfLogins` (a sid is one login's, no token carries
the sid of a login still waiting for its exchange), the invariant `LInv` behind
`TokenProvenance` and `LogoutIsFinal`. `GateHolds` and `StrictHolds` are inductive as they
stand, one step per action.

`LifecycleProofs` adds `TimeInv` (every token's `exp` is the wrapped sum of its `iat` and the
lifetime its login agreed on; a sum that wraps is less than `iat`, so the token is never good)
and `MemoryInv` (a remembered jti carries the `exp` of its token, so the sweeper forgets it only
when the token is expired; no key is of a process to come). A restart fits, because a key made
by an earlier process verifies nothing in a later one. The refinement shows that each
handler is a `Begin`, an `IssueTokens` or a `Finish` by what it does to the live credential of
every sid; `OverForGood` reads off it what a replayed code or refresh token can do: nothing.
`LoginsAreApart` sharpens the `Finish`: the handlers that end something name one sid, and
an entry taken out under it is the only one of its login (`OneCredentialPerLogin`).
`SweeperUnseen` goes handler by handler (`LogInUnseen`, `GrantUnseen`, ...): a handler that takes
an entry out does so to a live one and is the same action of `EagerProvider`, or takes out what
was forgotten there already and is a stuttering step. `Kept` keeps an entry through the second in
which it expires, so that one born expired (`REFRESH_TOKEN_TTL=0`) is made on both sides.

**The gate.** `SessionIsOwnLogin` is about one cookie at the end of a chain: redirect, login
upstream, callback, two awaits, a checked token. `GInv` follows that chain: every login cookie
belongs to a login of its browser, begun with the process that sealed it (`CookiesTraced`), a
visit past discovery holds a login of its browser begun with this process and a code somebody
logged in for (`VisitsTraced`), and every session goes back to one (`SessionsTraced`). The token a callback
accepts has its login as nonce, so its code was that login's, whichever code was presented.
`GateRefinement` maps the history to `GateLifecycle`. That a voucher is used once needs
`RedeemedOnce`: a callback for which there is an ID token, held or still on its way, has redeemed
its code, and no other callback has one for the same code. So a step spends one code or none
(`CodesMove`): at the failure of an exchange, or when the callback with the token for it comes to
its end. `KeyProofs` adds what the cache may know:
keys are published in order (`KeysInOrder`), a cached key is stored under its own name
(`CacheNamed`), a visit that waits for its ID token has read no JWKS (`NoDocYet`), and a JWKS read
after that lacks the token's key only if the key was withdrawn (`DocsTell`), even if the token
was signed long before it arrived.

**The composition.** `GatedProofs` shows that every step of the whole is a step of the provider
or leaves it alone, and the same for the gate; a login needs `GInv` for that, since the tester
of a session must be one of `Testers`. With `Composition` the theorems above hold of the whole
(`GateKeepsItsPromise`, `ProviderKeepsItsPromise`), and the two that need both halves follow.
`GateIsPassed` is about the form that makes a login: whichever browser posts it, the session it
shows is one the upstream vouched for in that browser (`FormIsVouched`, from `SessionsTraced`),
and it is the tester of the new login.

**URLs.** `ArrivesAtOrigin` is the lemma everything rests on: whichever of these ways a request
took, `RequestBase` finds the origin it was sent to. `EInv` says that a document is the one
`Resolve` makes for its origin and a token's issuer the one of the origin its backend URL leads to.

**Liveness.** That an action is enabled cannot be proved with this prover, so the two liveness
theorems take it as a hypothesis: `SweeperSeesExpired` and `EveryWaitCanEnd`. Both follow from the
definitions, since `Sweep` is possible when it would remove something and every wait may end with a
failure, and neither is worth a run; TLC checks what they lead to, `ExpiredIsReclaimed` and
`EveryVisitEnds`, themselves. What the theorems add is what a small instance could hide. `SweeperReclaims`: whatever is expired stays expired until it
is removed, a sweep removes all of it, and nothing of the same name comes back, since names are
drawn once (`NInv`). `VisitsEnd`: a request that waits is moved only by its own answer, its
browser or a restart (`WaitsStay`), and each answer takes it further: from the exchange to an ID
token on its way, to the JWKS, from there to the keys, and to its end (`SettlesAdvances`), so it cannot go round.

**Only model-checked.** `OutageIsForgotten`: that the pause after a failure runs out, and that
restarts come to an end, is an induction over numbers, which is out of reach. And
`ExpiredIsReclaimed` and `EveryVisitEnds` without their hypotheses. The runs of section 5 are counterexamples
and have nothing to prove.

## 5. Where code and documentation part

1. **Deleting a subject does not log it out everywhere** (`ProviderDelete`). README line 167
   against `routes/admin.rs:97`: an authorization code outstanding at the DELETE stays good,
   and a subject that was disabled is enabled by it.
2. **`azp` is not always the client** (`ProviderAzp`). README line 138 and line 189 of the
   design document against `token.rs:91`. `/revoke` and `/end_session` go by `azp`.
3. **A client can destroy another client's refresh token** (`ProviderForeign`). README
   line 160 against `routes/token.rs:325`: the refresh grant takes the token before it looks
   whose it is.
4. **A restart forgets revocations** (`ProviderForget`). README lines 158 and 211 against
   `state.rs:31`: with a key from a seed or a PEM a revoked access token is accepted again after
   a restart, until its `exp`.
5. **The path of backend endpoints is not always `ISSUER_URL`'s** (`EndpointPaths`). Lines 83-84
   of the design document against `urls.rs:85`: an `INTERNAL_URL` is taken as it stands, and
   without the path it leads to endpoints the router does not serve.

## 6. Not modelled, and what is noticed beside the properties

Noticed and not claimed by a run:

- A typed `expires_in` near 2^64 wraps `exp` in a release build, so the token is born expired; a
  debug build panics (`token.rs:99`). `TokensLiveAsAgreed` covers the release build.
- `DELETE /admin/sessions/{sid}` answers 200 for a login whose refresh token is expired and not
  yet swept, which `GET /admin/sessions` no longer lists (`store.rs:194`). Only that answer tells:
  by `SweeperIsInvisible` the call does the same to the store either way.
- With an upstream whose keys have no `kid`, a rotation is never noticed, since the one cached
  key always answers (`upstream/client.rs:229`): every login is refused until a restart.
- Introspection of a refresh token looks its persona's claims up in `revoked_jti`, so a `jti`
  typed at login counts there; `ReactivatedOnlyByAdmin` excludes such logins.
- `UPSTREAM_SUB_TOKEN_CLAIM=sid` is accepted and has no effect (`config.rs:89`): a login's tokens
  name its `sid` and not the tester, although README line 241 says that the named claim is in
  every token. It is one setting of a constant and takes no run to see.
- `UPSTREAM_SESSION_TTL=0` makes every gate cookie be born expired (`config.rs:85`): the upstream
  login succeeds and the login page sends the browser back to it.
- `ISSUER_FROM_REQUEST_HOST` with an `INTERNAL_URL`: discovery names the issuer of the host that
  asked, the token endpoint signs with that of the internal host (`urls.rs:56`).
  Of that combination `PartiesAgreeOnIssuer` says only that all tokens have one issuer.

Left out:

- RSA, SHA-256, HMAC, base64, JSON and HTML; parsing of the environment other than URLs; CORS and
  tracing; static bodies and the wording of errors. They keep no state, and unit tests reach them.
- `claim_at` and `claim_allows` (`upstream/gate.rs`): walks over the JSON of one ID token, with
  unit tests for each kind of value; their outcome is the set `Admitted`.
- Audience, scope and `auth_time` of tokens: no handler decides by them later.
- The answers of `/admin/sessions`, `/introspect` and `/userinfo`: views of modelled state.
- Several threads: `main.rs` starts one.
