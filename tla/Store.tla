------------------------------- MODULE Store -------------------------------
(***************************************************************************)
(* The in-memory store of nano-mockidp (store.rs) and the process it lives *)
(* in: what is kept, the lookups and removals every endpoint uses, the     *)
(* sweeper, the clock and a restart of the process.                        *)
(*                                                                         *)
(* The program runs on a current-thread runtime and no handler modelled    *)
(* here awaits anything once its request is read, so each handler is one   *)
(* atomic action.                                                          *)
(***************************************************************************)
EXTENDS Integers, FiniteSets

CONSTANTS
    Clients,        \* the client ids people choose (CLIENTS, or any in non-strict mode)
    Subs,           \* the persona names used on forms and in /admin/subjects/{sub}
    Testers,        \* the `sub`s the upstream identity provider gives
    Tags,           \* values of all the claims the code never reads
    Uris,           \* redirect URIs
    Verifiers,      \* PKCE code verifiers
    Secrets,        \* configured client secrets
    None,           \* an absent claim, header, form field or Option
    NotString       \* a JSON value that is not a string

CONSTANTS
    ConfiguredClients,  \* the CLIENTS setting
    Strict,             \* the STRICT setting
    StableKey,          \* the signing key comes from a seed or a PEM file
    PendingTtl, CodeTtl,    \* constants of authorize.rs
    RefreshTtl,         \* REFRESH_TOKEN_TTL: 0 is accepted
    MaxNow,             \* bound: the clock stops here
    MaxBoots,           \* bound: restarts of the process
    MaxMinted,          \* bound: draws of random_token
    MaxPending          \* bound: login pages on record at a time

VARIABLES
    now,            \* seconds
    boots,          \* restarts so far
    minted,         \* draws of random_token so far; draw n yields the token n
    pending, codes, refresh, clients, subjects, revokedJti,     \* struct Store
    jwts,           \* the access and ID tokens handed out, held by clients
    logins          \* history: what was agreed when each login was made

storeVars == <<pending, codes, refresh, clients, subjects, revokedJti>>
worldVars == <<now, boots>>
vars == <<now, boots, minted, pending, codes, refresh, clients, subjects,
          revokedJti, jwts, logins>>

----------------------------------------------------------------------------
(* Claims.  A claim set gives each claim name a value or None.  "tag" stands  *)
(* for every claim the code only copies, "upstream" for one that              *)
(* UPSTREAM_SUB_TOKEN_CLAIM may name.                                         *)

ClaimName == {"sub", "azp", "sid", "iat", "exp", "jti", "tag", "upstream"}
Value == Clients \cup Subs \cup Testers \cup Tags \cup {None, NotString} \cup Nat
Claims == [ClaimName -> Value]
NoClaims == [k \in ClaimName |-> None]

AsStr(v) == IF v = NotString THEN None ELSE v
SubOf(claims) == AsStr(claims["sub"])

ClientId == Clients \cup Nat

AuthRequest == [client : ClientId, uri : Uris, challenge : Verifiers \cup {None},
                offline : BOOLEAN]
PendingEntry == [key : Nat, req : AuthRequest, expires : Nat]
CodeEntry == [code : Nat, req : AuthRequest, claims : Claims, sid : Nat,
              expiresIn : Nat \cup {None}, upstream : Testers \cup {None}, expires : Nat]
RefreshEntry == [token : Nat, client : ClientId, claims : Claims, sid : Nat,
                 expiresIn : Nat \cup {None}, offline : BOOLEAN,
                 upstream : Testers \cup {None}, expires : Nat]
Subject == [sub : Subs, claims : Claims \cup {None}, disabled : BOOLEAN]
Client == [id : ClientId, secret : Secrets \cup Nat \cup {None}, uris : SUBSET Uris]
Jwt == [typ : {"at+jwt", "JWT"}, key : Nat, claims : Claims]
Login == [sid : Nat, client : ClientId, claims : Claims, offline : BOOLEAN,
          expiresIn : Nat \cup {None}, upstream : Testers \cup {None}]

ASSUME SettingsAssumption ==
    /\ ConfiguredClients \subseteq Client
    /\ Strict \in BOOLEAN /\ StableKey \in BOOLEAN
    /\ PendingTtl \in Nat \ {0} /\ CodeTtl \in Nat \ {0} /\ RefreshTtl \in Nat
    /\ MaxNow \in Nat /\ MaxBoots \in Nat /\ MaxMinted \in Nat /\ MaxPending \in Nat
    /\ None \notin Clients \cup Subs \cup Testers \cup Tags \cup Nat \cup {NotString}

\* Every variable keeps its type.
TypeOK ==
    /\ now \in Nat /\ boots \in Nat /\ minted \in Nat
    /\ pending \subseteq PendingEntry
    /\ codes \subseteq CodeEntry
    /\ refresh \subseteq RefreshEntry
    /\ clients \subseteq Client
    /\ subjects \subseteq Subject
    /\ revokedJti \subseteq [jti : Nat, exp : Nat]
    /\ jwts \subseteq Jwt
    /\ logins \subseteq Login

----------------------------------------------------------------------------
(* Lookups and removals *)

IsExpired(entry) == entry.expires <= now
Live(entry) == ~IsExpired(entry)

\* May n more tokens be drawn?  (a bound of the model, not of the code)
CanMint(n) == minted + n <= MaxMinted

IsDisabled(sub) == \E s \in subjects : s.sub = sub /\ s.disabled
Revoked(claims) == \E r \in revokedJti : r.jti = claims["jti"]
IsBlocked(claims) == IsDisabled(SubOf(claims)) \/ Revoked(claims)

\* What the sweeper leaves.  Mutant: a revoked jti is dropped a second early.
Unexpired(entries) == {e \in entries : Live(e)}
UnexpiredJti_Early == {r \in revokedJti : r.exp > now + 1}
UnexpiredJti == {r \in revokedJti : r.exp > now}

\* What a presented code or token leaves, expired or not.  Mutants: it still works.
TakeCode_Keeps(e) == codes
TakeCode(e) == codes \ {e}
TakeRefresh_Keeps(e) == refresh
TakeRefresh(e) == refresh \ {e}

\* What each removal leaves of the refresh tokens.
RevokeRefreshFor(sub) == {e \in refresh : SubOf(e.claims) # sub}

\* Mutant of RevokeSession: a logout ends all the logins at its client.
RevokeSession_AllAtClient(sid, client) ==
    {e \in refresh : ~(e.client = client /\ ~e.offline)}
RevokeSession(sid, client) ==
    {e \in refresh : ~(e.sid = sid /\ e.client = client /\ ~e.offline)}
RevokeSid(sid) == {e \in refresh : e.sid # sid}

\* The logins /admin/sessions lists: the sids of the live refresh tokens.
Sessions == {e.sid : e \in Unexpired(refresh)}

\* Mutant of SigningKey: the key drawn at the first start is kept.
SigningKey_Kept == 0
SigningKey == IF StableKey THEN 0 ELSE boots

----------------------------------------------------------------------------
(* The process *)

StoreInit ==
    /\ now = 0 /\ boots = 0 /\ minted = 0
    /\ pending = {} /\ codes = {} /\ refresh = {}
    /\ clients = ConfiguredClients
    /\ subjects = {} /\ revokedJti = {}
    /\ jwts = {} /\ logins = {}

Tick ==
    /\ now < MaxNow
    /\ now' = now + 1
    /\ UNCHANGED <<boots, minted, storeVars, jwts, logins>>

\* Mutant of Sweep: the map nothing reads is forgotten.
Sweep_SkipsPending ==
    /\ codes' = Unexpired(codes)
    /\ refresh' = Unexpired(refresh)
    /\ revokedJti' = UnexpiredJti
    /\ UNCHANGED <<worldVars, minted, pending, clients, subjects, jwts, logins>>

Sweep ==
    /\ pending' = Unexpired(pending)
    /\ codes' = Unexpired(codes)
    /\ refresh' = Unexpired(refresh)
    /\ revokedJti' = UnexpiredJti
    /\ UNCHANGED <<worldVars, minted, clients, subjects, jwts, logins>>

\* The process ends and starts again: the store is lost, the tokens people hold
\* are not, and they verify only if the key is loaded from the settings.
Restart ==
    /\ boots < MaxBoots
    /\ boots' = boots + 1
    /\ pending' = {} /\ codes' = {} /\ refresh' = {}
    /\ clients' = ConfiguredClients
    /\ subjects' = {} /\ revokedJti' = {}
    /\ UNCHANGED <<now, minted, jwts, logins>>
============================================================================
