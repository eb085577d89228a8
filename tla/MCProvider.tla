----------------------------- MODULE MCProvider -----------------------------
(***************************************************************************)
(* Small instances of the provider for TLC.  One run cannot afford every   *)
(* kind of request at once, so each run takes the inputs below that its    *)
(* question needs.                                                         *)
(***************************************************************************)
EXTENDS ProviderProperties

CONSTANTS c1, c2, alice, bob, frank, t1, t2, u1, u2, v1, s1

MCClaims(f) == [k \in ClaimName |-> IF k \in DOMAIN f THEN f[k] ELSE None]

MCRequest(client, challenge, offline) ==
    [client |-> client, uri |-> u1, challenge |-> challenge, offline |-> offline]

MCConfidential == [id |-> c1, secret |-> s1, uris |-> {u1}]
MCPublic == [id |-> c2, secret |-> None, uris |-> {u1}]

MCBothConfigured == {MCConfidential, MCPublic}

MCNone == {None}
\* A lifetime that the clock runs past, and whose sum wraps late in the run; password
\* logins have none.
MCTyped == {2}
MCNoDefaults == NoClaims
\* An operator's claims for every token, one of them named like the sid of a login.
MCDefaults == MCClaims([tag |-> t1, sid |-> t2])
MCIdentity == [x \in Testers |-> MCClaims([tag |-> t2])]

MCOnlineLogin == {MCRequest(c1, None, FALSE)}
MCTwoApps == {MCRequest(c1, None, FALSE), MCRequest(c2, v1, TRUE)}
\* Both configured clients and the one that may register, with and without PKCE.
MCEitherProof == {MCRequest(c, p, FALSE) : c \in {c1, c2, 1}, p \in {None, v1}}

MCOpenid == {[offline |-> FALSE, openid |-> TRUE]}
MCOffline == {[offline |-> TRUE, openid |-> FALSE]}

\* Harmless claims; claims that name the other application as `azp`.
MCPlain == {MCClaims([tag |-> t1])}
MCForeignAzp == {MCClaims([tag |-> t1]), MCClaims([azp |-> c2])}
\* Claims that pretend to be a tester's, and a `sub` that is no string.
MCOdd == {MCClaims([upstream |-> bob]), MCClaims([sub |-> NotString])}

\* An admin only disables and enables, or also replaces claims, `sub` included.
MCOverride == {None, MCClaims([tag |-> t2, sub |-> bob])}
MCPretend == {MCClaims([upstream |-> bob])}
=============================================================================
