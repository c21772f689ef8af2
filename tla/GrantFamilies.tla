--------------------------- MODULE GrantFamilies ----------------------------
(***************************************************************************)
(* One authorization of one device link and its rotating refresh tokens    *)
(* (oauth.py, signals.py, authz.py).  The OAuth toolkit validates a        *)
(* refresh request, saves the new pair in a transaction of its own, and    *)
(* then signals the relay, which binds the access token to the link and to *)
(* the grant of the token family.  Revocation of the device or of the link *)
(* may come between any two of these steps.                                *)
(*   pairs     the issued pairs: the refresh token, the access token and   *)
(*             its binding (0 when it has none)                            *)
(*   reqs      token requests                                              *)
(*   family    the OAuthGrantFamily row (0 when there is none)             *)
(*   revoked   what has been revoked of {"device", "link"}                 *)
(*   grants    history: every grant id an access token was bound to        *)
(***************************************************************************)
EXTENDS Naturals, Sequences, FiniteSets

CONSTANTS
    Requests,     \* token requests
    MaxPairs      \* bound: pairs issued

VARIABLES pairs, reqs, family, revoked, grants

familyVars == <<pairs, reqs, family, revoked, grants>>

Pair == [refresh |-> TRUE, access |-> TRUE, grant |-> 0, bindingRevoked |-> FALSE]

FamilyInit ==
    /\ pairs = <<[Pair EXCEPT !.access = TRUE]>>
    /\ reqs = [r \in Requests |-> IF r = 1 THEN [at |-> "saved", using |-> 0, made |-> 1]
                                  ELSE [at |-> "idle", using |-> 0, made |-> 0]]
    /\ family = 0
    /\ revoked = {}
    /\ grants = {}

\* A refresh token reaches the client with the answer that carries it.
Held(k) == \A r \in Requests : reqs[r].made = k => reqs[r].at = "answered"

RevokeFamily == [k \in DOMAIN pairs |-> [pairs[k] EXCEPT !.refresh = FALSE, !.access = FALSE]]

\* A token that was consumed before ends the whole family (reuse protection).
ValidateRefresh(r) ==
    /\ reqs[r].at = "idle"
    /\ revoked = {}
    /\ \E k \in DOMAIN pairs :
        /\ Held(k)
        /\ IF pairs[k].refresh
           THEN /\ reqs' = [reqs EXCEPT ![r] = [at |-> "validated", using |-> k, made |-> 0]]
                /\ UNCHANGED pairs
           ELSE /\ reqs' = [reqs EXCEPT ![r].at = "refused"]
                /\ pairs' = RevokeFamily
    /\ UNCHANGED <<family, revoked, grants>>

Rotated(k) == Append([pairs EXCEPT ![k] = [@ EXCEPT !.refresh = FALSE, !.access = FALSE]], Pair)

\* The pair validated earlier is rotated without looking again.
StillUsableTrusts(k) == TRUE

StillUsable(k) == pairs[k].refresh /\ pairs[k].access

SaveBearerToken(r) ==
    /\ reqs[r].at = "validated" /\ Len(pairs) < MaxPairs
    /\ IF StillUsable(reqs[r].using)
       THEN /\ pairs' = Rotated(reqs[r].using)
            /\ reqs' = [reqs EXCEPT ![r].at = "saved", ![r].made = Len(pairs) + 1]
       ELSE UNCHANGED pairs /\ reqs' = [reqs EXCEPT ![r].at = "refused"]
    /\ UNCHANGED <<family, revoked, grants>>

\* bind_issued_access_token reads the link and the device ...
BindLooks(r) ==
    /\ reqs[r].at = "saved"
    /\ IF revoked = {}
       THEN UNCHANGED pairs /\ reqs' = [reqs EXCEPT ![r].at = "binding"]
       ELSE /\ pairs' = [pairs EXCEPT ![reqs[r].made].access = FALSE]
            /\ reqs' = [reqs EXCEPT ![r].at = "refused"]
    /\ UNCHANGED <<family, revoked, grants>>

NewGrant == Cardinality(grants) + 1

GrantOf == IF family # 0 THEN family ELSE NewGrant

\* ... and saves the binding later, in a transaction that locks the family only.
BindSaves(r) ==
    /\ reqs[r].at = "binding"
    /\ pairs' = [pairs EXCEPT ![reqs[r].made].grant = GrantOf]
    /\ grants' = grants \cup {GrantOf}
    /\ family' = IF family # 0 THEN family ELSE GrantOf
    /\ reqs' = [reqs EXCEPT ![r].at = "bound"]
    /\ UNCHANGED revoked

Answer(r) ==
    /\ reqs[r].at = "bound"
    /\ reqs' = [reqs EXCEPT ![r].at = "answered"]
    /\ UNCHANGED <<pairs, family, revoked, grants>>

\* The worker dies between the steps of a request; its answer is never sent.
RequestDies(r) ==
    /\ reqs[r].at \in {"validated", "saved", "binding", "bound"}
    /\ reqs' = [reqs EXCEPT ![r].at = "died"]
    /\ UNCHANGED <<pairs, family, revoked, grants>>

RevokeGrants ==
    /\ "device" \notin revoked
    /\ revoked' = {"device", "link"}
    /\ pairs' = [k \in DOMAIN pairs |-> [pairs[k] EXCEPT !.bindingRevoked = pairs[k].grant # 0]]
    /\ UNCHANGED <<reqs, family, grants>>

RotateLinks ==
    /\ revoked = {}
    /\ revoked' = {"link"}
    /\ UNCHANGED <<pairs, reqs, family, grants>>

FamilyNext ==
    \/ \E r \in Requests : \/ ValidateRefresh(r) \/ SaveBearerToken(r) \/ BindLooks(r)
                           \/ BindSaves(r) \/ Answer(r) \/ RequestDies(r)
    \/ RevokeGrants \/ RotateLinks

FamilySpec == FamilyInit /\ [][FamilyNext]_familyVars

\* What authz.py, _authenticate, accepts as the token of a principal.
Authentic(k) ==
    pairs[k].access /\ pairs[k].grant # 0 /\ ~pairs[k].bindingRevoked /\ revoked = {}

-----------------------------------------------------------------------------
\* One consent is one grant, however often it is refreshed: an access token never
\* silently becomes a new grant (models.py, OAuthGrantFamily; signals.py).
GrantStable == Cardinality(grants) <= 1

\* Two refreshes that both validated the same token leave one live refresh token
\* (oauth.py, _save_bearer_token: "two requests can both observe an unconsumed
\* refresh token").
RotateOnce == Cardinality({k \in DOMAIN pairs : pairs[k].refresh}) <= 1

\* Once the device or its link is revoked no access token is accepted, not even
\* one whose binding was saved after the revocation had revoked the bindings
\* (authz.py, _authenticate; views.py, revoke_device).
RevokedIsOut == revoked # {} => \A k \in DOMAIN pairs : ~Authentic(k)

\* However refreshes and revocations interleave (oauth.py, signals.py, authz.py), one
\* consent stays one grant with one live refresh token, and nothing of it is accepted
\* once the device or its link is revoked.
GrantsSafe == GrantStable /\ RotateOnce /\ RevokedIsOut
=============================================================================
