------------------------------- MODULE MCRelay -------------------------------
(***************************************************************************)
(* The relay's parts, side by side: each behaviour is of one of them.  The *)
(* parts share no state.                                                   *)
(*   presence   Presence: one device, its connections and its catalogue    *)
(*   admission  Admission: tool calls that arrive together                 *)
(*   grants     GrantFamilies: one authorization and its refresh tokens    *)
(*   assertion, rate, session   RelayGuards: each guard with the clock     *)
(*   accounts   Accounts: links and enrolments                             *)
(*   list       ProjectPages: the pages of the project list                *)
(*   tools      ToolScopes: a client's calls and its permissions           *)
(***************************************************************************)
EXTENDS Presence, Admission, GrantFamilies, RelayGuards, Accounts, ProjectPages,
        ToolScopes

VARIABLE part

relayVars == <<presenceVars, admissionVars, familyVars, guardVars, accountVars, pageListVars, scopeVars,
              part>>

MCFolder == [p \in Projects |-> p]
MCMoved == [p \in Projects |-> 1]
MCKey == <<1, 1, 1, 0>>
MCAction == <<1, 1, 2, 3>>
MCName == <<1, 1, 2>>
MCKeyOf == <<1, 2, 1>>

Init ==
    /\ PresenceInit /\ AdmissionInit /\ FamilyInit /\ GuardInit /\ AccountInit /\ ListInit /\ ScopeInit
    /\ part \in {"presence", "admission", "grants", "assertion", "rate", "session", "accounts", "list", "tools"}
    /\ part # "list" => there = {}
    /\ part # "presence" => local = {1}
    /\ part # "tools" => granted = {}

Next ==
    /\ UNCHANGED part
    /\ \/ /\ part = "presence" /\ PresenceNext
          /\ UNCHANGED <<admissionVars, familyVars, guardVars, accountVars, pageListVars, scopeVars>>
       \/ /\ part = "admission" /\ AdmissionNext
          /\ UNCHANGED <<presenceVars, familyVars, guardVars, accountVars, pageListVars, scopeVars>>
       \/ /\ part = "grants" /\ FamilyNext
          /\ UNCHANGED <<presenceVars, admissionVars, guardVars, accountVars, pageListVars, scopeVars>>
       \/ /\ \/ part = "assertion" /\ AssertionNext
             \/ part = "rate" /\ RateNext
             \/ part = "session" /\ SessionsNext
          /\ UNCHANGED <<presenceVars, admissionVars, familyVars, accountVars, pageListVars, scopeVars>>
       \/ /\ part = "accounts" /\ AccountNext
          /\ UNCHANGED <<presenceVars, admissionVars, familyVars, guardVars, pageListVars, scopeVars>>
       \/ /\ part = "list" /\ ListNext
          /\ UNCHANGED <<presenceVars, admissionVars, familyVars, guardVars, accountVars, scopeVars>>
       \/ /\ part = "tools" /\ ScopeNext
          /\ UNCHANGED <<presenceVars, admissionVars, familyVars, guardVars, accountVars, pageListVars>>

OthersStay == UNCHANGED <<admissionVars, familyVars, guardVars, accountVars, pageListVars, scopeVars, part>>

Fairness ==
    /\ WF_relayVars(part = "presence" /\ AgentStep /\ OthersStay)
    /\ \A c \in Conns : WF_relayVars(part = "presence" /\ RelayStep(c) /\ OthersStay)

Spec == Init /\ [][Next]_relayVars /\ Fairness

\* BackOnline of the device's part.
DeviceBackOnline == part = "presence" => BackOnline

\* What the relay lets happen once, or only for a time (oauth.py, middleware.py,
\* views.py): an assertion is accepted once, the requests of a window are bounded and
\* the window ends, a session ends at its absolute limit, an invitation or reset link
\* is used once, and active devices have names and keys of their own.
GuardsSafe ==
    AssertionOnce /\ RateBounded /\ WindowEnds /\ SessionBounded /\ LinkOnce /\ DevicesDistinct

\* What the relay tells a client agrees with what it does (facade_contracts.py,
\* dispatch.py, mcp_server.py): the pages of the project list hold each project once
\* (EachListedOnce), a tool's declared scopes and hints are those that the relay demands
\* and redelivers by, and one reconnection of a client repairs a missing scope.
ToolsAgree == EachListedOnce /\ ContractsAgree /\ OneReconnectIsEnough
=============================================================================
