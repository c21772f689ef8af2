---------------------------- MODULE RelayGuards -----------------------------
(***************************************************************************)
(* The guards of the relay's public endpoints, against one clock:          *)
(*   seen      the replay cache of client assertions (oauth.py): when the  *)
(*             entry of the assertion goes away                            *)
(*   window    the Redis counter of one caller (middleware.py): requests   *)
(*             counted, when the key was made and when it expires          *)
(*   session   a browser session: when it started and was last used        *)
(*   accepted, passed, browsed   history of what was let through           *)
(* The clock counts units: an assertion may be used Leeway units past its  *)
(* expiry and may expire at most MaxLife units from now.                   *)
(***************************************************************************)
EXTENDS Naturals, Sequences, FiniteSets

CONSTANTS
    MaxNow,       \* bound: the clock
    Leeway,       \* 60 s
    MaxLife,      \* 300 s
    RateLimit,    \* requests per window
    RateWindow,   \* the window
    IdleLimit,    \* SESSION_IDLE_TIMEOUT_SECONDS
    AbsoluteLimit \* SESSION_ABSOLUTE_TIMEOUT_SECONDS

ASSUME GuardAssumption ==
    /\ MaxNow \in Nat /\ Leeway \in Nat /\ MaxLife \in Nat /\ RateLimit \in Nat /\ IdleLimit \in Nat
    /\ RateWindow \in Nat \ {0} /\ AbsoluteLimit \in Nat \ {0}

VARIABLES now, seen, accepted, window, passed, session, browsed

guardVars == <<now, seen, accepted, window, passed, session, browsed>>

NoWindow == [count |-> 0, opened |-> 0, until |-> 0]
NoSession == [started |-> 0, last |-> 0, in |-> FALSE]

GuardInit ==
    /\ now = 1
    /\ seen = [exp |-> 0, until |-> 0] /\ accepted = 0
    /\ window = NoWindow /\ passed = <<>>
    /\ session = NoSession /\ browsed = <<>>

Tick ==
    /\ now < MaxNow
    /\ now' = now + 1
    /\ seen' = IF seen.until <= now + 1 THEN [seen EXCEPT !.until = 0] ELSE seen
    /\ window' = IF window.until <= now + 1 THEN NoWindow ELSE window
    /\ UNCHANGED <<accepted, passed, session, browsed>>

\* The signed claims that a client presents carry their expiry; one assertion.
Fresh(exp) == exp + Leeway > now /\ exp <= now + MaxLife

\* The entry goes when the assertion expires, not when it stops being accepted.
ReplayTimeoutAtExpiry(exp) == IF exp > now + 1 THEN exp - now ELSE 1

ReplayTimeout(exp) == IF exp + Leeway > now + 1 THEN exp + Leeway - now ELSE 1

\* An assertion that is well formed, signed and addressed (what fails those checks
\* is refused before the clock matters): fresh, and not in the replay cache.
AuthenticateClient ==
    /\ \E exp \in (IF seen.exp = 0 THEN 1 .. MaxNow ELSE {seen.exp}) :
        /\ Fresh(exp) /\ seen.until = 0
        /\ seen' = [exp |-> exp, until |-> now + ReplayTimeout(exp)]
    /\ accepted' = accepted + 1
    /\ UNCHANGED <<now, window, passed, session, browsed>>

Opened == IF window.count = 0 THEN now ELSE window.opened

Counted ==
    [count |-> window.count + 1, opened |-> Opened,
     until |-> IF window.count = 0 THEN now + RateWindow ELSE window.until]

OverLimit(count) == count > RateLimit

RateLimited ==
    /\ window.count < RateLimit + 2      \* bound: requests refused in one window
    /\ window' = Counted
    /\ passed' = IF OverLimit(Counted.count) THEN passed ELSE Append(passed, now)
    /\ UNCHANGED <<now, seen, accepted, session, browsed>>

Expired == now - session.started >= AbsoluteLimit \/ now - session.last >= IdleLimit

SignIn ==
    /\ ~session.in /\ Len(browsed) = 0
    /\ session' = [started |-> now, last |-> now, in |-> TRUE]
    /\ browsed' = <<now>>
    /\ UNCHANGED <<now, seen, accepted, window, passed>>

Browse ==
    /\ session.in
    /\ IF Expired THEN session' = NoSession /\ UNCHANGED browsed
       ELSE session' = [session EXCEPT !.last = now] /\ browsed' = Append(SubSeq(browsed, 1, 1), now)
    /\ UNCHANGED <<now, seen, accepted, window, passed>>

\* Each guard on its own: they share nothing but the clock.
AssertionNext == Tick \/ AuthenticateClient
RateNext == Tick \/ RateLimited
SessionsNext == Tick \/ SignIn \/ Browse

-----------------------------------------------------------------------------
\* An assertion is accepted once: its entry in the replay cache outlives the time
\* in which it would be accepted again, leeway included (oauth.py,
\* _authenticate_private_key_jwt).
AssertionOnce == accepted <= 1

\* No stretch of time as long as a window lets more than two windows' worth
\* through (middleware.py: a fixed window, not a sliding one).
RateBounded ==
    \A i \in DOMAIN passed :
        Cardinality({j \in DOMAIN passed : passed[j] \in passed[i] .. passed[i] + RateWindow - 1}) <= 2 * RateLimit

\* A caller who is refused is let through again a window after the first request
\* that was counted: the requests since, refused ones too, do not keep the key alive
\* (middleware.py, the Lua script).
WindowEnds == window.count > 0 => now < window.opened + RateWindow

\* However busy a session is, it is not used once its absolute limit has passed
\* (middleware.py, SessionIdleTimeoutMiddleware).
SessionBounded == \A i \in DOMAIN browsed : browsed[i] - browsed[1] < AbsoluteLimit
=============================================================================
