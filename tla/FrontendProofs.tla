--------------------------- MODULE FrontendProofs ---------------------------
(***************************************************************************)
(* Theorems about FrontendSessions and FrontendPage, for every set of      *)
(* projects and requests and every bound.                                  *)
(***************************************************************************)
EXTENDS FrontendSessions, FrontendPage, FiniteSetTheorems, TLAPS

-----------------------------------------------------------------------------
\* Types.

Stages == {"created", "approving", "acquire", "launching", "unlaunching", "booting", "unbooting",
           "opening", "unopening", "cleaning", "stranded"}
Uses == {KeyOf[r] : r \in Requests}
Digests == {DigestOf[r] : r \in Requests}
Owners == {OwnerOf[r] : r \in Requests}

StartRecord ==
    [stage : Stages, key : Uses, digest : Digests, owner : Owners, epoch : Nat, alive : BOOLEAN,
     current : BOOLEAN, cancelled : BOOLEAN]
SessionRecord ==
    [phase : {"live", "closing"}, keys : SUBSET (Uses \X Digests), owner : Owners, epoch : Nat,
     current : BOOLEAN]
CleanRecord ==
    [phase : {"browser", "server", "stopping", "failed"}, kind : {"start", "session"},
     page : BOOLEAN, server : BOOLEAN, failed : BOOLEAN]
Starts == {NoStart} \cup StartRecord
Sessions == {NoSession} \cup SessionRecord
Cleanups == {NoCleanup} \cup CleanRecord
Contexts == {"none", "open", "recovering", "orphan"}
Registries == {"none", "reused", "serving", "stopping", "failed"}

RegistryTypes ==
    /\ start \in [Projects -> Starts] /\ sess \in [Projects -> Sessions]
    /\ clean \in [Projects -> Cleanups] /\ ctx \in [Projects -> Contexts]
    /\ reg \in [Projects -> Registries] /\ proc \in [Projects -> BOOLEAN]

RequestRecord == [pc : {"new", "fenced", "waiting", "done"}, epoch : Nat]

ControlTypes ==
    /\ up \in BOOLEAN /\ epoch \in 1 .. MaxEpoch
    /\ guard \in {{}} \cup {{p} : p \in Projects}
    /\ closing \in {"no", "starts", "sessions", "servers", "done"} /\ faults \in Nat

-----------------------------------------------------------------------------
\* The inductive invariant.  One project: its start s, session x, cleanup c, browser
\* context b, server registry g and process k, in the phase cl of the shutdown, where
\* ok says that nothing has failed to close.

\* One of a start, a session and a cleanup has the project, except that a start waits
\* for its own cleanup and a closing session for its own.
OneHas(s, x, c) ==
    /\ s # NoStart => x = NoSession
    /\ s.stage \notin {"none", "cleaning"} => c = NoCleanup
    /\ x.phase = "live" => c = NoCleanup
    /\ c = NoCleanup => x.phase # "closing"
    /\ c # NoCleanup => (c.kind = "session" <=> x.phase = "closing")

\* A server in use has somebody who will release it.
ServerHeld(s, x, c, g, k, cl) ==
    /\ k => g \in {"serving", "stopping", "failed"}
    /\ g \in {"serving", "reused"} =>
           /\ \/ s.stage \in {"booting", "opening", "unopening"}
              \/ x.phase = "live"
              \/ c # NoCleanup /\ c.server /\ c.phase # "stopping"
           /\ cl \notin {"servers", "done"}

\* An open page has a session or a cleanup that will close it.
PageHeld(x, c, b, cl) ==
    /\ b = "open" /\ cl # "done" => x.phase = "live" \/ (c # NoCleanup /\ c.page)
    /\ c.phase \in {"server", "stopping"} /\ ~c.failed => ~c.page

\* The shutdown goes on when starts, sessions, servers and browsers have ended.
Ended(s, x, c, b, g, cl, ok) ==
    /\ cl \in {"sessions", "servers", "done"} =>
           s.stage \in {"none", "stranded"} /\ x.phase # "live"
    /\ ok =>
           /\ g # "failed" /\ b # "orphan" /\ c.phase # "failed"
           /\ c # NoCleanup => ~c.failed
           /\ cl \in {"servers", "done"} => x = NoSession /\ c = NoCleanup
           /\ cl = "done" => g = "none" /\ b = "none"

Agrees(s, x, c, b, g, k, cl, ok) ==
    OneHas(s, x, c) /\ ServerHeld(s, x, c, g, k, cl) /\ PageHeld(x, c, b, cl)
    /\ Ended(s, x, c, b, g, cl, ok)

ProjectsAgree ==
    \A p \in Projects :
        Agrees(start[p], sess[p], clean[p], ctx[p], reg[p], proc[p], closing, faults = 0)

\* Who waits, waits for a start that is running.
WaitersServed ==
    /\ req \in [Requests -> RequestRecord]
    /\ \A r \in Requests :
           req[r].pc = "waiting" => start[ProjectOf[r]].stage \notin {"none", "stranded"}

\* The projects that count for the limit, and those that hold something.
Busy(s, x, c) == s # NoStart \/ x # NoSession \/ c # NoCleanup
Active(s, x, c) == s.stage \notin {"none", "stranded"} \/ x # NoSession \/ c # NoCleanup
BusyProjects == {p \in Projects : Busy(start[p], sess[p], clean[p])}
ActiveProjects == {p \in Projects : Active(start[p], sess[p], clean[p])}

LimitKept == IsFiniteSet(BusyProjects) /\ Cardinality(ActiveProjects) <= MaxSessions

SessionInv == RegistryTypes /\ ControlTypes /\ ProjectsAgree /\ WaitersServed /\ LimitKept
-----------------------------------------------------------------------------
\* What is left of a step, when its projects agree again: the limit is kept if nobody
\* becomes busy or active.
LEMMA LimitShrinks ==
    ASSUME LimitKept,
           \A p \in Projects :
               /\ Busy(start'[p], sess'[p], clean'[p]) => Busy(start[p], sess[p], clean[p])
               /\ Active(start'[p], sess'[p], clean'[p]) => Active(start[p], sess[p], clean[p])
    PROVE  LimitKept'
  <1>1. BusyProjects' \subseteq BusyProjects /\ ActiveProjects' \subseteq ActiveProjects
    BY DEF BusyProjects, ActiveProjects
  <1>2. ActiveProjects \subseteq BusyProjects
    BY DEF BusyProjects, ActiveProjects, Busy, Active, NoStart
  <1>3. IsFiniteSet(BusyProjects') /\ IsFiniteSet(ActiveProjects)
    BY <1>1, <1>2, FS_Subset DEF LimitKept
  <1>4. Cardinality(ActiveProjects') <= Cardinality(ActiveProjects)
    BY <1>1, <1>3, FS_Subset
  <1>5. Cardinality(ActiveProjects') \in Nat /\ Cardinality(ActiveProjects) \in Nat
    BY <1>1, <1>3, FS_Subset, FS_CardinalityType
  <1> QED  BY <1>3, <1>4, <1>5, FrontendAssumption DEF LimitKept

\* A step of one project.
LEMMA LocalStep ==
    ASSUME SessionInv, NEW p \in Projects,
           \A q \in Projects : q # p =>
               /\ start'[q] = start[q] /\ sess'[q] = sess[q] /\ clean'[q] = clean[q]
               /\ ctx'[q] = ctx[q] /\ reg'[q] = reg[q] /\ proc'[q] = proc[q],
           RegistryTypes', ControlTypes', WaitersServed', closing' = closing,
           faults' = 0 => faults = 0,
           Agrees(start'[p], sess'[p], clean'[p], ctx'[p], reg'[p], proc'[p], closing, faults' = 0),
           Busy(start'[p], sess'[p], clean'[p]) => Busy(start[p], sess[p], clean[p]),
           Active(start'[p], sess'[p], clean'[p]) => Active(start[p], sess[p], clean[p])
    PROVE  SessionInv'
  <1>1. ASSUME NEW q \in Projects, q # p
        PROVE  Agrees(start'[q], sess'[q], clean'[q], ctx'[q], reg'[q], proc'[q], closing', faults' = 0)
    <2>1. Agrees(start'[q], sess'[q], clean'[q], ctx'[q], reg'[q], proc'[q], closing', faults = 0)
      BY <1>1 DEF SessionInv, ProjectsAgree
    <2> QED  BY <2>1 DEF Agrees, Ended
  <1>2. ProjectsAgree'
    BY <1>1 DEF ProjectsAgree
  <1>3. LimitKept'
    <2>1. \A q \in Projects :
              /\ Busy(start'[q], sess'[q], clean'[q]) => Busy(start[q], sess[q], clean[q])
              /\ Active(start'[q], sess'[q], clean'[q]) => Active(start[q], sess[q], clean[q])
      OBVIOUS
    <2> QED  BY <2>1, LimitShrinks DEF SessionInv
  <1> QED  BY <1>2, <1>3 DEF SessionInv
-----------------------------------------------------------------------------
\* The start task.

Running == Stages \ {"cleaning", "stranded"}

\* What is true of a project whose start is running.
LEMMA RunningFacts ==
    ASSUME SessionInv, NEW p \in Projects, start[p].stage \in Running
    PROVE  /\ start[p] \in StartRecord /\ sess[p] = NoSession /\ clean[p] = NoCleanup
           /\ closing \in {"no", "starts"} /\ ctx[p] \in Contexts \ {"open"}
           /\ reg[p] \in Registries /\ proc[p] \in BOOLEAN
           /\ proc[p] => reg[p] \in {"serving", "stopping", "failed"}
           /\ reg[p] \in {"serving", "reused"} => start[p].stage \in {"booting", "opening", "unopening"}
           /\ faults = 0 => reg[p] # "failed" /\ ctx[p] # "orphan"
           /\ Busy(start[p], sess[p], clean[p]) /\ Active(start[p], sess[p], clean[p])
  <1>1. start[p] \in StartRecord
    BY DEF SessionInv, RegistryTypes, Starts, NoStart, Running, Stages
  <1>2. Agrees(start[p], sess[p], clean[p], ctx[p], reg[p], proc[p], closing, faults = 0)
    BY DEF SessionInv, ProjectsAgree
  <1>3. /\ start[p].stage \notin {"none", "cleaning", "stranded"} /\ start[p] # NoStart
        /\ NoSession.phase = "none" /\ NoCleanup.phase = "none"
    BY DEF Running, Stages, NoStart, NoSession, NoCleanup
  <1>4. sess[p] = NoSession /\ clean[p] = NoCleanup
    BY <1>2, <1>3 DEF Agrees, OneHas
  <1>5. ctx[p] \in Contexts /\ reg[p] \in Registries /\ proc[p] \in BOOLEAN
        /\ closing \in {"no", "starts", "sessions", "servers", "done"}
    BY DEF SessionInv, RegistryTypes, ControlTypes
  <1>6. closing \in {"no", "starts"}
    BY <1>2, <1>3, <1>5 DEF Agrees, Ended
  <1>7. ctx[p] # "open"
    BY <1>2, <1>3, <1>4, <1>6 DEF Agrees, PageHeld
  <1>8. /\ proc[p] => reg[p] \in {"serving", "stopping", "failed"}
        /\ reg[p] \in {"serving", "reused"} => start[p].stage \in {"booting", "opening", "unopening"}
    BY <1>2, <1>3, <1>4 DEF Agrees, ServerHeld
  <1>9. faults = 0 => reg[p] # "failed" /\ ctx[p] # "orphan"
    BY <1>2 DEF Agrees, Ended
  <1> QED  BY <1>1, <1>3, <1>4, <1>5, <1>6, <1>7, <1>8, <1>9 DEF Busy, Active

\* The browser and the server of p alone may change, and are as they may be while a
\* start is running; server and tab say which of them is in use.
OutsideOK(p, server, tab) ==
    /\ ctx' \in [Projects -> Contexts] /\ reg' \in [Projects -> Registries]
    /\ proc' \in [Projects -> BOOLEAN]
    /\ \A q \in Projects : q # p => ctx'[q] = ctx[q] /\ reg'[q] = reg[q] /\ proc'[q] = proc[q]
    /\ proc'[p] => reg'[p] \in {"serving", "stopping", "failed"}
    /\ reg'[p] \in {"serving", "reused"} => server
    /\ ctx'[p] = "open" => tab
    /\ faults' = 0 => faults = 0 /\ reg'[p] # "failed" /\ ctx'[p] # "orphan"

\* The start goes on.
LEMMA StartGoesOn ==
    ASSUME SessionInv, NEW p \in Projects, start[p].stage \in Running,
           NEW s \in StartRecord, s.stage \in Running, start' = [start EXCEPT ![p] = s],
           UNCHANGED <<req, clean, sess, closing>>, ControlTypes',
           OutsideOK(p, s.stage \in {"booting", "opening", "unopening"}, FALSE)
    PROVE  SessionInv'
  <1>1. /\ start'[p] = s /\ \A q \in Projects : q # p => start'[q] = start[q]
        /\ start' \in [Projects -> Starts]
    BY DEF SessionInv, RegistryTypes, Starts
  <1>2. RegistryTypes'
    BY <1>1 DEF SessionInv, RegistryTypes, OutsideOK
  <1>3. s # NoStart /\ s.stage \notin {"none", "cleaning", "stranded"}
        /\ NoSession.phase = "none" /\ NoCleanup.phase = "none"
    BY DEF Running, Stages, NoStart, NoSession, NoCleanup
  <1>4. WaitersServed'
    BY <1>1, <1>3, FrontendAssumption DEF SessionInv, WaitersServed
  <1>5. Agrees(s, NoSession, NoCleanup, ctx'[p], reg'[p], proc'[p], closing, faults' = 0)
    <2>1. OneHas(s, NoSession, NoCleanup)
      BY <1>3 DEF OneHas
    <2>2. ServerHeld(s, NoSession, NoCleanup, reg'[p], proc'[p], closing)
      BY <1>3, RunningFacts DEF ServerHeld, OutsideOK
    <2>3. PageHeld(NoSession, NoCleanup, ctx'[p], closing)
      BY <1>3 DEF PageHeld, OutsideOK
    <2>4. Ended(s, NoSession, NoCleanup, ctx'[p], reg'[p], closing, faults' = 0)
      BY <1>3, RunningFacts DEF Ended, OutsideOK
    <2> QED  BY <2>1, <2>2, <2>3, <2>4 DEF Agrees
  <1>6. /\ \A q \in Projects : q # p =>
               /\ start'[q] = start[q] /\ sess'[q] = sess[q] /\ clean'[q] = clean[q]
               /\ ctx'[q] = ctx[q] /\ reg'[q] = reg[q] /\ proc'[q] = proc[q]
        /\ faults' = 0 => faults = 0
    BY <1>1 DEF OutsideOK
  <1>7. /\ sess'[p] = NoSession /\ clean'[p] = NoCleanup /\ closing' = closing
        /\ Busy(start[p], sess[p], clean[p]) /\ Active(start[p], sess[p], clean[p])
    BY RunningFacts
  <1> QED  BY <1>1, <1>2, <1>4, <1>5, <1>6, <1>7, LocalStep

\* The requests that wait for p are told.
LEMMA TellServes ==
    ASSUME WaitersServed, NEW p \in Projects, Tell(p),
           \A q \in Projects : q # p => start'[q] = start[q]
    PROVE  WaitersServed'
  <1>1. Done \in RequestRecord /\ Done.pc = "done"
    BY DEF Done, RequestRecord
  <1>2. /\ req' \in [Requests -> RequestRecord]
        /\ \A r \in Requests : req'[r].pc = "waiting" => req'[r] = req[r] /\ ProjectOf[r] # p
    BY <1>1 DEF Tell, WaitersServed
  <1> QED  BY <1>2, FrontendAssumption DEF WaitersServed

\* The start fails: it waits for its cleanup, or gives up its project.
LEMMA StartFails ==
    ASSUME SessionInv, NEW p \in Projects, start[p].stage \in Running,
           NEW tab \in BOOLEAN, NEW server \in BOOLEAN, Fail(p, tab, server),
           UNCHANGED <<sess, closing>>, ControlTypes', OutsideOK(p, server, tab)
    PROVE  SessionInv'
  <1> DEFINE s == IF tab \/ server
                  THEN [start[p] EXCEPT !.stage = "cleaning", !.cancelled = FALSE] ELSE NoStart
             c == IF tab \/ server
                  THEN [phase |-> "browser", kind |-> "start", page |-> tab, server |-> server,
                        failed |-> FALSE]
                  ELSE NoCleanup
  <1>0. /\ s \in Starts /\ s.stage = IF tab \/ server THEN "cleaning" ELSE "none"
        /\ tab \/ server => s # NoStart
        /\ ~(tab \/ server) => s = NoStart
    BY RunningFacts DEF StartRecord, Starts, NoStart, Stages
  <1>1. /\ c \in Cleanups /\ NoSession.phase = "none"
        /\ tab \/ server => /\ c # NoCleanup /\ c.phase = "browser" /\ c.kind = "start"
                            /\ c.page = tab /\ c.server = server /\ ~c.failed
        /\ ~(tab \/ server) => c = NoCleanup /\ c.phase = "none"
    BY DEF CleanRecord, Cleanups, NoCleanup, NoSession
  <1>2. /\ start' = [start EXCEPT ![p] = s] /\ clean' = [clean EXCEPT ![p] = c]
        /\ tab \/ server => req' = req
        /\ ~(tab \/ server) => Tell(p)
    <2>1. CASE tab \/ server
      BY <2>1 DEF Fail
    <2>2. CASE ~(tab \/ server)
      BY <2>2, RunningFacts DEF Fail, SessionInv, RegistryTypes
    <2> QED  BY <2>1, <2>2
  <1> HIDE DEF s, c
  <1>3. /\ start'[p] = s /\ \A q \in Projects : q # p => start'[q] = start[q]
        /\ clean'[p] = c /\ \A q \in Projects : q # p => clean'[q] = clean[q]
        /\ start' \in [Projects -> Starts] /\ clean' \in [Projects -> Cleanups]
    BY <1>0, <1>1, <1>2 DEF SessionInv, RegistryTypes
  <1>4. RegistryTypes'
    BY <1>3 DEF SessionInv, RegistryTypes, OutsideOK
  <1>5. WaitersServed'
    <2>1. CASE tab \/ server
      BY <1>0, <1>2, <1>3, <2>1, FrontendAssumption DEF SessionInv, WaitersServed
    <2>2. CASE ~(tab \/ server)
      BY <1>2, <1>3, <2>2, TellServes DEF SessionInv
    <2> QED  BY <2>1, <2>2
  <1>6. Agrees(s, NoSession, c, ctx'[p], reg'[p], proc'[p], closing, faults' = 0)
    <2>1. OneHas(s, NoSession, c)
      BY <1>0, <1>1 DEF OneHas
    <2>2. ServerHeld(s, NoSession, c, reg'[p], proc'[p], closing)
      BY <1>0, <1>1, RunningFacts DEF ServerHeld, OutsideOK
    <2>3. PageHeld(NoSession, c, ctx'[p], closing)
      BY <1>0, <1>1 DEF PageHeld, OutsideOK
    <2>4. Ended(s, NoSession, c, ctx'[p], reg'[p], closing, faults' = 0)
      BY <1>0, <1>1, RunningFacts DEF Ended, OutsideOK
    <2> QED  BY <2>1, <2>2, <2>3, <2>4 DEF Agrees
  <1>7. /\ \A q \in Projects : q # p =>
               /\ start'[q] = start[q] /\ sess'[q] = sess[q] /\ clean'[q] = clean[q]
               /\ ctx'[q] = ctx[q] /\ reg'[q] = reg[q] /\ proc'[q] = proc[q]
        /\ faults' = 0 => faults = 0
    BY <1>3 DEF OutsideOK
  <1>8. /\ sess'[p] = NoSession /\ closing' = closing
        /\ Busy(start[p], sess[p], clean[p]) /\ Active(start[p], sess[p], clean[p])
    BY RunningFacts
  <1> QED  BY <1>3, <1>4, <1>5, <1>6, <1>7, <1>8, LocalStep

\* The browser and the servers stay as they are.
LEMMA OutsideStays ==
    ASSUME SessionInv, NEW p \in Projects, start[p].stage \in Running,
           UNCHANGED <<ctx, reg, proc, faults>>, NEW server, NEW tab,
           start[p].stage \in {"booting", "opening", "unopening"} => server
    PROVE  OutsideOK(p, server, tab)
  <1>1. ctx \in [Projects -> Contexts] /\ reg \in [Projects -> Registries]
        /\ proc \in [Projects -> BOOLEAN]
    BY DEF SessionInv, RegistryTypes
  <1> QED  BY <1>1, RunningFacts DEF OutsideOK

\* A start with another stage is one.
LEMMA StageRecord ==
    ASSUME SessionInv, NEW p \in Projects, start[p].stage \in Running, NEW stage \in Stages
    PROVE  /\ [start[p] EXCEPT !.stage = stage] \in StartRecord
           /\ [start[p] EXCEPT !.stage = stage].stage = stage
           /\ [start[p] EXCEPT !.stage = stage, !.current = TRUE] \in StartRecord
           /\ [start[p] EXCEPT !.stage = stage, !.current = TRUE].stage = stage
           /\ [start[p] EXCEPT !.stage = stage, !.cancelled = FALSE] \in StartRecord
           /\ [start[p] EXCEPT !.stage = stage, !.cancelled = FALSE].stage = stage
  BY RunningFacts DEF StartRecord

\* The first step of a start task, the approval and what needs no server.
LEMMA EarlySteps ==
    ASSUME SessionInv, NEW p \in Projects,
           Begin(p) \/ Approved(p) \/ NotApproved(p) \/ AcquireFails(p)
    PROVE  SessionInv'
  <1>1. ControlTypes' /\ UNCHANGED <<sess, ctx, reg, proc, closing, faults>>
    BY DEF Begin, Approved, NotApproved, AcquireFails, SessionInv, ControlTypes, connVars, srvVars
  <1>2. start[p].stage \in {"created", "approving", "acquire"} /\ start[p].stage \in Running
    BY DEF Begin, Approved, NotApproved, AcquireFails, Running, Stages
  <1>3. OutsideOK(p, FALSE, FALSE)
    BY <1>1, <1>2, OutsideStays
  <1>4. CASE Fail(p, FALSE, FALSE)
    BY <1>1, <1>2, <1>3, <1>4, StartFails
  <1>5. ASSUME NEW stage \in {"acquire", "approving"}, UNCHANGED <<req, clean>>,
               \/ start' = [start EXCEPT ![p].stage = stage]
               \/ start' = [start EXCEPT ![p].stage = stage, ![p].current = TRUE]
        PROVE  SessionInv'
    <2>1. PICK s \in StartRecord : s.stage = stage /\ start' = [start EXCEPT ![p] = s]
      <3>0. stage \in Stages
        BY DEF Stages
      <3>1. CASE start' = [start EXCEPT ![p].stage = stage]
        BY <1>2, <3>0, <3>1, StageRecord
      <3>2. CASE start' = [start EXCEPT ![p].stage = stage, ![p].current = TRUE]
        <4>1. start' = [start EXCEPT ![p] = [start[p] EXCEPT !.stage = stage, !.current = TRUE]]
          BY <3>2 DEF SessionInv, RegistryTypes
        <4> QED  BY <1>2, <3>0, <4>1, StageRecord
      <3> QED  BY <1>5, <3>1, <3>2
    <2>2. s.stage \in Running
      BY <2>1 DEF Running, Stages
    <2>3. OutsideOK(p, s.stage \in {"booting", "opening", "unopening"}, FALSE)
      BY <1>3, <2>1 DEF OutsideOK
    <2> QED  BY <1>1, <1>2, <1>5, <2>1, <2>2, <2>3, StartGoesOn
  <1>6. CASE Begin(p) /\ start[p].cancelled
    <2> DEFINE s == [start[p] EXCEPT !.stage = "stranded"]
    <2>0. "stranded" \in Stages
      BY DEF Stages
    <2>1. /\ s \in StartRecord /\ s.stage = "stranded" /\ s # NoStart
          /\ NoSession.phase = "none" /\ NoCleanup.phase = "none"
      <3>1. s \in StartRecord /\ s.stage = "stranded"
        BY <1>2, <2>0, StageRecord
      <3> HIDE DEF s
      <3> QED  BY <3>1 DEF NoStart, NoSession, NoCleanup
    <2>2. start' = [start EXCEPT ![p] = s] /\ Tell(p) /\ clean' = clean
      BY <1>6 DEF Begin
    <2> HIDE DEF s
    <2>3. /\ start'[p] = s /\ \A q \in Projects : q # p => start'[q] = start[q]
          /\ RegistryTypes'
      BY <1>1, <2>1, <2>2 DEF SessionInv, RegistryTypes, Starts
    <2>4. WaitersServed'
      BY <2>2, <2>3, TellServes DEF SessionInv
    <2>5. Agrees(s, NoSession, NoCleanup, ctx[p], reg[p], proc[p], closing, faults = 0)
      BY <1>2, <2>1, RunningFacts DEF Agrees, OneHas, ServerHeld, PageHeld, Ended, Running, Stages
    <2>6. /\ sess'[p] = NoSession /\ clean'[p] = NoCleanup
          /\ Busy(start[p], sess[p], clean[p]) /\ Active(start[p], sess[p], clean[p])
      BY <1>1, <1>2, <2>2, RunningFacts
    <2> QED  BY <1>1, <2>2, <2>3, <2>4, <2>5, <2>6, LocalStep
  <1>7. CASE Begin(p) /\ ~start[p].cancelled
    <2> DEFINE stage == IF p \in Full THEN "acquire" ELSE "approving"
    <2>1. CASE ~start[p].alive \/ Discover(Files[p]) = "error"
      BY <1>4, <1>7, <2>1 DEF Begin
    <2>2. CASE ~(~start[p].alive \/ Discover(Files[p]) = "error")
      <3>1. stage \in {"acquire", "approving"} /\ UNCHANGED <<req, clean>>
            /\ start' = [start EXCEPT ![p].stage = stage, ![p].current = TRUE]
        BY <1>7, <2>2 DEF Begin
      <3> HIDE DEF stage
      <3> QED  BY <1>5, <3>1
    <2> QED  BY <2>1, <2>2
  <1>8. CASE Approved(p)
    BY <1>4, <1>5, <1>8 DEF Approved, Go
  <1>9. CASE NotApproved(p) \/ AcquireFails(p)
    BY <1>4, <1>9 DEF NotApproved, AcquireFails
  <1> QED  BY <1>6, <1>7, <1>8, <1>9

\* A server is acquired: the browser is next, or the server is released again.
LEMMA ServerAcquired ==
    ASSUME SessionInv, NEW p \in Projects, start[p].stage \in Running, Acquired(p),
           UNCHANGED <<sess, closing>>, ControlTypes', OutsideOK(p, TRUE, FALSE)
    PROVE  SessionInv'
  <1>1. CASE Current(p)
    <2> DEFINE s == [start[p] EXCEPT !.stage = "opening"]
    <2>0. "opening" \in Stages /\ "opening" \in Running
      BY DEF Stages, Running
    <2>1. s \in StartRecord /\ s.stage = "opening" /\ s.stage \in Running
      BY <2>0, StageRecord
    <2>2. start' = [start EXCEPT ![p] = s] /\ UNCHANGED <<req, clean>>
      BY <1>1 DEF Acquired, Go
    <2>3. OutsideOK(p, s.stage \in {"booting", "opening", "unopening"}, FALSE)
      BY <2>1
    <2> HIDE DEF s
    <2> QED  BY <2>1, <2>2, <2>3, StartGoesOn
  <1>2. CASE ~Current(p)
    <2>1. Fail(p, FALSE, TRUE)
      BY <1>2 DEF Acquired
    <2> QED  BY <2>1, StartFails
  <1> QED  BY <1>1, <1>2

\* The development server of a start.
LEMMA ServerSteps ==
    ASSUME SessionInv, NEW p \in Projects,
           \/ AcquireReused(p) \/ AcquireLaunches(p) \/ AcquireBoots(p) \/ LaunchCancelled(p)
           \/ Unlaunched(p) \/ Ready(p) \/ NotReady(p) \/ Unbooted(p)
    PROVE  SessionInv'
  <1>0. /\ ControlTypes' /\ UNCHANGED <<sess, ctx, closing, faults>>
        /\ start[p].stage \in Running
    BY DEF AcquireReused, AcquireLaunches, AcquireBoots, LaunchCancelled, Unlaunched, Ready,
       NotReady, Unbooted, SessionInv, ControlTypes, connVars, srvVars, Running, Stages
  <1>1. CASE AcquireReused(p)
    <2>1. Acquired(p) /\ reg[p] = "none" /\ reg' = [reg EXCEPT ![p] = "reused"] /\ proc' = proc
      BY <1>1 DEF AcquireReused
    <2>2. OutsideOK(p, TRUE, FALSE)
      BY <1>0, <2>1, RunningFacts DEF OutsideOK, SessionInv, RegistryTypes, Registries
    <2> QED  BY <1>0, <2>1, <2>2, ServerAcquired
  <1>2. CASE AcquireBoots(p)
    <2> DEFINE s == [start[p] EXCEPT !.stage = "booting"]
    <2>0. "booting" \in Stages /\ "booting" \in Running
      BY DEF Stages, Running
    <2>1. s \in StartRecord /\ s.stage = "booting" /\ s.stage \in Running
      BY <1>0, <2>0, StageRecord
    <2>2. /\ start' = [start EXCEPT ![p] = s] /\ UNCHANGED <<req, clean>>
          /\ reg' = [reg EXCEPT ![p] = "serving"] /\ proc' = [proc EXCEPT ![p] = TRUE]
      BY <1>2 DEF AcquireBoots, Go
    <2>3. OutsideOK(p, TRUE, FALSE)
      BY <1>0, <2>2, RunningFacts DEF OutsideOK, SessionInv, RegistryTypes, Registries
    <2>4. OutsideOK(p, s.stage \in {"booting", "opening", "unopening"}, FALSE)
      BY <2>1, <2>3
    <2> HIDE DEF s
    <2> QED  BY <1>0, <2>1, <2>2, <2>4, StartGoesOn
  <1>3. CASE Ready(p)
    <2>1. Acquired(p) /\ reg' = reg /\ proc' = proc
      BY <1>3 DEF Ready
    <2> QED  BY <1>0, <2>1, OutsideStays, ServerAcquired
  <1>4. CASE NotReady(p)
    <2> DEFINE s == [start[p] EXCEPT !.stage = "unbooting", !.cancelled = FALSE]
    <2>0. "unbooting" \in Stages /\ "unbooting" \in Running
      BY DEF Stages, Running
    <2>1. s \in StartRecord /\ s.stage = "unbooting" /\ s.stage \in Running
      BY <1>0, <2>0, StageRecord
    <2>2. /\ UNCHANGED <<req, clean, proc>>
          /\ reg' = [reg EXCEPT ![p] = "stopping"]
          /\ start' = [start EXCEPT ![p].stage = "unbooting", ![p].cancelled = FALSE]
      BY <1>4 DEF NotReady
    <2>3. start' = [start EXCEPT ![p] = s]
      BY <2>2 DEF SessionInv, RegistryTypes
    <2> HIDE DEF s
    <2>4. OutsideOK(p, s.stage \in {"booting", "opening", "unopening"}, FALSE)
      BY <1>0, <2>2, RunningFacts DEF OutsideOK, SessionInv, RegistryTypes, Registries
    <2> QED  BY <1>0, <2>1, <2>2, <2>3, <2>4, StartGoesOn
  <1>5. CASE Unbooted(p)
    <2>1. Fail(p, FALSE, FALSE) /\ UNCHANGED <<reg, proc>> /\ start[p].stage = "unbooting"
      BY <1>5 DEF Unbooted
    <2>2. OutsideOK(p, FALSE, FALSE)
      BY <1>0, <2>1, OutsideStays
    <2> QED  BY <1>0, <2>1, <2>2, StartFails
  <1>6. CASE AcquireLaunches(p)
    <2> DEFINE s == [start[p] EXCEPT !.stage = "launching"]
    <2>0. "launching" \in Stages /\ "launching" \in Running
      BY DEF Stages, Running
    <2>1. s \in StartRecord /\ s.stage = "launching" /\ s.stage \in Running
      BY <1>0, <2>0, StageRecord
    <2>2. /\ start' = [start EXCEPT ![p] = s] /\ UNCHANGED <<req, clean, reg, proc>>
          /\ start[p].stage = "acquire"
      BY <1>6 DEF AcquireLaunches, Go
    <2>3. OutsideOK(p, s.stage \in {"booting", "opening", "unopening"}, FALSE)
      BY <1>0, <2>2, OutsideStays
    <2> HIDE DEF s
    <2> QED  BY <1>0, <2>1, <2>2, <2>3, StartGoesOn
  <1>7. CASE LaunchCancelled(p)
    <2> DEFINE s == [start[p] EXCEPT !.stage = "unlaunching", !.cancelled = FALSE]
    <2>0. "unlaunching" \in Stages /\ "unlaunching" \in Running
      BY DEF Stages, Running
    <2>1. s \in StartRecord /\ s.stage = "unlaunching" /\ s.stage \in Running
      BY <1>0, <2>0, StageRecord
    <2>2. /\ UNCHANGED <<req, clean, reg, proc>> /\ start[p].stage = "launching"
          /\ start' = [start EXCEPT ![p].stage = "unlaunching", ![p].cancelled = FALSE]
      BY <1>7 DEF LaunchCancelled
    <2>3. start' = [start EXCEPT ![p] = s]
      BY <2>2 DEF SessionInv, RegistryTypes
    <2> HIDE DEF s
    <2>4. OutsideOK(p, s.stage \in {"booting", "opening", "unopening"}, FALSE)
      BY <1>0, <2>2, OutsideStays
    <2> QED  BY <1>0, <2>1, <2>2, <2>3, <2>4, StartGoesOn
  <1>8. CASE Unlaunched(p)
    <2>1. Fail(p, FALSE, FALSE) /\ UNCHANGED <<reg, proc>> /\ start[p].stage = "unlaunching"
      BY <1>8 DEF Unlaunched
    <2>2. OutsideOK(p, FALSE, FALSE)
      BY <1>0, <2>1, OutsideStays
    <2> QED  BY <1>0, <2>1, <2>2, StartFails
  <1> QED  BY <1>1, <1>2, <1>3, <1>4, <1>5, <1>6, <1>7, <1>8

\* The broker refuses a launch, or cannot undo it.
LEMMA LaunchFailsKeeps ==
    ASSUME SessionInv, NEW p \in Projects, LaunchFails(p)
    PROVE  SessionInv'
  <1>1. /\ start[p].stage = "launching" /\ start[p].stage \in Running
        /\ Fail(p, FALSE, FALSE) /\ UNCHANGED <<up, epoch, closing, sess, ctx, reg, proc>>
        /\ guard' = {} /\ faults' \in {faults, faults + 1}
    BY DEF LaunchFails, connVars, Running, Stages
  <1>2. ControlTypes' /\ (faults' = 0 => faults = 0)
    BY <1>1 DEF SessionInv, ControlTypes
  <1>3. /\ ctx \in [Projects -> Contexts] /\ reg \in [Projects -> Registries]
        /\ proc \in [Projects -> BOOLEAN]
    BY DEF SessionInv, RegistryTypes
  <1>4. OutsideOK(p, FALSE, FALSE)
    BY <1>1, <1>2, <1>3, RunningFacts DEF OutsideOK
  <1> QED  BY <1>1, <1>2, <1>4, StartFails

\* The browser of a start.
LEMMA BrowserSteps ==
    ASSUME SessionInv, NEW p \in Projects,
           Opened(p) \/ NotOpened(p) \/ OpenCancelled(p) \/ Unopened(p)
    PROVE  SessionInv'
  <1>0. /\ start[p].stage \in {"opening", "unopening"} /\ start[p].stage \in Running
        /\ UNCHANGED <<closing, reg, proc>>
    BY DEF Opened, NotOpened, OpenCancelled, Unopened, srvVars, Running, Stages
  <1>1. ControlTypes'
    <2>1. UNCHANGED <<up, epoch, guard, closing>> /\ faults' \in {faults, faults + 1}
      BY DEF Opened, NotOpened, OpenCancelled, Unopened, connVars, srvVars
    <2> QED  BY <2>1 DEF SessionInv, ControlTypes
  <1>2. CASE Opened(p) /\ ~Current(p)
    <2>1. Fail(p, TRUE, TRUE) /\ ctx' = [ctx EXCEPT ![p] = "open"] /\ UNCHANGED <<sess, faults>>
      BY <1>2 DEF Opened
    <2>2. OutsideOK(p, TRUE, TRUE)
      BY <1>0, <2>1, RunningFacts DEF OutsideOK, SessionInv, RegistryTypes, Contexts
    <2> QED  BY <1>0, <1>1, <2>1, <2>2, StartFails
  <1>3. CASE Opened(p) /\ Current(p)
    <2> DEFINE x == [phase |-> "live", keys |-> {<<start[p].key, start[p].digest>>},
                     owner |-> start[p].owner, epoch |-> start[p].epoch, current |-> TRUE]
    <2>1. x \in SessionRecord /\ x.phase = "live" /\ x # NoSession
      BY <1>0, RunningFacts DEF SessionRecord, StartRecord, NoSession
    <2>2. /\ sess' = [sess EXCEPT ![p] = x] /\ start' = [start EXCEPT ![p] = NoStart]
          /\ ctx' = [ctx EXCEPT ![p] = "open"] /\ Tell(p) /\ UNCHANGED <<clean, faults>>
      BY <1>3 DEF Opened
    <2> HIDE DEF x
    <2>3. /\ sess'[p] = x /\ start'[p] = NoStart /\ ctx'[p] = "open" /\ RegistryTypes'
          /\ \A q \in Projects : q # p =>
                 /\ start'[q] = start[q] /\ sess'[q] = sess[q] /\ clean'[q] = clean[q]
                 /\ ctx'[q] = ctx[q] /\ reg'[q] = reg[q] /\ proc'[q] = proc[q]
      BY <1>0, <2>1, <2>2 DEF SessionInv, RegistryTypes, Starts, Sessions, Contexts
    <2>4. WaitersServed'
      BY <2>2, <2>3, TellServes DEF SessionInv
    <2>5. Agrees(NoStart, x, NoCleanup, "open", reg[p], proc[p], closing, faults = 0)
      <3>1. NoStart.stage = "none" /\ NoCleanup.phase = "none"
        BY DEF NoStart, NoCleanup
      <3> QED  BY <1>0, <2>1, <3>1, RunningFacts DEF Agrees, OneHas, ServerHeld, PageHeld, Ended
    <2>6. /\ clean'[p] = NoCleanup
          /\ Busy(start[p], sess[p], clean[p]) /\ Active(start[p], sess[p], clean[p])
      BY <1>0, <2>2, RunningFacts
    <2> QED  BY <1>0, <1>1, <2>2, <2>3, <2>4, <2>5, <2>6, LocalStep
  <1>4. CASE NotOpened(p)
    <2>1. /\ Fail(p, FALSE, TRUE) /\ UNCHANGED sess
          /\ \/ UNCHANGED <<ctx, faults>>
             \/ ctx' = [ctx EXCEPT ![p] = "orphan"] /\ faults' = faults + 1
      BY <1>4 DEF NotOpened
    <2>2. OutsideOK(p, TRUE, FALSE)
      <3>1. CASE UNCHANGED <<ctx, faults>>
        BY <1>0, <3>1, OutsideStays
      <3>2. CASE ctx' = [ctx EXCEPT ![p] = "orphan"] /\ faults' = faults + 1
        <4>1. faults' # 0
          BY <3>2 DEF SessionInv, ControlTypes
        <4> QED  BY <1>0, <3>2, <4>1, RunningFacts DEF OutsideOK, SessionInv, RegistryTypes, Contexts
      <3> QED  BY <2>1, <3>1, <3>2
    <2> QED  BY <1>0, <1>1, <2>1, <2>2, StartFails
  <1>5. CASE OpenCancelled(p)
    <2> DEFINE s == [start[p] EXCEPT !.stage = "unopening", !.cancelled = FALSE]
    <2>0. "unopening" \in Stages /\ "unopening" \in Running
      BY DEF Stages, Running
    <2>1. s \in StartRecord /\ s.stage = "unopening" /\ s.stage \in Running
      BY <1>0, <2>0, StageRecord
    <2>2. /\ UNCHANGED <<req, clean, sess, faults>> /\ ctx' = [ctx EXCEPT ![p] = "recovering"]
          /\ start' = [start EXCEPT ![p].stage = "unopening", ![p].cancelled = FALSE]
      BY <1>5 DEF OpenCancelled
    <2>3. start' = [start EXCEPT ![p] = s]
      BY <2>2 DEF SessionInv, RegistryTypes
    <2> HIDE DEF s
    <2>4. OutsideOK(p, TRUE, FALSE)
      BY <1>0, <2>2, RunningFacts DEF OutsideOK, SessionInv, RegistryTypes, Contexts
    <2>5. OutsideOK(p, s.stage \in {"booting", "opening", "unopening"}, FALSE)
      BY <2>1, <2>4
    <2> QED  BY <1>0, <1>1, <2>1, <2>2, <2>3, <2>5, StartGoesOn
  <1>6. CASE Unopened(p)
    <2>1. Fail(p, FALSE, TRUE) /\ UNCHANGED <<ctx, sess, faults>>
      BY <1>6 DEF Unopened
    <2>2. OutsideOK(p, TRUE, FALSE)
      BY <1>0, <2>1, OutsideStays
    <2> QED  BY <1>0, <1>1, <2>1, <2>2, StartFails
  <1> QED  BY <1>2, <1>3, <1>4, <1>5, <1>6

\* The start task stops waiting for its cleanup.
LEMMA StartEndsKeeps ==
    ASSUME SessionInv, NEW p \in Projects, StartEnds(p)
    PROVE  SessionInv'
  <1>1. /\ start[p].stage = "cleaning" /\ start' = [start EXCEPT ![p] = NoStart] /\ Tell(p)
        /\ UNCHANGED <<up, epoch, guard, closing, sess, clean, ctx, reg, proc, faults>>
    BY DEF StartEnds, connVars, srvVars
  <1>2. /\ start'[p] = NoStart /\ RegistryTypes'
        /\ \A q \in Projects : q # p => start'[q] = start[q]
    BY <1>1 DEF SessionInv, RegistryTypes, Starts
  <1>3. ControlTypes' /\ WaitersServed'
    BY <1>1, <1>2, TellServes DEF SessionInv, ControlTypes
  <1>4. /\ start[p] # NoStart /\ NoStart.stage = "none" /\ NoSession.phase = "none"
        /\ Agrees(start[p], sess[p], clean[p], ctx[p], reg[p], proc[p], closing, faults = 0)
    BY <1>1 DEF NoStart, NoSession, SessionInv, ProjectsAgree
  <1>5. Agrees(NoStart, sess[p], clean[p], ctx[p], reg[p], proc[p], closing, faults = 0)
    BY <1>1, <1>4 DEF Agrees, OneHas, ServerHeld, PageHeld, Ended
  <1>6. Busy(start[p], sess[p], clean[p]) /\ Active(start[p], sess[p], clean[p])
    BY <1>1, <1>4 DEF Busy, Active
  <1> QED  BY <1>1, <1>2, <1>3, <1>5, <1>6, LocalStep

-----------------------------------------------------------------------------
\* Cleanups, the development server and the end of sessions.

\* A step that leaves starts and requests alone.
LEMMA CleanupLocal ==
    ASSUME SessionInv, NEW p \in Projects,
           UNCHANGED <<start, req, closing, up, epoch, guard>>, faults' \in {faults, faults + 1},
           RegistryTypes',
           \A q \in Projects : q # p =>
               /\ sess'[q] = sess[q] /\ clean'[q] = clean[q]
               /\ ctx'[q] = ctx[q] /\ reg'[q] = reg[q] /\ proc'[q] = proc[q],
           Agrees(start[p], sess'[p], clean'[p], ctx'[p], reg'[p], proc'[p], closing, faults' = 0),
           sess'[p] # NoSession => sess[p] # NoSession,
           clean'[p] # NoCleanup => clean[p] # NoCleanup \/ sess[p] # NoSession
    PROVE  SessionInv'
  <1>1. ControlTypes' /\ (faults' = 0 => faults = 0)
    BY DEF SessionInv, ControlTypes
  <1>2. WaitersServed'
    BY DEF SessionInv, WaitersServed
  <1>3. /\ Busy(start'[p], sess'[p], clean'[p]) => Busy(start[p], sess[p], clean[p])
        /\ Active(start'[p], sess'[p], clean'[p]) => Active(start[p], sess[p], clean[p])
    BY DEF Busy, Active
  <1>4. /\ closing' = closing
        /\ \A q \in Projects : q # p =>
               /\ start'[q] = start[q] /\ sess'[q] = sess[q] /\ clean'[q] = clean[q]
               /\ ctx'[q] = ctx[q] /\ reg'[q] = reg[q] /\ proc'[q] = proc[q]
    OBVIOUS
  <1>5. Agrees(start'[p], sess'[p], clean'[p], ctx'[p], reg'[p], proc'[p], closing, faults' = 0)
    OBVIOUS
  <1> QED  BY <1>1, <1>2, <1>3, <1>4, <1>5, LocalStep

\* What is true of a project.
LEMMA ProjectFacts ==
    ASSUME SessionInv, NEW p \in Projects
    PROVE  /\ start[p] \in Starts /\ sess[p] \in Sessions /\ clean[p] \in Cleanups
           /\ ctx[p] \in Contexts /\ reg[p] \in Registries /\ proc[p] \in BOOLEAN
           /\ closing \in {"no", "starts", "sessions", "servers", "done"} /\ faults \in Nat
           /\ Agrees(start[p], sess[p], clean[p], ctx[p], reg[p], proc[p], closing, faults = 0)
           /\ NoStart.stage = "none" /\ NoSession.phase = "none" /\ NoCleanup.phase = "none"
  BY DEF SessionInv, RegistryTypes, ControlTypes, ProjectsAgree, NoStart, NoSession, NoCleanup

\* The broker has undone a launch, or could not.
LEMMA RecoverStartKeeps ==
    ASSUME SessionInv, NEW p \in Projects, RecoverStart(p)
    PROVE  SessionInv'
  <1>1. /\ UNCHANGED <<start, req, sess, clean, ctx, reg, proc, closing, up, epoch, guard>>
        /\ faults' \in {faults, faults + 1}
    BY DEF RecoverStart, connVars
  <1>2. RegistryTypes' /\ (faults' = 0 => faults = 0)
    BY <1>1, ProjectFacts DEF SessionInv, RegistryTypes
  <1>3. Agrees(start[p], sess[p], clean[p], ctx[p], reg[p], proc[p], closing, faults' = 0)
    BY <1>2, ProjectFacts DEF Agrees, Ended
  <1> QED  BY <1>1, <1>2, <1>3, CleanupLocal

\* The process of a server ends, by itself or stopped; a launch is recovered.
LEMMA ProcessSteps ==
    ASSUME SessionInv, NEW p \in Projects, ServerExits(p) \/ StopServer(p) \/ RecoverLaunch(p)
    PROVE  SessionInv'
  <1>0. UNCHANGED <<start, req, sess, clean, closing, up, epoch, guard>>
        /\ faults' \in {faults, faults + 1} /\ (faults' = 0 => faults = 0)
    <2>1. UNCHANGED <<start, req, sess, clean, closing, up, epoch, guard>>
          /\ faults' \in {faults, faults + 1}
      BY DEF ServerExits, StopServer, RecoverLaunch, connVars, srvVars
    <2> QED  BY <2>1, ProjectFacts
  <1>1. PICK b \in Contexts, g \in Registries, k \in BOOLEAN :
            /\ ctx' = [ctx EXCEPT ![p] = b] /\ reg' = [reg EXCEPT ![p] = g]
            /\ proc' = [proc EXCEPT ![p] = k]
            /\ Agrees(start[p], sess[p], clean[p], b, g, k, closing, faults' = 0)
    <2>1. CASE ServerExits(p)
      <3>1. /\ ctx' = [ctx EXCEPT ![p] = ctx[p]] /\ reg' = [reg EXCEPT ![p] = reg[p]]
            /\ proc' = [proc EXCEPT ![p] = FALSE] /\ faults' = faults
        BY <2>1 DEF ServerExits, SessionInv, RegistryTypes
      <3>2. Agrees(start[p], sess[p], clean[p], ctx[p], reg[p], FALSE, closing, faults' = 0)
        BY <3>1, ProjectFacts DEF Agrees, ServerHeld
      <3> QED  BY <3>1, <3>2, ProjectFacts
    <2>2. CASE StopServer(p) /\ reg'[p] = "none"
      <3>1. /\ ctx' = [ctx EXCEPT ![p] = ctx[p]] /\ reg' = [reg EXCEPT ![p] = "none"]
            /\ proc' = [proc EXCEPT ![p] = FALSE] /\ faults' = faults
        BY <2>2 DEF StopServer, SessionInv, RegistryTypes
      <3>2. Agrees(start[p], sess[p], clean[p], ctx[p], "none", FALSE, closing, faults' = 0)
        BY <3>1, ProjectFacts DEF Agrees, ServerHeld, Ended
      <3> QED  BY <3>1, <3>2, ProjectFacts DEF Registries
    <2>3. CASE StopServer(p) /\ reg'[p] # "none"
      <3>1. /\ ctx' = [ctx EXCEPT ![p] = ctx[p]] /\ reg' = [reg EXCEPT ![p] = "failed"]
            /\ proc' = [proc EXCEPT ![p] = proc[p]] /\ faults' = faults + 1
        BY <2>3 DEF StopServer, SessionInv, RegistryTypes
      <3>2. faults' # 0
        BY <3>1, ProjectFacts
      <3>3. Agrees(start[p], sess[p], clean[p], ctx[p], "failed", proc[p], closing, faults' = 0)
        BY <3>2, ProjectFacts DEF Agrees, ServerHeld, Ended
      <3> QED  BY <3>1, <3>3, ProjectFacts DEF Registries
    <2>4. CASE RecoverLaunch(p) /\ ctx'[p] = "none"
      <3>1. /\ ctx' = [ctx EXCEPT ![p] = "none"] /\ reg' = [reg EXCEPT ![p] = reg[p]]
            /\ proc' = [proc EXCEPT ![p] = proc[p]]
        BY <2>4 DEF RecoverLaunch, srvVars, SessionInv, RegistryTypes
      <3>2. Agrees(start[p], sess[p], clean[p], "none", reg[p], proc[p], closing, faults' = 0)
        BY <1>0, ProjectFacts DEF Agrees, PageHeld, Ended
      <3> QED  BY <3>1, <3>2, ProjectFacts DEF Contexts
    <2>5. CASE RecoverLaunch(p) /\ ctx'[p] # "none"
      <3>1. /\ ctx' = [ctx EXCEPT ![p] = "orphan"] /\ reg' = [reg EXCEPT ![p] = reg[p]]
            /\ proc' = [proc EXCEPT ![p] = proc[p]] /\ faults' = faults + 1
        BY <2>5 DEF RecoverLaunch, srvVars, SessionInv, RegistryTypes
      <3>2. faults' # 0
        BY <3>1, ProjectFacts
      <3>3. Agrees(start[p], sess[p], clean[p], "orphan", reg[p], proc[p], closing, faults' = 0)
        BY <3>2, ProjectFacts DEF Agrees, PageHeld, Ended
      <3> QED  BY <3>1, <3>3, ProjectFacts DEF Contexts
    <2> QED  BY <2>1, <2>2, <2>3, <2>4, <2>5
  <1>2. /\ RegistryTypes' /\ ctx'[p] = b /\ reg'[p] = g /\ proc'[p] = k
        /\ \A q \in Projects : q # p => ctx'[q] = ctx[q] /\ reg'[q] = reg[q] /\ proc'[q] = proc[q]
    BY <1>0, <1>1 DEF SessionInv, RegistryTypes
  <1> QED  BY <1>0, <1>1, <1>2, CleanupLocal

\* The page of a cleanup is closed, or fails to.
LEMMA ClosePageKeeps ==
    ASSUME SessionInv, NEW p \in Projects, ClosePage(p)
    PROVE  SessionInv'
  <1>1. /\ clean[p].phase = "browser" /\ UNCHANGED <<start, req, sess, closing, up, epoch, guard, reg, proc>>
        /\ faults' \in {faults, faults + 1}
    BY DEF ClosePage, connVars, srvVars
  <1>2. clean[p] \in CleanRecord /\ clean[p] # NoCleanup
    BY <1>1, ProjectFacts DEF Cleanups
  <1>3. PICK c \in CleanRecord, b \in Contexts :
            /\ clean' = [clean EXCEPT ![p] = c] /\ ctx' = [ctx EXCEPT ![p] = b]
            /\ c # NoCleanup /\ Agrees(start[p], sess[p], c, b, reg[p], proc[p], closing, faults' = 0)
    <2>1. CASE faults' = faults
      <3> DEFINE c == [clean[p] EXCEPT !.phase = "server", !.page = FALSE]
                 b == IF clean[p].page THEN "none" ELSE ctx[p]
      <3>1. clean' = [clean EXCEPT ![p].phase = "server", ![p].page = FALSE]
            /\ ctx' = [ctx EXCEPT ![p] = b]
        <4>1. faults + 1 # faults
          BY ProjectFacts
        <4> QED  BY <2>1, <4>1 DEF ClosePage
      <3>2. clean' = [clean EXCEPT ![p] = c]
        BY <3>1 DEF SessionInv, RegistryTypes
      <3>3. /\ c \in CleanRecord /\ c.phase = "server" /\ ~c.page /\ c.kind = clean[p].kind
            /\ c.server = clean[p].server /\ c.failed = clean[p].failed
        BY <1>2 DEF CleanRecord
      <3>4. b \in Contexts /\ (b = "open" => ctx[p] = "open" /\ ~clean[p].page)
            /\ (b # ctx[p] => b = "none")
        BY ProjectFacts DEF Contexts
      <3> HIDE DEF c, b
      <3>5. c # NoCleanup
        BY <3>3 DEF NoCleanup
      <3>6. OneHas(start[p], sess[p], c) /\ ServerHeld(start[p], sess[p], c, reg[p], proc[p], closing)
        BY <1>2, <3>3, <3>5, ProjectFacts DEF Agrees, OneHas, ServerHeld
      <3>7. PageHeld(sess[p], c, b, closing)
        BY <1>2, <3>3, <3>4, <3>5, ProjectFacts DEF Agrees, PageHeld, OneHas
      <3>8. Ended(start[p], sess[p], c, b, reg[p], closing, faults' = 0)
        BY <1>2, <2>1, <3>3, <3>4, <3>5, ProjectFacts DEF Agrees, Ended
      <3> QED  BY <3>1, <3>2, <3>3, <3>4, <3>5, <3>6, <3>7, <3>8 DEF Agrees
    <2>2. CASE faults' # faults
      <3> DEFINE c == [clean[p] EXCEPT !.phase = "server", !.failed = TRUE]
      <3>1. clean' = [clean EXCEPT ![p].phase = "server", ![p].failed = TRUE]
            /\ ctx' = ctx /\ clean[p].page
        BY <2>2 DEF ClosePage
      <3>2. clean' = [clean EXCEPT ![p] = c] /\ ctx' = [ctx EXCEPT ![p] = ctx[p]]
        BY <3>1 DEF SessionInv, RegistryTypes
      <3>3. /\ c \in CleanRecord /\ c.phase = "server" /\ c.page = clean[p].page
            /\ c.kind = clean[p].kind /\ c.server = clean[p].server /\ c.failed
        BY <1>2 DEF CleanRecord
      <3>4. faults' # 0
        BY <1>1, <2>2, ProjectFacts
      <3> HIDE DEF c
      <3>5. c # NoCleanup
        BY <3>3 DEF NoCleanup
      <3>6. OneHas(start[p], sess[p], c) /\ ServerHeld(start[p], sess[p], c, reg[p], proc[p], closing)
        BY <1>2, <3>3, <3>5, ProjectFacts DEF Agrees, OneHas, ServerHeld
      <3>7. PageHeld(sess[p], c, ctx[p], closing)
        BY <1>2, <3>3, <3>5, ProjectFacts DEF Agrees, PageHeld
      <3>8. Ended(start[p], sess[p], c, ctx[p], reg[p], closing, faults' = 0)
        BY <3>4, ProjectFacts DEF Agrees, Ended
      <3> QED  BY <3>2, <3>3, <3>5, <3>6, <3>7, <3>8, ProjectFacts DEF Agrees
    <2> QED  BY <2>1, <2>2
  <1>4. /\ RegistryTypes' /\ clean'[p] = c /\ ctx'[p] = b
        /\ \A q \in Projects : q # p => clean'[q] = clean[q] /\ ctx'[q] = ctx[q]
    BY <1>1, <1>3 DEF SessionInv, RegistryTypes, Cleanups
  <1> QED  BY <1>1, <1>2, <1>3, <1>4, CleanupLocal

\* The server of a cleanup begins to stop.
LEMMA ReleaseServerKeeps ==
    ASSUME SessionInv, NEW p \in Projects, ReleaseServer(p)
    PROVE  SessionInv'
  <1> DEFINE c == [clean[p] EXCEPT !.phase = "stopping"]
             g == IF reg[p] = "reused" THEN "none" ELSE "stopping"
  <1>1. /\ clean[p].phase = "server" /\ clean[p].server
        /\ UNCHANGED <<start, req, sess, closing, up, epoch, guard, ctx, proc, faults>>
        /\ reg' = [reg EXCEPT ![p] = g] /\ clean' = [clean EXCEPT ![p] = c]
    BY DEF ReleaseServer, connVars
  <1>2. clean[p] \in CleanRecord /\ clean[p] # NoCleanup
    BY <1>1, ProjectFacts DEF Cleanups
  <1>3. /\ c \in CleanRecord /\ c.phase = "stopping" /\ c.page = clean[p].page
        /\ c.kind = clean[p].kind /\ c.server = clean[p].server /\ c.failed = clean[p].failed
    BY <1>2 DEF CleanRecord
  <1>4. g \in Registries /\ g \notin {"serving", "reused", "failed"} /\ (proc[p] => g = "stopping")
    BY ProjectFacts DEF Registries, Agrees, ServerHeld
  <1> HIDE DEF c, g
  <1>5. c # NoCleanup
    BY <1>3 DEF NoCleanup
  <1>6. Agrees(start[p], sess[p], c, ctx[p], g, proc[p], closing, faults = 0)
    <2>1. OneHas(start[p], sess[p], c)
      BY <1>2, <1>3, <1>5, ProjectFacts DEF Agrees, OneHas
    <2>2. ServerHeld(start[p], sess[p], c, g, proc[p], closing)
      BY <1>4 DEF ServerHeld
    <2>3. PageHeld(sess[p], c, ctx[p], closing)
      BY <1>1, <1>2, <1>3, <1>5, ProjectFacts DEF Agrees, PageHeld
    <2>4. Ended(start[p], sess[p], c, ctx[p], g, closing, faults = 0)
      BY <1>1, <1>2, <1>3, <1>4, <1>5, ProjectFacts DEF Agrees, Ended
    <2> QED  BY <2>1, <2>2, <2>3, <2>4 DEF Agrees
  <1>7. /\ RegistryTypes' /\ clean'[p] = c /\ reg'[p] = g
        /\ \A q \in Projects : q # p => clean'[q] = clean[q] /\ reg'[q] = reg[q]
    BY <1>1, <1>3, <1>4 DEF SessionInv, RegistryTypes, Cleanups
  <1> QED  BY <1>1, <1>2, <1>6, <1>7, CleanupLocal

\* A cleanup ends: the project is free, or the failure is kept.
LEMMA EndCleanupKeeps ==
    ASSUME SessionInv, NEW p \in Projects, EndCleanup(p)
    PROVE  SessionInv'
  <1> DEFINE released == clean[p].phase = "server" \/ reg[p] = "none"
  <1>1. /\ UNCHANGED <<start, req, closing, up, epoch, guard, ctx, reg, proc, faults>>
        /\ \/ clean[p].phase = "server" /\ ~clean[p].server
           \/ clean[p].phase = "stopping" /\ reg[p] # "stopping"
    BY DEF EndCleanup, connVars, srvVars
  <1>2. clean[p] \in CleanRecord /\ clean[p] # NoCleanup
    BY <1>1, ProjectFacts DEF Cleanups
  <1>3. reg[p] \notin {"serving", "reused"}
    <2>1. start[p].stage \in {"none", "cleaning"} /\ sess[p].phase # "live"
      BY <1>2, ProjectFacts DEF Agrees, OneHas
    <2> QED  BY <1>1, <1>2, <2>1, ProjectFacts DEF Agrees, ServerHeld
  <1>4. CASE released /\ ~clean[p].failed
    <2>1. clean' = [clean EXCEPT ![p] = NoCleanup] /\ sess' = [sess EXCEPT ![p] = NoSession]
      BY <1>4 DEF EndCleanup
    <2>2. /\ RegistryTypes' /\ clean'[p] = NoCleanup /\ sess'[p] = NoSession
          /\ \A q \in Projects : q # p => clean'[q] = clean[q] /\ sess'[q] = sess[q]
      BY <1>1, <2>1 DEF SessionInv, RegistryTypes, Cleanups, Sessions
    <2>3. ~clean[p].page
      BY <1>1, <1>4, ProjectFacts DEF Agrees, PageHeld
    <2>4. ctx[p] = "open" => closing = "done"
      BY <1>2, <2>3, ProjectFacts DEF Agrees, PageHeld, OneHas
    <2>5. Agrees(start[p], NoSession, NoCleanup, ctx[p], reg[p], proc[p], closing, faults = 0)
      <3>1. OneHas(start[p], NoSession, NoCleanup)
        BY ProjectFacts DEF OneHas
      <3>2. ServerHeld(start[p], NoSession, NoCleanup, reg[p], proc[p], closing)
        BY <1>3, ProjectFacts DEF Agrees, ServerHeld
      <3>3. PageHeld(NoSession, NoCleanup, ctx[p], closing)
        BY <2>4, ProjectFacts DEF PageHeld
      <3>4. Ended(start[p], NoSession, NoCleanup, ctx[p], reg[p], closing, faults = 0)
        BY ProjectFacts DEF Agrees, Ended
      <3> QED  BY <3>1, <3>2, <3>3, <3>4 DEF Agrees
    <2> QED  BY <1>1, <2>2, <2>5, CleanupLocal
  <1>5. CASE ~(released /\ ~clean[p].failed)
    <2> DEFINE c == [clean[p] EXCEPT !.phase = "failed", !.server = ~released]
    <2>1. clean' = [clean EXCEPT ![p].phase = "failed", ![p].server = ~released] /\ sess' = sess
      BY <1>5 DEF EndCleanup
    <2>2. clean' = [clean EXCEPT ![p] = c]
      BY <2>1 DEF SessionInv, RegistryTypes
    <2>3. /\ c \in CleanRecord /\ c.phase = "failed" /\ c.page = clean[p].page
          /\ c.kind = clean[p].kind /\ c.failed = clean[p].failed
      BY <1>2 DEF CleanRecord
    <2>4. faults # 0
      <3>1. CASE clean[p].failed
        BY <1>2, <3>1, ProjectFacts DEF Agrees, Ended
      <3>2. CASE ~released
        <4>1. reg[p] = "failed"
          BY <1>1, <1>3, <3>2, ProjectFacts DEF Registries
        <4> QED  BY <4>1, ProjectFacts DEF Agrees, Ended
      <3> QED  BY <1>5, <3>1, <3>2
    <2> HIDE DEF c
    <2>5. c # NoCleanup
      BY <2>3 DEF NoCleanup
    <2>6. Agrees(start[p], sess[p], c, ctx[p], reg[p], proc[p], closing, faults = 0)
      <3>1. OneHas(start[p], sess[p], c)
        BY <1>2, <2>3, <2>5, ProjectFacts DEF Agrees, OneHas
      <3>2. ServerHeld(start[p], sess[p], c, reg[p], proc[p], closing)
        BY <1>3, ProjectFacts DEF Agrees, ServerHeld
      <3>3. PageHeld(sess[p], c, ctx[p], closing)
        BY <1>2, <2>3, <2>5, ProjectFacts DEF Agrees, PageHeld
      <3>4. Ended(start[p], sess[p], c, ctx[p], reg[p], closing, faults = 0)
        BY <2>4, ProjectFacts DEF Agrees, Ended
      <3> QED  BY <3>1, <3>2, <3>3, <3>4 DEF Agrees
    <2>7. /\ RegistryTypes' /\ clean'[p] = c
          /\ \A q \in Projects : q # p => clean'[q] = clean[q]
      BY <1>1, <2>1, <2>2, <2>3 DEF SessionInv, RegistryTypes, Cleanups
    <2> QED  BY <1>1, <1>2, <2>1, <2>6, <2>7, CleanupLocal
  <1> QED  BY <1>4, <1>5

\* A session that closes, and its cleanup, as CloseSession and CloseAll leave them.
Closing(x) == IF x = NoSession THEN NoSession ELSE [x EXCEPT !.phase = "closing", !.keys = {}]
Cleaning(x, c) ==
    IF x.phase = "live"
    THEN [phase |-> "browser", kind |-> "session", page |-> TRUE, server |-> TRUE, failed |-> FALSE]
    ELSE IF c.phase = "failed" THEN [c EXCEPT !.phase = "browser", !.failed = FALSE] ELSE c

\* They agree with the rest.
LEMMA ClosingAgrees ==
    ASSUME NEW s \in Starts, NEW x \in Sessions, NEW c \in Cleanups, NEW b, NEW g, NEW k, NEW cl, NEW to,
           NEW ok, Agrees(s, x, c, b, g, k, cl, ok), cl \in {"no", "starts"}, to \in {cl, "sessions"},
           to = "sessions" => s.stage \in {"none", "stranded"}
    PROVE  /\ Closing(x) \in Sessions /\ Cleaning(x, c) \in Cleanups
           /\ Closing(x) # NoSession => x # NoSession
           /\ Cleaning(x, c) # NoCleanup => x # NoSession \/ c # NoCleanup
           /\ Agrees(s, Closing(x), Cleaning(x, c), b, g, k, to, ok)
           /\ c.phase # "none" => Agrees(s, x, Cleaning(x, c), b, g, k, cl, ok)
  <1> DEFINE y == Closing(x)
             d == Cleaning(x, c)
  <1>0. NoStart.stage = "none" /\ NoSession.phase = "none" /\ NoCleanup.phase = "none"
    BY DEF NoStart, NoSession, NoCleanup
  <1>1. /\ y \in Sessions /\ y.phase # "live"
        /\ x = NoSession => y = NoSession
        /\ x # NoSession => y # NoSession /\ y.phase = "closing"
    <2>1. CASE x = NoSession
      BY <1>0, <2>1 DEF Closing, Sessions
    <2>2. CASE x # NoSession
      <3>1. x \in SessionRecord
        BY <2>2 DEF Sessions
      <3>2. y \in SessionRecord /\ y.phase = "closing"
        BY <2>2, <3>1 DEF Closing, SessionRecord
      <3> QED  BY <1>0, <2>2, <3>2 DEF Sessions
    <2> QED  BY <2>1, <2>2
  <1>2. /\ d \in Cleanups /\ (d # NoCleanup => x # NoSession \/ c # NoCleanup)
        /\ x.phase = "live" =>
               d # NoCleanup /\ d.phase = "browser" /\ d.kind = "session" /\ d.page /\ d.server /\ ~d.failed
        /\ x.phase # "live" /\ c.phase = "failed" =>
               /\ d # NoCleanup /\ d.phase = "browser" /\ d.kind = c.kind /\ d.page = c.page
               /\ d.server = c.server /\ ~d.failed
        /\ x.phase # "live" /\ c.phase # "failed" => d = c
    <2>1. CASE x.phase = "live"
      BY <1>0, <2>1 DEF Cleaning, Cleanups, CleanRecord
    <2>2. CASE x.phase # "live" /\ c.phase = "failed"
      <3>1. c \in CleanRecord /\ c # NoCleanup
        BY <1>0, <2>2 DEF Cleanups
      <3>2. /\ d \in CleanRecord /\ d.phase = "browser" /\ d.kind = c.kind /\ d.page = c.page
            /\ d.server = c.server /\ ~d.failed
        BY <2>2, <3>1 DEF Cleaning, CleanRecord
      <3> QED  BY <1>0, <2>2, <3>1, <3>2 DEF Cleanups
    <2>3. CASE x.phase # "live" /\ c.phase # "failed"
      BY <2>3 DEF Cleaning
    <2> QED  BY <2>1, <2>2, <2>3
  <1> HIDE DEF y, d
  <1>3. x \in SessionRecord \cup {NoSession} /\ (x # NoSession => x.phase \in {"live", "closing"})
    BY DEF Sessions, SessionRecord
  <1>4. Agrees(s, y, d, b, g, k, to, ok)
    <2>1. OneHas(s, y, d)
      BY <1>0, <1>1, <1>2, <1>3 DEF Agrees, OneHas
    <2>2. ServerHeld(s, y, d, g, k, to)
      BY <1>0, <1>1, <1>2 DEF Agrees, OneHas, ServerHeld
    <2>3. PageHeld(y, d, b, to)
      BY <1>0, <1>1, <1>2 DEF Agrees, PageHeld
    <2>4. Ended(s, y, d, b, g, to, ok)
      BY <1>0, <1>1, <1>2 DEF Agrees, Ended
    <2> QED  BY <2>1, <2>2, <2>3, <2>4 DEF Agrees
  <1>5. c.phase # "none" => Agrees(s, x, d, b, g, k, cl, ok)
    <2> HAVE c.phase # "none"
    <2>0. x.phase # "live" /\ c # NoCleanup
      BY <1>0 DEF Agrees, OneHas
    <2>1. OneHas(s, x, d)
      BY <1>0, <1>2, <2>0 DEF Agrees, OneHas
    <2>2. ServerHeld(s, x, d, g, k, cl)
      BY <1>0, <1>2, <2>0 DEF Agrees, OneHas, ServerHeld
    <2>3. PageHeld(x, d, b, cl)
      BY <1>0, <1>2, <2>0 DEF Agrees, PageHeld
    <2>4. Ended(s, x, d, b, g, cl, ok)
      BY <1>0, <1>2, <2>0 DEF Agrees, Ended
    <2> QED  BY <2>1, <2>2, <2>3, <2>4 DEF Agrees
  <1> QED  BY <1>1, <1>2, <1>4, <1>5 DEF y, d

\* A session is closed, or a cleanup is tried again.
LEMMA CloseSteps ==
    ASSUME SessionInv, NEW p \in Projects, CloseSession(p) \/ RetryCleanup(p)
    PROVE  SessionInv'
  <1>1. /\ closing = "no"
        /\ UNCHANGED <<start, req, closing, up, epoch, guard, ctx, reg, proc, faults>>
    BY DEF CloseSession, RetryCleanup, connVars, srvVars
  <1>2. CASE CloseSession(p)
    <2>1. sess[p] # NoSession /\ sess[p] \in Sessions /\ clean[p] \in Cleanups
      BY <1>2, ProjectFacts DEF CloseSession
    <2>2. /\ sess' = [sess EXCEPT ![p] = Closing(sess[p])]
          /\ clean' = [clean EXCEPT ![p] = Cleaning(sess[p], clean[p])]
      BY <1>2, <2>1 DEF CloseSession, BeginClose, Closing, Cleaning, SessionInv, RegistryTypes
    <2>3. /\ Closing(sess[p]) \in Sessions /\ Cleaning(sess[p], clean[p]) \in Cleanups
          /\ Cleaning(sess[p], clean[p]) # NoCleanup => sess[p] # NoSession \/ clean[p] # NoCleanup
          /\ Agrees(start[p], Closing(sess[p]), Cleaning(sess[p], clean[p]), ctx[p], reg[p], proc[p],
                    closing, faults = 0)
      <3>1. /\ start[p] \in Starts /\ closing \in {"no", "starts"} /\ closing \in {closing, "sessions"}
            /\ closing # "sessions"
            /\ Agrees(start[p], sess[p], clean[p], ctx[p], reg[p], proc[p], closing, faults = 0)
        BY <1>1, ProjectFacts
      <3> QED  BY <2>1, <3>1, ClosingAgrees
    <2>4. /\ RegistryTypes' /\ sess'[p] = Closing(sess[p]) /\ clean'[p] = Cleaning(sess[p], clean[p])
          /\ \A q \in Projects : q # p => clean'[q] = clean[q] /\ sess'[q] = sess[q]
      BY <1>1, <2>2, <2>3 DEF SessionInv, RegistryTypes
    <2> QED  BY <1>1, <2>1, <2>3, <2>4, CleanupLocal
  <1>3. CASE RetryCleanup(p)
    <2>1. clean[p].phase = "failed" /\ clean[p] # NoCleanup /\ sess[p].phase # "live"
      BY <1>3, ProjectFacts DEF RetryCleanup, Agrees, OneHas
    <2>2. clean' = [clean EXCEPT ![p] = Cleaning(sess[p], clean[p])] /\ sess' = sess
      BY <1>3, <2>1 DEF RetryCleanup, Cleaning, SessionInv, RegistryTypes
    <2>3. /\ Cleaning(sess[p], clean[p]) \in Cleanups
          /\ Agrees(start[p], sess[p], Cleaning(sess[p], clean[p]), ctx[p], reg[p], proc[p],
                    closing, faults = 0)
      BY <1>1, <2>1, ProjectFacts, ClosingAgrees
    <2>4. /\ RegistryTypes' /\ clean'[p] = Cleaning(sess[p], clean[p])
          /\ \A q \in Projects : q # p => clean'[q] = clean[q]
      BY <1>1, <2>2, <2>3 DEF SessionInv, RegistryTypes
    <2> QED  BY <1>1, <2>1, <2>2, <2>3, <2>4, CleanupLocal
  <1> QED  BY <1>2, <1>3

-----------------------------------------------------------------------------
\* Requests, the fence and the shutdown.

\* A step that leaves the stages of starts and the phases of sessions as they are.
LEMMA StagesStay ==
    ASSUME SessionInv, RegistryTypes', ControlTypes', WaitersServed',
           UNCHANGED <<clean, ctx, reg, proc, faults>>,
           closing' = closing \/ (closing = "no" /\ closing' = "starts"),
           \A p \in Projects :
               /\ start'[p].stage = start[p].stage /\ (start'[p] = NoStart <=> start[p] = NoStart)
               /\ sess'[p].phase = sess[p].phase /\ (sess'[p] = NoSession <=> sess[p] = NoSession)
    PROVE  SessionInv'
  <1>1. ASSUME NEW p \in Projects
        PROVE  Agrees(start'[p], sess'[p], clean'[p], ctx'[p], reg'[p], proc'[p], closing', faults' = 0)
    <2>1. Agrees(start[p], sess[p], clean[p], ctx[p], reg[p], proc[p], closing, faults = 0)
      BY ProjectFacts
    <2>2. OneHas(start'[p], sess'[p], clean'[p])
      BY <2>1 DEF Agrees, OneHas
    <2>3. ServerHeld(start'[p], sess'[p], clean'[p], reg'[p], proc'[p], closing')
      BY <2>1 DEF Agrees, ServerHeld
    <2>4. PageHeld(sess'[p], clean'[p], ctx'[p], closing')
      BY <2>1 DEF Agrees, PageHeld
    <2>5. Ended(start'[p], sess'[p], clean'[p], ctx'[p], reg'[p], closing', faults' = 0)
      BY <2>1 DEF Agrees, Ended
    <2> QED  BY <2>2, <2>3, <2>4, <2>5 DEF Agrees
  <1>2. ProjectsAgree'
    BY <1>1 DEF ProjectsAgree
  <1>3. LimitKept'
    <2>1. \A p \in Projects :
              /\ Busy(start'[p], sess'[p], clean'[p]) => Busy(start[p], sess[p], clean[p])
              /\ Active(start'[p], sess'[p], clean'[p]) => Active(start[p], sess[p], clean[p])
      BY DEF Busy, Active
    <2> QED  BY <2>1, LimitShrinks DEF SessionInv
  <1> QED  BY <1>2, <1>3 DEF SessionInv

\* Fields of starts and sessions other than the stage and the phase.
LEMMA FieldRecords ==
    /\ \A s \in StartRecord :
           /\ [s EXCEPT !.current = FALSE] \in StartRecord
           /\ [s EXCEPT !.current = FALSE].stage = s.stage
           /\ [s EXCEPT !.cancelled = TRUE] \in StartRecord
           /\ [s EXCEPT !.cancelled = TRUE].stage = s.stage
           /\ [s EXCEPT !.alive = FALSE, !.cancelled = TRUE] \in StartRecord
           /\ [s EXCEPT !.alive = FALSE, !.cancelled = TRUE].stage = s.stage
           /\ s # NoStart
    /\ \A x \in SessionRecord :
           /\ [x EXCEPT !.current = FALSE] \in SessionRecord
           /\ [x EXCEPT !.current = FALSE].phase = x.phase
           /\ x # NoSession
  <1>1. \A s \in StartRecord : s # NoStart
    BY DEF StartRecord, Stages, NoStart
  <1>2. \A x \in SessionRecord : x # NoSession
    BY DEF SessionRecord, NoSession
  <1> QED  BY <1>1, <1>2 DEF StartRecord, SessionRecord

\* The approvals get a new generation.
LEMMA OutdateKeeps ==
    ASSUME SessionInv, NEW ps, Outdate(ps), ControlTypes',
           UNCHANGED <<req, clean, ctx, reg, proc, faults, closing>>
    PROVE  SessionInv'
  <1>1. ASSUME NEW p \in Projects
        PROVE  /\ start'[p] \in Starts /\ start'[p].stage = start[p].stage
               /\ start'[p] = NoStart <=> start[p] = NoStart
               /\ sess'[p] \in Sessions /\ sess'[p].phase = sess[p].phase
               /\ sess'[p] = NoSession <=> sess[p] = NoSession
    <2>1. start[p] \in Starts /\ sess[p] \in Sessions
      BY ProjectFacts
    <2>2. start'[p] \in {start[p], [start[p] EXCEPT !.current = FALSE]}
          /\ (start[p] = NoStart => start'[p] = start[p])
          /\ sess'[p] \in {sess[p], [sess[p] EXCEPT !.current = FALSE]}
          /\ (sess[p] = NoSession => sess'[p] = sess[p])
      BY DEF Outdate
    <2> QED  BY <2>1, <2>2, FieldRecords DEF Starts, Sessions
  <1>2. start' \in [Projects -> Starts] /\ sess' \in [Projects -> Sessions]
    <2>1. start' = [p \in Projects |-> start'[p]] /\ sess' = [p \in Projects |-> sess'[p]]
      BY DEF Outdate
    <2> QED  BY <1>1, <2>1
  <1>3. RegistryTypes' /\ WaitersServed'
    BY <1>1, <1>2, FrontendAssumption DEF SessionInv, RegistryTypes, WaitersServed
  <1> QED  BY <1>1, <1>3, StagesStay

\* The starts are cancelled, by the fence or by the shutdown.
LEMMA CancelledKeeps ==
    ASSUME SessionInv, start' = Cancelled, ControlTypes',
           UNCHANGED <<req, sess, clean, ctx, reg, proc, faults>>,
           closing' = closing \/ (closing = "no" /\ closing' = "starts")
    PROVE  SessionInv'
  <1>1. ASSUME NEW p \in Projects
        PROVE  /\ start'[p] \in Starts /\ start'[p].stage = start[p].stage
               /\ start'[p] = NoStart <=> start[p] = NoStart
    <2>1. start[p] \in Starts
      BY ProjectFacts
    <2>2. CASE start[p] = NoStart
      BY <2>1, <2>2 DEF Cancelled
    <2>3. CASE start[p] # NoStart
      <3>1. start[p] \in StartRecord
        BY <2>1, <2>3 DEF Starts
      <3>2. start'[p] = [start[p] EXCEPT !.alive = FALSE, !.cancelled = TRUE]
        BY <2>3 DEF Cancelled
      <3> QED  BY <3>1, <3>2, FieldRecords DEF Starts
    <2> QED  BY <2>2, <2>3
  <1>2. start' \in [Projects -> Starts]
    BY <1>1 DEF Cancelled
  <1>3. RegistryTypes' /\ WaitersServed'
    BY <1>1, <1>2, FrontendAssumption DEF SessionInv, RegistryTypes, WaitersServed
  <1> QED  BY <1>1, <1>3, StagesStay

\* The connection and the fence.
LEMMA ConnectionSteps ==
    ASSUME SessionInv,
           \/ Disconnect \/ Reconnect \/ FenceStarts \/ FenceDone \/ Shutdown
           \/ Revoke(Projects) \/ \E p \in Projects : Revoke({p})
    PROVE  SessionInv'
  <1>1. CASE Disconnect
    <2>1. Outdate(Projects) /\ UNCHANGED <<req, clean, ctx, reg, proc, faults, closing>>
      BY <1>1 DEF Disconnect, srvVars
    <2>2. ControlTypes'
      BY <1>1 DEF Disconnect, srvVars, SessionInv, ControlTypes
    <2> QED  BY <2>1, <2>2, OutdateKeeps
  <1>2. CASE Reconnect \/ FenceDone
    <2>1. UNCHANGED <<req, start, sess, clean, ctx, reg, proc, faults, closing>>
      BY <1>2 DEF Reconnect, FenceDone, srvVars
    <2>2. ControlTypes'
      <3>1. /\ up' \in BOOLEAN
            /\ epoch' = epoch \/ (epoch < MaxEpoch /\ epoch' = epoch + 1)
            /\ guard' = guard /\ closing' = closing /\ faults' = faults
        BY <1>2 DEF Reconnect, FenceDone, srvVars, SessionInv, ControlTypes
      <3>2. epoch' \in 1 .. MaxEpoch
        BY <3>1, FrontendAssumption DEF SessionInv, ControlTypes
      <3> QED  BY <3>1, <3>2 DEF SessionInv, ControlTypes
    <2>3. RegistryTypes' /\ WaitersServed'
      BY <2>1 DEF SessionInv, RegistryTypes, WaitersServed
    <2> QED  BY <2>1, <2>2, <2>3, StagesStay
  <1>3. CASE FenceStarts \/ Shutdown
    <2>1. /\ start' = Cancelled /\ UNCHANGED <<req, sess, clean, ctx, reg, proc, faults>>
          /\ closing' = closing \/ (closing = "no" /\ closing' = "starts")
      BY <1>3 DEF FenceStarts, Shutdown, srvVars
    <2>2. ControlTypes'
      BY <1>3 DEF FenceStarts, Shutdown, connVars, srvVars, SessionInv, ControlTypes
    <2> QED  BY <2>1, <2>2, CancelledKeeps
  <1>4. ASSUME NEW ps, Revoke(ps) PROVE SessionInv'
    <2>1. Outdate(ps) /\ UNCHANGED <<req, clean, ctx, reg, proc, faults, closing>>
      BY <1>4 DEF Revoke, srvVars
    <2>2. ControlTypes'
      BY <1>4 DEF Revoke, connVars, srvVars, SessionInv, ControlTypes
    <2> QED  BY <2>1, <2>2, OutdateKeeps
  <1> QED  BY <1>1, <1>2, <1>3, <1>4

\* The request record of r changes, and nothing else that the registries see.
LEMMA RequestChanges ==
    ASSUME WaitersServed, NEW r \in Requests, NEW a \in RequestRecord,
           req' = [req EXCEPT ![r] = a],
           a.pc = "waiting" => start'[ProjectOf[r]].stage \notin {"none", "stranded"},
           \A p \in Projects : start[p].stage \notin {"none", "stranded"} =>
               start'[p].stage \notin {"none", "stranded"}
    PROVE  WaitersServed'
  <1>1. /\ req' \in [Requests -> RequestRecord] /\ req'[r] = a
        /\ \A q \in Requests : q # r => req'[q] = req[q]
    BY DEF WaitersServed
  <1> QED  BY <1>1, FrontendAssumption DEF WaitersServed

\* Every record of a request that the code writes.
LEMMA RequestRecords ==
    ASSUME SessionInv, NEW r \in Requests
    PROVE  /\ ProjectOf[r] \in Projects /\ req[r] \in RequestRecord /\ req[r].epoch \in Nat
           /\ KeyOf[r] \in Uses /\ DigestOf[r] \in Digests /\ OwnerOf[r] \in Owners
           /\ Done \in RequestRecord /\ Done.pc = "done"
           /\ [pc |-> "fenced", epoch |-> epoch] \in RequestRecord
           /\ [req[r] EXCEPT !.pc = "waiting"] \in RequestRecord
           /\ [req EXCEPT ![r].pc = "waiting"] = [req EXCEPT ![r] = [req[r] EXCEPT !.pc = "waiting"]]
  <1>1. req[r] \in RequestRecord /\ req \in [Requests -> RequestRecord] /\ epoch \in Nat
    BY FrontendAssumption DEF SessionInv, WaitersServed, ControlTypes
  <1>2. ProjectOf[r] \in Projects
    BY FrontendAssumption
  <1>3. KeyOf[r] \in Uses /\ DigestOf[r] \in Digests /\ OwnerOf[r] \in Owners
    BY DEF Uses, Digests, Owners
  <1>4. Done \in RequestRecord /\ Done.pc = "done"
    BY DEF Done, RequestRecord
  <1>5. /\ [pc |-> "fenced", epoch |-> epoch] \in RequestRecord
        /\ [req[r] EXCEPT !.pc = "waiting"] \in RequestRecord /\ req[r].epoch \in Nat
    BY <1>1 DEF RequestRecord
  <1>6. [req EXCEPT ![r].pc = "waiting"] = [req EXCEPT ![r] = [req[r] EXCEPT !.pc = "waiting"]]
    BY <1>1
  <1> QED  BY <1>1, <1>2, <1>3, <1>4, <1>5, <1>6

\* A request arrives, or gives up and cancels the start it waits for.
LEMMA RequestSteps ==
    ASSUME SessionInv, NEW r \in Requests, Arrive(r) \/ CancelRequest(r)
    PROVE  SessionInv'
  <1> DEFINE p == ProjectOf[r]
  <1>1. UNCHANGED <<sess, clean, ctx, reg, proc, faults, closing>> /\ ControlTypes'
    BY DEF Arrive, CancelRequest, connVars, srvVars, SessionInv, ControlTypes
  <1>2. CASE Arrive(r)
    <2>1. start' = start /\ req' = [req EXCEPT ![r] = [pc |-> "fenced", epoch |-> epoch]]
      BY <1>2 DEF Arrive
    <2>2. RegistryTypes'
      BY <1>1, <2>1 DEF SessionInv, RegistryTypes
    <2>3. WaitersServed'
      <3>1. [pc |-> "fenced", epoch |-> epoch].pc # "waiting" /\ WaitersServed
        BY DEF SessionInv
      <3> QED  BY <2>1, <3>1, RequestRecords, RequestChanges
    <2> QED  BY <1>1, <2>1, <2>2, <2>3, StagesStay
  <1>3. CASE CancelRequest(r)
    <2>1. req' = [req EXCEPT ![r] = Done] /\ start' = [start EXCEPT ![p].cancelled = TRUE]
          /\ req[r].pc = "waiting" /\ p \in Projects
      BY <1>3, RequestRecords DEF CancelRequest, Answered
    <2>2. start[p] \in StartRecord
      <3>1. start[p].stage \notin {"none", "stranded"} /\ start[p] \in Starts
        BY <2>1, ProjectFacts DEF SessionInv, WaitersServed
      <3> QED  BY <3>1 DEF Starts, NoStart
    <2>3. start' = [start EXCEPT ![p] = [start[p] EXCEPT !.cancelled = TRUE]]
      BY <2>1 DEF SessionInv, RegistryTypes
    <2> HIDE DEF p
    <2>4. /\ start'[p] = [start[p] EXCEPT !.cancelled = TRUE] /\ start' \in [Projects -> Starts]
          /\ \A q \in Projects : q # p => start'[q] = start[q]
      BY <2>1, <2>2, <2>3, FieldRecords DEF SessionInv, RegistryTypes, Starts
    <2>5. \A q \in Projects :
              start'[q].stage = start[q].stage /\ (start'[q] = NoStart <=> start[q] = NoStart)
      <3>1. /\ start'[p].stage = start[p].stage /\ start'[p] # NoStart /\ start[p] # NoStart
        BY <2>2, <2>4, FieldRecords
      <3> QED  BY <2>4, <3>1
    <2>6. RegistryTypes'
      BY <1>1, <2>4 DEF SessionInv, RegistryTypes
    <2>7. WaitersServed'
      <3>1. Done.pc # "waiting" /\ WaitersServed
        BY DEF SessionInv, Done
      <3> QED  BY <2>1, <2>5, <3>1, RequestRecords, RequestChanges
    <2> QED  BY <1>1, <2>5, <2>6, <2>7, StagesStay
  <1> QED  BY <1>2, <1>3

-----------------------------------------------------------------------------
\* Admission.

\* A request is answered or waits, and no stage and no phase changes.
LEMMA AdmitStays ==
    ASSUME SessionInv, NEW r \in Requests, NEW a \in RequestRecord, req' = [req EXCEPT ![r] = a],
           a.pc = "waiting" => start[ProjectOf[r]].stage \notin {"none", "stranded"},
           UNCHANGED <<start, clean, ctx, reg, proc, faults, closing>>, ControlTypes',
           \/ sess' = sess
           \/ \E y \in SessionRecord :
                  /\ sess[ProjectOf[r]] # NoSession /\ y.phase = sess[ProjectOf[r]].phase
                  /\ sess' = [sess EXCEPT ![ProjectOf[r]] = y]
    PROVE  SessionInv'
  <1> DEFINE p == ProjectOf[r]
  <1>0. p \in Projects
    BY RequestRecords
  <1> HIDE DEF p
  <1>1. /\ sess' \in [Projects -> Sessions]
        /\ \A q \in Projects :
               sess'[q].phase = sess[q].phase /\ (sess'[q] = NoSession <=> sess[q] = NoSession)
    <2>1. CASE sess' = sess
      BY <2>1 DEF SessionInv, RegistryTypes
    <2>2. ASSUME NEW y \in SessionRecord, sess[p] # NoSession, y.phase = sess[p].phase,
                 sess' = [sess EXCEPT ![p] = y]
          PROVE  <1>1
      <3>1. y \in Sessions /\ y # NoSession
        BY FieldRecords DEF Sessions
      <3> QED  BY <1>0, <2>2, <3>1 DEF SessionInv, RegistryTypes
    <2> QED  BY <2>1, <2>2 DEF p
  <1>2. RegistryTypes'
    BY <1>1 DEF SessionInv, RegistryTypes
  <1>3. WaitersServed'
    BY RequestChanges DEF SessionInv
  <1> QED  BY <1>1, <1>2, <1>3, StagesStay

\* Sets that are finite have a finite union, not larger than both together.
LEMMA UnionBound ==
    ASSUME NEW A, NEW B, IsFiniteSet(A), IsFiniteSet(B)
    PROVE  /\ IsFiniteSet(A \cup B) /\ Cardinality(A \cup B) <= Cardinality(A) + Cardinality(B)
           /\ Cardinality(A) \in Nat /\ Cardinality(B) \in Nat /\ Cardinality(A \cup B) \in Nat
  <1>1. IsFiniteSet(A \cup B) /\ IsFiniteSet(A \cap B)
        /\ Cardinality(A \cup B) = Cardinality(A) + Cardinality(B) - Cardinality(A \cap B)
    BY FS_Union, FS_Intersection
  <1>2. /\ Cardinality(A) \in Nat /\ Cardinality(B) \in Nat /\ Cardinality(A \cup B) \in Nat
        /\ Cardinality(A \cap B) \in Nat
    BY <1>1, FS_CardinalityType
  <1> QED  BY <1>1, <1>2

\* What is counted at the admission is at least what is active.
LEMMA LoadCounts ==
    ASSUME SessionInv
    PROVE  /\ IsFiniteSet(ActiveProjects) /\ Cardinality(ActiveProjects) \in Nat
           /\ Load \in Nat /\ Cardinality(ActiveProjects) <= Load
  <1> DEFINE S == {p \in Projects : start[p] # NoStart}
             X == {p \in Projects : sess[p] # NoSession}
             C == {p \in Projects : clean[p] # NoCleanup /\ clean[p].kind = "start"}
  <1>1. S \subseteq BusyProjects /\ X \subseteq BusyProjects /\ C \subseteq BusyProjects
        /\ IsFiniteSet(BusyProjects)
    BY DEF BusyProjects, Busy, SessionInv, LimitKept
  <1>2. IsFiniteSet(S) /\ IsFiniteSet(X) /\ IsFiniteSet(C)
    BY <1>1, FS_Subset
  <1>3. ActiveProjects \subseteq (S \cup X) \cup C
    <2> SUFFICES ASSUME NEW p \in Projects, Active(start[p], sess[p], clean[p])
                 PROVE  p \in (S \cup X) \cup C
      BY DEF ActiveProjects
    <2>1. CASE start[p].stage \notin {"none", "stranded"}
      BY <2>1, ProjectFacts
    <2>2. CASE sess[p] # NoSession
      BY <2>2
    <2>3. CASE clean[p] # NoCleanup
      <3>1. clean[p].kind \in {"start", "session"}
        BY <2>3, ProjectFacts DEF Cleanups, CleanRecord
      <3>2. clean[p].kind = "session" => sess[p] # NoSession
        BY <2>3, ProjectFacts DEF Agrees, OneHas
      <3> QED  BY <2>3, <3>1, <3>2
    <2> QED  BY <2>1, <2>2, <2>3 DEF Active
  <1>4. Load = Cardinality(S) + Cardinality(X) + Cardinality(C)
    BY DEF Load
  <1> HIDE DEF S, X, C
  <1>5. /\ IsFiniteSet(S \cup X) /\ Cardinality(S \cup X) <= Cardinality(S) + Cardinality(X)
        /\ Cardinality(S) \in Nat /\ Cardinality(X) \in Nat /\ Cardinality(S \cup X) \in Nat
    BY <1>2, UnionBound
  <1>6. /\ IsFiniteSet((S \cup X) \cup C) /\ Cardinality((S \cup X) \cup C) \in Nat
        /\ Cardinality((S \cup X) \cup C) <= Cardinality(S \cup X) + Cardinality(C)
        /\ Cardinality(C) \in Nat
    BY <1>2, <1>5, UnionBound
  <1>7. IsFiniteSet(ActiveProjects) /\ Cardinality(ActiveProjects) <= Cardinality((S \cup X) \cup C)
    BY <1>3, <1>6, FS_Subset
  <1>8. Cardinality(ActiveProjects) \in Nat
    BY <1>7, FS_CardinalityType
  <1> QED  BY <1>4, <1>5, <1>6, <1>7, <1>8

\* A start is created, below the limit.
LEMMA StartCreated ==
    ASSUME SessionInv, NEW r \in Requests, NEW p \in Projects, p = ProjectOf[r],
           NEW s \in StartRecord, s.stage = "created", ~Taken(p), Load < MaxSessions, closing = "no",
           start' = [start EXCEPT ![p] = s], req' = [req EXCEPT ![r].pc = "waiting"],
           UNCHANGED <<sess, clean, ctx, reg, proc, faults, closing>>, ControlTypes'
    PROVE  SessionInv'
  <1>1. start[p] = NoStart /\ sess[p] = NoSession /\ clean[p] = NoCleanup
    BY DEF Taken
  <1>2. /\ start'[p] = s /\ start' \in [Projects -> Starts]
        /\ \A q \in Projects : q # p => start'[q] = start[q]
    BY DEF SessionInv, RegistryTypes, Starts
  <1>3. s # NoStart /\ NoStart.stage = "none" /\ NoSession.phase = "none" /\ NoCleanup.phase = "none"
    BY FieldRecords, ProjectFacts
  <1>4. RegistryTypes'
    BY <1>2 DEF SessionInv, RegistryTypes
  <1>5. WaitersServed'
    <2>1. \A q \in Projects : start[q].stage \notin {"none", "stranded"} =>
              start'[q].stage \notin {"none", "stranded"}
      BY <1>1, <1>2
    <2> QED  BY <1>2, <2>1, RequestRecords, RequestChanges DEF SessionInv
  <1>6. ProjectsAgree'
    <2>1. Agrees(NoStart, NoSession, NoCleanup, ctx[p], reg[p], proc[p], "no", faults = 0)
      BY <1>1, ProjectFacts
    <2>2. OneHas(s, NoSession, NoCleanup)
      BY <1>3 DEF OneHas
    <2>3. ServerHeld(s, NoSession, NoCleanup, reg[p], proc[p], "no")
      BY <1>3, <2>1 DEF Agrees, ServerHeld
    <2>4. PageHeld(NoSession, NoCleanup, ctx[p], "no")
      BY <2>1 DEF Agrees
    <2>5. Ended(s, NoSession, NoCleanup, ctx[p], reg[p], "no", faults = 0)
      BY <2>1 DEF Agrees, Ended
    <2>6. Agrees(start'[p], sess'[p], clean'[p], ctx'[p], reg'[p], proc'[p], closing', faults' = 0)
      BY <1>1, <1>2, <2>2, <2>3, <2>4, <2>5 DEF Agrees
    <2>7. ASSUME NEW q \in Projects, q # p
          PROVE  Agrees(start'[q], sess'[q], clean'[q], ctx'[q], reg'[q], proc'[q], closing', faults' = 0)
      BY <1>2, <2>7, ProjectFacts
    <2> QED  BY <2>6, <2>7 DEF ProjectsAgree
  <1>7. LimitKept'
    <2>1. BusyProjects' \subseteq BusyProjects \cup {p} /\ ActiveProjects' \subseteq ActiveProjects \cup {p}
      BY <1>2 DEF BusyProjects, ActiveProjects
    <2>2. IsFiniteSet(BusyProjects')
      <3>1. IsFiniteSet(BusyProjects \cup {p})
        BY FS_AddElement DEF SessionInv, LimitKept
      <3> QED  BY <2>1, <3>1, FS_Subset
    <2>3. /\ IsFiniteSet(ActiveProjects \cup {p}) /\ Cardinality(ActiveProjects) \in Nat
          /\ Cardinality(ActiveProjects \cup {p}) <= Cardinality(ActiveProjects) + 1
          /\ Cardinality(ActiveProjects \cup {p}) \in Nat
      <3>1. IsFiniteSet(ActiveProjects) /\ Cardinality(ActiveProjects) \in Nat
        BY LoadCounts
      <3>2. /\ IsFiniteSet(ActiveProjects \cup {p})
            /\ Cardinality(ActiveProjects \cup {p}) =
                   IF p \in ActiveProjects THEN Cardinality(ActiveProjects)
                   ELSE Cardinality(ActiveProjects) + 1
        BY <3>1, FS_AddElement
      <3> QED  BY <3>1, <3>2
    <2>4. /\ IsFiniteSet(ActiveProjects')
          /\ Cardinality(ActiveProjects') <= Cardinality(ActiveProjects \cup {p})
      BY <2>1, <2>3, FS_Subset
    <2>5. Cardinality(ActiveProjects') \in Nat
      BY <2>4, FS_CardinalityType
    <2>6. Cardinality(ActiveProjects') <= MaxSessions
      BY <2>3, <2>4, <2>5, LoadCounts, FrontendAssumption
    <2> QED  BY <2>2, <2>6 DEF LimitKept
  <1> QED  BY <1>4, <1>5, <1>6, <1>7 DEF SessionInv

\* A session that its owner finds again under another key.
WithKey(x, n, u, d) == [x EXCEPT !.epoch = n, !.keys = @ \cup {<<u, d>>}]

LEMMA KeyAdded ==
    ASSUME NEW x \in SessionRecord, NEW u \in Uses, NEW d \in Digests, NEW n \in Nat
    PROVE  WithKey(x, n, u, d) \in SessionRecord /\ WithKey(x, n, u, d).phase = x.phase
  <1> DEFINE ks == x.keys \cup {<<u, d>>}
  <1>1. ks \in SUBSET (Uses \X Digests)
    BY DEF SessionRecord
  <1>2. WithKey(x, n, u, d) = [x EXCEPT !.epoch = n, !.keys = ks]
    BY DEF SessionRecord, WithKey
  <1> HIDE DEF ks
  <1>3. [x EXCEPT !.epoch = n, !.keys = ks] \in SessionRecord
        /\ [x EXCEPT !.epoch = n, !.keys = ks].phase = x.phase
    BY <1>1 DEF SessionRecord
  <1> QED  BY <1>2, <1>3

\* A request is admitted.
LEMMA AdmitKeeps ==
    ASSUME SessionInv, NEW r \in Requests, Admit(r)
    PROVE  SessionInv'
  <1> DEFINE p == ProjectOf[r]
             Wait == [req[r] EXCEPT !.pc = "waiting"]
  <1>0. /\ p \in Projects /\ Done \in RequestRecord /\ Done.pc = "done" /\ Wait \in RequestRecord
        /\ [req EXCEPT ![r].pc = "waiting"] = [req EXCEPT ![r] = Wait] /\ req[r].epoch \in Nat
        /\ KeyOf[r] \in Uses /\ DigestOf[r] \in Digests /\ OwnerOf[r] \in Owners
    BY RequestRecords
  <1>1. UNCHANGED <<clean, ctx, reg, proc, faults, closing>> /\ ControlTypes'
    BY DEF Admit, srvVars, SessionInv, ControlTypes
  <1>2. ASSUME Answered(r), UNCHANGED <<start, sess>> PROVE SessionInv'
    <2>1. req' = [req EXCEPT ![r] = Done]
      BY <1>2 DEF Answered
    <2> QED  BY <1>0, <1>1, <1>2, <2>1, AdmitStays
  <1>3. ASSUME NEW y \in SessionRecord, Answered(r), UNCHANGED start, sess[p] # NoSession,
               y.phase = sess[p].phase, sess' = [sess EXCEPT ![p] = y]
        PROVE  SessionInv'
    <2>1. req' = [req EXCEPT ![r] = Done]
      BY <1>3 DEF Answered
    <2>2. \E z \in SessionRecord :
              sess[p] # NoSession /\ z.phase = sess[p].phase /\ sess' = [sess EXCEPT ![p] = z]
      BY <1>3
    <2> QED  BY <1>0, <1>1, <1>3, <2>1, <2>2, AdmitStays
  <1>4. ASSUME Live(p)
        PROVE  /\ sess[p] # NoSession /\ sess[p] \in SessionRecord
               /\ [sess[p] EXCEPT !.epoch = req[r].epoch] \in SessionRecord
               /\ [sess[p] EXCEPT !.epoch = req[r].epoch].phase = sess[p].phase
    <2>1. sess[p] # NoSession
      BY <1>0, <1>4, ProjectFacts DEF Live
    <2>2. sess[p] \in SessionRecord
      BY <1>0, <2>1, ProjectFacts DEF Sessions
    <2> HIDE DEF p
    <2> QED  BY <1>0, <2>1, <2>2 DEF SessionRecord
  <1>5. CASE closing # "no"
    BY <1>2, <1>5 DEF Admit
  <1>6. CASE AdmitKnown(r, p)
    <2>1. Answered(r) /\ UNCHANGED start /\ Live(p)
      BY <1>6 DEF AdmitKnown, Known
    <2>2. sess' = sess \/ sess' = [sess EXCEPT ![p].epoch = req[r].epoch]
      BY <1>6 DEF AdmitKnown
    <2>3. [sess EXCEPT ![p].epoch = req[r].epoch] = [sess EXCEPT ![p] = [sess[p] EXCEPT !.epoch = req[r].epoch]]
      BY DEF SessionInv, RegistryTypes
    <2> QED  BY <1>2, <1>3, <1>4, <2>1, <2>2, <2>3
  <1>7. CASE AdmitPending(r, p)
    <2>1. CASE Answered(r)
      BY <1>2, <1>7, <2>1 DEF AdmitPending
    <2>2. CASE ~Answered(r)
      <3>1. /\ req' = [req EXCEPT ![r] = Wait] /\ UNCHANGED <<start, sess>>
            /\ start[p] # NoStart /\ start[p].stage # "stranded"
        BY <1>0, <1>7, <2>2 DEF AdmitPending
      <3>2. start[p].stage # "none"
        BY <1>0, <3>1, ProjectFacts DEF Starts, StartRecord, Stages
      <3> QED  BY <1>0, <1>1, <3>1, <3>2, AdmitStays
    <2> QED  BY <2>1, <2>2
  <1>8. CASE AdmitNew(r, p) /\ closing = "no"
    <2>1. CASE Recoverable(r, p)
      <3>1. Answered(r) /\ UNCHANGED start /\ Live(p)
        BY <1>8, <2>1 DEF AdmitNew, Recoverable
      <3> DEFINE y == WithKey(sess[p], req[r].epoch, KeyOf[r], DigestOf[r])
      <3>2. \/ sess' = sess
            \/ sess' = [sess EXCEPT ![p].epoch = req[r].epoch,
                                    ![p].keys = @ \cup {<<KeyOf[r], DigestOf[r]>>}]
        BY <1>8, <2>1 DEF AdmitNew
      <3>3. [sess EXCEPT ![p].epoch = req[r].epoch,
                         ![p].keys = @ \cup {<<KeyOf[r], DigestOf[r]>>}] = [sess EXCEPT ![p] = y]
        BY <1>0 DEF SessionInv, RegistryTypes, WithKey
      <3>4. y \in SessionRecord /\ y.phase = sess[p].phase
        <4>1. sess[p] \in SessionRecord
          BY <1>4, <3>1
        <4>2. KeyOf[r] \in Uses /\ DigestOf[r] \in Digests /\ req[r].epoch \in Nat
          BY <1>0
        <4> QED  BY <4>1, <4>2, KeyAdded
      <3> QED  BY <1>2, <1>3, <1>4, <3>1, <3>2, <3>3, <3>4
    <2>2. CASE ~Recoverable(r, p) /\ (Taken(p) \/ Load >= MaxSessions)
      <3>1. Taken(p) \/ ~(Load < MaxSessions)
        BY <2>2, LoadCounts, FrontendAssumption
      <3> QED  BY <1>2, <1>8, <2>2, <3>1 DEF AdmitNew
    <2>3. CASE ~Recoverable(r, p) /\ ~(Taken(p) \/ Load >= MaxSessions)
      <3> DEFINE s == [stage |-> "created", key |-> KeyOf[r], digest |-> DigestOf[r],
                       owner |-> OwnerOf[r], epoch |-> req[r].epoch, alive |-> TRUE,
                       current |-> TRUE, cancelled |-> FALSE]
      <3>1. /\ start' = [start EXCEPT ![p] = s] /\ req' = [req EXCEPT ![r].pc = "waiting"]
            /\ UNCHANGED sess /\ ~Taken(p) /\ Load < MaxSessions
        BY <1>8, <2>3 DEF AdmitNew
      <3>2. s \in StartRecord /\ s.stage = "created"
        BY <1>0 DEF StartRecord, Stages
      <3> HIDE DEF s
      <3> QED  BY <1>0, <1>1, <1>8, <3>1, <3>2, StartCreated
    <2> QED  BY <2>1, <2>2, <2>3
  <1> QED  BY <1>5, <1>6, <1>7, <1>8 DEF Admit

-----------------------------------------------------------------------------
\* The shutdown.

\* Every session begins to close.
LEMMA CloseAllKeeps ==
    ASSUME SessionInv, CloseAll
    PROVE  SessionInv'
  <1>1. /\ closing = "starts" /\ StartsEnded /\ closing' = "sessions"
        /\ UNCHANGED <<req, start, ctx, reg, proc, faults>> /\ ControlTypes'
    BY DEF CloseAll, connVars, srvVars, SessionInv, ControlTypes
  <1>2. /\ sess' = [p \in Projects |-> Closing(sess[p])]
        /\ clean' = [p \in Projects |-> Cleaning(sess[p], clean[p])]
    BY DEF CloseAll, Closing, Cleaning
  <1>3. ASSUME NEW p \in Projects
        PROVE  /\ Closing(sess[p]) \in Sessions /\ Cleaning(sess[p], clean[p]) \in Cleanups
               /\ Closing(sess[p]) # NoSession => sess[p] # NoSession
               /\ Cleaning(sess[p], clean[p]) # NoCleanup => sess[p] # NoSession \/ clean[p] # NoCleanup
               /\ Agrees(start[p], Closing(sess[p]), Cleaning(sess[p], clean[p]), ctx[p], reg[p], proc[p],
                         "sessions", faults = 0)
    <2>1. /\ start[p] \in Starts /\ sess[p] \in Sessions /\ clean[p] \in Cleanups
          /\ Agrees(start[p], sess[p], clean[p], ctx[p], reg[p], proc[p], closing, faults = 0)
          /\ start[p].stage \in {"none", "stranded"}
          /\ closing \in {"no", "starts"} /\ "sessions" \in {closing, "sessions"}
      BY <1>1, ProjectFacts DEF StartsEnded
    <2> QED  BY <2>1, ClosingAgrees, SMTT(40)
  <1>4. RegistryTypes' /\ ProjectsAgree'
    BY <1>1, <1>2, <1>3 DEF SessionInv, RegistryTypes, ProjectsAgree
  <1>5. WaitersServed'
    BY <1>1 DEF SessionInv, WaitersServed
  <1>6. LimitKept'
    <2>1. \A p \in Projects :
              /\ Busy(start'[p], sess'[p], clean'[p]) => Busy(start[p], sess[p], clean[p])
              /\ Active(start'[p], sess'[p], clean'[p]) => Active(start[p], sess[p], clean[p])
      BY <1>1, <1>2, <1>3 DEF Busy, Active
    <2> QED  BY <2>1, LimitShrinks DEF SessionInv
  <1> QED  BY <1>1, <1>4, <1>5, <1>6 DEF SessionInv

\* The servers that are left are stopped; the browser is closed.
LEMMA CloseRest ==
    ASSUME SessionInv, CloseServers \/ CloseBrowser
    PROVE  SessionInv'
  <1>1. /\ UNCHANGED <<req, start, sess, clean, proc>> /\ ControlTypes' /\ closing' \in {"servers", "done"}
        /\ faults' = 0 => faults = 0
    BY DEF CloseServers, CloseBrowser, connVars, srvVars, SessionInv, ControlTypes
  <1>2. CASE CloseServers
    <2>1. /\ closing = "sessions" /\ closing' = "servers" /\ UNCHANGED <<ctx, faults>>
          /\ reg' = [p \in Projects |-> CASE reg[p] \in {"serving", "failed"} -> "stopping"
                                        [] reg[p] = "reused" -> "none"
                                        [] OTHER -> reg[p]]
          /\ \A p \in Projects : clean[p].phase \in {"none", "failed"}
      BY <1>2 DEF CloseServers
    <2>2. \A p \in Projects :
              /\ reg'[p] \in {"none", "stopping"}
              /\ reg[p] \in {"serving", "stopping", "failed"} => reg'[p] = "stopping"
      BY <2>1, ProjectFacts DEF Registries
    <2>3. RegistryTypes'
      <3>1. reg' \in [Projects -> Registries]
        BY <2>1, <2>2 DEF Registries
      <3> QED  BY <1>1, <2>1, <3>1 DEF SessionInv, RegistryTypes
    <2>4. ASSUME NEW p \in Projects
          PROVE  Agrees(start[p], sess[p], clean[p], ctx[p], reg'[p], proc[p], "servers", faults = 0)
      <3>1. OneHas(start[p], sess[p], clean[p])
        BY ProjectFacts DEF Agrees
      <3>2. ServerHeld(start[p], sess[p], clean[p], reg'[p], proc[p], "servers")
        BY <2>2, ProjectFacts DEF Agrees, ServerHeld
      <3>3. PageHeld(sess[p], clean[p], ctx[p], "servers")
        BY <2>1, ProjectFacts DEF Agrees, PageHeld
      <3>4. Ended(start[p], sess[p], clean[p], ctx[p], reg'[p], "servers", faults = 0)
        <4>1. start[p].stage \in {"none", "stranded"} /\ sess[p].phase # "live"
          BY <2>1, ProjectFacts DEF Agrees, Ended
        <4>2. ASSUME faults = 0 PROVE sess[p] = NoSession /\ clean[p] = NoCleanup
          <5>1. clean[p].phase = "none"
            BY <2>1, <4>2, ProjectFacts DEF Agrees, Ended
          <5>2. clean[p] = NoCleanup
            BY <5>1, ProjectFacts DEF Cleanups, CleanRecord
          <5>3. sess[p].phase # "closing"
            BY <5>2, ProjectFacts DEF Agrees, OneHas
          <5> QED  BY <4>1, <5>2, <5>3, ProjectFacts DEF Sessions, SessionRecord
        <4> QED  BY <2>2, <4>1, <4>2, ProjectFacts DEF Agrees, Ended
      <3> QED  BY <3>1, <3>2, <3>3, <3>4 DEF Agrees
    <2>5. ProjectsAgree'
      BY <1>1, <2>1, <2>4 DEF ProjectsAgree
    <2> QED  BY <1>1, <2>3, <2>5 DEF SessionInv, WaitersServed, LimitKept, BusyProjects, ActiveProjects
  <1>3. CASE CloseBrowser
    <2>1. /\ closing = "servers" /\ closing' = "done" /\ UNCHANGED reg
          /\ \A p \in Projects : reg[p] # "stopping" /\ ctx[p] # "recovering"
          /\ \/ ctx' = [p \in Projects |-> "none"] /\ UNCHANGED faults
             \/ faults' = faults + 1 /\ UNCHANGED ctx
      BY <1>3 DEF CloseBrowser, srvVars
    <2>2. RegistryTypes'
      BY <1>1, <2>1 DEF SessionInv, RegistryTypes, Contexts
    <2>3. ASSUME NEW p \in Projects
          PROVE  Agrees(start[p], sess[p], clean[p], ctx'[p], reg[p], proc[p], "done", faults' = 0)
      <3>0. faults' = 0 => ctx'[p] = "none" /\ faults = 0
        BY <2>1, ProjectFacts
      <3>1. OneHas(start[p], sess[p], clean[p])
        BY ProjectFacts DEF Agrees
      <3>2. ServerHeld(start[p], sess[p], clean[p], reg[p], proc[p], "done")
        BY <2>1, ProjectFacts DEF Agrees, ServerHeld
      <3>3. PageHeld(sess[p], clean[p], ctx'[p], "done")
        BY ProjectFacts DEF Agrees, PageHeld
      <3>4. reg[p] \in {"none", "failed"}
        BY <2>1, ProjectFacts DEF Agrees, ServerHeld, Registries
      <3>5. Ended(start[p], sess[p], clean[p], ctx'[p], reg[p], "done", faults' = 0)
        BY <2>1, <3>0, <3>4, ProjectFacts DEF Agrees, Ended
      <3> QED  BY <3>1, <3>2, <3>3, <3>5 DEF Agrees
    <2>4. ProjectsAgree'
      BY <1>1, <2>1, <2>3 DEF ProjectsAgree
    <2> QED  BY <1>1, <2>2, <2>4 DEF SessionInv, WaitersServed, LimitKept, BusyProjects, ActiveProjects
  <1> QED  BY <1>2, <1>3

-----------------------------------------------------------------------------
\* The invariant holds at the start and is kept by every step.
LEMMA SessionInvInit ==
    ASSUME Init
    PROVE  SessionInv
  <1>0. NoStart.stage = "none" /\ NoSession.phase = "none" /\ NoCleanup.phase = "none"
    BY DEF NoStart, NoSession, NoCleanup
  <1>1. RegistryTypes
    BY DEF Init, RegistryTypes, Starts, Sessions, Cleanups, Contexts, Registries
  <1>2. ControlTypes
    BY FrontendAssumption DEF Init, ControlTypes
  <1>3. ProjectsAgree
    BY <1>0 DEF Init, ProjectsAgree, Agrees, OneHas, ServerHeld, PageHeld, Ended
  <1>4. WaitersServed
    BY DEF Init, WaitersServed, RequestRecord
  <1>5. BusyProjects = {} /\ ActiveProjects = {}
    BY <1>0 DEF Init, BusyProjects, ActiveProjects, Busy, Active
  <1>6. LimitKept
    BY <1>5, FS_EmptySet, FrontendAssumption DEF LimitKept
  <1> QED  BY <1>1, <1>2, <1>3, <1>4, <1>6 DEF SessionInv

LEMMA SessionInvStep ==
    ASSUME SessionInv, [Next]_vars
    PROVE  SessionInv'
  <1>1. CASE UNCHANGED vars
    BY <1>1 DEF vars, connVars, srvVars, SessionInv, RegistryTypes, ControlTypes, ProjectsAgree,
        WaitersServed, LimitKept, BusyProjects, ActiveProjects
  <1>2. CASE \/ Disconnect \/ Reconnect \/ FenceStarts \/ FenceDone \/ Shutdown \/ Revoke(Projects)
             \/ \E p \in Projects : Revoke({p})
    BY <1>2, ConnectionSteps
  <1>3. CASE ShutdownStep
    BY <1>3, CloseAllKeeps, CloseRest DEF ShutdownStep
  <1>4. ASSUME NEW r \in Requests, Arrive(r) \/ Admit(r) \/ CancelRequest(r)
        PROVE  SessionInv'
    BY <1>4, RequestSteps, AdmitKeeps
  <1>5. ASSUME NEW p \in Projects, StartStep(p)
        PROVE  SessionInv'
    BY <1>5, EarlySteps, ServerSteps, LaunchFailsKeeps, BrowserSteps, StartEndsKeeps DEF StartStep
  <1>6. ASSUME NEW p \in Projects,
               ServerExits(p) \/ CleanupStep(p) \/ CloseSession(p) \/ RetryCleanup(p)
        PROVE  SessionInv'
    BY <1>6, RecoverStartKeeps, ProcessSteps, ClosePageKeeps, ReleaseServerKeeps, EndCleanupKeeps,
       CloseSteps
       DEF CleanupStep
  <1> QED  BY <1>1, <1>2, <1>3, <1>4, <1>5, <1>6 DEF Next

\* Launches that the broker undoes, and those that it could not.
LaunchInv ==
    /\ aborting \in [Projects -> Nat] /\ lost \in [Projects -> Nat]
    /\ \A p \in Projects : lost[p] > 0 => faults > 0

\* The other steps leave launches alone, and failures are never forgotten.
LEMMA LaunchesStay ==
    ASSUME LaunchInv, faults \in Nat, UNCHANGED launchVars, faults' \in {faults, faults + 1}
    PROVE  LaunchInv'
  BY DEF LaunchInv, launchVars

LEMMA LaunchInvStep ==
    ASSUME SessionInv, LaunchInv, [Next]_vars
    PROVE  LaunchInv'
  <1>0. faults \in Nat
    BY DEF SessionInv, ControlTypes
  <1>1. CASE UNCHANGED vars
    BY <1>0, <1>1, LaunchesStay DEF vars, srvVars
  <1>2. CASE \/ Disconnect \/ Reconnect \/ FenceStarts \/ FenceDone \/ Shutdown \/ Revoke(Projects)
             \/ ShutdownStep \/ (\E p \in Projects : Revoke({p}))
    <2>1. UNCHANGED launchVars /\ faults' \in {faults, faults + 1}
      BY <1>2 DEF Disconnect, Reconnect, FenceStarts, FenceDone, Shutdown, Revoke, ShutdownStep,
         CloseAll, CloseServers, CloseBrowser, srvVars
    <2> QED  BY <1>0, <2>1, LaunchesStay
  <1>3. ASSUME NEW r \in Requests, Arrive(r) \/ Admit(r) \/ CancelRequest(r)
        PROVE  LaunchInv'
    <2>1. UNCHANGED launchVars /\ faults' = faults
      BY <1>3 DEF Arrive, Admit, CancelRequest, srvVars
    <2> QED  BY <1>0, <2>1, LaunchesStay
  <1>4. ASSUME NEW p \in Projects, LaunchFails(p) \/ LaunchCancelled(p) \/ RecoverStart(p)
        PROVE  LaunchInv'
    <2>1. aborting' \in [Projects -> Nat]
      <3>1. aborting \in [Projects -> Nat] /\ aborting[p] \in Nat
        BY DEF LaunchInv
      <3>2. \/ aborting' = aborting
            \/ aborting' = [aborting EXCEPT ![p] = aborting[p] + 1]
            \/ aborting[p] > 0 /\ aborting' = [aborting EXCEPT ![p] = aborting[p] - 1]
        BY <1>4 DEF LaunchFails, LaunchCancelled, RecoverStart
      <3>3. aborting[p] > 0 => aborting[p] - 1 \in Nat
        BY <3>1
      <3> QED  BY <3>1, <3>2, <3>3
    <2>2. \/ lost' = lost /\ faults' = faults
          \/ lost' = [lost EXCEPT ![p] = @ + 1] /\ faults' = faults + 1
      BY <1>4 DEF LaunchFails, LaunchCancelled, RecoverStart
    <2> QED  BY <1>0, <2>1, <2>2 DEF LaunchInv
  <1>5. ASSUME NEW p \in Projects, StartStep(p), ~LaunchFails(p), ~LaunchCancelled(p)
        PROVE  LaunchInv'
    <2>1. UNCHANGED launchVars /\ faults' \in {faults, faults + 1}
      BY <1>5 DEF StartStep, Begin, Approved, NotApproved, AcquireFails, AcquireReused,
         AcquireLaunches, AcquireBoots, Unlaunched, Ready, NotReady, Unbooted, Opened, NotOpened,
         OpenCancelled, Unopened, StartEnds, srvVars
    <2> QED  BY <1>0, <2>1, LaunchesStay
  <1>6. ASSUME NEW p \in Projects, ~RecoverStart(p),
               ServerExits(p) \/ CleanupStep(p) \/ CloseSession(p) \/ RetryCleanup(p)
        PROVE  LaunchInv'
    <2>1. UNCHANGED launchVars /\ faults' \in {faults, faults + 1}
      BY <1>6 DEF CleanupStep, RecoverLaunch, StopServer, ClosePage, ReleaseServer, EndCleanup,
         ServerExits, CloseSession, RetryCleanup, srvVars
    <2> QED  BY <1>0, <2>1, LaunchesStay
  <1> QED  BY <1>1, <1>2, <1>3, <1>4, <1>5, <1>6 DEF Next

\* A server in use has exactly one holder.
LEMMA OneHolder ==
    ASSUME SessionInv, NEW p \in Projects, reg[p] \in {"serving", "reused"}
    PROVE  Cardinality(Holders(p)) = 1
  <1> DEFINE a == start[p].stage \in {"booting", "opening", "unopening"}
             b == sess[p].phase = "live"
             c == clean[p] # NoCleanup /\ clean[p].server
  <1>1. a \/ b \/ c
    BY ProjectFacts DEF Agrees, ServerHeld
  <1>2. ~(a /\ b) /\ ~(a /\ c) /\ ~(b /\ c)
    BY ProjectFacts DEF Agrees, OneHas
  <1>3. Holders(p) = {"start"} \/ Holders(p) = {"session"} \/ Holders(p) = {"cleanup"}
    BY <1>1, <1>2 DEF Holders
  <1> QED  BY <1>3, FS_Singleton

\* What the invariant says of sessions, servers and pages.
LEMMA SessionInvKeeps ==
    ASSUME SessionInv, LaunchInv
    PROVE  SessionsKept
  <1>1. TypeOK
    <2>1. ASSUME NEW p \in Projects
          PROVE  /\ start[p].stage \in {"none"} \cup Stages
                 /\ sess[p].phase \in {"none", "live", "closing"}
                 /\ clean[p].phase \in {"none", "browser", "server", "stopping", "failed"}
      BY ProjectFacts DEF Starts, StartRecord, Sessions, SessionRecord, Cleanups, CleanRecord
    <2> QED  BY <2>1 DEF TypeOK, LaunchInv, SessionInv, ControlTypes, RegistryTypes, Contexts, Registries, Stages
  <1>2. NothingLost
    <2> SUFFICES ASSUME NEW p \in Projects
                 PROVE  /\ proc[p] => reg[p] \in {"serving", "stopping", "failed"}
                        /\ lost[p] > 0 => faults > 0
                        /\ closing # "done" =>
                               /\ reg[p] \in {"serving", "reused"} => Cardinality(Holders(p)) = 1
                               /\ ctx[p] = "open" =>
                                      sess[p].phase = "live" \/ (clean[p] # NoCleanup /\ clean[p].page)
      BY DEF NothingLost
    <2>1. proc[p] => reg[p] \in {"serving", "stopping", "failed"}
      BY ProjectFacts DEF Agrees, ServerHeld
    <2>2. reg[p] \in {"serving", "reused"} => Cardinality(Holders(p)) = 1
      BY OneHolder
    <2>3. closing # "done" /\ ctx[p] = "open" =>
              sess[p].phase = "live" \/ (clean[p] # NoCleanup /\ clean[p].page)
      BY ProjectFacts DEF Agrees, PageHeld
    <2> QED  BY <2>1, <2>2, <2>3 DEF LaunchInv
  <1>3. SessionsBounded
    BY DEF SessionInv, LimitKept, ActiveProjects, Active, SessionsBounded
  <1>4. ShutdownComplete
    <2> SUFFICES ASSUME closing = "done", NEW p \in Projects
                 PROVE  /\ start[p].stage \notin {"launching", "unlaunching"}
                        /\ faults = 0 =>
                               ~proc[p] /\ lost[p] = 0 /\ ctx[p] = "none" /\ sess[p] = NoSession
      BY DEF ShutdownComplete
    <2>1. start[p].stage \notin {"launching", "unlaunching"}
      BY ProjectFacts DEF Agrees, Ended
    <2>2. faults = 0 => ~proc[p] /\ ctx[p] = "none" /\ sess[p] = NoSession
      BY ProjectFacts DEF Agrees, ServerHeld, Ended
    <2>3. faults = 0 => lost[p] = 0
      BY DEF LaunchInv
    <2> QED  BY <2>1, <2>2, <2>3
  <1> QED  BY <1>1, <1>2, <1>3, <1>4 DEF SessionsKept

\* Sessions, starts, cleanups, servers and pages agree with each other after every step,
\* failure, cancellation and shutdown (frontend_sessions.py): no browser and no server is
\* lost but where the broker fails to undo a launch, each in use has one holder, the limit
\* of sessions is kept, and after close() nothing is left running unless it could not be
\* closed or its launch is still being undone.
THEOREM SessionsAreKept == Spec => []SessionsKept
  <1>1. Init => SessionInv /\ LaunchInv
    BY SessionInvInit DEF Init, LaunchInv
  <1>2. SessionInv /\ LaunchInv /\ [Next]_vars => SessionInv' /\ LaunchInv'
    BY SessionInvStep, LaunchInvStep
  <1>3. SessionInv /\ LaunchInv => SessionsKept
    BY SessionInvKeeps
  <1> QED  BY <1>1, <1>2, <1>3, PTL DEF Spec

-----------------------------------------------------------------------------
(* The calls on the page of a session.  The document of the page only goes *)
(* forward, so what a call read between two equal documents is of that     *)
(* document; a page that leaves its origin is another document.            *)

Trees == [dom : Nat, layout : {0, 1}]
Tokens == [dom : Nat, scroll : {0, 1}, layout : {0, 1}]
SnapRecord ==
    [dom : Nat, scroll : {0, 1}, layout : {0, 1}, shot : Nat, tree : Trees, ax : Nat]

\* The calls, by what they have read so far.
BeforeCall == [op : {"snapshot"}, pc : {"before"}, read : 0 .. 2, attempt : {1, 2}]
ShotCall == [op : {"snapshot"}, pc : {"shot"}, read : {0}, attempt : {1, 2}, before : Tokens]
TreeCall == [op : {"snapshot"}, pc : {"tree"}, read : {0}, attempt : {1, 2}, before : Tokens, shot : Nat]
AxCall == [op : {"snapshot"}, pc : {"ax"}, read : {0}, attempt : {1, 2}, before : Tokens, shot : Nat,
           tree : Trees]
AfterCall == [op : {"snapshot"}, pc : {"after"}, read : 0 .. 2, attempt : {1, 2}, before : Tokens,
              shot : Nat, tree : Trees, ax : Nat]
LocateCall == [op : {"inspect", "source"}, pc : {"locate"}, read : 0 .. 2]
ReadCall == [op : {"inspect", "source"}, pc : {"read"}, read : 0 .. 2, node : Nat]
ActCall == [op : {"act"}, pc : {"check", "input", "find"}, read : 0 .. 2, key : ActKeys, kind : Kinds,
            done : Nat]

PageTypes ==
    /\ page \in [dom : Nat, scroll : {0, 1}, layout : {0, 1}, away : BOOLEAN]
    /\ scroll \in {0, 1} /\ layout \in {0, 1}
    /\ life \in {"open", "closing", "closed"} /\ restoring \in BOOLEAN
    /\ snap = NoSnapshot \/ snap \in SnapRecord
    /\ acts \in Seq(ActKeys) /\ sent \in [ActKeys -> Nat]

\* The snapshot is not newer than the page, and of a page on its origin.
SnapOK ==
    /\ SnapshotOneDocument
    /\ snap.dom <= page.dom /\ (snap # NoSnapshot /\ snap.dom = page.dom => ~page.away)

\* Between are the documents that a call read, in the order in which it read them.
SnapCallOK(c, dom) ==
    \/ c \in BeforeCall
    \/ c \in ShotCall /\ c.before.dom <= dom
    \/ c \in TreeCall /\ c.shot \in c.before.dom .. dom
    \/ c \in AxCall /\ {c.shot, c.tree.dom} \subseteq c.before.dom .. dom
    \/ c \in AfterCall /\ {c.shot, c.tree.dom, c.ax} \subseteq c.before.dom .. dom
LookCallOK(c, old, dom) == c \in LocateCall \/ (c \in ReadCall /\ c.node \in old .. dom)
CallOK ==
    /\ \/ call = NoCall \/ SnapCallOK(call, page.dom) \/ LookCallOK(call, snap.dom, page.dom)
       \/ call \in ActCall
    /\ call # NoCall => life # "closed"

\* An act that was sent is remembered, or forgotten, or still running; one that has
\* sent nothing yet was not sent before either, unless it was forgotten.
SentOK ==
    /\ \A k \in ActKeys :
           \/ sent[k] = 0 \/ k \in forgotten
           \/ sent[k] = 1 /\ (Remembered(k) \/ (call.op = "act" /\ call.key = k))
    /\ call.op = "act" =>
           /\ call.pc \in {"check", "find"} => call.done = 0
           /\ call.pc = "find" => ~CheckedLast(call.kind)
           /\ call.done = 0 => sent[call.key] = 0 \/ call.key \in forgotten

PageInv == PageTypes /\ SnapOK /\ CallOK /\ SentOK

\* The operations of calls, which exclude each other.
LEMMA CallSets ==
    /\ \A c, d : SnapCallOK(c, d) => c.op = "snapshot"
    /\ \A c, o, d : LookCallOK(c, o, d) => c.op \in {"inspect", "source"}
    /\ \A c \in ActCall : /\ c.op = "act" /\ c.key \in ActKeys /\ c.kind \in Kinds /\ c.done \in Nat
                          /\ c.pc \in {"check", "input", "find"}
    /\ NoCall.op = "none" /\ NoSnapshot.dom = 0
  <1>1. ASSUME NEW c, NEW d, SnapCallOK(c, d) PROVE c.op = "snapshot"
    BY <1>1 DEF SnapCallOK, BeforeCall, ShotCall, TreeCall, AxCall, AfterCall
  <1>2. ASSUME NEW c, NEW o, NEW d, LookCallOK(c, o, d) PROVE c.op \in {"inspect", "source"}
    BY <1>2 DEF LookCallOK, LocateCall, ReadCall
  <1>3. ASSUME NEW c \in ActCall
        PROVE  /\ c.op = "act" /\ c.key \in ActKeys /\ c.kind \in Kinds /\ c.done \in Nat
               /\ c.pc \in {"check", "input", "find"}
    BY DEF ActCall
  <1>4. NoCall.op = "none" /\ NoSnapshot.dom = 0
    BY DEF NoCall, NoSnapshot
  <1> QED  BY <1>1, <1>2, <1>3, <1>4

LEMMA CallFacts ==
    ASSUME PageInv
    PROVE  /\ NoCall.op = "none" /\ NoSnapshot.dom = 0
           /\ snap.dom \in Nat /\ page.dom \in Nat /\ page.scroll \in {0, 1} /\ page.layout \in {0, 1}
           /\ page.away \in BOOLEAN /\ scroll \in {0, 1} /\ layout \in {0, 1}
           /\ call.op = "snapshot" => SnapCallOK(call, page.dom)
           /\ call.op \in {"inspect", "source"} => LookCallOK(call, snap.dom, page.dom)
           /\ call.op = "act" =>
                  /\ call \in ActCall /\ call.key \in ActKeys /\ call.kind \in Kinds /\ call.done \in Nat
                  /\ call.pc \in {"check", "input", "find"}
  <1>1. /\ page.dom \in Nat /\ page.scroll \in {0, 1} /\ page.layout \in {0, 1}
        /\ page.away \in BOOLEAN /\ scroll \in {0, 1} /\ layout \in {0, 1}
    BY DEF PageInv, PageTypes
  <1>2. snap.dom \in Nat
    BY CallSets DEF PageInv, PageTypes, SnapRecord
  <1> QED  BY <1>1, <1>2, CallSets DEF PageInv, CallOK

\* Steps that send and journal nothing, and that are not of an act.
LEMMA SentStays ==
    ASSUME PageInv, UNCHANGED <<acts, sent, forgotten>>,
           \/ call' = call
           \/ call.op # "act" /\ call'.op # "act"
           \/ call.op = "act" /\ call.done = 0 /\ call'.op # "act"
    PROVE  SentOK'
  <1>1. CASE call' = call
    BY <1>1 DEF PageInv, SentOK, Remembered
  <1>2. CASE call.op # "act" /\ call'.op # "act"
    BY <1>2 DEF PageInv, SentOK, Remembered
  <1>3. CASE call.op = "act" /\ call.done = 0 /\ call'.op # "act"
    BY <1>3 DEF PageInv, SentOK, Remembered
  <1> QED  BY <1>1, <1>2, <1>3

\* The page changes.
LEMMA PageMoves ==
    ASSUME PageInv, Mutated \/ Moved \/ NavigatedAway \/ RestoreSafePage
    PROVE  PageInv'
  <1> DEFINE Pages == [dom : Nat, scroll : {0, 1}, layout : {0, 1}, away : BOOLEAN]
  <1>1. /\ UNCHANGED <<scroll, layout, life, snap, nodes, call, acts, sent, forgotten>>
        /\ restoring' \in BOOLEAN
    BY DEF Mutated, Moved, NavigatedAway, RestoreSafePage, PageInv, PageTypes
  <1>2. /\ page' \in Pages
        /\ \/ page'.dom = page.dom /\ page'.away = page.away
           \/ page'.dom = page.dom + 1
    <2>1. page \in Pages
      BY DEF PageInv, PageTypes
    <2>2. CASE page' = [page EXCEPT !.dom = @ + 1]
      BY <2>1, <2>2
    <2>3. CASE page' = [page EXCEPT !.layout = 1 - @]
      <3>1. 1 - page.layout \in {0, 1}
        BY <2>1
      <3> QED  BY <2>1, <2>3, <3>1
    <2>6. CASE page' = [page EXCEPT !.scroll = 1 - @]
      <3>1. 1 - page.scroll \in {0, 1}
        BY <2>1
      <3> QED  BY <2>1, <2>6, <3>1
    <2>4. ASSUME NEW b \in BOOLEAN, page' = [page EXCEPT !.dom = @ + 1, !.away = b]
          PROVE  page' \in Pages /\ page'.dom = page.dom + 1
      <3>1. page.dom + 1 \in Nat
        BY <2>1
      <3>2. page' = [page EXCEPT !.dom = page.dom + 1, !.away = b]
        BY <2>1, <2>4
      <3> QED  BY <2>1, <3>1, <3>2
    <2>5. CASE page' = page
      BY <2>1, <2>5
    <2> QED  BY <2>2, <2>3, <2>4, <2>5, <2>6 DEF Mutated, Moved, NavigatedAway, RestoreSafePage
  <1>3. PageTypes'
    BY <1>1, <1>2 DEF PageInv, PageTypes
  <1>4. SnapOK'
    BY <1>1, <1>2, CallFacts DEF PageInv, SnapOK, SnapshotOneDocument
  <1>5. CallOK'
    <2>1. page.dom \in Nat /\ page'.dom \in Nat /\ page.dom <= page'.dom
      BY <1>2, CallFacts
    <2>2. SnapCallOK(call, page.dom) => SnapCallOK(call, page'.dom)
      BY <2>1 DEF SnapCallOK, ShotCall, TreeCall, AxCall, AfterCall, Trees, Tokens
    <2>3. LookCallOK(call, snap.dom, page.dom) => LookCallOK(call, snap.dom, page'.dom)
      BY <2>1, CallFacts DEF LookCallOK, ReadCall
    <2> QED  BY <1>1, <2>2, <2>3 DEF PageInv, CallOK
  <1>6. SentOK'
    BY <1>1, SentStays
  <1> QED  BY <1>3, <1>4, <1>5, <1>6 DEF PageInv

\* What is left of the step of a call.
LEMMA CallStep ==
    ASSUME PageInv, UNCHANGED <<page, restoring, life, snap, nodes, acts, sent, forgotten>>,
           scroll' \in {0, 1}, layout' \in {0, 1}, life # "closed",
           \/ call' = NoCall \/ SnapCallOK(call', page.dom) \/ LookCallOK(call', snap.dom, page.dom),
           call.op # "act" \/ call.done = 0
    PROVE  PageInv'
  <1>1. call'.op # "act"
    BY CallSets
  <1>2. SentOK'
    BY <1>1, SentStays
  <1> QED  BY <1>2 DEF PageInv, PageTypes, SnapOK, SnapshotOneDocument, CallOK

\* A step that takes the snapshot away, and ends the call or leaves none.
LEMMA SnapshotGone ==
    ASSUME PageInv, Invalidate, UNCHANGED <<page, scroll, layout, restoring, life, acts, sent, forgotten>>,
           call' = NoCall, call.op # "act" \/ call.done = 0
    PROVE  PageInv'
  <1>1. SentOK'
    BY CallFacts, SentStays
  <1>2. SnapOK'
    BY CallFacts DEF SnapOK, SnapshotOneDocument, Invalidate
  <1>3. PageTypes' /\ CallOK'
    BY DEF PageInv, PageTypes, CallOK, Invalidate
  <1> QED  BY <1>1, <1>2, <1>3 DEF PageInv

\* The record is refreshed.
LEMMA RefreshSteps ==
    ASSUME PageInv, RefreshScroll \/ RefreshLayout
    PROVE  PageInv'
  <1>1. /\ UNCHANGED <<page, restoring, life, snap, nodes, acts, sent, forgotten>>
        /\ scroll' \in {0, 1} /\ layout' \in {0, 1} /\ life # "closed" /\ call # NoCall
        /\ call.pc \in Refreshing
    BY CallFacts DEF RefreshScroll, RefreshLayout, PageInv, CallOK
  <1>2. PICK r \in {1, 2} : call' = [call EXCEPT !.read = r]
    BY DEF RefreshScroll, RefreshLayout
  <1>3. CASE call \in ActCall
    <2>1. /\ call' \in ActCall /\ call'.op = call.op /\ call'.key = call.key /\ call'.done = call.done
          /\ call'.pc = call.pc /\ call'.kind = call.kind
      BY <1>2, <1>3 DEF ActCall
    <2>2. SentOK'
      BY <1>1, <1>3, <2>1 DEF PageInv, SentOK, Remembered
    <2> QED  BY <1>1, <2>1, <2>2 DEF PageInv, PageTypes, SnapOK, SnapshotOneDocument, CallOK
  <1>4. CASE SnapCallOK(call, page.dom)
    <2>1. call \in BeforeCall \/ (call \in AfterCall /\ {call.shot, call.tree.dom, call.ax} \subseteq call.before.dom .. page.dom)
      BY <1>1, <1>4 DEF SnapCallOK, Refreshing, ShotCall, TreeCall, AxCall
    <2>2. CASE call \in BeforeCall
      <3>1. call' \in BeforeCall
        BY <1>2, <2>2 DEF BeforeCall
      <3> QED  BY <1>1, <1>4, <3>1, CallSets, CallStep DEF SnapCallOK
    <2>3. CASE call \in AfterCall /\ {call.shot, call.tree.dom, call.ax} \subseteq call.before.dom .. page.dom
      <3>1. /\ call' \in AfterCall /\ call'.shot = call.shot /\ call'.tree = call.tree
            /\ call'.ax = call.ax /\ call'.before = call.before
        BY <1>2, <2>3 DEF AfterCall
      <3>2. SnapCallOK(call', page.dom)
        BY <2>3, <3>1 DEF SnapCallOK
      <3> QED  BY <1>1, <1>4, <3>2, CallSets, CallStep
    <2> QED  BY <2>1, <2>2, <2>3
  <1>5. CASE LookCallOK(call, snap.dom, page.dom)
    <2>1. LookCallOK(call', snap.dom, page.dom)
      <3>1. CASE call \in LocateCall
        <4>1. call' \in LocateCall
          BY <1>2, <3>1 DEF LocateCall
        <4> QED  BY <4>1 DEF LookCallOK
      <3>2. CASE call \in ReadCall /\ call.node \in snap.dom .. page.dom
        <4>1. call' \in ReadCall /\ call'.node = call.node
          BY <1>2, <3>2 DEF ReadCall
        <4> QED  BY <3>2, <4>1 DEF LookCallOK
      <3> QED  BY <1>5, <3>1, <3>2 DEF LookCallOK
    <2> QED  BY <1>1, <1>5, <2>1, CallSets, CallStep
  <1> QED  BY <1>1, <1>3, <1>4, <1>5 DEF PageInv, CallOK

\* The calls that only look.
LEMMA LookSteps ==
    ASSUME PageInv,
           \/ BeginSnapshot \/ Capture \/ EndSnapshot \/ GiveUpCall
           \/ (\E op \in {"inspect", "source"} : BeginLook(op))
           \/ Locate \/ FoundInFrame \/ EndInspect \/ EndSource
    PROVE  PageInv'
  <1>0. /\ NoCall.op = "none" /\ layout \in {0, 1} /\ scroll \in {0, 1}
        /\ page.dom \in Nat /\ page.layout \in {0, 1}
        /\ snap.dom \in Nat /\ snap.dom <= page.dom /\ (call # NoCall => life # "closed")
        /\ life = "open" => life # "closed"
    BY CallFacts DEF PageInv, PageTypes, SnapOK, CallOK
  <1>1. CASE BeginSnapshot
    <2>1. call' \in BeforeCall
      BY <1>1 DEF BeginSnapshot, BeforeCall
    <2> QED  BY <1>0, <1>1, <2>1, CallStep DEF BeginSnapshot, MayCall, SnapCallOK
  <1>2. CASE Capture
    <2>1. SnapCallOK(call, page.dom) /\ call # NoCall
      BY <1>0, <1>2, CallFacts DEF Capture
    <2>2. SnapCallOK(call', page.dom)
      <3>0. CASE call.pc = "before"
        <4>1. call' = [op |-> "snapshot", pc |-> "shot", read |-> 0, attempt |-> call.attempt, before |-> Token]
          BY <1>2, <3>0 DEF Capture
        <4>2. call \in BeforeCall
          BY <2>1, <3>0 DEF SnapCallOK, ShotCall, TreeCall, AxCall, AfterCall
        <4>3. Token \in Tokens /\ Token.dom = page.dom
          BY <1>0 DEF Token, Tokens
        <4>4. call' \in ShotCall /\ call'.before.dom = page.dom
          BY <4>1, <4>2, <4>3 DEF BeforeCall, ShotCall
        <4> QED  BY <1>0, <4>4 DEF SnapCallOK
      <3>1. CASE call.pc = "shot"
        <4>1. call' = [op |-> "snapshot", pc |-> "tree", read |-> 0, attempt |-> call.attempt,
                       before |-> call.before, shot |-> page.dom]
          BY <1>2, <3>1 DEF Capture
        <4>2. call \in ShotCall /\ call.before.dom <= page.dom
          BY <2>1, <3>1 DEF SnapCallOK, BeforeCall, TreeCall, AxCall, AfterCall
        <4>3. call' \in TreeCall /\ call'.before = call.before /\ call'.shot = page.dom
          BY <1>0, <4>1, <4>2 DEF ShotCall, TreeCall
        <4>4. call.before.dom \in Nat
          BY <4>2 DEF ShotCall, Tokens
        <4> QED  BY <1>0, <4>2, <4>3, <4>4 DEF SnapCallOK
      <3>2. CASE call.pc = "tree"
        <4> DEFINE t == [dom |-> page.dom, layout |-> page.layout]
        <4>1. call' = [op |-> "snapshot", pc |-> "ax", read |-> 0, attempt |-> call.attempt,
                       before |-> call.before, shot |-> call.shot, tree |-> t]
          BY <1>2, <3>2 DEF Capture
        <4>2. t \in Trees /\ t.dom = page.dom
          BY <1>0 DEF Trees
        <4>3. call \in TreeCall /\ call.shot \in call.before.dom .. page.dom
          BY <2>1, <3>2 DEF SnapCallOK, BeforeCall, ShotCall, AxCall, AfterCall
        <4>4. call' \in AxCall /\ call'.before = call.before /\ call'.shot = call.shot /\ call'.tree.dom = page.dom
          BY <4>1, <4>2, <4>3 DEF TreeCall, AxCall
        <4>5. call.before.dom \in Nat
          BY <4>3 DEF TreeCall, Tokens
        <4>6. {call'.shot, call'.tree.dom} \subseteq call'.before.dom .. page.dom
          BY <1>0, <4>3, <4>4, <4>5
        <4> QED  BY <4>4, <4>6 DEF SnapCallOK
      <3>3. CASE call.pc = "ax"
        <4>1. call' = [op |-> "snapshot", pc |-> "after", read |-> 0, attempt |-> call.attempt,
                       before |-> call.before, shot |-> call.shot, tree |-> call.tree,
                       ax |-> page.dom]
          BY <1>2, <3>3 DEF Capture
        <4>2. call \in AxCall /\ {call.shot, call.tree.dom} \subseteq call.before.dom .. page.dom
          BY <2>1, <3>3 DEF SnapCallOK, BeforeCall, ShotCall, TreeCall, AfterCall
        <4>3. /\ call' \in AfterCall /\ call'.before = call.before /\ call'.shot = call.shot
              /\ call'.tree = call.tree /\ call'.ax = page.dom
          BY <1>0, <4>1, <4>2 DEF AxCall, AfterCall
        <4>4. call.before.dom \in Nat
          BY <4>2 DEF AxCall, Tokens
        <4>5. {call'.shot, call'.tree.dom, call'.ax} \subseteq call'.before.dom .. page.dom
          BY <1>0, <4>2, <4>3, <4>4
        <4> QED  BY <4>3, <4>5 DEF SnapCallOK
      <3> QED  BY <1>2, <3>0, <3>1, <3>2, <3>3 DEF Capture
    <2> QED  BY <1>0, <1>2, <2>1, <2>2, CallStep DEF Capture
  <1>3. CASE EndSnapshot
    <2>1. SnapCallOK(call, page.dom) /\ call # NoCall /\ call.pc = "after"
      BY <1>0, <1>3, CallFacts DEF EndSnapshot
    <2>2. /\ UNCHANGED <<page, scroll, layout, restoring, life, acts, sent, forgotten>>
          /\ call.op = "snapshot"
      BY <1>0, <1>3 DEF EndSnapshot
    <2>3. CASE ~Stable(call.before, call.tree, Token) /\ call.attempt = 1
      <3>1. /\ call' = [op |-> "snapshot", pc |-> "before", read |-> 0, attempt |-> 2]
            /\ UNCHANGED <<snap, nodes>>
        BY <1>3, <2>3 DEF EndSnapshot
      <3>2. call' \in BeforeCall
        BY <3>1 DEF BeforeCall
      <3>3. SnapCallOK(call', page.dom)
        BY <3>2 DEF SnapCallOK
      <3> QED  BY <1>0, <2>1, <2>2, <3>1, <3>3, CallStep
    <2>4. CASE ~(~Stable(call.before, call.tree, Token) /\ call.attempt = 1)
      <3>1. CASE ~(Stable(call.before, call.tree, Token) /\ StillOnOrigin)
        <4>1. call' = NoCall /\ UNCHANGED <<snap, nodes>>
          BY <1>3, <2>4, <3>1 DEF EndSnapshot
        <4> QED  BY <1>0, <2>1, <2>2, <4>1, CallStep
      <3>2. CASE Stable(call.before, call.tree, Token) /\ StillOnOrigin
        <4>1. /\ call' = NoCall /\ nodes' = {call.tree.dom} /\ ~page.away
              /\ snap' = [dom |-> page.dom, scroll |-> scroll, layout |-> layout,
                          shot |-> call.shot, tree |-> call.tree, ax |-> call.ax]
          BY <1>3, <2>4, <3>2 DEF EndSnapshot, StillOnOrigin
        <4>2. call.before.dom = page.dom /\ call.tree.layout = layout
          BY <3>2 DEF Stable, Token
        <4>0. call \in AfterCall /\ {call.shot, call.tree.dom, call.ax} \subseteq call.before.dom .. page.dom
          BY <2>1 DEF SnapCallOK, BeforeCall, ShotCall, TreeCall, AxCall
        <4>3. /\ call.shot = page.dom /\ call.tree.dom = page.dom /\ call.ax = page.dom
              /\ call.tree \in Trees
          BY <1>0, <4>0, <4>2 DEF AfterCall
        <4>4. SnapOK'
          BY <1>0, <2>2, <4>1, <4>2, <4>3 DEF SnapOK, SnapshotOneDocument
        <4>5. snap' \in SnapRecord
          BY <1>0, <4>1, <4>3 DEF SnapRecord
        <4>6. PageTypes' /\ CallOK'
          BY <2>2, <4>1, <4>5 DEF PageInv, PageTypes, CallOK
        <4>7. SentOK'
          BY <1>0, <2>2, <4>1, SentStays
        <4> QED  BY <4>4, <4>6, <4>7 DEF PageInv
      <3> QED  BY <3>1, <3>2
    <2> QED  BY <2>3, <2>4
  <1>4. CASE GiveUpCall \/ FoundInFrame
    <2>1. /\ UNCHANGED <<page, restoring, life, snap, nodes, acts, sent, forgotten, scroll, layout>>
          /\ call' = NoCall /\ call.op \notin {"act", "none"}
      BY <1>4 DEF GiveUpCall, FoundInFrame
    <2> QED  BY <1>0, <2>1, CallStep
  <1>5. ASSUME NEW op \in {"inspect", "source"}, BeginLook(op) PROVE PageInv'
    <2>1. /\ UNCHANGED <<page, scroll, layout, restoring, life, acts, sent, forgotten>>
          /\ call = NoCall /\ life = "open" /\ RequireSnapshot([op |-> op, pc |-> "locate", read |-> 0])
      BY <1>5 DEF BeginLook
    <2>2. CASE Matches
      <3>1. call' = [op |-> op, pc |-> "locate", read |-> 0] /\ UNCHANGED <<snap, nodes>>
        BY <2>1, <2>2 DEF RequireSnapshot
      <3>2. LookCallOK(call', snap.dom, page.dom)
        BY <3>1 DEF LookCallOK, LocateCall
      <3> QED  BY <1>0, <2>1, <3>1, <3>2, CallStep
    <2>3. CASE ~Matches
      <3>1. Invalidate /\ call' = NoCall
        BY <2>1, <2>3 DEF RequireSnapshot
      <3> QED  BY <1>0, <2>1, <3>1, SnapshotGone
    <2> QED  BY <2>2, <2>3
  <1>6. CASE Locate
    <2>1. /\ UNCHANGED <<page, restoring, life, snap, nodes, acts, sent, forgotten, scroll, layout>>
          /\ call.op \in {"inspect", "source"} /\ life # "closed"
      BY <1>0, <1>6 DEF Locate
    <2>2. call' = NoCall \/ LookCallOK(call', snap.dom, page.dom)
      <3>1. CASE page.away
        BY <1>6, <3>1 DEF Locate
      <3>2. CASE ~page.away
        <4>1. call' = [op |-> call.op, pc |-> "read", read |-> 0, node |-> page.dom]
          BY <1>6, <3>2 DEF Locate
        <4> QED  BY <1>0, <2>1, <4>1 DEF LookCallOK, ReadCall
      <3> QED  BY <3>1, <3>2
    <2> QED  BY <1>0, <2>1, <2>2, CallStep
  <1>7. CASE EndInspect \/ EndSource
    <2>1. /\ UNCHANGED <<page, scroll, layout, restoring, life, acts, sent, forgotten>>
          /\ call' = NoCall /\ call.op \in {"inspect", "source"} /\ call.pc = "read" /\ life # "closed"
      BY <1>0, <1>7 DEF EndInspect, EndSource
    <2>2. CASE ~Matches
      <3>1. Invalidate
        BY <1>7, <2>2 DEF EndInspect, EndSource
      <3> QED  BY <2>1, <3>1, SnapshotGone
    <2>3. CASE Matches
      <3>1. snap # NoSnapshot /\ snap.dom = page.dom
        BY <2>3 DEF Matches
      <3>2. call \in ReadCall /\ call.node \in snap.dom .. page.dom
        BY <2>1, CallFacts DEF LookCallOK, LocateCall
      <3>3. call.node = snap.dom /\ nodes = {snap.dom}
        BY <1>0, <3>1, <3>2 DEF ReadCall, PageInv, SnapOK, SnapshotOneDocument
      <3>4. UNCHANGED <<snap, nodes>>
        BY <1>7, <2>3, <3>3 DEF EndInspect, EndSource
      <3> QED  BY <1>0, <2>1, <3>4, CallStep
    <2> QED  BY <2>2, <2>3
  <1> QED  BY <1>1, <1>2, <1>3, <1>4, <1>5, <1>6, <1>7

\* The journal remembers the act, and forgets only its oldest.
LEMMA JournalRemembers ==
    ASSUME acts \in Seq(ActKeys), NEW k \in ActKeys, Journal(k)
    PROVE  /\ acts' \in Seq(ActKeys) /\ Remembered(k)' /\ forgotten \subseteq forgotten'
           /\ \A j \in ActKeys : Remembered(j) => Remembered(j)' \/ j \in forgotten'
  <1>1. CASE Len(acts) < ActLimit
    <2>1. acts' = Append(acts, k) /\ forgotten' = forgotten
      BY <1>1 DEF Journal
    <2>2. /\ acts' \in Seq(ActKeys) /\ Len(acts') = Len(acts) + 1 /\ Len(acts) \in Nat /\ acts'[Len(acts) + 1] = k
          /\ \A i \in 1 .. Len(acts) : acts'[i] = acts[i]
      BY <2>1
    <2>3. Len(acts) + 1 \in 1 .. Len(acts') /\ 1 .. Len(acts) \subseteq 1 .. Len(acts')
      BY <2>2
    <2> QED  BY <2>1, <2>2, <2>3 DEF Remembered
  <1>2. CASE ~(Len(acts) < ActLimit)
    <2>1. acts' = Append(Tail(acts), k) /\ forgotten' = forgotten \cup {acts[1]}
      BY <1>2 DEF Journal
    <2>2. Len(acts) \in Nat /\ Len(acts) >= 1
      BY <1>2, PageAssumption
    <2>3. /\ Tail(acts) \in Seq(ActKeys) /\ Len(Tail(acts)) = Len(acts) - 1
          /\ \A i \in 1 .. Len(acts) - 1 : Tail(acts)[i] = acts[i + 1]
      BY <2>2
    <2>4. /\ acts' \in Seq(ActKeys) /\ Len(acts') = Len(acts) /\ acts'[Len(acts)] = k
          /\ \A i \in 1 .. Len(acts) - 1 : acts'[i] = acts[i + 1]
      BY <2>1, <2>2, <2>3
    <2>5. ASSUME NEW i \in 1 .. Len(acts), i # 1
          PROVE  i - 1 \in 1 .. Len(acts') /\ acts'[i - 1] = acts[i]
      BY <2>2, <2>4, <2>5
    <2>6. Len(acts) \in 1 .. Len(acts')
      BY <2>2, <2>4
    <2> QED  BY <2>1, <2>4, <2>5, <2>6 DEF Remembered
  <1> QED  BY <1>1, <1>2

\* An act is journaled.
LEMMA Journaled ==
    ASSUME PageInv, call.op = "act", NEW k \in ActKeys, k = call.key, Journal(k),
           UNCHANGED <<page, restoring, life, sent>>, scroll' \in {0, 1}, layout' \in {0, 1}
    PROVE  PageInv'
  <1>1. /\ acts \in Seq(ActKeys) /\ call' = NoCall /\ Invalidate
        /\ NoCall.op = "none"
    BY CallFacts DEF PageInv, PageTypes, Journal
  <1>2. /\ acts' \in Seq(ActKeys) /\ Remembered(k)' /\ forgotten \subseteq forgotten'
        /\ \A j \in ActKeys : Remembered(j) => Remembered(j)' \/ j \in forgotten'
    BY <1>1, JournalRemembers
  <1>3. SentOK'
    <2> SUFFICES ASSUME NEW j \in ActKeys
                 PROVE  sent[j] = 0 \/ j \in forgotten' \/ (sent[j] = 1 /\ Remembered(j)')
      BY <1>1 DEF SentOK
    <2>1. \/ sent[j] = 0 \/ j \in forgotten
          \/ sent[j] = 1 /\ (Remembered(j) \/ k = j)
      BY DEF PageInv, SentOK
    <2> QED  BY <1>2, <2>1
  <1>4. SnapOK'
    BY <1>1, CallFacts DEF SnapOK, SnapshotOneDocument, Invalidate
  <1>5. PageTypes' /\ CallOK'
    BY <1>1, <1>2 DEF PageInv, PageTypes, CallOK, Invalidate
  <1> QED  BY <1>3, <1>4, <1>5 DEF PageInv

LEMMA JournaledCall ==
    ASSUME PageInv, call.op = "act", Journal(call.key),
           UNCHANGED <<page, restoring, life, sent>>, scroll' \in {0, 1}, layout' \in {0, 1}
    PROVE  PageInv'
  <1>1. PICK k \in ActKeys : k = call.key
    BY CallFacts
  <1>2. Journal(k)
    BY <1>1 DEF Journal
  <1> QED  BY <1>1, <1>2, Journaled

\* The act goes on.
LEMMA ActGoesOn ==
    ASSUME PageInv, UNCHANGED <<page, restoring, life, snap, nodes, acts, forgotten>>,
           scroll' \in {0, 1}, layout' \in {0, 1}, life # "closed", call' \in ActCall, sent' \in [ActKeys -> Nat], SentOK'
    PROVE  PageInv'
  BY DEF PageInv, PageTypes, SnapOK, SnapshotOneDocument, CallOK

\* Acts.
LEMMA ActSteps ==
    ASSUME PageInv,
           \/ (\E k \in ActKeys, kind \in Kinds : BeginAct(k, kind))
           \/ CheckAct \/ FileInput \/ Covered \/ FillRefused \/ SelectRefused
           \/ Input \/ InputFound \/ FailAct \/ EndAct
    PROVE  PageInv'
  <1>0. /\ NoCall.op = "none" /\ scroll \in {0, 1} /\ layout \in {0, 1}
        /\ (call # NoCall => life # "closed") /\ (life = "open" => life # "closed")
        /\ sent \in [ActKeys -> Nat]
        /\ call.op = "act" => /\ call \in ActCall /\ call.key \in ActKeys /\ call.done \in Nat
                              /\ call # NoCall
                              /\ call.pc \in {"check", "find"} => call.done = 0
                              /\ call.done = 0 => sent[call.key] = 0 \/ call.key \in forgotten
    BY CallFacts DEF PageInv, PageTypes, CallOK, SentOK
  <1>1. ASSUME NEW k \in ActKeys, NEW kind \in Kinds, BeginAct(k, kind) PROVE PageInv'
    <2> DEFINE c == [op |-> "act", pc |-> "check", read |-> 0, key |-> k, kind |-> kind, done |-> 0]
    <2>1. /\ UNCHANGED <<page, scroll, layout, restoring, life, acts, sent, forgotten>> /\ ~Remembered(k)
          /\ call = NoCall /\ life = "open" /\ RequireSnapshot(c)
      BY <1>1 DEF BeginAct
    <2>2. CASE Matches
      <3>1. call' = c /\ UNCHANGED <<snap, nodes>>
        BY <2>1, <2>2 DEF RequireSnapshot
      <3>2. c \in ActCall /\ c.op = "act" /\ c.key = k /\ c.done = 0 /\ c.pc = "check"
        BY DEF ActCall
      <3>3. /\ \A j \in ActKeys : sent[j] = 0 \/ j \in forgotten \/ (sent[j] = 1 /\ Remembered(j))
        BY <1>0, <2>1 DEF PageInv, SentOK
      <3> HIDE DEF c
      <3>4. SentOK'
        BY <2>1, <3>1, <3>2, <3>3 DEF SentOK, Remembered
      <3> QED  BY <1>0, <2>1, <3>1, <3>2, <3>4, ActGoesOn
    <2>3. CASE ~Matches
      <3>1. Invalidate /\ call' = NoCall
        BY <2>1, <2>3 DEF RequireSnapshot
      <3> QED  BY <1>0, <2>1, <3>1, SnapshotGone
    <2> QED  BY <2>2, <2>3
  <1>2. CASE CheckAct
    <2>1. /\ UNCHANGED <<page, restoring, life, snap, nodes, acts, sent, forgotten, scroll, layout>>
          /\ call.op = "act" /\ call.done = 0
      BY <1>0, <1>2 DEF CheckAct
    <2>2. CASE call' = NoCall
      BY <1>0, <2>1, <2>2, CallStep
    <2>3. CASE call' = [call EXCEPT !.pc = "input", !.read = 0]
      <3>1. call' \in ActCall /\ call'.op = "act" /\ call'.key = call.key /\ call'.done = 0
            /\ call'.pc = "input"
        <4>1. call' = [op |-> call.op, pc |-> "input", read |-> 0, key |-> call.key, kind |-> call.kind,
                       done |-> call.done]
          BY <1>0, <2>1, <2>3 DEF ActCall
        <4>2. call.kind \in Kinds /\ call.key \in ActKeys /\ 0 \in 0 .. 2
          BY <1>0, <2>1, CallFacts
        <4> QED  BY <2>1, <4>1, <4>2 DEF ActCall
      <3>2. SentOK'
        BY <2>1, <3>1 DEF PageInv, SentOK, Remembered
      <3> QED  BY <1>0, <2>1, <3>1, <3>2, ActGoesOn
    <2> QED  BY <1>2, <2>2, <2>3 DEF CheckAct
  <1>3. CASE FileInput \/ FillRefused \/ SelectRefused
    <2>1. /\ UNCHANGED <<page, restoring, life, snap, nodes, acts, sent, forgotten, scroll, layout>>
          /\ call.op = "act" /\ call.done = 0 /\ call' = NoCall
      BY <1>0, <1>3 DEF FileInput, FillRefused, SelectRefused
    <2> QED  BY <1>0, <2>1, CallStep
  <1>4. CASE Covered \/ FailAct \/ EndAct
    <2>1. /\ UNCHANGED <<page, scroll, layout, restoring, life, sent>> /\ call.op = "act"
          /\ \/ /\ call.done = 0 /\ call' = NoCall /\ UNCHANGED <<snap, nodes, acts, forgotten>>
             \/ Journal(call.key)
      BY <1>0, <1>4 DEF Covered, FailAct, EndAct
    <2>2. CASE Journal(call.key)
      BY <1>0, <2>1, <2>2, JournaledCall
    <2>3. CASE ~Journal(call.key)
      BY <1>0, <2>1, <2>3, CallStep
    <2> QED  BY <2>2, <2>3
  <1>5. ASSUME Send, call.op = "act", UNCHANGED <<page, scroll, layout, restoring, life>> PROVE PageInv'
    <2>1. /\ call' = [call EXCEPT !.pc = "input", !.read = 0, !.done = @ + 1]
          /\ UNCHANGED <<snap, nodes, acts, forgotten>>
          /\ sent' = IF call.done = 0 THEN [sent EXCEPT ![call.key] = @ + 1] ELSE sent
      BY <1>5 DEF Send
    <2>2. /\ call' \in ActCall /\ call'.op = "act" /\ call'.key = call.key
          /\ call'.done = call.done + 1 /\ call'.pc = "input"
      <3>1. call' = [op |-> call.op, pc |-> "input", read |-> 0, key |-> call.key, kind |-> call.kind,
                     done |-> call.done + 1]
        BY <1>0, <1>5, <2>1 DEF ActCall
      <3>2. call.kind \in Kinds /\ call.key \in ActKeys /\ 0 \in 0 .. 2 /\ call.done + 1 \in Nat
        BY <1>0, <1>5, CallFacts
      <3> QED  BY <1>5, <3>1, <3>2 DEF ActCall
    <2>3. /\ sent' \in [ActKeys -> Nat]
          /\ \A k \in ActKeys : k # call.key => sent'[k] = sent[k]
          /\ sent'[call.key] = IF call.done = 0 THEN sent[call.key] + 1 ELSE sent[call.key]
      BY <1>0, <1>5, <2>1
    <2>4. SentOK'
      <3>1. ASSUME NEW k \in ActKeys
            PROVE  \/ sent'[k] = 0 \/ k \in forgotten
                   \/ sent'[k] = 1 /\ (Remembered(k) \/ call.key = k)
        <4>1. \/ sent[k] = 0 \/ k \in forgotten
              \/ sent[k] = 1 /\ (Remembered(k) \/ call.key = k)
          BY DEF PageInv, SentOK
        <4>2. CASE k # call.key
          BY <2>3, <4>1, <4>2
        <4>3. CASE k = call.key /\ call.done = 0
          BY <1>0, <1>5, <2>3, <4>3
        <4>4. CASE k = call.key /\ call.done # 0
          BY <2>3, <4>1, <4>4
        <4> QED  BY <4>2, <4>3, <4>4
      <3>2. call'.done # 0
        BY <1>0, <1>5, <2>2
      <3> QED  BY <2>1, <2>2, <3>1, <3>2 DEF SentOK, Remembered
    <2> QED  BY <1>0, <1>5, <2>1, <2>2, <2>3, <2>4, ActGoesOn
  <1>6. CASE Input
    <2>1. /\ UNCHANGED <<page, scroll, layout, restoring, life>> /\ call.op = "act"
          /\ call.pc = "input" /\ call.done < Inputs(call.kind)
      BY <1>6 DEF Input
    <2>2. CASE Matches /\ CheckedLast(call.kind)
      BY <1>5, <1>6, <2>1, <2>2 DEF Input
    <2>3. CASE Matches /\ ~CheckedLast(call.kind)
      <3>1. call' = [call EXCEPT !.pc = "find"] /\ UNCHANGED <<sent, snap, nodes, acts, forgotten>>
        BY <1>6, <2>3 DEF Input
      <3>2. call.done = 0
        BY <1>0, <2>1, <2>3 DEF CheckedLast, Inputs
      <3>3. /\ call' \in ActCall /\ call'.op = "act" /\ call'.key = call.key
            /\ call'.done = 0 /\ call'.pc = "find" /\ call'.kind = call.kind
        BY <1>0, <2>1, <3>1, <3>2 DEF ActCall
      <3>4. SentOK'
        BY <2>1, <2>3, <3>1, <3>2, <3>3 DEF PageInv, SentOK, Remembered
      <3> QED  BY <1>0, <2>1, <3>1, <3>3, <3>4, ActGoesOn
    <2>4. CASE ~Matches
      <3>1. /\ UNCHANGED sent
            /\ \/ /\ call.done = 0 /\ call' = NoCall /\ UNCHANGED <<snap, nodes, acts, forgotten>>
               \/ Journal(call.key)
        BY <1>6, <2>4 DEF Input
      <3>2. CASE Journal(call.key)
        BY <1>0, <2>1, <3>1, <3>2, JournaledCall
      <3>3. CASE ~Journal(call.key)
        BY <1>0, <2>1, <3>1, <3>3, CallStep
      <3> QED  BY <3>2, <3>3
    <2> QED  BY <2>2, <2>3, <2>4
  <1>7. CASE InputFound
    BY <1>5, <1>7 DEF InputFound
  <1> QED  BY <1>1, <1>2, <1>3, <1>4, <1>6, <1>7

LEMMA PageInvInit ==
    ASSUME PageInit
    PROVE  PageInv
  <1>1. PageTypes
    <2>1. /\ page \in [dom : Nat, scroll : {0, 1}, layout : {0, 1}, away : BOOLEAN]
          /\ sent \in [ActKeys -> Nat]
      BY DEF PageInit
    <2>2. acts \in Seq(ActKeys)
      BY DEF PageInit
    <2> QED  BY <2>1, <2>2 DEF PageInit, PageTypes
  <1>2. SnapOK /\ CallOK
    BY DEF PageInit, SnapOK, SnapshotOneDocument, CallOK, NoSnapshot
  <1>3. SentOK
    BY DEF PageInit, SentOK, NoCall
  <1> QED  BY <1>1, <1>2, <1>3 DEF PageInv

LEMMA PageInvStep ==
    ASSUME PageInv, [PageNext]_pageVars
    PROVE  PageInv'
  <1>1. CASE UNCHANGED pageVars
    BY <1>1 DEF pageVars, PageInv, PageTypes, SnapOK, SnapshotOneDocument, CallOK, SentOK, Remembered
  <1>2. CASE StopSession \/ FinishClose
    <2>1. /\ UNCHANGED <<page, scroll, layout, restoring, snap, nodes, call, acts, sent, forgotten>>
          /\ life' \in {"closing", "closed"} /\ (life' = "closed" => call = NoCall)
      BY <1>2 DEF StopSession, FinishClose
    <2> QED  BY <2>1 DEF PageInv, PageTypes, SnapOK, SnapshotOneDocument, CallOK, SentOK, Remembered
  <1> QED  BY <1>1, <1>2, PageMoves, RefreshSteps, LookSteps, ActSteps DEF PageNext

\* What is read from a frontend page and done to it (frontend_playwright.py): a snapshot is
\* of one document, although its parts were read at different times; a snapshot that calls
\* accept is of a page on its origin; an act is sent once per key that the journal remembers.
THEOREM PagesAreSafe == PageSpec => []PageSafe
  <1>1. PageInit => PageInv
    BY PageInvInit
  <1>2. PageInv /\ [PageNext]_pageVars => PageInv'
    BY PageInvStep
  <1>3. PageInv => PageSafe
    <2> SUFFICES ASSUME PageInv PROVE PageSafe
      OBVIOUS
    <2>1. UsableOnOrigin
      BY DEF UsableOnOrigin, Matches, PageInv, SnapOK
    <2>2. SentOncePerKey
      BY DEF SentOncePerKey, PageInv, SentOK, PageTypes
    <2> QED  BY <2>1, <2>2 DEF PageSafe, PageInv, SnapOK
  <1> QED  BY <1>1, <1>2, <1>3, PTL DEF PageSpec

\* No input is sent to a page that is closed, nor, but for scroll and select, after a
\* navigation or mutation since the snapshot was reported or with another scroll
\* or layout than the snapshot's as read after the input before it
\* (frontend_playwright.py, act), whatever the page does between the steps of the act.
THEOREM InputsAreInTime == PageSpec => InputsInTime
  <1> DEFINE A == call.op = "act" /\ call'.op = "act" /\ call'.done # call.done =>
                      /\ life # "closed"
                      /\ CheckedLast(call.kind) => call.read = 2 /\ Matches
  <1>1. PageInit => PageInv
    BY PageInvInit
  <1>2. PageInv /\ [PageNext]_pageVars => PageInv'
    BY PageInvStep
  <1>3. PageInv /\ [PageNext]_pageVars => [A]_pageVars
    <2> SUFFICES ASSUME PageInv, PageNext, call.op = "act", call'.op = "act", call'.done # call.done
                 PROVE  /\ life # "closed"
                        /\ CheckedLast(call.kind) => call.read = 2 /\ Matches
      BY DEF pageVars
    <2>1. call # NoCall /\ life # "closed" /\ call \in ActCall
      BY CallFacts DEF PageInv, CallOK
    <2>2. call' # call /\ call' # NoCall
      BY CallFacts
    <2>3. ~(RefreshScroll \/ RefreshLayout \/ CheckAct)
      <3>1. \A r \in {0, 1, 2} : /\ [call EXCEPT !.read = r].done = call.done
                                /\ [call EXCEPT !.pc = "input", !.read = r].done = call.done
        BY <2>1 DEF ActCall
      <3> QED  BY <2>2, <3>1 DEF RefreshScroll, RefreshLayout, CheckAct
    <2>4. Input \/ InputFound
      BY <2>1, <2>2, <2>3 DEF PageNext, Mutated, Moved, NavigatedAway, RestoreSafePage, BeginSnapshot, Capture,
          EndSnapshot, GiveUpCall, BeginLook, Locate, FoundInFrame, EndInspect, EndSource, BeginAct,
          FileInput, Covered, FillRefused, SelectRefused, FailAct, EndAct, StopSession,
          FinishClose, MayCall, Journal
    <2>5. CASE Input
      <3>1. Matches /\ CheckedLast(call.kind) => call.read = 2
        BY <2>5 DEF Input
      <3>2. CheckedLast(call.kind) => Matches
        BY <2>2, <2>5 DEF Input, Journal
      <3> QED  BY <2>1, <3>1, <3>2
    <2>6. CASE InputFound
      <3>1. ~CheckedLast(call.kind)
        BY <2>6 DEF InputFound, PageInv, SentOK
      <3> QED  BY <2>1, <3>1
    <2> QED  BY <2>4, <2>5, <2>6
  <1> QED  BY <1>1, <1>2, <1>3, PTL DEF PageSpec, InputsInTime
=============================================================================
