--------------------------- MODULE LocalWorkProofs ---------------------------
(***************************************************************************)
(* Theorems about what an operation does on the user's machine: TrayQueue  *)
(* for any number of operations, Patching for any set of patches of a      *)
(* root, any paths and any edits, PatchText for two hunks in any text.     *)
(***************************************************************************)
EXTENDS MCLocalWork, FiniteSetTheorems, WellFoundedInduction, TLAPS

-----------------------------------------------------------------------------
(* The tray.                                                               *)

\* The life of an operation: what a timeout says about the deadline and the
\* future.  TypeOK needs it, because Outcome is defined only for these cases.
Life(o) ==
    /\ pc[o] = "new" => future[o] = "none" /\ o \notin expired /\ result[o] = "none"
    /\ pc[o] = "waiting" =>
           future[o] # "none" /\ (future[o] = "cancelled" => o \in expired)
    /\ o \in expired => o \in late /\ future[o] # "open"

\* The way to the tray: nothing passes without a mark, a mark is made once, and
\* a success can only be reported after the act.
Way(o) ==
    /\ o \notin claimed => tray[o] = "none" /\ acts[o] = 0
    /\ claim = [step |-> "mark", op |-> o] => o \notin claimed
    /\ claim = [step |-> "check", op |-> o] =>
           o \in claimed /\ tray[o] = "none" /\ acts[o] = 0
    /\ tray[o] = "received" => acts[o] = 0
    /\ tray[o] = "done" => acts[o] = 1
    /\ acts[o] \in {0, 1}
    /\ handed[o] = "done" \/ future[o] = "done" \/ result[o] = "opened" => acts[o] = 1
    /\ result[o] = "not_accepted" => o \in late /\ tray[o] = "none" /\ acts[o] = 0

TrayInv == TypeOK /\ \A o \in Ops : Life(o) /\ Way(o)

\* A step of one operation leaves the others alone.
LEMMA OthersStay ==
    ASSUME TrayInv, NEW o \in Ops, OpNext(o), NEW s \in Ops, s # o
    PROVE  Life(s)' /\ Way(s)'
  <1> USE DEF TrayInv, TypeOK, NoClaim
  <1>1. /\ pc'[s] = pc[s] /\ future'[s] = future[s] /\ result'[s] = result[s]
        /\ tray'[s] = tray[s] /\ acts'[s] = acts[s] /\ handed'[s] = handed[s]
    BY DEF OpNext, Enqueue, Fire, Abandon, Resume, Leave, Resolve, Look, Mark, Check,
           TrayActs, Report, Deadline
  <1>2. /\ s \in expired' <=> s \in expired
        /\ s \in claimed' <=> s \in claimed
        /\ s \in late' <=> s \in late
    BY DEF OpNext, Enqueue, Fire, Abandon, Resume, Leave, Resolve, Look, Mark, Check,
           TrayActs, Report, Deadline
  <1>3. claim' = claim \/ claim' = NoClaim \/ \E t \in {"mark", "check"} :
            claim' = [step |-> t, op |-> o]
    BY DEF OpNext, Enqueue, Fire, Abandon, Resume, Leave, Resolve, Look, Mark, Check,
           TrayActs, Report, Deadline
  <1>4. Life(s) /\ Way(s)
    OBVIOUS
  <1>5. Life(s)'
    BY <1>1, <1>2, <1>4 DEF Life
  <1>6. Way(s)'
    BY <1>1, <1>2, <1>3, <1>4 DEF Way
  <1> QED BY <1>5, <1>6

\* A step of the operation on the loop keeps its own invariant.
LEMMA LoopSteps ==
    ASSUME TrayInv, NEW o \in Ops,
           \/ Enqueue(o) \/ Fire(o) \/ Abandon(o) \/ Resume(o) \/ Leave(o) \/ Resolve(o)
    PROVE  TypeOK' /\ Life(o)' /\ Way(o)'
  <1> USE DEF TrayInv, TypeOK, NoClaim, Life, Way, Stages, Futures, Results
  <1>1. CASE Enqueue(o)
    BY <1>1 DEF Enqueue
  <1>2. CASE Fire(o)
    BY <1>2 DEF Fire
  <1>3. CASE Abandon(o)
    BY <1>3 DEF Abandon
  <1>4. CASE Resume(o)
    <2>1. CASE o \in expired
      <3>1. result' = [result EXCEPT ![o] = IF o \in claimed THEN "outcome_unknown"
                                            ELSE "not_accepted"]
        BY <1>4, <2>1 DEF Resume, Outcome
      <3> QED BY <1>4, <2>1, <3>1 DEF Resume
    <2>2. CASE o \notin expired
      <3>1. future[o] \in {"done", "failed", "rejected"}
        BY <1>4, <2>2 DEF Resume
      <3>2. \/ Outcome(o) = "opened" /\ future[o] = "done"
            \/ Outcome(o) \in {"could_not_open", "expired"}
        BY <2>2, <3>1 DEF Outcome
      <3> QED BY <1>4, <2>2, <3>2 DEF Resume
    <2> QED BY <2>1, <2>2
  <1>5. CASE Leave(o)
    BY <1>5 DEF Leave
  <1>6. CASE Resolve(o)
    BY <1>6 DEF Resolve
  <1> QED BY <1>1, <1>2, <1>3, <1>4, <1>5, <1>6

\* So does a step of the IPC thread, of the tray or of the clock.
LEMMA TraySteps ==
    ASSUME TrayInv, NEW o \in Ops,
           \/ Look(o) \/ Mark(o) \/ Check(o) \/ TrayActs(o) \/ Report(o) \/ Deadline(o)
    PROVE  TypeOK' /\ Life(o)' /\ Way(o)'
  <1> USE DEF TrayInv, TypeOK, NoClaim, Life, Way, Stages, Futures, Results
  <1>1. CASE Look(o)
    BY <1>1 DEF Look, Claimable
  <1>2. CASE Mark(o)
    BY <1>2 DEF Mark
  <1>3. CASE Check(o)
    BY <1>3 DEF Check, Current
  <1>4. CASE TrayActs(o)
    BY <1>4 DEF TrayActs
  <1>5. CASE Report(o)
    BY <1>5 DEF Report
  <1>6. CASE Deadline(o)
    BY <1>6 DEF Deadline
  <1> QED BY <1>1, <1>2, <1>3, <1>4, <1>5, <1>6

\* The invariant holds.
LEMMA TrayInvHolds == Spec => []TrayInv
  <1>1. Init => TrayInv
    BY DEF Init, TrayInv, TypeOK, Life, Way, NoClaim, Stages, Futures, Results
  <1>2. TrayInv /\ [Next]_vars => TrayInv'
    <2> SUFFICES ASSUME TrayInv, [Next]_vars PROVE TrayInv'
      OBVIOUS
    <2>1. ASSUME NEW o \in Ops, OpNext(o) PROVE TrayInv'
      <3>1. TypeOK' /\ Life(o)' /\ Way(o)'
        BY <2>1, LoopSteps, TraySteps DEF OpNext
      <3> QED BY <2>1, <3>1, OthersStay DEF TrayInv
    <2>2. CASE Invalidate
      BY <2>2 DEF Invalidate, TrayInv, TypeOK, Life, Way
    <2>3. CASE UNCHANGED vars
      BY <2>3 DEF vars, TrayInv, TypeOK, Life, Way
    <2> QED BY <2>1, <2>2, <2>3 DEF Next
  <1> QED BY <1>1, <1>2, PTL DEF Spec

\* Every reachable state is typed.
THEOREM TrayTypes == Spec => []TypeOK
  <1>1. TrayInv => TypeOK
    BY DEF TrayInv
  <1> QED BY <1>1, TrayInvHolds, PTL

\* The tray acts at most once on an operation.
THEOREM TrayActsOnce == Spec => []ActsOnce
  <1>1. ASSUME TrayInv, NEW o \in Ops PROVE acts[o] <= 1
    <2>1. acts[o] = 0 \/ acts[o] = 1
      BY <1>1 DEF TrayInv, Way
    <2> QED BY <2>1
  <1>2. TrayInv => ActsOnce
    BY <1>1 DEF ActsOnce
  <1> QED BY <1>2, TrayInvHolds, PTL

\* A report that the tray did not accept an operation is never wrong, however
\* the claim and the timeout meet.
THEOREM NotAcceptedIsTrue == Spec => []NotAcceptedMeansNever
  <1>1. TrayInv => NotAcceptedMeansNever
    BY DEF TrayInv, Way, NotAcceptedMeansNever
  <1> QED BY <1>1, TrayInvHolds, PTL

\* A report that a browser was opened is never wrong.
THEOREM OpenedIsTrue == Spec => []OpenedMeansActed
  <1>1. TrayInv => OpenedMeansActed
    BY DEF TrayInv, Way, OpenedMeansActed
  <1> QED BY <1>1, TrayInvHolds, PTL

\* What an operation reports about the tray is true: the three facts together.
THEOREM TrayIsTruthful == Spec => []TrayTruthful
  <1>1. ActsOnce /\ NotAcceptedMeansNever /\ OpenedMeansActed => TrayTruthful
    BY DEF TrayTruthful
  <1> QED BY <1>1, TrayActsOnce, NotAcceptedIsTrue, OpenedIsTrue, PTL

-----------------------------------------------------------------------------
(* Numbers.                                                                *)

\* A set of numbers that is not empty has a least one.
LEMMA LeastNumber ==
    ASSUME NEW S, S \subseteq Nat, S # {}
    PROVE  \E n \in S : \A m \in S : n <= m
  <1> DEFINE R == {ss \in Nat \X Nat : ss[1] < ss[2]}
  <1>0. IsWellFoundedOn(R, Nat)
    BY NatLessThanWellFounded, Zenon DEF OpToRel
  <1>1. \E x \in S : \A y \in S : ~ (<<y, x>> \in R)
    <2> HIDE DEF R
    <2> QED BY <1>0, WFMin
  <1>2. \A x, y \in Nat : <<y, x>> \in R <=> y < x
    OBVIOUS
  <1> HIDE DEF R
  <1>3. PICK x \in S : \A y \in S : ~ (<<y, x>> \in R)
    BY <1>1
  <1>4. \A y \in S : ~ (y < x) /\ x \in Nat /\ y \in Nat
    BY <1>2, <1>3
  <1>5. \A y \in S : x <= y
    BY <1>4
  <1> QED  BY <1>3, <1>5

\* A finite set of numbers that has a member has a greatest one.
LEMMA GreatestNumber ==
    ASSUME NEW S \in SUBSET Nat, IsFiniteSet(S), S # {}
    PROVE  \E x \in S : \A y \in S : y <= x
  <1> DEFINE Lacks(X) == X # {} /\ ~ \E x \in X : \A y \in X : y <= x
             Sizes == {n \in Nat : \E X \in SUBSET Nat :
                           IsFiniteSet(X) /\ Cardinality(X) = n /\ Lacks(X)}
  <1>1. SUFFICES ASSUME Lacks(S) PROVE FALSE
    OBVIOUS
  <1>2. Cardinality(S) \in Sizes
    BY <1>1, FS_CardinalityType
  <1>3. PICK n \in Sizes : \A m \in Sizes : n <= m
    BY <1>2, LeastNumber
  <1>4. PICK X \in SUBSET Nat : IsFiniteSet(X) /\ Cardinality(X) = n /\ Lacks(X)
    BY <1>3
  <1>5. PICK x \in X : TRUE
    BY <1>4
  <1>6. /\ IsFiniteSet(X \ {x}) /\ Cardinality(X \ {x}) = n - 1
        /\ Cardinality(X \ {x}) \in Nat /\ X \ {x} \in SUBSET Nat
    BY <1>4, <1>5, FS_RemoveElement, FS_CardinalityType
  <1>7. ~Lacks(X \ {x})
    <2>1. n - 1 \notin Sizes
      BY <1>3
    <2> QED  BY <1>6, <2>1
  <1>8. CASE X \ {x} = {}
    <2>1. \A y \in X : y = x
      BY <1>8
    <2>2. \A y \in X : y <= x
      BY <2>1, <1>5
    <2> QED  BY <1>4, <1>5, <2>2
  <1>9. CASE X \ {x} # {}
    <2>1. PICK g \in X \ {x} : \A y \in X \ {x} : y <= g
      BY <1>7, <1>9
    <2>2. \A y \in X : y <= (IF g <= x THEN x ELSE g)
      BY <1>4, <1>5, <2>1
    <2> QED  BY <1>4, <1>5, <2>1, <2>2
  <1> QED  BY <1>8, <1>9

-----------------------------------------------------------------------------
(* Patches: the inductive invariant.                                       *)

\* The steps of a request that holds the root's gate.
Holding == {"preflight", "verify", "backup", "prepared", "mutate", "record", "discard",
            "restore", "clean", "forget"}

\* The gate belongs to the request that is inside; while the daemon starts there is
\* none, and one journal at most is being rolled back.
GateInv ==
    /\ \A k \in Keys :
           owner = k <=> progress[k] \in Holding \/ (progress[k] = "recover" /\ daemon = "up")
    /\ daemon # "up" => /\ owner = NoKey /\ \A k \in Keys : progress[k] \in {"idle", "recover"}
                        /\ \A j, k \in Keys : progress[j] = "recover" /\ progress[k] = "recover" => j = k
    /\ daemon = "down" => \A k \in Keys : progress[k] = "idle"

RowStates == {"none", "running", "succeeded"}
ManifestStates == {"none", "prepared", "committing", "committed", "rolled_back"}
Failures == {"conflict", "stopped", "rolled_back", "preview"}

\* What the row r and the journal m of a key say about w, the paths it has written.
JournalSays(k, r, m, w) ==
    /\ w \subseteq All(k)
    /\ r = "none" => m = "none"
    /\ r = "succeeded" => m \in {"none", "committed"}
    /\ m = "none" => w = IF r = "succeeded" THEN All(k) ELSE {}
    /\ m = "committed" => w = All(k)
    /\ m \in {"prepared", "rolled_back"} => w = {}

\* What a request at step g knows of the row, the journal and the paths written.
StepKnows(k, g, r, m, t, u, b, w) ==
    /\ g \in {"gate", "preflight"} => r = "none"
    /\ g \in {"verify", "backup", "forget"} => r = "running" /\ m = "none"
    /\ g = "prepared" => r = "running" /\ m = "prepared"
    /\ g = "mutate" => /\ r = "running" /\ m = "committing"
                       /\ t \subseteq All(k) /\ w = All(k) \ t /\ (u = FALSE => w = {})
    /\ g = "record" => r = "running" /\ m = "committed"
    /\ g = "discard" => r = "succeeded" /\ m = "committed"
    /\ g = "restore" => r = "running" /\ m = "committing"
    /\ g = "recover" => r = "running" /\ m \in {"prepared", "committing"}
    /\ g \in {"restore", "recover"} => w \subseteq t \cup b
    /\ g = "clean" => r = "running" /\ m = "rolled_back"
    /\ u = TRUE => g \in {"mutate", "record", "discard", "restore", "clean", "forget"}

\* What a request was told stays true until the next one with its key.
AnswerHolds(g, r, a) ==
    /\ a = "applied" => r = "succeeded" /\ g = "idle"
    /\ a \in Failures => r = "none" /\ g = "idle"

Agrees(k, g, r, m, t, u, b, a, w) ==
    JournalSays(k, r, m, w) /\ StepKnows(k, g, r, m, t, u, b, w) /\ AnswerHolds(g, r, a)

KeyInv(k) ==
    Agrees(k, progress[k], row[k], manifest[k], todo[k], mutated[k], bad[k], answer[k], applied[k])

PatchInv == PatchTypeOK /\ GateInv /\ \A k \in Keys : KeyInv(k)

\* The paths of a patch are paths of the root.
LEMMA AllPaths == \A k \in Keys : All(k) \subseteq Paths
  BY PatchAssumption DEF All, Admissible

-----------------------------------------------------------------------------
\* A step of the key k leaves the other keys alone and gives k new values.
KeyStep(k, g, r, m, t, u, b, a, w) ==
    /\ progress' = [progress EXCEPT ![k] = g] /\ row' = [row EXCEPT ![k] = r]
    /\ manifest' = [manifest EXCEPT ![k] = m] /\ todo' = [todo EXCEPT ![k] = t]
    /\ mutated' = [mutated EXCEPT ![k] = u] /\ bad' = [bad EXCEPT ![k] = b]
    /\ answer' = [answer EXCEPT ![k] = a] /\ applied' = [applied EXCEPT ![k] = w]

\* What becomes of the gate when k goes to the step g: k is inside, leaves or stays
\* out of it; or the daemon starts, and rolls k back or fails to.
Enters(k, g) ==
    /\ g \in Holding \cup {"recover"} /\ daemon = "up" /\ owner \in {k, NoKey}
    /\ owner' = k /\ daemon' = daemon
Leaves(k, g) ==
    /\ g \notin Holding \cup {"recover"} /\ (daemon = "up" \/ g = "idle")
    /\ owner' = (IF owner = k THEN NoKey ELSE owner) /\ daemon' = daemon
Starts(k, g) ==
    /\ daemon = "recovering" /\ \A j \in Keys : j # k => progress[j] = "idle"
    /\ owner' = owner
    /\ (g = "recover" /\ daemon' = daemon) \/ (g = "idle" /\ daemon' = "down")
GateMoves(k, g) == Enters(k, g) \/ Leaves(k, g) \/ Starts(k, g)

OutsideTyped ==
    /\ DOMAIN files' = Paths /\ swapped' \subseteq Paths
    /\ checked' \in Keys \cup {NoKey} /\ raced' \in BOOLEAN
    /\ edits' \in Nat /\ crashes' \in Nat /\ requests' \in [Keys -> Nat]

\* Such a step keeps the invariant when the new values agree.
LEMMA KeyStepKept ==
    ASSUME PatchInv, OutsideTyped, NEW k \in Keys,
           NEW g \in Steps, NEW r \in RowStates, NEW m \in ManifestStates, NEW t \in SUBSET Paths,
           NEW u \in BOOLEAN, NEW b \in SUBSET Paths, NEW a \in Answers, NEW w \in SUBSET Paths,
           KeyStep(k, g, r, m, t, u, b, a, w), GateMoves(k, g),
           Agrees(k, g, r, m, t, u, b, a, w)
    PROVE  PatchInv'
  <1>1. PatchTypeOK'
    <2>1. /\ row' \in [Keys -> RowStates] /\ manifest' \in [Keys -> ManifestStates]
          /\ progress' \in [Keys -> Steps] /\ todo' \in [Keys -> SUBSET Paths]
          /\ mutated' \in [Keys -> BOOLEAN] /\ bad' \in [Keys -> SUBSET Paths]
          /\ answer' \in [Keys -> Answers] /\ applied' \in [Keys -> SUBSET Paths]
      BY DEF KeyStep, PatchInv, PatchTypeOK, RowStates, ManifestStates
    <2>2. owner' \in Keys \cup {NoKey} /\ daemon' \in {"down", "recovering", "up"}
      BY DEF GateMoves, Enters, Leaves, Starts, PatchInv, PatchTypeOK
    <2> QED  BY <2>1, <2>2 DEF PatchTypeOK, OutsideTyped, RowStates, ManifestStates
  <1>2. \A j \in Keys : IF j = k
          THEN /\ progress'[j] = g /\ row'[j] = r /\ manifest'[j] = m /\ todo'[j] = t
               /\ mutated'[j] = u /\ bad'[j] = b /\ answer'[j] = a /\ applied'[j] = w
          ELSE /\ progress'[j] = progress[j] /\ row'[j] = row[j] /\ manifest'[j] = manifest[j]
               /\ todo'[j] = todo[j] /\ mutated'[j] = mutated[j] /\ bad'[j] = bad[j]
               /\ answer'[j] = answer[j] /\ applied'[j] = applied[j]
    BY DEF KeyStep, PatchInv, PatchTypeOK
  <1>3. ASSUME NEW j \in Keys PROVE KeyInv(j)'
    <2>1. CASE j = k
      BY <1>2, <2>1 DEF KeyInv, Agrees, JournalSays, StepKnows, AnswerHolds, All
    <2>2. CASE j # k
      BY <1>2, <2>2 DEF PatchInv, KeyInv, Agrees, JournalSays, StepKnows, AnswerHolds, All
    <2> QED  BY <2>1, <2>2
  <1>4. GateInv'
    <2>0. NoKey \notin Keys
      BY PatchAssumption
    <2>1. \A j \in Keys : progress'[j] = IF j = k THEN g ELSE progress[j]
      BY <1>2
    <2>2. CASE Enters(k, g)
      BY <2>0, <2>1, <2>2 DEF PatchInv, GateInv, Enters
    <2>3. CASE Leaves(k, g)
      BY <2>0, <2>1, <2>3 DEF PatchInv, GateInv, Leaves
    <2>4. CASE Starts(k, g)
      BY <2>0, <2>1, <2>4 DEF PatchInv, GateInv, Holding, Starts
    <2> QED  BY <2>2, <2>3, <2>4 DEF GateMoves
  <1> QED  BY <1>1, <1>3, <1>4 DEF PatchInv

\* What the invariant says of one key.
LEMMA KeyFacts ==
    ASSUME PatchInv, NEW k \in Keys
    PROVE  /\ progress[k] \in Steps /\ row[k] \in RowStates /\ manifest[k] \in ManifestStates
           /\ todo[k] \in SUBSET Paths /\ mutated[k] \in BOOLEAN /\ bad[k] \in SUBSET Paths
           /\ answer[k] \in Answers /\ applied[k] \in SUBSET Paths
           /\ JournalSays(k, row[k], manifest[k], applied[k])
           /\ StepKnows(k, progress[k], row[k], manifest[k], todo[k], mutated[k], bad[k],
                        applied[k])
           /\ AnswerHolds(progress[k], row[k], answer[k])
           /\ All(k) \in SUBSET Paths /\ {} \in SUBSET Paths
  BY AllPaths DEF PatchInv, PatchTypeOK, KeyInv, Agrees, RowStates, ManifestStates

\* What stays is what it is given again.
LEMMA Stays ==
    ASSUME PatchInv, NEW k \in Keys
    PROVE  /\ progress = [progress EXCEPT ![k] = progress[k]] /\ row = [row EXCEPT ![k] = row[k]]
           /\ manifest = [manifest EXCEPT ![k] = manifest[k]] /\ todo = [todo EXCEPT ![k] = todo[k]]
           /\ mutated = [mutated EXCEPT ![k] = mutated[k]] /\ bad = [bad EXCEPT ![k] = bad[k]]
           /\ answer = [answer EXCEPT ![k] = answer[k]] /\ applied = [applied EXCEPT ![k] = applied[k]]
  BY DEF PatchInv, PatchTypeOK

\* Nothing but the keys' own variables and the gate changes.
LEMMA OutsideStays ==
    ASSUME PatchInv, UNCHANGED <<files, rest>>, swapped' \subseteq Paths
    PROVE  OutsideTyped
  BY DEF PatchInv, PatchTypeOK, OutsideTyped, rest

\* The request is answered and leaves; what it has written stays.
LEMMA LeaveKept ==
    ASSUME PatchInv, NEW k \in Keys, NEW a \in Answers, LeaveApply(k, a),
           NEW r \in RowStates, NEW m \in ManifestStates,
           row' = [row EXCEPT ![k] = r], manifest' = [manifest EXCEPT ![k] = m],
           UNCHANGED <<files, applied, daemon, rest>>, swapped' \subseteq Paths,
           JournalSays(k, r, m, applied[k]), AnswerHolds("idle", r, a)
    PROVE  PatchInv'
  <1>0. PICK told \in {a, "adapter_error"} : answer' = [answer EXCEPT ![k] = told]
    BY DEF LeaveApply
  <1>1. KeyStep(k, "idle", r, m, {}, FALSE, {}, told, applied[k])
    BY <1>0, Stays DEF LeaveApply, Goto, Visit, KeyStep
  <1>2. GateMoves(k, "idle")
    BY DEF LeaveApply, GateMoves, Leaves, Holding
  <1>3. StepKnows(k, "idle", r, m, {}, FALSE, {}, applied[k])
    BY DEF StepKnows
  <1>4. "idle" \in Steps /\ FALSE \in BOOLEAN /\ {} \in SUBSET Paths /\ applied[k] \in SUBSET Paths
    BY KeyFacts DEF Steps
  <1>5. OutsideTyped
    BY OutsideStays
  <1>6. AnswerHolds("idle", r, told) /\ told \in Answers
    BY <1>0 DEF AnswerHolds, Failures, Answers
  <1>7. Agrees(k, "idle", r, m, {}, FALSE, {}, told, applied[k])
    BY <1>3, <1>6 DEF Agrees
  <1> QED  BY <1>1, <1>2, <1>4, <1>5, <1>6, <1>7, KeyStepKept

\* A request that never touched a file leaves as it came.
LEMMA LeaveUntouched ==
    ASSUME PatchInv, NEW k \in Keys, NEW a \in Answers, LeaveApply(k, a),
           UNCHANGED <<files, row, manifest, applied, daemon, rest>>, swapped' \subseteq Paths,
           AnswerHolds("idle", row[k], a)
    PROVE  PatchInv'
  BY LeaveKept, KeyFacts, Stays

\* The rows and the files are undone before a request leaves: nothing was written.
LEMMA AbortKept ==
    ASSUME PatchInv, NEW k \in Keys, NEW a \in {"conflict", "stopped"}, Abort(k, a), applied[k] = {}
    PROVE  PatchInv'
  <1>1. JournalSays(k, "none", "none", applied[k])
    BY DEF JournalSays
  <1>2. AnswerHolds("idle", "none", a)
    BY DEF AnswerHolds
  <1>3. "none" \in RowStates /\ "none" \in ManifestStates /\ a \in Answers
    BY DEF RowStates, ManifestStates, Answers
  <1>4. swapped' \subseteq Paths
    BY DEF Abort, PatchInv, PatchTypeOK
  <1> QED  BY <1>1, <1>2, <1>3, <1>4, LeaveKept DEF Abort

\* While a request is at work no verdict on it stands.
LEMMA NoVerdict ==
    ASSUME PatchInv, NEW k \in Keys, progress[k] # "idle", NEW g, NEW r
    PROVE  AnswerHolds(g, r, answer[k])
  BY KeyFacts DEF AnswerHolds

\* A request goes on inside the gate.
LEMMA InsideKept ==
    ASSUME PatchInv, NEW k \in Keys, progress[k] \in Holding, NEW g \in Holding,
           NEW r \in RowStates, NEW m \in ManifestStates, NEW t \in SUBSET Paths,
           NEW u \in BOOLEAN, NEW b \in SUBSET Paths, NEW w \in SUBSET Paths, OutsideTyped,
           KeyStep(k, g, r, m, t, u, b, answer[k], w), UNCHANGED <<owner, daemon>>,
           JournalSays(k, r, m, w), StepKnows(k, g, r, m, t, u, b, w)
    PROVE  PatchInv'
  <1>1. owner = k /\ daemon = "up"
    BY DEF PatchInv, GateInv, Holding
  <1>2. GateMoves(k, g)
    BY <1>1 DEF GateMoves, Enters
  <1>3. AnswerHolds(g, r, answer[k])
    BY NoVerdict DEF Holding
  <1>4. g \in Steps /\ answer[k] \in Answers
    BY KeyFacts DEF Holding, Steps
  <1>5. Agrees(k, g, r, m, t, u, b, answer[k], w)
    BY <1>3 DEF Agrees
  <1> QED  BY <1>2, <1>4, <1>5, KeyStepKept

-----------------------------------------------------------------------------
\* A request waits outside of the gate.
LEMMA RequestKept ==
    ASSUME PatchInv, NEW k \in Keys, Request(k) PROVE PatchInv'
  <1>1. PICK g \in {"begin", "reconcile"} : progress' = [progress EXCEPT ![k] = g]
    BY DEF Request, Goto
  <1>2. KeyStep(k, g, row[k], manifest[k], todo[k], mutated[k], bad[k], "none", applied[k])
    BY <1>1, Stays DEF Request, KeyStep
  <1>3. GateMoves(k, g)
    BY <1>1, PatchAssumption DEF Request, GateMoves, Leaves, Holding, PatchInv, GateInv
  <1>4. StepKnows(k, g, row[k], manifest[k], todo[k], mutated[k], bad[k], applied[k])
    BY <1>1, KeyFacts DEF StepKnows, Request
  <1>5. Agrees(k, g, row[k], manifest[k], todo[k], mutated[k], bad[k], "none", applied[k])
    BY <1>4, KeyFacts DEF Agrees, AnswerHolds, Failures
  <1>6. OutsideTyped
    BY DEF Request, OutsideTyped, PatchInv, PatchTypeOK
  <1>7. g \in Steps /\ "none" \in Answers
    BY <1>1 DEF Steps, Answers
  <1> QED  BY <1>2, <1>3, <1>5, <1>6, <1>7, KeyFacts, KeyStepKept

\* A row that was there is the answer.
LEMMA BeginKept ==
    ASSUME PatchInv, NEW k \in Keys, Begin(k) PROVE PatchInv'
  <1>0. OutsideTyped /\ swapped' \subseteq Paths
    BY OutsideStays DEF Begin, PatchInv, PatchTypeOK
  <1>1. CASE row[k] = "none" /\ Goto(k, "gate") /\ UNCHANGED <<todo, mutated, bad, owner, answer>>
    <2>1. KeyStep(k, "gate", row[k], manifest[k], todo[k], mutated[k], bad[k], answer[k],
                  applied[k])
      BY <1>1, Stays DEF Begin, Goto, KeyStep
    <2>2. GateMoves(k, "gate")
      BY <1>1, PatchAssumption DEF Begin, GateMoves, Leaves, Holding, PatchInv, GateInv, PatchTypeOK
    <2>3. StepKnows(k, "gate", row[k], manifest[k], todo[k], mutated[k], bad[k], applied[k])
      BY <1>1, KeyFacts DEF StepKnows, Begin
    <2>4. AnswerHolds("gate", row[k], answer[k])
      BY NoVerdict DEF Begin
    <2>5. Agrees(k, "gate", row[k], manifest[k], todo[k], mutated[k], bad[k], answer[k], applied[k])
      BY <2>3, <2>4, KeyFacts DEF Agrees
    <2> QED  BY <1>0, <2>1, <2>2, <2>5, KeyFacts, KeyStepKept DEF Steps
  <1>2. CASE row[k] = "succeeded" /\ LeaveApply(k, "applied")
    BY <1>0, <1>2, LeaveUntouched DEF Begin, AnswerHolds, Answers, Failures
  <1>3. CASE row[k] = "running" /\ LeaveApply(k, "outcome_unknown")
    BY <1>0, <1>3, LeaveUntouched DEF Begin, AnswerHolds, Answers, Failures
  <1> QED  BY <1>1, <1>2, <1>3 DEF Begin

\* The gate is free when a request enters.
LEMMA AcquireKept ==
    ASSUME PatchInv, NEW k \in Keys, Acquire(k) PROVE PatchInv'
  <1>0. OutsideTyped /\ swapped' \subseteq Paths
    BY OutsideStays DEF Acquire, PatchInv, PatchTypeOK
  <1>1. CASE /\ owner = NoKey /\ owner' = k
             /\ Goto(k, "preflight") /\ Visit(k, All(k)) /\ UNCHANGED <<mutated, bad, answer>>
    <2>1. KeyStep(k, "preflight", row[k], manifest[k], All(k), mutated[k], bad[k], answer[k],
                  applied[k])
      BY <1>1, Stays DEF Acquire, Goto, Visit, KeyStep
    <2>2. GateMoves(k, "preflight")
      BY <1>1 DEF Acquire, GateMoves, Enters, Holding, PatchInv, GateInv, PatchTypeOK
    <2>3. StepKnows(k, "preflight", row[k], manifest[k], All(k), mutated[k], bad[k], applied[k])
      BY KeyFacts DEF StepKnows, Acquire
    <2>4. AnswerHolds("preflight", row[k], answer[k])
      BY NoVerdict DEF Acquire
    <2>5. Agrees(k, "preflight", row[k], manifest[k], All(k), mutated[k], bad[k], answer[k],
                 applied[k])
      BY <2>3, <2>4, KeyFacts DEF Agrees
    <2> QED  BY <1>0, <2>1, <2>2, <2>5, KeyFacts, KeyStepKept DEF Steps
  <1>2. CASE owner # NoKey /\ LeaveApply(k, "busy")
    BY <1>0, <1>2, LeaveUntouched DEF Acquire, AnswerHolds, Answers, Failures
  <1> QED  BY <1>1, <1>2 DEF Acquire

\* The preflight only reads.
LEMMA PreflightKept ==
    ASSUME PatchInv, NEW k \in Keys, Preflight(k) PROVE PatchInv'
  <1> DEFINE p == First(todo[k])
  <1>0. OutsideTyped /\ swapped' \subseteq Paths /\ progress[k] = "preflight"
    BY OutsideStays DEF Preflight, PatchInv, PatchTypeOK
  <1>1. CASE /\ Visit(k, todo[k] \ {p})
             /\ UNCHANGED <<progress, mutated, bad, owner, answer>>
    <2>1. KeyStep(k, "preflight", row[k], manifest[k], todo[k] \ {p}, mutated[k], bad[k],
                  answer[k], applied[k])
      BY <1>0, <1>1, Stays DEF Preflight, Visit, KeyStep
    <2>2. StepKnows(k, "preflight", row[k], manifest[k], todo[k] \ {p}, mutated[k], bad[k],
                    applied[k])
      BY <1>0, KeyFacts DEF StepKnows
    <2>3. todo[k] \ {p} \in SUBSET Paths
      BY KeyFacts
    <2>4. UNCHANGED <<owner, daemon>>
      BY <1>1 DEF Preflight
    <2> HIDE DEF p
    <2> QED  BY <1>0, <2>1, <2>2, <2>3, <2>4, KeyFacts, InsideKept DEF Holding
  <1>2. CASE LeaveApply(k, "conflict")
    <2>1. AnswerHolds("idle", row[k], "conflict")
      BY <1>0, KeyFacts DEF StepKnows, AnswerHolds
    <2> QED  BY <1>0, <1>2, <2>1, LeaveUntouched DEF Preflight, Answers
  <1> QED  BY <1>1, <1>2 DEF Preflight

\* The row is RUNNING before anything is written.
LEMMA AnnounceKept ==
    ASSUME PatchInv, NEW k \in Keys, Announce(k) PROVE PatchInv'
  <1>0. OutsideTyped /\ swapped' \subseteq Paths /\ progress[k] = "preflight"
    BY OutsideStays DEF Announce, PatchInv, PatchTypeOK
  <1>1. row[k] = "none"
    BY <1>0, KeyFacts DEF StepKnows
  <1>2. CASE LeaveApply(k, "preview") /\ UNCHANGED row
    BY <1>0, <1>1, <1>2, LeaveUntouched DEF Announce, Answers, AnswerHolds
  <1>3. CASE /\ row' = [row EXCEPT ![k] = "running"]
             /\ Goto(k, "verify") /\ Visit(k, All(k)) /\ UNCHANGED <<mutated, bad, owner, answer>>
    <2>1. KeyStep(k, "verify", "running", manifest[k], All(k), mutated[k], bad[k], answer[k],
                  applied[k])
      BY <1>3, Stays DEF Announce, Goto, Visit, KeyStep
    <2>2. manifest[k] = "none" /\ applied[k] = {}
      BY <1>1, KeyFacts DEF JournalSays
    <2>3. StepKnows(k, "verify", "running", manifest[k], All(k), mutated[k], bad[k], applied[k])
      BY <1>0, <2>2, KeyFacts DEF StepKnows
    <2>4. JournalSays(k, "running", manifest[k], applied[k])
      BY <2>2 DEF JournalSays
    <2>5. UNCHANGED <<owner, daemon>> /\ "running" \in RowStates
      BY <1>3 DEF Announce, RowStates
    <2> QED  BY <1>0, <2>1, <2>3, <2>4, <2>5, KeyFacts, InsideKept DEF Holding
  <1> QED  BY <1>2, <1>3 DEF Announce

\* Each path is looked at again before anything is replaced.
LEMMA InspectKept ==
    ASSUME PatchInv, NEW k \in Keys, Inspect(k) PROVE PatchInv'
  <1> DEFINE p == First(todo[k])
  <1>1. /\ progress[k] \in {"verify", "backup"} /\ row[k] = "running" /\ manifest[k] = "none"
        /\ applied[k] = {}
    BY KeyFacts DEF Inspect, StepKnows, JournalSays
  <1>2. CASE Visit(k, todo[k] \ {p}) /\ UNCHANGED <<files, swapped, row, manifest, progress,
      mutated,
                                                   bad, owner, daemon, answer, applied, rest>>
    <2>1. KeyStep(k, progress[k], row[k], manifest[k], todo[k] \ {p}, mutated[k], bad[k],
                  answer[k], applied[k])
      BY <1>2, Stays DEF Visit, KeyStep
    <2>2. StepKnows(k, progress[k], row[k], manifest[k], todo[k] \ {p}, mutated[k], bad[k],
                    applied[k])
      BY <1>1, KeyFacts DEF StepKnows
    <2>3. todo[k] \ {p} \in SUBSET Paths /\ OutsideTyped /\ progress[k] \in Holding
      BY <1>1, <1>2, KeyFacts, OutsideStays DEF PatchInv, PatchTypeOK, Holding
    <2> HIDE DEF p
    <2> QED  BY <1>2, <2>1, <2>2, <2>3, KeyFacts, InsideKept
  <1>3. CASE Abort(k, "conflict")
    BY <1>1, <1>3, AbortKept
  <1> QED  BY <1>2, <1>3 DEF Inspect

\* The second look begins.
LEMMA VerifiedKept ==
    ASSUME PatchInv, NEW k \in Keys, Verified(k) PROVE PatchInv'
  <1>1. KeyStep(k, "backup", row[k], manifest[k], All(k), mutated[k], bad[k], answer[k], applied[k])
    BY Stays DEF Verified, Goto, Visit, KeyStep
  <1>2. StepKnows(k, "backup", row[k], manifest[k], All(k), mutated[k], bad[k], applied[k])
    BY KeyFacts DEF Verified, StepKnows
  <1>3. OutsideTyped /\ progress[k] \in Holding /\ "backup" \in Holding /\ UNCHANGED <<owner,
      daemon>>
    BY OutsideStays DEF Verified, PatchInv, PatchTypeOK, Holding
  <1> QED  BY <1>1, <1>2, <1>3, KeyFacts, InsideKept

\* The journal is prepared before a file is replaced ...
LEMMA PrepareKept ==
    ASSUME PatchInv, NEW k \in Keys, Prepare(k) PROVE PatchInv'
  <1>1. KeyStep(k, "prepared", row[k], "prepared", todo[k], mutated[k], bad[k], answer[k],
                applied[k])
    BY Stays DEF Prepare, Goto, KeyStep
  <1>2. row[k] = "running" /\ applied[k] = {}
    BY KeyFacts DEF Prepare, StepKnows, JournalSays
  <1>3. /\ StepKnows(k, "prepared", row[k], "prepared", todo[k], mutated[k], bad[k], applied[k])
        /\ JournalSays(k, row[k], "prepared", applied[k])
    BY <1>2, KeyFacts DEF Prepare, StepKnows, JournalSays
  <1>4. /\ OutsideTyped /\ progress[k] \in Holding /\ "prepared" \in Holding
        /\ "prepared" \in ManifestStates /\ UNCHANGED <<owner, daemon>>
    BY OutsideStays DEF Prepare, PatchInv, PatchTypeOK, Holding, ManifestStates
  <1> QED  BY <1>1, <1>3, <1>4, KeyFacts, InsideKept

\* ... and committing when the first one may be.
LEMMA CommittingKept ==
    ASSUME PatchInv, NEW k \in Keys, Committing(k) PROVE PatchInv'
  <1>1. KeyStep(k, "mutate", row[k], "committing", All(k), mutated[k], bad[k], answer[k],
                applied[k])
    BY Stays DEF Committing, Goto, Visit, KeyStep
  <1>2. row[k] = "running" /\ applied[k] = {}
    BY KeyFacts DEF Committing, StepKnows, JournalSays
  <1>3. /\ StepKnows(k, "mutate", row[k], "committing", All(k), mutated[k], bad[k], applied[k])
        /\ JournalSays(k, row[k], "committing", applied[k])
    BY <1>2, KeyFacts DEF Committing, StepKnows, JournalSays
  <1>4. /\ OutsideTyped /\ progress[k] \in Holding /\ "mutate" \in Holding
        /\ "committing" \in ManifestStates /\ UNCHANGED <<owner, daemon>>
    BY OutsideStays DEF Committing, PatchInv, PatchTypeOK, Holding, ManifestStates
  <1> QED  BY <1>1, <1>3, <1>4, KeyFacts, InsideKept

\* A rollback starts over all the paths, whatever was written.
LEMMA UndoKept ==
    ASSUME PatchInv, NEW k \in Keys, progress[k] = "mutate", Undo(k) PROVE PatchInv'
  <1>1. KeyStep(k, "restore", row[k], manifest[k], All(k), mutated[k], bad[k], answer[k],
                applied[k])
    BY Stays DEF Undo, Goto, Visit, KeyStep
  <1>2. StepKnows(k, "restore", row[k], manifest[k], All(k), mutated[k], bad[k], applied[k])
    BY KeyFacts DEF StepKnows, JournalSays
  <1>3. OutsideTyped /\ progress[k] \in Holding /\ "restore" \in Holding /\ UNCHANGED <<owner,
      daemon>>
    BY OutsideStays DEF Undo, PatchInv, PatchTypeOK, Holding
  <1> QED  BY <1>1, <1>2, <1>3, KeyFacts, InsideKept

\* A path is replaced: it leaves todo for applied, and mutated is set.
LEMMA MutateKept ==
    ASSUME PatchInv, NEW k \in Keys, Mutate(k) PROVE PatchInv'
  <1>0. /\ progress[k] = "mutate" /\ row[k] = "running" /\ manifest[k] = "committing"
        /\ todo[k] \subseteq All(k) /\ applied[k] = All(k) \ todo[k]
        /\ (mutated[k] = FALSE => applied[k] = {})
    BY KeyFacts DEF Mutate, StepKnows
  <1>1. PICK p \in todo[k] :
          \/ /\ files' = [files EXCEPT ![p] = Want[k][p]]
             /\ swapped' = swapped \cup {p}
             /\ applied' = [applied EXCEPT ![k] = @ \cup {p}]
             /\ mutated' = [mutated EXCEPT ![k] = TRUE]
             /\ Visit(k, todo[k] \ {p})
             /\ UNCHANGED <<row, manifest, progress, bad, owner, daemon, answer, rest>>
          \/ mutated[k] /\ Undo(k)
          \/ ~mutated[k] /\ Abort(k, "conflict")
    BY DEF Mutate
  <1>2. CASE /\ files' = [files EXCEPT ![p] = Want[k][p]]
             /\ swapped' = swapped \cup {p}
             /\ applied' = [applied EXCEPT ![k] = @ \cup {p}]
             /\ mutated' = [mutated EXCEPT ![k] = TRUE]
             /\ Visit(k, todo[k] \ {p})
             /\ UNCHANGED <<row, manifest, progress, bad, owner, daemon, answer, rest>>
    <2>1. p \in Paths /\ todo[k] \ {p} \in SUBSET Paths /\ applied[k] \cup {p} \in SUBSET Paths
      BY KeyFacts
    <2>2. KeyStep(k, "mutate", row[k], manifest[k], todo[k] \ {p}, TRUE, bad[k], answer[k],
                  applied[k] \cup {p})
      <3>1. applied' = [applied EXCEPT ![k] = applied[k] \cup {p}]
        BY <1>2 DEF PatchInv, PatchTypeOK
      <3> QED  BY <1>0, <1>2, <3>1, Stays DEF Visit, KeyStep
    <2>3. StepKnows(k, "mutate", row[k], manifest[k], todo[k] \ {p}, TRUE, bad[k],
                    applied[k] \cup {p})
      BY <1>0, <1>1 DEF StepKnows
    <2>4. JournalSays(k, row[k], manifest[k], applied[k] \cup {p})
      BY <1>0, <1>1 DEF JournalSays
    <2>5. OutsideTyped
      BY <1>2, <2>1 DEF OutsideTyped, PatchInv, PatchTypeOK, rest
    <2> QED  BY <1>0, <1>2, <2>1, <2>2, <2>3, <2>4, <2>5, KeyFacts, InsideKept DEF Holding
  <1>3. CASE mutated[k] /\ Undo(k)
    BY <1>0, <1>3, UndoKept
  <1>4. CASE ~mutated[k] /\ Abort(k, "conflict")
    <2>1. applied[k] = {}
      BY <1>0, <1>4, KeyFacts
    <2> QED  BY <1>4, <2>1, AbortKept
  <1> QED  BY <1>1, <1>2, <1>3, <1>4

\* A request that is stopped has written nothing, or rolls back.
LEMMA InterruptKept ==
    ASSUME PatchInv, NEW k \in Keys, Interrupt(k) PROVE PatchInv'
  <1>1. CASE /\ progress[k] = "preflight" /\ LeaveApply(k, "stopped")
             /\ UNCHANGED <<files, swapped, row, manifest, daemon, applied, rest>>
    <2>1. AnswerHolds("idle", row[k], "stopped") /\ swapped' \subseteq Paths
      BY <1>1, KeyFacts DEF StepKnows, AnswerHolds, PatchInv, PatchTypeOK
    <2> QED  BY <1>1, <2>1, LeaveUntouched DEF Answers
  <1>2. CASE /\ progress[k] \in {"verify", "backup", "prepared", "mutate"} /\ ~mutated[k]
             /\ Abort(k, "stopped")
    <2>1. applied[k] = {}
      BY <1>2, KeyFacts DEF StepKnows, JournalSays
    <2> QED  BY <1>2, <2>1, AbortKept
  <1>3. CASE progress[k] = "mutate" /\ Undo(k)
    BY <1>3, UndoKept
  <1>4. CASE /\ progress[k] = "begin" /\ LeaveApply(k, "adapter_error")
             /\ UNCHANGED <<files, swapped, row, manifest, daemon, applied, rest>>
    <2>1. AnswerHolds("idle", row[k], "adapter_error") /\ swapped' \subseteq Paths
      BY <1>4 DEF AnswerHolds, Failures, PatchInv, PatchTypeOK
    <2> QED  BY <1>4, <2>1, LeaveUntouched DEF Answers
  <1> QED  BY <1>1, <1>2, <1>3, <1>4 DEF Interrupt

\* Nothing is left to do when the journal says committed.
LEMMA SealKept ==
    ASSUME PatchInv, NEW k \in Keys, Seal(k) PROVE PatchInv'
  <1>1. KeyStep(k, "record", row[k], "committed", todo[k], mutated[k], bad[k], answer[k],
                applied[k])
    BY Stays DEF Seal, Goto, KeyStep
  <1>2. row[k] = "running" /\ applied[k] = All(k)
    BY KeyFacts DEF Seal, StepKnows
  <1>3. /\ StepKnows(k, "record", row[k], "committed", todo[k], mutated[k], bad[k], applied[k])
        /\ JournalSays(k, row[k], "committed", applied[k])
    BY <1>2, KeyFacts DEF Seal, StepKnows, JournalSays
  <1>4. /\ OutsideTyped /\ progress[k] \in Holding /\ "record" \in Holding
        /\ "committed" \in ManifestStates /\ UNCHANGED <<owner, daemon>>
    BY OutsideStays DEF Seal, PatchInv, PatchTypeOK, Holding, ManifestStates
  <1> QED  BY <1>1, <1>3, <1>4, KeyFacts, InsideKept

\* The row says SUCCEEDED after the journal does.
LEMMA RecordKept ==
    ASSUME PatchInv, NEW k \in Keys, Record(k) PROVE PatchInv'
  <1>1. KeyStep(k, "discard", "succeeded", manifest[k], todo[k], mutated[k], bad[k], answer[k],
                applied[k])
    BY Stays DEF Record, Goto, KeyStep
  <1>2. manifest[k] = "committed"
    BY KeyFacts DEF Record, StepKnows
  <1>3. /\ StepKnows(k, "discard", "succeeded", manifest[k], todo[k], mutated[k], bad[k],
                     applied[k])
        /\ JournalSays(k, "succeeded", manifest[k], applied[k])
    BY <1>2, KeyFacts DEF Record, StepKnows, JournalSays
  <1>4. /\ OutsideTyped /\ progress[k] \in Holding /\ "discard" \in Holding
        /\ "succeeded" \in RowStates /\ UNCHANGED <<owner, daemon>>
    BY OutsideStays DEF Record, PatchInv, PatchTypeOK, Holding, RowStates
  <1> QED  BY <1>1, <1>3, <1>4, KeyFacts, InsideKept

\* A row that cannot be written leaves the journal committed.
LEMMA RecordFailsKept ==
    ASSUME PatchInv, NEW k \in Keys, RecordFails(k) PROVE PatchInv'
  <1>1. AnswerHolds("idle", row[k], "internal_error") /\ swapped' \subseteq Paths
    BY DEF AnswerHolds, Failures, RecordFails, PatchInv, PatchTypeOK
  <1> QED  BY <1>1, LeaveUntouched DEF RecordFails, Answers

\* The journal goes last.
LEMMA DiscardKept ==
    ASSUME PatchInv, NEW k \in Keys, Discard(k) PROVE PatchInv'
  <1>1. row[k] = "succeeded" /\ manifest[k] = "committed"
    BY KeyFacts DEF Discard, StepKnows
  <1>2. JournalSays(k, row[k], "none", applied[k]) /\ AnswerHolds("idle", row[k], "applied")
    BY <1>1, KeyFacts DEF JournalSays, AnswerHolds, Failures
  <1>3. /\ row' = [row EXCEPT ![k] = row[k]] /\ swapped' \subseteq Paths
        /\ row[k] \in RowStates /\ "none" \in ManifestStates /\ "applied" \in Answers
    BY Stays, KeyFacts DEF Discard, PatchInv, PatchTypeOK, ManifestStates, Answers
  <1> QED  BY <1>2, <1>3, LeaveKept DEF Discard

-----------------------------------------------------------------------------
\* Rollback.

\* The last path of those to visit is one of them.
LEMMA LastIsPath ==
    ASSUME NEW S \in SUBSET Paths, S # {} PROVE Last(S) \in S
  <1>1. S \in SUBSET Nat /\ IsFiniteSet(S)
    BY PatchAssumption, FS_Subset
  <1>2. \E p \in S : \A q \in S : q <= p
    BY <1>1, GreatestNumber
  <1> QED  BY <1>2 DEF Last

\* The keys keep their values.
LEMMA KeysStay ==
    ASSUME PatchInv, UNCHANGED <<row, manifest, progress, todo, mutated, bad, answer, applied>>
    PROVE  \A k \in Keys : KeyInv(k)'
  BY DEF PatchInv, KeyInv, Agrees, JournalSays, StepKnows, AnswerHolds, All

\* A rollback is done with a path: it is restored and not applied any more, or
\* it is remembered as bad.
LEMMA PathDone ==
    ASSUME PatchInv, NEW k \in Keys, progress[k] \in {"restore", "recover"}, OutsideTyped,
           NEW p \in todo[k], Visit(k, todo[k] \ {p}),
           \/ bad' = bad /\ applied' = [applied EXCEPT ![k] = @ \ {p}]
           \/ bad' = [bad EXCEPT ![k] = @ \cup {p}] /\ applied' = applied,
           UNCHANGED <<row, manifest, progress, mutated, owner, daemon, answer>>
    PROVE  PatchInv'
  <1>1. /\ row[k] = "running" /\ applied[k] \subseteq todo[k] \cup bad[k]
        /\ manifest[k] \in {"prepared", "committing"}
        /\ progress[k] = "restore" => manifest[k] = "committing"
    BY KeyFacts DEF StepKnows
  <1>2. /\ p \in Paths /\ todo[k] \ {p} \in SUBSET Paths /\ applied[k] \ {p} \in SUBSET Paths
        /\ bad[k] \cup {p} \in SUBSET Paths
    BY KeyFacts
  <1>3. GateMoves(k, progress[k])
    BY <1>1, PatchAssumption DEF GateMoves, Enters, Starts, Holding, PatchInv, GateInv, PatchTypeOK
  <1>4. CASE bad' = bad /\ applied' = [applied EXCEPT ![k] = @ \ {p}]
    <2>1. applied' = [applied EXCEPT ![k] = applied[k] \ {p}]
      BY <1>4 DEF PatchInv, PatchTypeOK
    <2>2. KeyStep(k, progress[k], row[k], manifest[k], todo[k] \ {p}, mutated[k], bad[k],
                  answer[k], applied[k] \ {p})
      BY <1>4, <2>1, Stays DEF Visit, KeyStep
    <2>3. StepKnows(k, progress[k], row[k], manifest[k], todo[k] \ {p}, mutated[k], bad[k],
                    applied[k] \ {p})
      BY <1>1, KeyFacts DEF StepKnows
    <2>4. JournalSays(k, row[k], manifest[k], applied[k] \ {p})
      BY <1>1, KeyFacts DEF JournalSays
    <2>5. Agrees(k, progress[k], row[k], manifest[k], todo[k] \ {p}, mutated[k], bad[k],
                 answer[k], applied[k] \ {p})
      BY <2>3, <2>4, KeyFacts DEF Agrees
    <2> QED  BY <1>2, <1>3, <2>2, <2>5, KeyFacts, KeyStepKept
  <1>5. CASE bad' = [bad EXCEPT ![k] = @ \cup {p}] /\ applied' = applied
    <2>1. bad' = [bad EXCEPT ![k] = bad[k] \cup {p}]
      BY <1>5 DEF PatchInv, PatchTypeOK
    <2>2. KeyStep(k, progress[k], row[k], manifest[k], todo[k] \ {p}, mutated[k], bad[k] \cup {p},
                  answer[k], applied[k])
      BY <1>5, <2>1, Stays DEF Visit, KeyStep
    <2>3. StepKnows(k, progress[k], row[k], manifest[k], todo[k] \ {p}, mutated[k],
                    bad[k] \cup {p}, applied[k])
      BY <1>1, KeyFacts DEF StepKnows
    <2>4. Agrees(k, progress[k], row[k], manifest[k], todo[k] \ {p}, mutated[k], bad[k] \cup {p},
                 answer[k], applied[k])
      BY <2>3, KeyFacts DEF Agrees
    <2> QED  BY <1>2, <1>3, <2>2, <2>4, KeyFacts, KeyStepKept
  <1> QED  BY <1>4, <1>5

\* A comparison ends the path or only remembers the key.
LEMMA CompareKept ==
    ASSUME PatchInv, NEW k \in Keys, Compare(k) PROVE PatchInv'
  <1>0. PICK p \in todo[k] : p = Last(todo[k])
    BY KeyFacts, LastIsPath DEF Compare
  <1>1. OutsideTyped /\ progress[k] \in {"restore", "recover"}
    BY DEF Compare, OutsideTyped, PatchInv, PatchTypeOK
  <1>2. CASE Visit(k, todo[k] \ {p}) /\ applied' = [applied EXCEPT ![k] = @ \ {p}] /\ bad' = bad
    BY <1>1, <1>2, PathDone DEF Compare
  <1>3. CASE Visit(k, todo[k] \ {p}) /\ bad' = [bad EXCEPT ![k] = @ \cup {p}] /\ applied' = applied
    BY <1>1, <1>3, PathDone DEF Compare
  <1>4. CASE UNCHANGED <<todo, applied, bad>>
    <2>1. \A j \in Keys : KeyInv(j)'
      BY <1>4, KeysStay DEF Compare
    <2>2. PatchTypeOK' /\ GateInv'
      BY <1>1, <1>4 DEF Compare, OutsideTyped, PatchInv, PatchTypeOK, GateInv, Holding
    <2> QED  BY <2>1, <2>2 DEF PatchInv
  <1> QED  BY <1>0, <1>2, <1>3, <1>4 DEF Compare

\* A replacement ends the path.
LEMMA PutBackKept ==
    ASSUME PatchInv, NEW k \in Keys, PutBack(k) PROVE PatchInv'
  <1>0. PICK p \in todo[k] : p = Last(todo[k])
    BY KeyFacts, LastIsPath DEF PutBack
  <1>1. p \in Paths /\ progress[k] \in {"restore", "recover"}
    BY KeyFacts DEF PutBack
  <1>2. OutsideTyped
    BY <1>0, <1>1 DEF PutBack, OutsideTyped, PatchInv, PatchTypeOK
  <1>3. /\ Visit(k, todo[k] \ {p}) /\ UNCHANGED <<row, manifest, progress, mutated, owner, daemon, answer>>
        /\ \/ bad' = bad /\ applied' = [applied EXCEPT ![k] = @ \ {p}]
           \/ bad' = [bad EXCEPT ![k] = @ \cup {p}] /\ applied' = applied
    BY <1>0 DEF PutBack
  <1> QED  BY <1>1, <1>2, <1>3, PathDone

\* A rollback that failed leaves its journal; at a start the daemon ends with it.
LEMMA GiveUpKept ==
    ASSUME PatchInv, NEW k \in Keys, GiveUp(k) PROVE PatchInv'
  <1>0. PICK told \in {"recovery_failed", "adapter_error"} : answer' = [answer EXCEPT ![k] = told]
    BY DEF GiveUp, LeaveApply
  <1>1. KeyStep(k, "idle", row[k], manifest[k], {}, FALSE, {}, told, applied[k])
    BY <1>0, Stays DEF GiveUp, LeaveApply, Goto, Visit, KeyStep
  <1>2. GateMoves(k, "idle")
    <2>1. CASE daemon = "recovering"
      BY <2>1, PatchAssumption DEF GiveUp, LeaveApply, GateMoves, Starts, PatchInv, GateInv
    <2>2. CASE daemon # "recovering"
      BY <2>2 DEF GiveUp, LeaveApply, GateMoves, Leaves, Holding
    <2> QED  BY <2>1, <2>2
  <1>3. Agrees(k, "idle", row[k], manifest[k], {}, FALSE, {}, told, applied[k])
    BY <1>0, KeyFacts DEF Agrees, StepKnows, AnswerHolds, Failures
  <1>4. OutsideTyped
    BY OutsideStays DEF GiveUp, PatchInv, PatchTypeOK
  <1>5. "idle" \in Steps /\ FALSE \in BOOLEAN /\ told \in Answers
    BY <1>0 DEF Steps, Answers
  <1> QED  BY <1>1, <1>2, <1>3, <1>4, <1>5, KeyFacts, KeyStepKept

\* Nothing is applied when the journal says rolled_back ...
LEMMA RolledBackKept ==
    ASSUME PatchInv, NEW k \in Keys, RolledBack(k) PROVE PatchInv'
  <1>1. KeyStep(k, "clean", row[k], "rolled_back", todo[k], mutated[k], bad[k], answer[k],
                applied[k])
    BY Stays DEF RolledBack, Goto, KeyStep
  <1>2. row[k] = "running" /\ applied[k] = {}
    BY KeyFacts DEF RolledBack, StepKnows
  <1>3. /\ StepKnows(k, "clean", row[k], "rolled_back", todo[k], mutated[k], bad[k], applied[k])
        /\ JournalSays(k, row[k], "rolled_back", applied[k])
    BY <1>2, KeyFacts DEF StepKnows, JournalSays
  <1>4. /\ OutsideTyped /\ progress[k] \in Holding /\ "clean" \in Holding
        /\ "rolled_back" \in ManifestStates /\ UNCHANGED <<owner, daemon>>
    BY OutsideStays DEF RolledBack, PatchInv, PatchTypeOK, Holding, ManifestStates
  <1> QED  BY <1>1, <1>3, <1>4, KeyFacts, InsideKept

\* ... when it is removed ...
LEMMA CleanKept ==
    ASSUME PatchInv, NEW k \in Keys, Clean(k) PROVE PatchInv'
  <1>1. KeyStep(k, "forget", row[k], "none", todo[k], mutated[k], bad[k], answer[k], applied[k])
    BY Stays DEF Clean, Goto, KeyStep
  <1>2. row[k] = "running" /\ applied[k] = {}
    BY KeyFacts DEF Clean, StepKnows, JournalSays
  <1>3. /\ StepKnows(k, "forget", row[k], "none", todo[k], mutated[k], bad[k], applied[k])
        /\ JournalSays(k, row[k], "none", applied[k])
    BY <1>2, KeyFacts DEF StepKnows, JournalSays
  <1>4. /\ OutsideTyped /\ progress[k] \in Holding /\ "forget" \in Holding
        /\ "none" \in ManifestStates /\ UNCHANGED <<owner, daemon>>
    BY OutsideStays DEF Clean, PatchInv, PatchTypeOK, Holding, ManifestStates
  <1> QED  BY <1>1, <1>3, <1>4, KeyFacts, InsideKept

\* ... and when the row is.
LEMMA ForgetKept ==
    ASSUME PatchInv, NEW k \in Keys, Forget(k) PROVE PatchInv'
  <1>1. row[k] = "running" /\ manifest[k] = "none" /\ applied[k] = {}
    BY KeyFacts DEF Forget, StepKnows, JournalSays
  <1>2. JournalSays(k, "none", manifest[k], applied[k]) /\ AnswerHolds("idle", "none",
                                                                       "rolled_back")
    BY <1>1 DEF JournalSays, AnswerHolds
  <1>3. /\ manifest' = [manifest EXCEPT ![k] = manifest[k]] /\ swapped' \subseteq Paths
        /\ manifest[k] \in ManifestStates /\ "none" \in RowStates /\ "rolled_back" \in Answers
    BY Stays, KeyFacts DEF Forget, PatchInv, PatchTypeOK, RowStates, Answers
  <1> QED  BY <1>2, <1>3, LeaveKept DEF Forget

-----------------------------------------------------------------------------
\* Recovery.

\* What _recover_transaction makes of a key, gate and daemon apart.
LEMMA TransactionKept ==
    ASSUME PatchInv, NEW k \in Keys, RecoverTransaction(k), progress[k] \in {"idle", "reconcile"},
           UNCHANGED <<files, swapped, mutated, bad, answer, applied, daemon, rest>>,
           \/ daemon = "up" /\ owner = NoKey /\ progress[k] = "reconcile"
              /\ owner' = IF progress'[k] = "recover" THEN k ELSE owner
           \/ daemon = "recovering" /\ owner' = owner /\ \A j \in Keys : progress[j] = "idle"
    PROVE  PatchInv'
  <1>0. OutsideTyped /\ mutated[k] = FALSE
    BY OutsideStays, KeyFacts DEF PatchInv, PatchTypeOK, StepKnows
  <1>1. CASE manifest[k] = "committed" /\ Resolved(k, "succeeded") /\ UNCHANGED <<progress, todo>>
    <2>1. KeyStep(k, progress[k], "succeeded", "none", todo[k], mutated[k], bad[k], answer[k],
                  applied[k])
      BY <1>1, Stays DEF Resolved, KeyStep
    <2>2. GateMoves(k, progress[k])
      BY <1>1, PatchAssumption DEF GateMoves, Leaves, Holding, PatchInv, GateInv
    <2>3. applied[k] = All(k) /\ row[k] # "none"
      BY <1>1, KeyFacts DEF JournalSays
    <2>4. JournalSays(k, "succeeded", "none", applied[k])
      BY <2>3 DEF JournalSays
    <2>5. StepKnows(k, progress[k], "succeeded", "none", todo[k], mutated[k], bad[k], applied[k])
      BY <1>0, KeyFacts DEF StepKnows
    <2>6. AnswerHolds(progress[k], "succeeded", answer[k])
      BY <2>3, KeyFacts DEF AnswerHolds
    <2>7. Agrees(k, progress[k], "succeeded", "none", todo[k], mutated[k], bad[k], answer[k],
                 applied[k])
      BY <2>4, <2>5, <2>6 DEF Agrees
    <2> QED  BY <1>0, <2>1, <2>2, <2>7, KeyFacts, KeyStepKept DEF RowStates, ManifestStates
  <1>2. CASE manifest[k] = "rolled_back" /\ Resolved(k, "none") /\ UNCHANGED <<progress, todo>>
    <2>1. KeyStep(k, progress[k], "none", "none", todo[k], mutated[k], bad[k], answer[k],
                  applied[k])
      BY <1>2, Stays DEF Resolved, KeyStep
    <2>2. GateMoves(k, progress[k])
      BY <1>2, PatchAssumption DEF GateMoves, Leaves, Holding, PatchInv, GateInv
    <2>3. applied[k] = {} /\ row[k] = "running"
      BY <1>2, KeyFacts DEF JournalSays, RowStates
    <2>4. JournalSays(k, "none", "none", applied[k])
      BY <2>3 DEF JournalSays
    <2>5. StepKnows(k, progress[k], "none", "none", todo[k], mutated[k], bad[k], applied[k])
      BY <1>0 DEF StepKnows
    <2>6. AnswerHolds(progress[k], "none", answer[k])
      BY <2>3, KeyFacts DEF AnswerHolds
    <2>7. Agrees(k, progress[k], "none", "none", todo[k], mutated[k], bad[k], answer[k], applied[k])
      BY <2>4, <2>5, <2>6 DEF Agrees
    <2> QED  BY <1>0, <2>1, <2>2, <2>7, KeyFacts, KeyStepKept DEF RowStates, ManifestStates
  <1>3. CASE /\ manifest[k] \in {"prepared", "committing"}
             /\ Goto(k, "recover") /\ Visit(k, All(k)) /\ UNCHANGED <<row, manifest>>
    <2>1. KeyStep(k, "recover", row[k], manifest[k], All(k), mutated[k], bad[k], answer[k],
                  applied[k])
      BY <1>3, Stays DEF Goto, Visit, KeyStep
    <2>2. progress'[k] = "recover"
      BY <1>3 DEF Goto, PatchInv, PatchTypeOK
    <2>3. GateMoves(k, "recover")
      BY <2>2 DEF GateMoves, Enters, Starts
    <2>4. row[k] = "running" /\ applied[k] \subseteq All(k)
      BY <1>3, KeyFacts DEF JournalSays, RowStates
    <2>5. StepKnows(k, "recover", row[k], manifest[k], All(k), mutated[k], bad[k], applied[k])
      BY <1>0, <1>3, <2>4 DEF StepKnows
    <2>6. AnswerHolds("recover", row[k], answer[k])
      BY <2>4, KeyFacts DEF AnswerHolds
    <2>7. Agrees(k, "recover", row[k], manifest[k], All(k), mutated[k], bad[k], answer[k],
                 applied[k])
      BY <2>5, <2>6, KeyFacts DEF Agrees
    <2> QED  BY <1>0, <2>1, <2>3, <2>7, KeyFacts, KeyStepKept DEF Steps
  <1> QED  BY <1>1, <1>2, <1>3 DEF RecoverTransaction

\* A redelivered request resolves what an earlier one has left.
LEMMA ReconcileKept ==
    ASSUME PatchInv, NEW k \in Keys, Reconcile(k) PROVE PatchInv'
  <1>0. OutsideTyped /\ swapped' \subseteq Paths /\ progress[k] = "reconcile" /\ daemon = "up"
    BY OutsideStays DEF Reconcile, PatchInv, PatchTypeOK, GateInv
  <1>1. CASE row[k] # "running" /\ Goto(k, "begin") /\ UNCHANGED <<row, manifest, todo, mutated,
      bad, owner, answer>>
    <2>1. KeyStep(k, "begin", row[k], manifest[k], todo[k], mutated[k], bad[k], answer[k],
                  applied[k])
      BY <1>1, Stays DEF Reconcile, Goto, KeyStep
    <2>2. GateMoves(k, "begin")
      BY <1>0, <1>1, PatchAssumption DEF Reconcile, GateMoves, Leaves, Holding, PatchInv, GateInv
    <2>3. StepKnows(k, "begin", row[k], manifest[k], todo[k], mutated[k], bad[k], applied[k])
      BY <1>0, KeyFacts DEF StepKnows
    <2>4. AnswerHolds("begin", row[k], answer[k])
      BY <1>0, NoVerdict
    <2>5. Agrees(k, "begin", row[k], manifest[k], todo[k], mutated[k], bad[k], answer[k],
                 applied[k])
      BY <2>3, <2>4, KeyFacts DEF Agrees
    <2> QED  BY <1>0, <2>1, <2>2, <2>5, KeyFacts, KeyStepKept DEF Steps
  <1>2. CASE row[k] = "running" /\ owner # NoKey /\ LeaveApply(k, "busy") /\ UNCHANGED <<row,
      manifest>>
    BY <1>0, <1>2, LeaveUntouched DEF Reconcile, AnswerHolds, Answers, Failures
  <1>3. CASE /\ row[k] = "running" /\ owner = NoKey /\ manifest[k] = "none"
             /\ row' = [row EXCEPT ![k] = "none"]
             /\ UNCHANGED <<manifest, progress, todo, owner, mutated, bad, answer>>
    <2>1. KeyStep(k, "reconcile", "none", manifest[k], todo[k], mutated[k], bad[k], answer[k],
                  applied[k])
      BY <1>0, <1>3, Stays DEF Reconcile, KeyStep
    <2>2. GateMoves(k, "reconcile")
      BY <1>0, <1>3, PatchAssumption DEF Reconcile, GateMoves, Leaves, Holding
    <2>3. applied[k] = {}
      BY <1>3, KeyFacts DEF JournalSays
    <2>4. JournalSays(k, "none", manifest[k], applied[k])
      BY <1>3, <2>3 DEF JournalSays
    <2>5. StepKnows(k, "reconcile", "none", manifest[k], todo[k], mutated[k], bad[k], applied[k])
      BY <1>0, KeyFacts DEF StepKnows
    <2>6. AnswerHolds("reconcile", "none", answer[k])
      BY <1>0, NoVerdict
    <2>7. Agrees(k, "reconcile", "none", manifest[k], todo[k], mutated[k], bad[k], answer[k],
                 applied[k])
      BY <2>4, <2>5, <2>6 DEF Agrees
    <2> QED  BY <1>0, <2>1, <2>2, <2>7, KeyFacts, KeyStepKept DEF Steps, RowStates
  <1>4. CASE /\ row[k] = "running" /\ owner = NoKey /\ RecoverTransaction(k)
             /\ owner' = (IF progress'[k] = "recover" THEN k ELSE owner)
             /\ UNCHANGED <<mutated, bad, answer>>
    BY <1>0, <1>4, TransactionKept DEF Reconcile
  <1> QED  BY <1>1, <1>2, <1>3, <1>4 DEF Reconcile

\* The rollback of a recovery is complete: nothing is applied, row and journal go.
LEMMA RecoveredKept ==
    ASSUME PatchInv, NEW k \in Keys, Recovered(k) PROVE PatchInv'
  <1>0. OutsideTyped /\ mutated[k] = FALSE /\ applied[k] = {} /\ progress[k] = "recover"
    BY OutsideStays, KeyFacts DEF Recovered, PatchInv, PatchTypeOK, StepKnows
  <1>1. PICK g \in {"begin", "idle"} : g = IF daemon = "up" THEN "begin" ELSE "idle"
    OBVIOUS
  <1>2. KeyStep(k, g, "none", "none", todo[k], mutated[k], bad[k], answer[k], applied[k])
    BY <1>1, Stays DEF Recovered, Goto, Resolved, KeyStep
  <1>3. GateMoves(k, g)
    BY <1>1 DEF Recovered, GateMoves, Leaves, Holding
  <1>4. JournalSays(k, "none", "none", applied[k])
    BY <1>0 DEF JournalSays
  <1>5. StepKnows(k, g, "none", "none", todo[k], mutated[k], bad[k], applied[k])
    BY <1>0, <1>1 DEF StepKnows
  <1>6. AnswerHolds(g, "none", answer[k])
    BY <1>0, NoVerdict
  <1>7. Agrees(k, g, "none", "none", todo[k], mutated[k], bad[k], answer[k], applied[k])
    BY <1>4, <1>5, <1>6 DEF Agrees
  <1>8. g \in Steps /\ "none" \in RowStates /\ "none" \in ManifestStates
    BY <1>1 DEF Steps, RowStates, ManifestStates
  <1> QED  BY <1>0, <1>2, <1>3, <1>7, <1>8, KeyFacts, KeyStepKept

-----------------------------------------------------------------------------
\* The daemon starts.
LEMMA DaemonKept ==
    ASSUME PatchInv, Recover \/ Launch \/ Serve PROVE PatchInv'
  <1>1. CASE Recover
    <2>1. PICK k \in Keys : RecoverTransaction(k)
      BY <1>1 DEF Recover
    <2> QED  BY <1>1, <2>1, TransactionKept DEF Recover
  <1>2. CASE Launch \/ Serve
    <2>1. \A k \in Keys : KeyInv(k)'
      BY <1>2, KeysStay DEF Launch, Serve
    <2>2. PatchTypeOK'
      BY <1>2 DEF Launch, Serve, PatchInv, PatchTypeOK, rest
    <2>3. GateInv'
      BY <1>2, PatchAssumption DEF Launch, Serve, PatchInv, GateInv, Holding
    <2> QED  BY <2>1, <2>2, <2>3 DEF PatchInv
  <1> QED  BY <1>1, <1>2

\* A death forgets the requests, not the rows, the journals and the files.
LEMMA CrashKept ==
    ASSUME PatchInv, Crash PROVE PatchInv'
  <1>1. PatchTypeOK'
    <2>1. /\ progress' \in [Keys -> Steps] /\ todo' \in [Keys -> SUBSET Paths]
          /\ mutated' \in [Keys -> BOOLEAN] /\ bad' \in [Keys -> SUBSET Paths]
      BY DEF Crash, Steps
    <2>2. /\ owner' \in Keys \cup {NoKey} /\ daemon' = "down" /\ checked' = NoKey /\ raced' = FALSE
          /\ crashes' \in Nat
      BY DEF Crash, PatchInv, PatchTypeOK
    <2>3. UNCHANGED <<files, swapped, row, manifest, answer, applied, edits, requests>>
      BY DEF Crash
    <2> QED  BY <2>1, <2>2, <2>3 DEF PatchInv, PatchTypeOK
  <1>2. GateInv'
    BY PatchAssumption DEF Crash, GateInv, Holding
  <1>3. ASSUME NEW k \in Keys PROVE KeyInv(k)'
    <2>1. /\ progress'[k] = "idle" /\ mutated'[k] = FALSE
          /\ row'[k] = row[k] /\ manifest'[k] = manifest[k] /\ applied'[k] = applied[k]
          /\ answer'[k] = answer[k]
      BY DEF Crash
    <2>2. JournalSays(k, row[k], manifest[k], applied[k])'
      BY <2>1, KeyFacts DEF JournalSays, All
    <2>3. StepKnows(k, progress[k], row[k], manifest[k], todo[k], mutated[k], bad[k], applied[k])'
      BY <2>1 DEF StepKnows
    <2>4. AnswerHolds(progress[k], row[k], answer[k])'
      BY <2>1, KeyFacts DEF AnswerHolds
    <2> QED  BY <2>2, <2>3, <2>4 DEF KeyInv, Agrees
  <1> QED  BY <1>1, <1>2, <1>3 DEF PatchInv

\* Another program changes files, not rows and journals.
LEMMA EditKept ==
    ASSUME PatchInv, NEW p \in Paths, Edit(p) PROVE PatchInv'
  <1>1. PICK text \in (Edits \cup {Absent}) \ {files[p]} :
            /\ files' = [files EXCEPT ![p] = text]
            /\ swapped' \in {swapped, swapped \cup {p}}
    BY DEF Edit
  <1>2. PatchTypeOK'
    BY <1>1 DEF Edit, PatchInv, PatchTypeOK
  <1>3. GateInv'
    BY DEF Edit, PatchInv, GateInv, Holding
  <1>4. \A k \in Keys : KeyInv(k)'
    BY KeysStay DEF Edit
  <1> QED  BY <1>2, <1>3, <1>4 DEF PatchInv

\* The invariant holds at first.
LEMMA PatchInitKept ==
    ASSUME PatchInit PROVE PatchInv
  <1>1. PatchTypeOK
    BY PatchAssumption DEF PatchInit, PatchTypeOK, Steps, Answers
  <1>2. GateInv
    BY PatchAssumption DEF PatchInit, GateInv, Holding
  <1>3. \A k \in Keys : KeyInv(k)
    BY DEF PatchInit, KeyInv, Agrees, JournalSays, StepKnows, AnswerHolds, Failures
  <1> QED  BY <1>1, <1>2, <1>3 DEF PatchInv

\* Every step keeps the invariant.
LEMMA PatchStepKept ==
    ASSUME PatchInv, [PatchNext]_patchVars PROVE PatchInv'
  <1>1. ASSUME NEW k \in Keys, Request(k) \/ ApplyNext(k) PROVE PatchInv'
    BY <1>1, RequestKept, BeginKept, AcquireKept, PreflightKept, AnnounceKept, InspectKept,
       VerifiedKept,
       PrepareKept, CommittingKept, MutateKept, SealKept, RecordKept, DiscardKept DEF ApplyNext
  <1>2. ASSUME NEW k \in Keys, Interrupt(k) \/ RecordFails(k) \/ RestoreNext(k) PROVE PatchInv'
    BY <1>2, InterruptKept, RecordFailsKept, CompareKept, PutBackKept, GiveUpKept, RolledBackKept, CleanKept,
       ForgetKept,
       ReconcileKept, RecoveredKept DEF RestoreNext
  <1>3. CASE UNCHANGED patchVars
    <2>1. \A k \in Keys : KeyInv(k)'
      BY <1>3, KeysStay DEF patchVars
    <2>2. PatchTypeOK' /\ GateInv'
      BY <1>3 DEF patchVars, PatchInv, PatchTypeOK, GateInv, Holding
    <2> QED  BY <2>1, <2>2 DEF PatchInv
  <1> QED  BY <1>1, <1>2, <1>3, DaemonKept, CrashKept, EditKept DEF PatchNext

\* What the runs check follows from the invariant.
LEMMA PatchInvMeans ==
    ASSUME PatchInv PROVE PatchSafe
  <1>1. AllOrNothing
    BY KeyFacts DEF AllOrNothing, Resting, JournalSays
  <1>2. AnswersAreTrue
    <2> SUFFICES ASSUME NEW k \in Keys
                 PROVE  /\ answer[k] \in Failures => applied[k] = {}
                        /\ answer[k] = "applied" => applied[k] = All(k)
      BY DEF AnswersAreTrue, Failures
    <2> QED  BY KeyFacts DEF AnswerHolds, JournalSays
  <1>3. OneWriter
    BY DEF PatchInv, PatchTypeOK, GateInv, Holding, OneWriter
  <1> QED  BY <1>1, <1>2, <1>3 DEF PatchInv, PatchSafe

\* A patch, its row, its journal and its answers agree after every step, failure,
\* stop and death: a patch at rest is applied to all of its paths or to none, an
\* answer of the transaction is true (an error of the adapter around it says
\* nothing), and one request writes at a time.
THEOREM PatchesAreSafe == PatchSpec => []PatchSafe
  <1>1. PatchInit => PatchInv
    BY PatchInitKept
  <1>2. PatchInv /\ [PatchNext]_patchVars => PatchInv'
    BY PatchStepKept
  <1>3. PatchInv => PatchSafe
    BY PatchInvMeans
  <1> QED  BY <1>1, <1>2, <1>3, PTL DEF PatchSpec

\* A file that was compared and not edited since may still be put back.
CheckedInv ==
    checked # NoKey =>
        /\ progress[checked] \in {"restore", "recover"} /\ todo[checked] # {}
        /\ ~raced => Restorable(checked, Last(todo[checked]))

\* Steps of a request, and of a rollback that is not at a file, leave a rollback
\* that is at one alone, and the files with it.
LEMMA RollbackUndisturbed ==
    ASSUME PatchInv, NEW j \in Keys, NEW c \in Keys,
           progress[c] \in {"restore", "recover"}, todo[c] # {},
           \/ Request(j) \/ ApplyNext(j) \/ Interrupt(j) \/ RecordFails(j)
           \/ GiveUp(j) \/ RolledBack(j) \/ Clean(j) \/ Forget(j) \/ Reconcile(j) \/ Recovered(j)
    PROVE  /\ progress'[c] = progress[c] /\ todo'[c] = todo[c]
           /\ UNCHANGED <<files, checked, raced>>
  <1> USE DEF rest
  <1>1. ~Mutate(j)
    <2>1. progress[j] # "mutate"
      BY PatchInvMeans DEF PatchSafe, OneWriter
    <2> QED  BY <2>1 DEF Mutate
  <1>2. j # c
    BY <1>1 DEF Request, ApplyNext, Begin, Acquire, Preflight, Announce, Inspect, Verified, Prepare,
       Committing, Seal, Record, Discard, Interrupt, RecordFails, GiveUp, RolledBack, Clean, Forget,
       Reconcile, Recovered
  <1>3. progress \in [Keys -> Steps] /\ todo \in [Keys -> SUBSET Paths]
    BY DEF PatchInv, PatchTypeOK
  <1>4. CASE Request(j) \/ Begin(j) \/ Acquire(j) \/ Preflight(j) \/ Announce(j)
    BY <1>2, <1>3, <1>4 DEF Request, Begin, Acquire, Preflight, Announce, LeaveApply, Goto, Visit
  <1>5. CASE Inspect(j) \/ Verified(j) \/ Prepare(j) \/ Committing(j) \/ Seal(j)
    BY <1>2, <1>3, <1>5 DEF Inspect, Verified, Prepare, Committing, Seal, Abort, LeaveApply, Goto, Visit
  <1>6. CASE Record(j) \/ Discard(j) \/ RecordFails(j) \/ Interrupt(j)
    BY <1>2, <1>3, <1>6 DEF Record, Discard, RecordFails, Interrupt, Undo, Abort, LeaveApply, Goto, Visit
  <1>7. CASE GiveUp(j) \/ RolledBack(j) \/ Clean(j) \/ Forget(j) \/ Recovered(j)
    BY <1>2, <1>3, <1>7 DEF GiveUp, RolledBack, Clean, Forget, Recovered, LeaveApply, Goto, Visit
  <1>8. CASE Reconcile(j)
    BY <1>2, <1>3, <1>8 DEF Reconcile, RecoverTransaction, LeaveApply, Goto, Visit
  <1> QED  BY <1>1, <1>4, <1>5, <1>6, <1>7, <1>8 DEF ApplyNext

\* Every step keeps it.
LEMMA CheckedKept ==
    ASSUME PatchInv, CheckedInv, [PatchNext]_patchVars PROVE CheckedInv'
  <1>0. checked \in Keys \cup {NoKey} /\ raced \in BOOLEAN /\ NoKey \notin Keys
    BY PatchAssumption DEF PatchInv, PatchTypeOK
  <1>1. ASSUME NEW j \in Keys, Request(j) \/ ApplyNext(j) \/ Interrupt(j) \/ RecordFails(j)
               \/ GiveUp(j) \/ RolledBack(j) \/ Clean(j) \/ Forget(j) \/ Reconcile(j) \/ Recovered(j)
        PROVE  CheckedInv'
    <2>1. CASE checked # NoKey
      <3>1. /\ progress'[checked] = progress[checked] /\ todo'[checked] = todo[checked]
            /\ UNCHANGED <<files, checked, raced>>
        BY <1>0, <1>1, <2>1, RollbackUndisturbed DEF CheckedInv
      <3> QED  BY <2>1, <3>1 DEF CheckedInv, Restorable
    <2>2. CASE checked = NoKey
      <3>1. UNCHANGED checked
        BY <1>1 DEF Request, ApplyNext, Begin, Acquire, Preflight, Announce, Inspect, Verified, Prepare,
           Committing, Mutate, Undo, Abort, Seal, Record, Discard, Interrupt, RecordFails, GiveUp,
           RolledBack, Clean, Forget, Reconcile, Recovered, rest
      <3> QED  BY <2>2, <3>1 DEF CheckedInv
    <2> QED  BY <2>1, <2>2
  <1>2. ASSUME NEW j \in Keys, Compare(j) PROVE CheckedInv'
    <2>1. checked = NoKey
      <3>1. progress[j] \in {"restore", "recover"} /\ checked # j
        BY <1>2 DEF Compare
      <3> QED  BY <1>0, <3>1, PatchInvMeans DEF PatchSafe, OneWriter, CheckedInv
    <2>2. CASE checked' = NoKey
      BY <2>2 DEF CheckedInv
    <2>3. CASE checked' = j /\ UNCHANGED <<files, progress, todo>> /\ Restorable(j, Last(todo[j]))
      BY <1>2, <2>3 DEF CheckedInv, Compare, Restorable
    <2> QED  BY <1>2, <2>1, <2>2, <2>3 DEF Compare
  <1>3. CASE Crash \/ \E j \in Keys : PutBack(j)
    BY <1>3 DEF Crash, PutBack, CheckedInv
  <1>4. ASSUME NEW q \in Paths, Edit(q) PROVE CheckedInv'
    <2>1. /\ UNCHANGED <<checked, progress, todo>>
          /\ raced' = (raced \/ (checked # NoKey /\ q = Last(todo[checked])))
          /\ \E text : files' = [files EXCEPT ![q] = text]
      BY <1>4 DEF Edit
    <2>2. CASE checked # NoKey /\ ~raced'
      <3> DEFINE p == Last(todo[checked])
      <3>1. p # q /\ ~raced
        BY <2>1, <2>2
      <3>2. p \in Paths /\ DOMAIN files = Paths
        BY <1>0, <2>2, KeyFacts, LastIsPath DEF CheckedInv, PatchInv, PatchTypeOK
      <3>3. files'[p] = files[p]
        BY <2>1, <3>1, <3>2
      <3>4. files[p] \in {Want[checked][p], Absent}
        BY <2>2, <3>1 DEF CheckedInv, Restorable
      <3> QED  BY <2>1, <2>2, <3>3, <3>4 DEF CheckedInv, Restorable
    <2>3. CASE checked = NoKey \/ raced'
      BY <1>0, <2>1, <2>3 DEF CheckedInv
    <2> QED  BY <2>2, <2>3
  <1>5. CASE Launch \/ Serve \/ UNCHANGED patchVars
    BY <1>5 DEF Launch, Serve, patchVars, rest, CheckedInv, Restorable
  <1>6. CASE Recover
    BY <1>0, <1>6 DEF Recover, rest, CheckedInv
  <1> QED  BY <1>1, <1>2, <1>3, <1>4, <1>5, <1>6 DEF PatchNext, RestoreNext

\* Only the replacement of the key that rolls back changes a file then.
LEMMA RollbackStep ==
    ASSUME PatchInv, CheckedInv, [PatchNext]_patchVars, NEW k \in Keys, NEW p \in Paths,
           progress[k] \in {"restore", "recover"}, files'[p] # files[p], edits' = edits,
               p \in All(k)
    PROVE  files[p] \in {Want[k][p], Absent} \/ (raced /\ checked = k /\ p = Last(todo[k]))
  <1>1. edits \in Nat
    BY DEF PatchInv, PatchTypeOK
  <1>2. ~ \E q \in Paths : Edit(q)
    BY <1>1 DEF Edit
  <1>3. \A j \in Keys : ~Mutate(j)
    BY PatchInvMeans DEF PatchSafe, OneWriter, Mutate
  <1>4. \E j \in Keys : PutBack(j)
    BY <1>2, <1>3, ZenonT(60) DEF PatchNext, patchVars, Request, ApplyNext, Begin, Acquire, Preflight, Announce,
       Inspect, Abort, Verified, Prepare, Committing, Seal, Record, Discard, Interrupt, Undo,
           RecordFails,
       RestoreNext, Compare, GiveUp, RolledBack, Clean, Forget, Reconcile, Recovered, Recover, Launch,
           Serve, Crash
  <1>5. PutBack(k)
    <2>1. PICK j \in Keys : PutBack(j)
      BY <1>4
    <2>2. j = k
      BY <2>1, PatchInvMeans DEF PatchSafe, OneWriter, PutBack
    <2> QED  BY <2>1, <2>2
  <1>6. PICK q \in Paths : q = Last(todo[k])
    BY <1>5, KeyFacts, LastIsPath DEF PutBack
  <1>7. files' = [files EXCEPT ![q] = Base[k][q]] /\ checked = k
    BY <1>5, <1>6 DEF PutBack
  <1>8. q = p
    BY <1>7 DEF PatchInv, PatchTypeOK
  <1>9. k # NoKey
    BY PatchAssumption
  <1> QED  BY <1>6, <1>7, <1>8, <1>9 DEF CheckedInv, Restorable

\* A rollback, of a request or of a recovery, replaces text that another program has
\* written only if it came between the comparison of that file and its replacement.
THEOREM RollbacksKeepWork == PatchSpec => RollbackKeepsWork
  <1>1. PatchInit => PatchInv /\ CheckedInv
    BY PatchInitKept DEF PatchInit, CheckedInv
  <1>2. PatchInv /\ CheckedInv /\ [PatchNext]_patchVars => PatchInv' /\ CheckedInv'
    BY PatchStepKept, CheckedKept
  <1>3. PatchInv /\ CheckedInv /\ [PatchNext]_patchVars =>
          [\A k \in Keys, p \in Paths :
              progress[k] \in {"restore",
                               "recover"} /\ files'[p] # files[p] /\ edits' = edits /\ p \in All(k)
              => files[p] \in {Want[k][p], Absent}
                     \/ (raced /\ checked = k /\ p = Last(todo[k]))]_patchVars
    BY RollbackStep
  <1> QED  BY <1>1, <1>2, <1>3, PTL DEF PatchSpec, RollbackKeepsWork

-----------------------------------------------------------------------------
(* Hunks.  The text behind the place of the first hunk is only moved, so   *)
(* the second one finds there what it would have found before.             *)

\* The elements of a sequence.
Elements(s) == {s[i] : i \in 1 .. Len(s)}

\* What a hunk expects and what it puts there are sequences.
LEMMA KeptSequence ==
    ASSUME NEW hunk, NEW drop
    PROVE  Kept(hunk, drop) \in Seq(Elements(Kept(hunk, drop)))
  <1> DEFINE kept == SelectSeq(hunk, LAMBDA l : l[1] # drop)
             k == Len(kept)
             f == [i \in 1 .. k |-> kept[i][2]]
  <1>1. k \in Nat
    OBVIOUS
  <1>2. Kept(hunk, drop) = f
    BY DEF Kept
  <1> HIDE DEF k, kept
  <1>3. f \in Seq({f[i] : i \in 1 .. k})
    BY <1>1
  <1>4. Len(f) = k
    BY <1>1
  <1>5. Elements(f) = {f[i] : i \in 1 .. k}
    BY <1>4 DEF Elements
  <1> HIDE DEF f
  <1> QED  BY <1>2, <1>3, <1>5

\* Two hunks are applied one after the other.
LEMMA TwoHunks ==
    ASSUME NEW t, NEW g, NEW h
    PROVE  ApplyHunks(t, <<g, h>>) = ApplyHunk(ApplyHunk([lines |-> t, from |-> 0], g), h)
  <1> DEFINE hunks == <<g, h>>
             zero == [lines |-> t, from |-> 0]
             Def(f) == [n \in 0 .. Len(hunks) |->
                            IF n = 0 THEN [lines |-> t, from |-> 0] ELSE ApplyHunk(f[n - 1], hunks[n])]
             one == ApplyHunk(zero, g)
             two == ApplyHunk(one, h)
             after == CHOOSE f : f = Def(f)
             steps == [n \in 0 .. 2 |-> IF n = 0 THEN zero ELSE IF n = 1 THEN one ELSE two]
  <1>1. ApplyHunks(t, hunks) = after[Len(hunks)]
    BY Zenon DEF ApplyHunks, Def
  <1>2. Len(hunks) = 2 /\ hunks[1] = g /\ hunks[2] = h
    OBVIOUS
  <1>3. steps[0] = zero /\ steps[1] = one /\ steps[2] = two
    BY SMT
  <1> HIDE DEF hunks, zero, one, two
  <1>4. steps = Def(steps)
    <2> DEFINE other == Def(steps)
    <2>1. DOMAIN other = 0 .. 2 /\ DOMAIN steps = 0 .. 2
      BY <1>2
    <2>2. other[0] = zero
      BY <1>2 DEF zero
    <2>3. other[1] = one
      BY <1>2, <1>3 DEF one
    <2>4. other[2] = two
      BY <1>2, <1>3 DEF two
    <2>5. other = [n \in 0 .. 2 |-> other[n]] /\ steps = [n \in 0 .. 2 |-> steps[n]]
      BY <1>2
    <2> HIDE DEF other, steps
    <2>6. \A n \in 0 .. 2 : other[n] = steps[n]
      <3>1. \A n \in 0 .. 2 : n = 0 \/ n = 1 \/ n = 2
        OBVIOUS
      <3> QED  BY <1>3, <2>2, <2>3, <2>4, <3>1
    <2>7. other = steps
      BY <2>5, <2>6, Zenon
    <2> QED  BY <2>7 DEF other
  <1>5. after = Def(after)
    <2> HIDE DEF Def
    <2> QED  BY <1>4
  <1> HIDE DEF after
  <1>6. after[0] = zero
    <2>1. Def(after)[0] = zero
      BY <1>2 DEF zero
    <2> HIDE DEF Def
    <2> QED  BY <1>5, <2>1
  <1>7. after[1] = one
    <2>1. Def(after)[1] = one
      BY <1>2, <1>6 DEF one
    <2> HIDE DEF Def
    <2> QED  BY <1>5, <2>1
  <1>8. after[2] = two
    <2>1. Def(after)[2] = two
      BY <1>2, <1>7 DEF two
    <2> HIDE DEF Def
    <2> QED  BY <1>5, <2>1
  <1> QED  BY <1>1, <1>2, <1>8 DEF hunks, zero, one, two

LEMMA PlacesAreCandidates ==
    ASSUME NEW W, NEW t \in Seq(W), NEW from \in Nat, NEW hunk
    PROVE  Candidates(t, from, hunk) = Places(t, from, Expected(hunk))
  <1> DEFINE old == Expected(hunk)
             m == Len(old)
  <1>1. old \in Seq(Elements(old))
    BY KeptSequence DEF Expected
  <1> HIDE DEF old
  <1>2. m \in Nat /\ DOMAIN old = 1 .. m /\ old = [k \in 1 .. m |-> old[k]]
    BY <1>1
  <1>3. Len(t) \in Nat
    OBVIOUS
  <1>4. ASSUME NEW i \in from .. Len(t) - m
        PROVE  SubSeq(t, i + 1, i + m) = old <=> \A k \in 1 .. m : t[i + k] = old[k]
    <2> DEFINE part1 == SubSeq(t, i + 1, i + m)
    <2>1. i \in Nat /\ i + m <= Len(t)
      BY <1>2, <1>3
    <2>2. part1 = [k \in 1 .. m |-> t[i + k]]
      BY <1>2, <2>1
    <2> HIDE DEF part1
    <2>3. \A k \in 1 .. m : part1[k] = t[i + k]
      BY <2>2
    <2>4. part1 = old => \A k \in 1 .. m : t[i + k] = old[k]
      BY <2>3
    <2>5. (\A k \in 1 .. m : t[i + k] = old[k]) => part1 = old
      BY <1>2, <2>2
    <2> QED  BY <2>4, <2>5 DEF part1
  <1>5. \A i : i \in from .. Len(t) - m <=> i \in from .. Len(t) /\ i + m <= Len(t)
    BY <1>2, <1>3
  <1>6. \A i \in from .. Len(t) :
            StandsAt(t, i, old) <=> i + m <= Len(t) /\ \A k \in 1 .. m : t[i + k] = old[k]
    BY DEF StandsAt
  <1>7. Candidates(t, from, hunk) = {i \in from .. Len(t) - m : SubSeq(t, i + 1, i + m) = old}
    BY DEF Candidates, old
  <1> HIDE DEF m
  <1>8. ASSUME NEW i
        PROVE  i \in Candidates(t, from, hunk) <=> i \in from .. Len(t) /\ StandsAt(t, i, old)
    BY <1>4, <1>5, <1>6, <1>7
  <1> QED  BY <1>8, Zenon DEF Places, old

\* A text in which n lines after the first i are replaced by the lines r.
Replaced(t, i, n, r) == SubSeq(t, 1, i) \o r \o SubSeq(t, i + n + 1, Len(t))

\* The lines of two texts, one behind the other.
Joined(x, y) == x \o y

LEMMA JoinedLines ==
    ASSUME NEW W, NEW x \in Seq(W), NEW y \in Seq(W)
    PROVE  /\ Joined(x, y) \in Seq(W) /\ Len(Joined(x, y)) = Len(x) + Len(y)
           /\ \A k \in 1 .. Len(x) : Joined(x, y)[k] = x[k]
           /\ \A k \in 1 .. Len(y) : Joined(x, y)[Len(x) + k] = y[k]
  <1>1. x \o y \in Seq(W) /\ Len(x \o y) = Len(x) + Len(y)
    OBVIOUS
  <1>2. ASSUME NEW k \in 1 .. Len(x) PROVE (x \o y)[k] = x[k]
    OBVIOUS
  <1>3. ASSUME NEW k \in 1 .. Len(y) PROVE (x \o y)[Len(x) + k] = y[k]
    <2>1. Len(x) \in Nat /\ Len(y) \in Nat
      OBVIOUS
    <2>2. Len(x) + k \in 1 .. Len(x) + Len(y) /\ ~(Len(x) + k <= Len(x)) /\ Len(x) + k - Len(x) = k
      BY <2>1
    <2> QED  BY <2>1, <2>2
  <1> QED  BY <1>1, <1>2, <1>3 DEF Joined

LEMMA ReplacedLines ==
    ASSUME NEW W, NEW t \in Seq(W), NEW r \in Seq(W), NEW i \in Nat, NEW n \in Nat, i + n <= Len(t)
    PROVE  LET u == Replaced(t, i, n, r) IN
           /\ u \in Seq(W) /\ Len(u) \in Nat /\ Len(u) = Len(t) - n + Len(r)
           /\ \A k \in 1 .. i : u[k] = t[k]
           /\ \A k \in 1 .. Len(r) : u[i + k] = r[k]
           /\ \A k \in i + n + 1 .. Len(t) : u[k - n + Len(r)] = t[k]
  <1> DEFINE a == SubSeq(t, 1, i)
             b == SubSeq(t, i + n + 1, Len(t))
             c == Joined(a, r)
             v == Joined(c, b)
  <1>1. Len(t) \in Nat /\ Len(r) \in Nat
    OBVIOUS
  <1>2. a \in Seq(W) /\ Len(a) = i /\ \A k \in 1 .. i : a[k] = t[k]
    BY <1>1
  <1>3. b \in Seq(W) /\ Len(b) = Len(t) - (i + n) /\ \A k \in 1 .. Len(t) - (i + n) : b[k] = t[i + n + k]
    BY <1>1
  <1>4. Replaced(t, i, n, r) = v
    BY DEF Replaced, Joined
  <1> HIDE DEF a, b
  <1>5. c \in Seq(W) /\ Len(c) = i + Len(r)
        /\ (\A k \in 1 .. i : c[k] = a[k]) /\ (\A k \in 1 .. Len(r) : c[i + k] = r[k])
    <2>0. a \in Seq(W) /\ r \in Seq(W)
      BY <1>2
    <2>1. c \in Seq(W) /\ Len(c) = Len(a) + Len(r)
      BY <2>0, JoinedLines
    <2>2. ASSUME NEW k \in 1 .. Len(a) PROVE c[k] = a[k]
      BY <2>0, JoinedLines
    <2>3. ASSUME NEW k \in 1 .. Len(r) PROVE c[Len(a) + k] = r[k]
      BY <2>0, JoinedLines
    <2> HIDE DEF c
    <2> QED  BY <1>2, <2>1, <2>2, <2>3
  <1> HIDE DEF c
  <1>6. v \in Seq(W) /\ Len(v) = Len(c) + Len(b)
        /\ (\A k \in 1 .. Len(c) : v[k] = c[k]) /\ (\A k \in 1 .. Len(b) : v[Len(c) + k] = b[k])
    <2>0. c \in Seq(W) /\ b \in Seq(W)
      BY <1>3, <1>5
    <2>1. v \in Seq(W) /\ Len(v) = Len(c) + Len(b)
      BY <2>0, JoinedLines
    <2>2. ASSUME NEW k \in 1 .. Len(c) PROVE v[k] = c[k]
      BY <2>0, JoinedLines
    <2>3. ASSUME NEW k \in 1 .. Len(b) PROVE v[Len(c) + k] = b[k]
      BY <2>0, JoinedLines
    <2> HIDE DEF v
    <2> QED  BY <2>1, <2>2, <2>3
  <1> HIDE DEF v
  <1>8. v \in Seq(W) /\ Len(v) = Len(t) - n + Len(r) /\ Len(v) \in Nat
    BY <1>1, <1>3, <1>5, <1>6
  <1>9. \A k \in 1 .. i : v[k] = t[k]
    BY <1>1, <1>2, <1>5, <1>6
  <1>10. \A k \in 1 .. Len(r) : v[i + k] = r[k]
    <2> SUFFICES ASSUME NEW k \in 1 .. Len(r) PROVE v[i + k] = r[k]
      OBVIOUS
    <2>1. i + k \in 1 .. Len(c)
      BY <1>1, <1>5
    <2> QED  BY <1>5, <1>6, <2>1
  <1>11. \A k \in i + n + 1 .. Len(t) : v[k - n + Len(r)] = t[k]
    <2> SUFFICES ASSUME NEW k \in i + n + 1 .. Len(t) PROVE v[k - n + Len(r)] = t[k]
      OBVIOUS
    <2>1. k - (i + n) \in 1 .. Len(b) /\ Len(c) + (k - (i + n)) = k - n + Len(r)
          /\ i + n + (k - (i + n)) = k
      BY <1>1, <1>3, <1>5
    <2>2. v[Len(c) + (k - (i + n))] = b[k - (i + n)]
      BY <1>6, <2>1
    <2> QED  BY <1>3, <2>1, <2>2
  <1> QED  BY <1>4, <1>8, <1>9, <1>10, <1>11, Zenon

\* One hunk replaces what it quotes, if that stands at one place, or is a conflict.
LEMMA OneHunk ==
    ASSUME NEW W, NEW t \in Seq(W), NEW from \in Nat, NEW hunk
    PROVE  LET places == Places(t, from, Expected(hunk))
               text == ApplyHunk([lines |-> t, from |-> from], hunk)
           IN  /\ \A i : places = {i} =>
                      text = [lines |-> Replaced(t, i, Len(Expected(hunk)), Replacement(hunk)),
                              from |-> i + Len(Replacement(hunk))]
               /\ (\A i : places # {i}) => text = Conflict
  <1> DEFINE places == Places(t, from, Expected(hunk))
             before == [lines |-> t, from |-> from]
             text == ApplyHunk(before, hunk)
             unique == UniquePlace(t, from, hunk)
  <1>1. Candidates(t, from, hunk) = places
    BY PlacesAreCandidates
  <1>2. IsFiniteSet(places)
    <2>1. from \in Int /\ Len(t) \in Int
      OBVIOUS
    <2>2. IsFiniteSet(from .. Len(t))
      BY <2>1, FS_Interval
    <2>3. places \subseteq from .. Len(t)
      BY DEF Places
    <2> QED  BY <2>2, <2>3, FS_Subset
  <1>3. Cardinality(places) = 1 <=> \E i : places = {i}
    BY <1>2, FS_Singleton
  <1>4. unique = IF Cardinality(places) = 1 THEN places ELSE {}
    BY <1>1 DEF UniquePlace
  <1>5. before # Conflict /\ before.lines = t /\ before.from = from
    BY DEF Conflict
  <1>6. ASSUME NEW i, places = {i}
        PROVE  text = [lines |-> Replaced(t, i, Len(Expected(hunk)), Replacement(hunk)),
                       from |-> i + Len(Replacement(hunk))]
    <2>1. unique = {i}
      BY <1>3, <1>4, <1>6
    <2>2. unique # {} /\ (CHOOSE x \in unique : TRUE) = i
      BY <2>1
    <2> HIDE DEF unique, before, places
    <2>3. UniquePlace(before.lines, before.from, hunk) = unique
      BY <1>5 DEF unique
    <2> QED  BY <1>5, <2>2, <2>3 DEF ApplyHunk, Replaced
  <1>7. ASSUME \A i : places # {i}
        PROVE  text = Conflict
    <2>1. unique = {}
      BY <1>3, <1>4, <1>7
    <2> HIDE DEF unique, before, places
    <2>3. UniquePlace(before.lines, before.from, hunk) = unique
      BY <1>5 DEF unique
    <2> QED  BY <2>1, <2>3 DEF ApplyHunk
  <1> QED  BY <1>6, <1>7

\* Behind the place of a replacement, the text is only moved.
LEMMA MovedPlaces ==
    ASSUME NEW W, NEW t \in Seq(W), NEW r \in Seq(W), NEW i \in Nat, NEW n \in Nat, i + n <= Len(t),
           NEW V, NEW old \in Seq(V), NEW j \in Int
    PROVE  j \in Places(t, i + n, old) <=>
           j - n + Len(r) \in Places(Replaced(t, i, n, r), i + Len(r), old)
  <1> DEFINE u == Replaced(t, i, n, r)
             d == Len(r)
             m == Len(old)
             l == Len(t)
  <1>1. /\ Len(u) = l - n + d
        /\ \A k \in i + n + 1 .. l : u[k - n + d] = t[k]
    BY ReplacedLines
  <1>2. l \in Nat /\ d \in Nat /\ m \in Nat
    OBVIOUS
  <1> HIDE DEF u, d, m, l
  <1>3. j \in i + n .. l <=> j - n + d \in i + d .. Len(u)
    BY <1>1, <1>2
  <1>4. j + m <= l <=> j - n + d + m <= Len(u)
    BY <1>1, <1>2
  <1>5. ASSUME j \in i + n .. l, j + m <= l, NEW k \in 1 .. m
        PROVE  u[j - n + d + k] = t[j + k]
    <2>1. j + k \in i + n + 1 .. l /\ j + k - n + d = j - n + d + k
      BY <1>2, <1>5
    <2> QED  BY <1>1, <2>1
  <1>6. j \in Places(t, i + n, old) <=>
            j \in i + n .. l /\ j + m <= l /\ \A k \in 1 .. m : t[j + k] = old[k]
    BY DEF Places, StandsAt, l, m
  <1>7. j - n + d \in Places(u, i + d, old) <=>
            /\ j - n + d \in i + d .. Len(u) /\ j - n + d + m <= Len(u)
            /\ \A k \in 1 .. m : u[j - n + d + k] = old[k]
    BY DEF Places, StandsAt, m
  <1>8. j \in Places(t, i + n, old) <=> j - n + d \in Places(u, i + d, old)
    BY <1>3, <1>4, <1>5, <1>6, <1>7
  <1> QED  BY <1>8 DEF u, d

\* The part of a text, line by line.
LEMMA PartLines ==
    ASSUME NEW W, NEW t \in Seq(W), NEW a \in Nat, NEW b \in Nat, a <= b, b <= Len(t)
    PROVE  LET s == SubSeq(t, a + 1, b) IN
           s \in Seq(W) /\ Len(s) = b - a /\ s = [k \in 1 .. b - a |-> t[a + k]]
  <1>1. Len(t) \in Nat
    OBVIOUS
  <1> QED  BY <1>1

\* A replacement behind a replacement.
SplicedTwice(t, i, n, r, j, p, q) ==
    SubSeq(t, 1, i) \o r \o SubSeq(t, i + n + 1, j) \o q \o SubSeq(t, j + p + 1, Len(t))

LEMMA ReplacedTwice ==
    ASSUME NEW W, NEW t \in Seq(W), NEW r \in Seq(W), NEW q, NEW i \in Nat, NEW n \in Nat,
           NEW j \in Nat, NEW p \in Nat, i + n <= j, j + p <= Len(t)
    PROVE  Replaced(Replaced(t, i, n, r), j - n + Len(r), p, q) = SplicedTwice(t, i, n, r, j, p, q)
  <1> DEFINE u == Replaced(t, i, n, r)
             d == Len(r)
             l == Len(t)
             j1 == j - n + d
             head == SubSeq(t, 1, j)
             left == Replaced(head, i, n, r)
             a == SubSeq(u, 1, j1)
             b == SubSeq(u, j1 + p + 1, Len(u))
             right == SubSeq(t, j + p + 1, l)
  <1>1. l \in Nat /\ d \in Nat /\ i + n <= l /\ j <= l /\ j1 \in Nat /\ j1 + p <= l - n + d /\ i + d <= j1
    OBVIOUS
  <1>2. /\ u \in Seq(W) /\ Len(u) = l - n + d /\ Len(u) \in Nat
        /\ \A k \in 1 .. i : u[k] = t[k]
        /\ \A k \in 1 .. d : u[i + k] = r[k]
        /\ \A k \in i + n + 1 .. l : u[k - n + d] = t[k]
    BY <1>1, ReplacedLines
  <1> HIDE DEF u, d, l
  <1>3. head \in Seq(W) /\ Len(head) = j /\ \A k \in 1 .. j : head[k] = t[k]
    BY <1>1 DEF l
  <1>4. left = SubSeq(t, 1, i) \o r \o SubSeq(t, i + n + 1, j)
    <2>1. SubSeq(head, 1, i) = SubSeq(t, 1, i)
      <3>1. i <= j
        BY <1>1
      <3> QED  BY <1>1, <3>1 DEF l
    <2>2. SubSeq(head, i + n + 1, j) = SubSeq(t, i + n + 1, j)
      BY <1>1 DEF l
    <2> QED  BY <1>3, <2>1, <2>2 DEF Replaced
  <1> HIDE DEF head
  <1>5. /\ left \in Seq(W) /\ Len(left) = j1
        /\ \A k \in 1 .. i : left[k] = head[k]
        /\ \A k \in 1 .. d : left[i + k] = r[k]
        /\ \A k \in i + n + 1 .. j : left[k - n + d] = head[k]
    <2>1. head \in Seq(W) /\ i + n <= Len(head)
      BY <1>3
    <2>2. /\ left \in Seq(W) /\ Len(left) = Len(head) - n + Len(r)
          /\ \A k \in 1 .. i : left[k] = head[k]
          /\ \A k \in 1 .. Len(r) : left[i + k] = r[k]
          /\ \A k \in i + n + 1 .. Len(head) : left[k - n + Len(r)] = head[k]
      BY <2>1, ReplacedLines
    <2> HIDE DEF left
    <2> QED  BY <1>3, <2>2 DEF d
  <1> HIDE DEF left
  <1>6. a = left
    <2>1. a = [k \in 1 .. j1 |-> u[k]]
      BY <1>1, <1>2
    <2>2. left = [k \in 1 .. j1 |-> left[k]]
      BY <1>5
    <2> HIDE DEF a
    <2>3. ASSUME NEW k \in 1 .. j1
          PROVE  u[k] = left[k]
      <3>1. CASE k <= i
        <4>1. k \in 1 .. i /\ k \in 1 .. j
          BY <1>1, <3>1
        <4> QED  BY <1>2, <1>3, <1>5, <4>1
      <3>2. CASE ~(k <= i) /\ k <= i + d
        <4>1. k - i \in 1 .. d /\ i + (k - i) = k
          BY <1>1, <3>2
        <4> QED  BY <1>2, <1>5, <4>1
      <3>3. CASE ~(k <= i + d)
        <4> DEFINE m == k + n - d
        <4>1. m \in i + n + 1 .. j /\ m \in i + n + 1 .. l /\ m - n + d = k /\ m \in 1 .. j
          BY <1>1, <3>3
        <4> HIDE DEF m
        <4>2. u[k] = t[m] /\ left[k] = head[m] /\ head[m] = t[m]
          BY <1>2, <1>3, <1>5, <4>1
        <4> QED  BY <4>2
      <3> QED  BY <3>1, <3>2, <3>3
    <2> QED  BY <2>1, <2>2, <2>3
  <1>7. b = right
    <2> DEFINE z == l - (j + p)
    <2>0. Len(u) = l - n + d
      BY <1>2
    <2>1. z \in Nat /\ Len(u) = j1 + p + z /\ l = j + p + z
      BY <1>1, <2>0 DEF l
    <2>2. right = [k \in 1 .. z |-> t[j + p + k]]
      BY <1>1, <2>1 DEF l
    <2>3. b = [k \in 1 .. z |-> u[j1 + p + k]]
      BY <1>1, <1>2, <2>1
    <2> HIDE DEF z, b, right
    <2>4. ASSUME NEW k \in 1 .. z
          PROVE  u[j1 + p + k] = t[j + p + k]
      <3> DEFINE m == j + p + k
      <3>1. m \in i + n + 1 .. l /\ m - n + d = j1 + p + k
        BY <1>1, <2>1
      <3> HIDE DEF m
      <3>2. u[m - n + d] = t[m]
        BY <1>2, <3>1
      <3> QED  BY <3>1, <3>2 DEF m
    <2> QED  BY <2>2, <2>3, <2>4
  <1>8. Replaced(u, j1, p, q) = a \o q \o b
    BY DEF Replaced
  <1> HIDE DEF a, b, right
  <1>9. Replaced(u, j1, p, q) = left \o q \o right
    BY <1>6, <1>7, <1>8
  <1> QED  BY <1>4, <1>9 DEF u, right, d, l, SplicedTwice

\* Two hunks of any length in a text of any length (patching.py, _apply_hunks): the result
\* keeps what stands before, between and behind two unique places, the second one behind the
\* first, and it is a conflict exactly if there are no such places.
THEOREM HunksSpliceAnyText ==
    ASSUME NEW L, NEW t \in Seq(L), NEW g, NEW h
    PROVE  Splices(t, g, h)
  <1> DEFINE x == Expected(g)
             y == Expected(h)
             r == Replacement(g)
             q == Replacement(h)
             n == Len(x)
             p == Len(y)
             d == Len(r)
             l == Len(t)
             W == L \cup Elements(r)
             one == ApplyHunk([lines |-> t, from |-> 0], g)
             text == ApplyHunks(t, <<g, h>>)
             spliced(i, j) == SplicedTwice(t, i, n, r, j, p, q)
             unique(i, j) == Places(t, 0, x) = {i} /\ Places(t, i + n, y) = {j}
  <1>0. Splices(t, g, h) <=>
            \/ \E i, j \in 0 .. l : unique(i, j) /\ text # Conflict /\ text.lines = spliced(i, j)
            \/ text = Conflict /\ \A i, j \in 0 .. l : ~unique(i, j)
    BY DEF Splices, SplicedTwice
  <1>1. y \in Seq(Elements(y)) /\ r \in Seq(Elements(r)) /\ q \in Seq(Elements(q)) /\ x \in Seq(Elements(x))
    BY KeptSequence DEF Expected, Replacement
  <1>2. text = ApplyHunk(one, h)
    BY TwoHunks
  <1> HIDE DEF x, y, r, q
  <1>3. t \in Seq(W) /\ r \in Seq(W)
    BY <1>1
  <1>4. n \in Nat /\ p \in Nat /\ d \in Nat /\ l \in Nat /\ Len(q) \in Nat
    BY <1>1
  <1> HIDE DEF W, text, n, p, d, l
  <1>5. CASE \A i : Places(t, 0, x) # {i}
    <2>1. one = Conflict
      BY <1>3, <1>5, OneHunk DEF x
    <2>2. text = Conflict
      BY <1>2, <2>1 DEF ApplyHunk
    <2> QED  BY <1>0, <1>5, <2>2
  <1>6. ASSUME NEW i, Places(t, 0, x) = {i}
        PROVE  Splices(t, g, h)
    <2> DEFINE u == Replaced(t, i, n, r)
    <2>1. one = [lines |-> u, from |-> i + d]
      BY <1>3, <1>6, OneHunk DEF x, r, n, d
    <2>2. i \in 0 .. l /\ i \in Nat /\ i + n <= l
      <3>1. i \in Places(t, 0, x)
        BY <1>6
      <3> QED  BY <1>4, <3>1 DEF Places, StandsAt, l, n
    <2>3. u \in Seq(W) /\ i + d \in Nat
      BY <1>3, <1>4, <2>2, ReplacedLines DEF l
    <2>4. \A j \in Int : j \in Places(t, i + n, y) <=> j - n + d \in Places(u, i + d, y)
      BY <1>1, <1>3, <1>4, <2>2, MovedPlaces DEF d, l
    <2>5. /\ \A j : j \in Places(t, i + n, y) => j \in i + n .. l /\ j + p <= l
          /\ \A j : j \in Places(u, i + d, y) => j \in Int
      <3>1. Len(u) \in Nat
        BY <2>3
      <3> HIDE DEF u
      <3> QED  BY <1>4, <2>2, <2>3, <3>1 DEF Places, StandsAt, l, p
    <2> HIDE DEF u, one
    <2>6. CASE \A j : Places(u, i + d, y) # {j}
      <3>1. text = Conflict
        BY <1>2, <2>1, <2>3, <2>6, OneHunk DEF y
      <3>2. ASSUME NEW j, Places(t, i + n, y) = {j}
            PROVE  FALSE
        <4>1. j \in Int
          BY <1>4, <2>2, <2>5, <3>2
        <4>2. ASSUME NEW k PROVE k \in Places(u, i + d, y) <=> k = j - n + d
          <5>1. CASE k \in Int
            <6>1. k + n - d \in Int /\ (k + n - d) - n + d = k
              BY <1>4, <5>1
            <6>2. k + n - d \in Places(t, i + n, y) <=> k \in Places(u, i + d, y)
              BY <2>4, <6>1
            <6>3. k + n - d = j <=> k = j - n + d
              BY <1>4, <4>1, <5>1
            <6> QED  BY <3>2, <6>2, <6>3
          <5>2. CASE k \notin Int
            <6>1. j - n + d \in Int
              BY <1>4, <4>1
            <6> QED  BY <2>5, <5>2, <6>1
          <5> QED  BY <5>1, <5>2
        <4>3. Places(u, i + d, y) = {j - n + d}
          BY <4>2
        <4> QED  BY <2>6, <4>3
      <3>3. \A a, b \in 0 .. l : ~unique(a, b)
        BY <1>6, <3>2
      <3> QED  BY <1>0, <3>1, <3>3
    <2>7. ASSUME NEW j1, Places(u, i + d, y) = {j1}
          PROVE  Splices(t, g, h)
      <3> DEFINE j == j1 + n - d
      <3>1. j1 \in Int /\ j \in Int /\ j - n + d = j1
        <4>1. j1 \in Places(u, i + d, y)
          BY <2>7
        <4>2. j1 \in Int
          BY <2>5, <4>1
        <4> QED  BY <1>4, <4>2
      <3>2. Places(t, i + n, y) = {j}
        <4>1. ASSUME NEW k PROVE k \in Places(t, i + n, y) <=> k = j
          <5>1. CASE k \in Int
            <6>1. k \in Places(t, i + n, y) <=> k - n + d = j1
              BY <2>4, <2>7, <5>1
            <6> QED  BY <1>4, <3>1, <5>1, <6>1
          <5>2. CASE k \notin Int
            <6>1. k \notin i + n .. l
              BY <1>4, <2>2, <5>2
            <6> QED  BY <2>5, <3>1, <5>2, <6>1
          <5> QED  BY <5>1, <5>2
        <4> HIDE DEF j
        <4> QED  BY <4>1
      <3> HIDE DEF j
      <3>3. j \in i + n .. l /\ j + p <= l /\ j \in Nat /\ j \in 0 .. l
        <4>1. j \in Places(t, i + n, y)
          BY <3>2
        <4>2. j \in i + n .. l /\ j + p <= l
          BY <2>5, <4>1
        <4> QED  BY <1>4, <2>2, <3>1, <4>2
      <3>4. text = [lines |-> Replaced(u, j1, p, q), from |-> j1 + Len(q)]
        BY <1>2, <2>1, <2>3, <2>7, OneHunk DEF y, q, p
      <3>5. Replaced(u, j1, p, q) = spliced(i, j)
        <4>1. i + n <= j /\ j + p <= Len(t)
          BY <1>4, <2>2, <3>1, <3>3 DEF l
        <4>2. Replaced(Replaced(t, i, n, r), j - n + Len(r), p, q) = spliced(i, j)
          <5>1. t \in Seq(W) /\ r \in Seq(W) /\ i \in Nat /\ n \in Nat /\ j \in Nat /\ p \in Nat
            BY <1>3, <1>4, <2>2, <3>3
          <5> QED  BY <4>1, <5>1, ReplacedTwice
        <4> QED  BY <3>1, <4>2 DEF u, d
      <3>6. text # Conflict
        <4>1. j1 + Len(q) >= 0 /\ j1 + Len(q) \in Int
          BY <1>4, <2>2, <3>1, <3>3
        <4> QED  BY <3>4, <4>1 DEF Conflict
      <3>7. text.lines = spliced(i, j)
        BY <3>4, <3>5
      <3>8. unique(i, j)
        BY <1>6, <3>2
      <3> QED  BY <1>0, <2>2, <3>3, <3>6, <3>7, <3>8
    <2> QED  BY <2>6, <2>7
  <1> QED  BY <1>5, <1>6

\* Hunks only replace what they quote (patching.py, _apply_hunks): in every behaviour, the
\* chosen text with its two hunks becomes the spliced text, or a conflict.
THEOREM HunksAreSpliced == WorkSpec => []HunksSplice
  <1> DEFINE Chosen == sample # NoSample => \E t \in Texts, g, h \in SomeHunks : sample = <<t, g, h>>
  <1>1. WorkInit => Chosen
    BY DEF WorkInit
  <1>2. Chosen /\ [WorkNext]_workVars => Chosen'
    BY DEF WorkNext, workVars
  <1>3. Chosen => HunksSplice
    <2>1. \A t \in Texts : t \in Seq({"a", "b"})
      <3> SUFFICES ASSUME NEW t \in Texts PROVE t \in Seq({"a", "b"})
        OBVIOUS
      <3>1. PICK n \in 0 .. 4 : t \in [1 .. n -> {"a", "b"}]
        BY DEF Texts
      <3> QED  BY <3>1
    <2> QED  BY <2>1, HunksSpliceAnyText DEF HunksSplice
  <1> QED  BY <1>1, <1>2, <1>3, PTL DEF WorkSpec
=============================================================================
