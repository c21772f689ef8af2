---------------------------- MODULE RelayProofs -----------------------------
(***************************************************************************)
(* What the relay's parts promise, for every value of their constants: the *)
(* limits of admission, one grant per authorization, the presence of a     *)
(* device, the guards of the public endpoints, the pages of the project    *)
(* list, and the permissions of the tools.                                 *)
(***************************************************************************)
EXTENDS MCRelay, FiniteSetTheorems, SequenceTheorems, WellFoundedInduction, TLAPS

-----------------------------------------------------------------------------
(* Numbers, sets and sequences.                                            *)

\* A set of numbers that is not empty has a least one.
LEMMA LeastNumber ==
    ASSUME NEW S, S \subseteq Nat, S # {}
    PROVE  \E n \in S : \A m \in S : n <= m
  <1> DEFINE R == {ss \in Nat \X Nat : ss[1] < ss[2]}
  <1>0. IsWellFoundedOn(R, Nat)
    BY NatLessThanWellFounded, Zenon DEF OpToRel
  <1>1. \E x \in S : \A y \in S : ~ (<<y, x>> \in R)
    <2> HIDE DEF R
    <2> QED BY <1>0, WFMin
  <1>2. \A x, y \in Nat : <<y, x>> \in R <=> y < x
    OBVIOUS
  <1> HIDE DEF R
  <1>3. PICK x \in S : \A y \in S : ~ (<<y, x>> \in R)
    BY <1>1
  <1>4. \A y \in S : ~ (y < x) /\ x \in Nat /\ y \in Nat
    BY <1>2, <1>3
  <1>5. \A y \in S : x <= y
    BY <1>4
  <1> QED  BY <1>3, <1>5

\* What is alike in every element has one element at most.
LEMMA AtMostOne ==
    ASSUME NEW S, \A x, y \in S : x = y
    PROVE  Cardinality(S) <= 1
  <1>1. CASE S = {}
    <2>1. Cardinality({}) = 0
      BY FS_EmptySet
    <2>2. Cardinality(S) = 0
      BY <1>1, <2>1, Zenon
    <2> QED  BY <2>2
  <1>2. CASE S # {}
    <2>1. PICK x \in S : TRUE
      BY <1>2
    <2>2. S = {x}
      BY <2>1
    <2>3. Cardinality({x}) = 1
      BY FS_Singleton
    <2>4. Cardinality(S) = 1
      BY <2>2, <2>3, Zenon
    <2> QED  BY <2>4
  <1> QED  BY <1>1, <1>2

\* What appending to a sequence makes of it.
LEMMA AppendFacts ==
    ASSUME NEW S, NEW s \in Seq(S), NEW x \in S
    PROVE  LET t == Append(s, x)
           IN  /\ t \in Seq(S) /\ Len(t) = Len(s) + 1 /\ t[Len(s) + 1] = x
               /\ \A i \in 1 .. Len(s) : t[i] = s[i]
  OBVIOUS

\* The last element of a sequence is that of its tail, or its head.
LEMMA TailKeepsLast ==
    ASSUME NEW S, NEW s \in Seq(S), s # <<>>, NEW t, t = Tail(s)
    PROVE  /\ t \in Seq(S)
           /\ t # <<>> => t[Len(t)] = s[Len(s)]
           /\ t = <<>> => Head(s) = s[Len(s)]
  <1>1. /\ t \in Seq(S) /\ Len(t) = Len(s) - 1 /\ Len(s) \in Nat /\ Len(t) \in Nat
        /\ \A i \in 1 .. Len(t) : t[i] = s[i + 1]
    BY HeadTailProperties
  <1>2. Head(s) = s[1]
    OBVIOUS
  <1>3. t # <<>> => Len(t) \in 1 .. Len(t)
    BY <1>1
  <1>4. t = <<>> => Len(s) = 1
    BY <1>1
  <1> QED  BY <1>1, <1>2, <1>3, <1>4

-----------------------------------------------------------------------------
(* Admission: tool calls that arrive together.                             *)

PendingOf(s) == {i \in DOMAIN s : s[i].status \in Pending}

-----------------------------------------------------------------------------
\* The rows: what each kind of step does to the table.

\* No step but admission creates a row or makes an ended row pending again, and
\* none changes the key or the action of a row.
Quiet ==
    /\ ops' \in Seq(OperationRow) /\ Len(ops') = Len(ops)
    /\ \A i \in DOMAIN ops : /\ ops'[i].key = ops[i].key /\ ops'[i].action = ops[i].action
                             /\ ops'[i].status \in Pending => ops[i].status \in Pending

\* A row is created for a call whose key has none, when the queue has room.
Creates(r) ==
    /\ calls[r].at = "admitting" /\ OfKey(r) = {} /\ PendingCount < QueueLimit
    /\ ops' = Append(ops, NewOp(r))
    /\ calls' = [calls EXCEPT ![r].at = "created", ![r].op = Len(ops) + 1]
    /\ online' = online

\* A row of the table with another status, result or error is a row.
LEMMA RowUpdated ==
    ASSUME NEW s \in Seq(OperationRow), NEW i \in DOMAIN s,
           NEW row \in OperationRow, row.key = s[i].key, row.action = s[i].action,
           row.status \in Pending => s[i].status \in Pending
    PROVE  LET t == [s EXCEPT ![i] = row]
           IN  /\ t \in Seq(OperationRow) /\ Len(t) = Len(s)
               /\ \A j \in DOMAIN s : /\ t[j].key = s[j].key /\ t[j].action = s[j].action
                                      /\ t[j].status \in Pending => s[j].status \in Pending
  OBVIOUS

\* The pending rows are finitely many.
LEMMA PendingFinite ==
    ASSUME AdmissionTypeOK
    PROVE  IsFiniteSet(PendingOf(ops)) /\ Cardinality(PendingOf(ops)) \in Nat
  <1>1. DOMAIN ops = 1 .. Len(ops) /\ Len(ops) \in Nat
    BY DEF AdmissionTypeOK
  <1>2. IsFiniteSet(1 .. Len(ops))
    BY <1>1, FS_Interval
  <1> QED  BY <1>1, <1>2, FS_Subset, FS_CardinalityType DEF PendingOf

\* A call that keeps its row, loses it, or is answered from a row of its action.
Points(r) ==
    \/ calls'[r].op = calls[r].op
    \/ calls'[r].op = 0
    \/ calls'[r].op \in DOMAIN ops /\ ops[calls'[r].op].action = Action[r]

\* The calls after a step that creates no row.
Settles == calls' \in [Calls -> CallRecord] /\ \A r \in Calls :
    Points(r) /\ (calls'[r].at \in {"created", "waiting"} => calls'[r].op # 0)

\* A call that changes keeps the rows and the types, whatever it now waits for.
LEMMA CallSettles ==
    ASSUME AdmissionTypeOK, NEW r \in Calls, NEW c \in CallRecord,
           calls' = [calls EXCEPT ![r] = c],
           c.op = calls[r].op \/ c.op = 0 \/ (c.op \in DOMAIN ops /\ ops[c.op].action = Action[r]),
           c.at \in {"created", "waiting"} => c.op # 0
    PROVE  Settles
  <1>1. calls \in [Calls -> CallRecord]
    BY DEF AdmissionTypeOK
  <1>2. calls' \in [Calls -> CallRecord]
    BY <1>1
  <1>3. ASSUME NEW s \in Calls
        PROVE  Points(s) /\ (calls'[s].at \in {"created", "waiting"} => calls'[s].op # 0)
    <2>1. CASE s = r
      <3>1. calls'[s] = c
        BY <1>1, <2>1
      <3> QED  BY <2>1, <3>1 DEF Points
    <2>2. CASE s # r
      <3>1. calls'[s] = calls[s]
        BY <1>1, <2>2
      <3>2. calls[s].at \in {"created", "waiting"} => calls[s].op # 0
        BY DEF AdmissionTypeOK
      <3> QED  BY <3>1, <3>2 DEF Points
    <2> QED  BY <2>1, <2>2
  <1> QED  BY <1>2, <1>3 DEF Settles

\* A call goes on to another step ...
LEMMA GoesSettles ==
    ASSUME AdmissionTypeOK, NEW r \in Calls,
           NEW at \in {"routed", "admitting", "waiting", "abandoned"},
           at = "waiting" => calls[r].op # 0, Goes(r, at)
    PROVE  Settles
  <1> DEFINE c == [calls[r] EXCEPT !.at = at]
  <1>1. calls[r] \in CallRecord
    BY DEF AdmissionTypeOK
  <1>2. c \in CallRecord /\ c.op = calls[r].op /\ c.at = at
    BY <1>1 DEF CallRecord
  <1>3. calls' = [calls EXCEPT ![r] = c]
    BY DEF Goes
  <1>4. c.at \in {"created", "waiting"} => c.op # 0
    BY <1>2
  <1> HIDE DEF c
  <1> QED  BY <1>2, <1>3, <1>4, CallSettles

\* ... or is answered.
LEMMA AnswersSettles ==
    ASSUME AdmissionTypeOK, NEW r \in Calls, NEW i \in Nat, NEW answer \in Codes,
           i = 0 \/ i = calls[r].op \/ (i \in DOMAIN ops /\ ops[i].action = Action[r]),
           Answers(r, i, answer)
    PROVE  Settles
  <1> DEFINE c == [at |-> "answered", op |-> i, answer |-> answer]
  <1>1. c \in CallRecord /\ c.op = i /\ c.at = "answered"
    BY DEF CallRecord
  <1>2. calls' = [calls EXCEPT ![r] = c]
    BY DEF Answers
  <1>3. c.at \in {"created", "waiting"} => c.op # 0
    BY <1>1
  <1> HIDE DEF c
  <1> QED  BY <1>1, <1>2, <1>3, CallSettles

\* An earlier row answers a call only if it is of the same action.
LEMMA EarlierSettles ==
    ASSUME AdmissionTypeOK, NEW r \in Calls, NEW i \in OfKey(r), FromEarlier(r, i)
    PROVE  Settles
  <1>1. i \in DOMAIN ops /\ i \in Nat /\ ops[i] \in OperationRow
    BY DEF OfKey, AdmissionTypeOK
  <1>2. Repeated(ops[i]) \in Codes
    BY <1>1 DEF Repeated, OperationRow, Codes
  <1>3. CASE Conflict(r, i)
    <2>1. Answers(r, 0, "idempotency_conflict")
      BY <1>3 DEF FromEarlier
    <2> QED  BY <2>1, AnswersSettles DEF Codes
  <1>4. CASE ~Conflict(r, i)
    BY <1>1, <1>2, <1>4, AnswersSettles DEF FromEarlier, Conflict
  <1> QED  BY <1>3, <1>4

\* Rows that stay are rows on which nothing happened.
LEMMA SameRowsQuiet ==
    ASSUME AdmissionTypeOK, ops' = ops
    PROVE  Quiet
  BY DEF AdmissionTypeOK, Quiet

\* Every step creates a row under the lock or leaves the rows as they are but for
\* their way from pending to ended.
LEMMA StepCases ==
    ASSUME AdmissionTypeOK, [AdmissionNext]_admissionVars
    PROVE  \/ online' \in BOOLEAN /\ Quiet /\ Settles
           \/ \E r \in Calls : Creates(r)
  <1>1. CASE UNCHANGED admissionVars
    BY <1>1, SameRowsQuiet DEF admissionVars, AdmissionTypeOK, Settles, Points
  <1>2. CASE DeviceStatus
    BY <1>2, SameRowsQuiet DEF DeviceStatus, AdmissionTypeOK, Settles, Points
  <1>3. ASSUME NEW r \in Calls, LookupRoute(r) PROVE online' \in BOOLEAN /\ Quiet /\ Settles
    <2>1. online' \in BOOLEAN /\ Quiet
      BY <1>3, SameRowsQuiet DEF LookupRoute, AdmissionTypeOK
    <2>2. CASE online
      <3>1. Goes(r, "routed")
        BY <1>3, <2>2 DEF LookupRoute
      <3> QED  BY <2>1, <3>1, GoesSettles
    <2>3. CASE ~online
      <3>1. Answers(r, 0, "device_offline")
        BY <1>3, <2>3 DEF LookupRoute
      <3> QED  BY <2>1, <3>1, AnswersSettles DEF Codes
    <2> QED  BY <2>1, <2>2, <2>3
  <1>4. ASSUME NEW r \in Calls, FirstLook(r) PROVE online' \in BOOLEAN /\ Quiet /\ Settles
    <2>1. online' \in BOOLEAN /\ Quiet
      BY <1>4, SameRowsQuiet DEF FirstLook, AdmissionTypeOK
    <2>2. CASE OfKey(r) # {}
      <3>1. PICK i \in OfKey(r) : FromEarlier(r, i)
        BY <1>4, <2>2 DEF FirstLook
      <3> QED  BY <2>1, <3>1, EarlierSettles
    <2>3. CASE OfKey(r) = {}
      <3>1. Goes(r, "admitting")
        BY <1>4, <2>3 DEF FirstLook
      <3> QED  BY <2>1, <3>1, GoesSettles
    <2> QED  BY <2>1, <2>2, <2>3
  <1>5. ASSUME NEW r \in Calls, Admit(r)
        PROVE  \/ online' \in BOOLEAN /\ Quiet /\ Settles
               \/ Creates(r)
    <2>1. CASE OfKey(r) # {}
      <3>1. online' \in BOOLEAN /\ Quiet
        BY <1>5, <2>1, SameRowsQuiet DEF Admit, AdmissionTypeOK
      <3>2. PICK i \in OfKey(r) : FromEarlier(r, i)
        BY <1>5, <2>1 DEF Admit, SecondLook
      <3> QED  BY <3>1, <3>2, EarlierSettles
    <2>2. CASE OfKey(r) = {} /\ PendingCount >= QueueLimit
      <3>1. online' \in BOOLEAN /\ Quiet
        BY <1>5, <2>2, SameRowsQuiet DEF Admit, AdmissionTypeOK
      <3>2. Answers(r, 0, "device_queue_full")
        BY <1>5, <2>2 DEF Admit
      <3> QED  BY <3>1, <3>2, AnswersSettles DEF Codes
    <2>3. CASE OfKey(r) = {} /\ ~(PendingCount >= QueueLimit)
      <3>1. PendingCount \in Nat
        BY PendingFinite DEF PendingCount, PendingOf
      <3>2. PendingCount < QueueLimit
        BY <2>3, <3>1, AdmissionConstants
      <3> QED  BY <1>5, <2>3, <3>2 DEF Admit, Creates
    <2> QED  BY <2>1, <2>2, <2>3
  <1>6. ASSUME NEW r \in Calls, MarkDispatched(r) PROVE online' \in BOOLEAN /\ Quiet /\ Settles
    <2>1. calls[r].op # 0 /\ calls[r].op \in DOMAIN ops
      BY <1>6 DEF MarkDispatched, AdmissionTypeOK
    <2> DEFINE i == calls[r].op
               row == [ops[i] EXCEPT !.status = IF @ = "accepted" THEN "dispatched" ELSE @]
    <2>2. ops[i] \in OperationRow
      BY <2>1 DEF AdmissionTypeOK
    <2>3. row \in OperationRow /\ row.key = ops[i].key /\ row.action = ops[i].action
          /\ (row.status \in Pending => ops[i].status \in Pending)
      BY <2>2 DEF OperationRow, Pending, Ended
    <2>4. ops' = [ops EXCEPT ![i] = row]
      BY <1>6 DEF MarkDispatched
    <2>5. Quiet
      BY <2>1, <2>3, <2>4, RowUpdated DEF Quiet, AdmissionTypeOK
    <2>6. Settles
      BY <1>6, <2>1, GoesSettles DEF MarkDispatched
    <2> QED  BY <1>6, <2>5, <2>6 DEF MarkDispatched, AdmissionTypeOK
  <1>7. ASSUME NEW r \in Calls, EndWait(r) PROVE online' \in BOOLEAN /\ Quiet /\ Settles
    <2> DEFINE i == calls[r].op
               row(code) == [ops[i] EXCEPT !.error = code,
                                !.status = IF code = "outcome_unknown" THEN code ELSE "failed"]
    <2>1. i # 0 /\ i \in DOMAIN ops /\ i \in Nat /\ ops[i] \in OperationRow
      BY <1>7 DEF EndWait, AdmissionTypeOK, CallRecord
    <2>2. online' \in BOOLEAN
      BY <1>7 DEF EndWait, AdmissionTypeOK
    <2>3. CASE Answers(r, i, "result") /\ UNCHANGED ops
      BY <2>1, <2>2, <2>3, AnswersSettles, SameRowsQuiet DEF Codes
    <2>4. ASSUME NEW code \in {"relay_unavailable", "outcome_unknown"}, Answers(r, i, code),
                 ops' = IF ops[i].status \in Pending THEN [ops EXCEPT ![i] = row(code)] ELSE ops
          PROVE  Quiet /\ Settles
      <3>1. Settles
        BY <2>1, <2>4, AnswersSettles DEF Codes
      <3>2. CASE ops[i].status \in Pending
        <4>1. row(code) \in OperationRow /\ row(code).key = ops[i].key
              /\ row(code).action = ops[i].action
          BY <2>1 DEF OperationRow, Ended, Codes
        <4>2. ops' = [ops EXCEPT ![i] = row(code)]
          BY <2>4, <3>2
        <4> QED  BY <2>1, <3>1, <3>2, <4>1, <4>2, RowUpdated DEF Quiet, AdmissionTypeOK
      <3>3. CASE ops[i].status \notin Pending
        BY <2>4, <3>1, <3>3, SameRowsQuiet
      <3> QED  BY <3>2, <3>3
    <2>5. \/ Answers(r, i, "result") /\ UNCHANGED ops
          \/ \E code \in {"relay_unavailable", "outcome_unknown"} :
                /\ Answers(r, i, code)
                /\ ops' = IF ops[i].status \in Pending THEN [ops EXCEPT ![i] = row(code)] ELSE ops
      BY <1>7 DEF EndWait
    <2> QED  BY <2>2, <2>3, <2>4, <2>5
  <1>8. ASSUME NEW r \in Calls, Abandoned(r) PROVE online' \in BOOLEAN /\ Quiet /\ Settles
    BY <1>8, SameRowsQuiet, GoesSettles DEF Abandoned, AdmissionTypeOK
  <1>9. ASSUME NEW i \in DOMAIN ops, DeviceReports(i)
        PROVE  online' \in BOOLEAN /\ Quiet /\ Settles
    <2> DEFINE moved == [ops[i] EXCEPT !.status = IF @ = "dispatched" THEN "received" ELSE "running"]
               ended == [ops[i] EXCEPT !.status = "succeeded", !.result = TRUE]
    <2>1. ops[i] \in OperationRow /\ ops[i].status \in Pending
      BY <1>9 DEF DeviceReports, AdmissionTypeOK
    <2>2. /\ moved \in OperationRow /\ moved.key = ops[i].key /\ moved.action = ops[i].action
          /\ ended \in OperationRow /\ ended.key = ops[i].key /\ ended.action = ops[i].action
      BY <2>1 DEF OperationRow, Pending, Ended
    <2>3. ops' = [ops EXCEPT ![i] = moved] \/ ops' = [ops EXCEPT ![i] = ended]
      BY <1>9 DEF DeviceReports
    <2>4. Quiet
      <3>1. ops \in Seq(OperationRow)
        BY DEF AdmissionTypeOK
      <3>2. CASE ops' = [ops EXCEPT ![i] = moved]
        <4> HIDE DEF moved
        <4> QED  BY <2>1, <2>2, <3>1, <3>2, RowUpdated DEF Quiet
      <3>3. CASE ops' = [ops EXCEPT ![i] = ended]
        <4> HIDE DEF ended
        <4> QED  BY <2>1, <2>2, <3>1, <3>3, RowUpdated DEF Quiet
      <3> QED  BY <2>3, <3>2, <3>3
    <2>5. online' \in BOOLEAN /\ Settles
      BY <1>9 DEF DeviceReports, AdmissionTypeOK, Settles, Points
    <2> QED  BY <2>4, <2>5
  <1> QED
    BY <1>1, <1>2, <1>3, <1>4, <1>5, <1>6, <1>7, <1>8, <1>9 DEF AdmissionNext

-----------------------------------------------------------------------------
\* The inductive invariant: the properties need the types and that a call's row exists.
AdmissionInv == AdmissionTypeOK /\ AdmissionSafe

\* The invariant holds at first.
LEMMA InitInv == AdmissionInit => AdmissionInv
  <1> SUFFICES ASSUME AdmissionInit PROVE AdmissionInv
    OBVIOUS
  <1>1. ops = <<>> /\ DOMAIN ops = {} /\ \A r \in Calls : calls[r].op = 0 /\ calls[r].at = "start"
    BY DEF AdmissionInit
  <1>2. AdmissionTypeOK
    <2>1. calls \in [Calls -> CallRecord] /\ online \in BOOLEAN
      BY DEF AdmissionInit, CallRecord, Codes
    <2>2. ops \in Seq(OperationRow)
      BY <1>1
    <2> QED  BY <1>1, <2>1, <2>2 DEF AdmissionTypeOK
  <1>3. {i \in DOMAIN ops : ops[i].status \in Pending} = {}
    BY <1>1
  <1>4. PendingBounded
    <2>1. Cardinality({}) = 0
      BY FS_EmptySet
    <2>2. 0 <= QueueLimit
      BY AdmissionConstants
    <2>3. Cardinality({i \in DOMAIN ops : ops[i].status \in Pending}) = 0
      BY <1>3, <2>1, Zenon
    <2> QED  BY <2>2, <2>3 DEF PendingBounded
  <1> QED  BY <1>1, <1>2, <1>4 DEF AdmissionInv, AdmissionSafe, KeyOnce, AnsweredOwnAction

\* A step that creates no row.
LEMMA QuietKeeps ==
    ASSUME AdmissionInv, online' \in BOOLEAN, Quiet, Settles
    PROVE  AdmissionInv'
  <1>1. AdmissionTypeOK /\ PendingBounded /\ KeyOnce /\ AnsweredOwnAction
    BY DEF AdmissionInv, AdmissionSafe
  <1>2. DOMAIN ops' = DOMAIN ops
    BY <1>1 DEF Quiet, AdmissionTypeOK
  <1>3. ASSUME NEW r \in Calls
        PROVE  /\ calls'[r].op # 0 => calls'[r].op \in DOMAIN ops
               /\ calls'[r].op # 0 => ops[calls'[r].op].action = Action[r]
    BY <1>1, <1>3 DEF Settles, Points, AdmissionTypeOK, AnsweredOwnAction
  <1>4. AdmissionTypeOK'
    BY <1>2, <1>3 DEF AdmissionTypeOK, Quiet, Settles
  <1>5. PendingBounded'
    <2>1. PendingOf(ops') \subseteq PendingOf(ops)
      BY <1>2 DEF PendingOf, Quiet
    <2>2. Cardinality(PendingOf(ops')) <= Cardinality(PendingOf(ops))
      BY <1>1, <2>1, PendingFinite, FS_Subset
    <2>3. Cardinality(PendingOf(ops')) \in Nat
      BY <1>1, <2>1, PendingFinite, FS_Subset, FS_CardinalityType
    <2> QED
      BY <1>1, <2>2, <2>3, PendingFinite, AdmissionConstants DEF PendingBounded, PendingOf
  <1>6. KeyOnce'
    BY <1>1, <1>2 DEF KeyOnce, Quiet
  <1>7. AnsweredOwnAction'
    BY <1>3 DEF AnsweredOwnAction, Quiet
  <1> QED  BY <1>4, <1>5, <1>6, <1>7 DEF AdmissionInv, AdmissionSafe

\* A row that is created under the lock.
LEMMA CreateKeeps ==
    ASSUME AdmissionInv, NEW r \in Calls, Creates(r)
    PROVE  AdmissionInv'
  <1>1. AdmissionTypeOK /\ PendingBounded /\ KeyOnce /\ AnsweredOwnAction
    BY DEF AdmissionInv, AdmissionSafe
  <1> DEFINE n == Len(ops) + 1
  <1>2. /\ ops \in Seq(OperationRow) /\ Len(ops) \in Nat /\ DOMAIN ops = 1 .. Len(ops)
        /\ calls \in [Calls -> CallRecord]
    BY <1>1 DEF AdmissionTypeOK
  <1>3. NewOp(r) \in OperationRow /\ NewOp(r).key = Key[r] /\ NewOp(r).action = Action[r]
        /\ NewOp(r).status \in Pending
    BY AdmissionConstants DEF NewOp, OperationRow, Pending, Ended, Codes
  <1>4. ops' = Append(ops, NewOp(r))
    BY DEF Creates
  <1>5. /\ ops' \in Seq(OperationRow) /\ Len(ops') = n /\ DOMAIN ops' = DOMAIN ops \cup {n}
        /\ ops'[n] = NewOp(r) /\ n \notin DOMAIN ops /\ n \in Nat \ {0}
        /\ \A i \in DOMAIN ops : ops'[i] = ops[i]
    BY <1>2, <1>3, <1>4
  <1> HIDE DEF n
  <1>6. /\ calls' \in [Calls -> CallRecord] /\ calls'[r].op = n
        /\ \A s \in Calls : s # r => calls'[s] = calls[s]
    BY <1>2, <1>5 DEF Creates, CallRecord, n
  <1>7. AdmissionTypeOK'
    <2>1. ASSUME NEW s \in Calls
          PROVE  /\ calls'[s].op # 0 => calls'[s].op \in DOMAIN ops'
                 /\ calls'[s].at \in {"created", "waiting"} => calls'[s].op # 0
      BY <1>1, <1>5, <1>6 DEF AdmissionTypeOK
    <2>2. online' \in BOOLEAN
      BY <1>1 DEF Creates, AdmissionTypeOK
    <2> QED  BY <1>5, <1>6, <2>1, <2>2 DEF AdmissionTypeOK
  <1>8. PendingBounded'
    <2>1. PendingOf(ops') = PendingOf(ops) \cup {n} /\ n \notin PendingOf(ops)
      BY <1>3, <1>5 DEF PendingOf
    <2>2. Cardinality(PendingOf(ops')) = Cardinality(PendingOf(ops)) + 1
      BY <1>1, <2>1, PendingFinite, FS_AddElement
    <2>3. Cardinality(PendingOf(ops)) < QueueLimit
      BY DEF Creates, PendingCount, PendingOf
    <2> QED
      BY <1>1, <2>2, <2>3, PendingFinite, AdmissionConstants DEF PendingBounded, PendingOf
  <1>9. KeyOnce'
    <2>1. ASSUME NEW i \in DOMAIN ops, Key[r] # 0 PROVE ops[i].key # Key[r]
      BY <2>1 DEF Creates, OfKey
    <2> QED  BY <1>1, <1>3, <1>5, <2>1 DEF KeyOnce
  <1>10. AnsweredOwnAction'
    <2>1. ASSUME NEW s \in Calls, calls'[s].op # 0
          PROVE  ops'[calls'[s].op].action = Action[s]
      <3>1. CASE s = r
        BY <1>3, <1>5, <1>6, <3>1
      <3>2. CASE s # r
        BY <1>1, <1>5, <1>6, <2>1, <3>2 DEF AdmissionTypeOK, AnsweredOwnAction
      <3> QED  BY <3>1, <3>2
    <2> QED  BY <2>1 DEF AnsweredOwnAction
  <1> QED  BY <1>7, <1>8, <1>9, <1>10 DEF AdmissionInv, AdmissionSafe

\* The invariant holds, so calls that are admitted together respect the queue limit,
\* share one operation per key and are answered for their own action, however many
\* calls, keys and actions there are and whatever the limit is.
THEOREM AdmissionIsSafe == AdmissionSpec => []AdmissionSafe
  <1>1. AdmissionInv /\ [AdmissionNext]_admissionVars => AdmissionInv'
    <2> SUFFICES ASSUME AdmissionInv, [AdmissionNext]_admissionVars PROVE AdmissionInv'
      OBVIOUS
    <2>1. AdmissionTypeOK
      BY DEF AdmissionInv
    <2> QED  BY <2>1, StepCases, QuietKeeps, CreateKeeps
  <1>2. AdmissionInv => AdmissionSafe
    BY DEF AdmissionInv
  <1> QED  BY InitInv, <1>1, <1>2, PTL DEF AdmissionSpec

-----------------------------------------------------------------------------
(* Grants: one authorization and its rotating refresh tokens.              *)

PairRecord == [refresh : BOOLEAN, access : BOOLEAN, grant : Nat, bindingRevoked : BOOLEAN]

RequestStates ==
    {"idle", "validated", "saved", "binding", "bound", "answered", "refused", "died"}

RequestRecord == [at : RequestStates, using : Nat, made : Nat]

FamilyTypeOK ==
    /\ pairs \in Seq(PairRecord)
    /\ reqs \in [Requests -> RequestRecord]
    /\ family \in Nat /\ grants \subseteq Nat
    /\ revoked \subseteq {"device", "link"}

\* A request that is to rotate or to bind a pair names one that was issued.
RequestsPoint ==
    \A r \in Requests : /\ reqs[r].at = "validated" => reqs[r].using \in DOMAIN pairs
                        /\ reqs[r].at \in {"saved", "binding"} => reqs[r].made \in DOMAIN pairs

\* Of all pairs one at most has a refresh token that was not consumed.
OneLive == \A j, k \in DOMAIN pairs : pairs[j].refresh /\ pairs[k].refresh => j = k

\* The family row, once made, names the only grant there is.
OneGrant == IF family = 0 THEN grants = {} ELSE grants = {family}

FamilyInv == FamilyTypeOK /\ RequestsPoint /\ OneLive /\ OneGrant

\* The pairs after a step that issues none: the same pairs, of which none gets a
\* refresh token back.
Withdraws(s) ==
    /\ s \in Seq(PairRecord) /\ Len(s) = Len(pairs)
    /\ \A k \in DOMAIN pairs : s[k].refresh => pairs[k].refresh

\* A pair that changes gives no refresh token back.
LEMMA PairUpdated ==
    ASSUME FamilyTypeOK, NEW k \in DOMAIN pairs, NEW p \in PairRecord,
           p.refresh => pairs[k].refresh
    PROVE  Withdraws([pairs EXCEPT ![k] = p])
  BY DEF FamilyTypeOK, Withdraws

\* What only withdraws tokens leaves at most one live pair.
LEMMA PairsWithdrawn ==
    ASSUME FamilyInv, Withdraws(pairs')
    PROVE  OneLive' /\ DOMAIN pairs' = DOMAIN pairs /\ pairs' \in Seq(PairRecord)
  BY DEF FamilyInv, FamilyTypeOK, OneLive, Withdraws

\* A family whose tokens are all revoked is a sequence of pairs.
LEMMA RevokeFamilyWithdraws ==
    ASSUME FamilyTypeOK
    PROVE  Withdraws(RevokeFamily)
  <1>1. pairs \in Seq(PairRecord) /\ DOMAIN pairs = 1 .. Len(pairs) /\ Len(pairs) \in Nat
    BY DEF FamilyTypeOK
  <1>2. \A k \in DOMAIN pairs : pairs[k] \in PairRecord
    BY <1>1
  <1>3. \A k \in DOMAIN pairs : [pairs[k] EXCEPT !.refresh = FALSE, !.access = FALSE] \in PairRecord
    BY <1>2 DEF PairRecord
  <1>4. \A k \in DOMAIN pairs : ~[pairs[k] EXCEPT !.refresh = FALSE, !.access = FALSE].refresh
    BY <1>2 DEF PairRecord
  <1>5. RevokeFamily \in [1 .. Len(pairs) -> PairRecord]
    BY <1>1, <1>3 DEF RevokeFamily
  <1>6. RevokeFamily \in Seq(PairRecord) /\ Len(RevokeFamily) = Len(pairs)
    BY <1>1, <1>5
  <1>7. \A k \in DOMAIN pairs : ~RevokeFamily[k].refresh
    BY <1>4 DEF RevokeFamily
  <1> QED  BY <1>6, <1>7 DEF Withdraws

\* Nor does the revocation of the bindings touch a refresh token.
LEMMA BindingsRevokedWithdraw ==
    ASSUME FamilyTypeOK,
           pairs' = [k \in DOMAIN pairs |-> [pairs[k] EXCEPT !.bindingRevoked = pairs[k].grant # 0]]
    PROVE  Withdraws(pairs')
  <1>1. pairs \in Seq(PairRecord) /\ DOMAIN pairs = 1 .. Len(pairs) /\ Len(pairs) \in Nat
    BY DEF FamilyTypeOK
  <1>2. \A k \in DOMAIN pairs : pairs[k] \in PairRecord
    BY <1>1
  <1>3. \A k \in DOMAIN pairs :
            LET p == [pairs[k] EXCEPT !.bindingRevoked = pairs[k].grant # 0]
            IN  p \in PairRecord /\ p.refresh = pairs[k].refresh
    BY <1>2 DEF PairRecord
  <1>4. pairs' \in [1 .. Len(pairs) -> PairRecord]
    BY <1>1, <1>3
  <1>5. pairs' \in Seq(PairRecord) /\ Len(pairs') = Len(pairs)
    BY <1>1, <1>4
  <1>6. \A k \in DOMAIN pairs : pairs'[k].refresh = pairs[k].refresh
    BY <1>3
  <1> QED  BY <1>5, <1>6 DEF Withdraws

\* The rotation of a live pair leaves the new pair as the only live one.
LEMMA RotatedLive ==
    ASSUME FamilyInv, NEW k \in DOMAIN pairs, StillUsable(k), pairs' = Rotated(k)
    PROVE  OneLive' /\ pairs' \in Seq(PairRecord) /\ Len(pairs') = Len(pairs) + 1
  <1> DEFINE p == [pairs[k] EXCEPT !.refresh = FALSE, !.access = FALSE]
             s == [pairs EXCEPT ![k] = p]
  <1>1. pairs \in Seq(PairRecord) /\ pairs[k] \in PairRecord
    BY DEF FamilyInv, FamilyTypeOK
  <1>2. p \in PairRecord /\ ~p.refresh /\ Pair \in PairRecord
    BY <1>1 DEF PairRecord, Pair
  <1>3. pairs' = Append(s, Pair)
    BY DEF Rotated
  <1> HIDE DEF p
  <1>4. s \in Seq(PairRecord) /\ Len(s) = Len(pairs) /\ DOMAIN s = DOMAIN pairs
    BY <1>1, <1>2
  <1>5. \A j \in DOMAIN s : ~s[j].refresh
    BY <1>1, <1>2 DEF FamilyInv, OneLive, StillUsable
  <1> HIDE DEF s
  <1>6. pairs' \in Seq(PairRecord) /\ Len(pairs') = Len(s) + 1
    BY <1>2, <1>3, <1>4
  <1>7. \A j \in DOMAIN pairs' : j # Len(s) + 1 => j \in DOMAIN s /\ pairs'[j] = s[j]
    BY <1>2, <1>3, <1>4
  <1> QED  BY <1>4, <1>5, <1>6, <1>7 DEF OneLive

\* The invariant holds at first ...
LEMMA FamilyInit_Inv ==
    FamilyInit => FamilyInv
  <1> SUFFICES ASSUME FamilyInit PROVE FamilyInv
    OBVIOUS
  <1>1. [Pair EXCEPT !.access = TRUE] \in PairRecord
    BY DEF Pair, PairRecord
  <1>2. pairs \in Seq(PairRecord) /\ DOMAIN pairs = {1}
    BY <1>1 DEF FamilyInit
  <1>3. reqs \in [Requests -> RequestRecord]
    BY DEF FamilyInit, RequestRecord, RequestStates
  <1>4. RequestsPoint
    BY <1>2 DEF FamilyInit, RequestsPoint
  <1> QED  BY <1>2, <1>3, <1>4 DEF FamilyInit, FamilyInv, FamilyTypeOK, OneLive, OneGrant

\* A request that moves to a state in which it names no pair, or keeps its pair.
LEMMA RequestMoves ==
    ASSUME FamilyInv, NEW r \in Requests, NEW q \in RequestRecord,
           reqs' = [reqs EXCEPT ![r] = q], DOMAIN pairs \subseteq DOMAIN pairs',
           q.at = "validated" => q.using \in DOMAIN pairs',
           q.at \in {"saved", "binding"} => q.made \in DOMAIN pairs'
    PROVE  RequestsPoint' /\ reqs' \in [Requests -> RequestRecord]
  BY DEF FamilyInv, FamilyTypeOK, RequestsPoint

\* ... and after every step of a request, a rotation or a revocation.
LEMMA FamilyStep_Inv ==
    FamilyInv /\ [FamilyNext]_familyVars => FamilyInv'
  <1> SUFFICES ASSUME FamilyInv, [FamilyNext]_familyVars PROVE FamilyInv'
    OBVIOUS
  <1> USE DEF FamilyInv
  <1>t. FamilyTypeOK
    OBVIOUS
  <1>r. \A r \in Requests : reqs[r] \in RequestRecord
    BY DEF FamilyTypeOK
  <1>p. \A k \in DOMAIN pairs : pairs[k] \in PairRecord
    BY DEF FamilyTypeOK
  <1>1. CASE UNCHANGED familyVars
    BY <1>1 DEF familyVars, FamilyTypeOK, RequestsPoint, OneLive, OneGrant
  <1>2. ASSUME NEW r \in Requests, ValidateRefresh(r) PROVE FamilyInv'
    <2>1. PICK k \in DOMAIN pairs :
             IF pairs[k].refresh
             THEN /\ reqs' = [reqs EXCEPT ![r] = [at |-> "validated", using |-> k, made |-> 0]]
                  /\ UNCHANGED pairs
             ELSE /\ reqs' = [reqs EXCEPT ![r].at = "refused"]
                  /\ pairs' = RevokeFamily
      BY <1>2 DEF ValidateRefresh
    <2>2. OneGrant' /\ (family \in Nat /\ grants \subseteq Nat /\ revoked \subseteq {"device",
                                                                                     "link"})'
      BY <1>2 DEF ValidateRefresh, OneGrant, FamilyTypeOK
    <2>3. Withdraws(pairs')
      BY <2>1, <1>t, RevokeFamilyWithdraws DEF Withdraws, FamilyTypeOK
    <2>4. OneLive' /\ DOMAIN pairs' = DOMAIN pairs /\ pairs' \in Seq(PairRecord)
      BY <2>3, PairsWithdrawn
    <2>5. RequestsPoint' /\ reqs' \in [Requests -> RequestRecord]
      <3>1. CASE pairs[k].refresh
        <4> DEFINE q == [at |-> "validated", using |-> k, made |-> 0]
        <4>1. q \in RequestRecord /\ q.at = "validated" /\ q.using = k
          BY <1>t DEF RequestRecord, RequestStates, FamilyTypeOK
        <4>2. reqs' = [reqs EXCEPT ![r] = q]
          BY <2>1, <3>1
        <4> HIDE DEF q
        <4> QED  BY <4>1, <4>2, <2>4, RequestMoves
      <3>2. CASE ~pairs[k].refresh
        <4> DEFINE q == [reqs[r] EXCEPT !.at = "refused"]
        <4>1. q \in RequestRecord /\ q.at = "refused"
          BY <1>r DEF RequestRecord, RequestStates
        <4>2. reqs' = [reqs EXCEPT ![r] = q]
          BY <2>1, <3>2
        <4> HIDE DEF q
        <4> QED  BY <4>1, <4>2, <2>4, RequestMoves
      <3> QED  BY <3>1, <3>2
    <2> QED  BY <2>2, <2>4, <2>5 DEF FamilyTypeOK
  <1>3. ASSUME NEW r \in Requests, SaveBearerToken(r) PROVE FamilyInv'
    <2>1. OneGrant' /\ (family \in Nat /\ grants \subseteq Nat /\ revoked \subseteq {"device",
                                                                                     "link"})'
      BY <1>3 DEF SaveBearerToken, OneGrant, FamilyTypeOK
    <2>2. reqs[r].using \in DOMAIN pairs
      BY <1>3 DEF SaveBearerToken, RequestsPoint
    <2>3. CASE StillUsable(reqs[r].using)
      <3> DEFINE n == Len(pairs) + 1
                 q == [reqs[r] EXCEPT !.at = "saved", !.made = n]
      <3>1. OneLive' /\ pairs' \in Seq(PairRecord) /\ Len(pairs') = Len(pairs) + 1
        BY <1>3, <2>2, <2>3, RotatedLive DEF SaveBearerToken
      <3>2. Len(pairs) \in Nat /\ DOMAIN pairs = 1 .. Len(pairs) /\ DOMAIN pairs' = 1 .. (Len(pairs) + 1)
        BY <3>1 DEF FamilyTypeOK
      <3>3. n \in Nat /\ n \in DOMAIN pairs' /\ DOMAIN pairs \subseteq DOMAIN pairs'
        BY <3>2
      <3>4. reqs' = [reqs EXCEPT ![r] = q]
        BY <1>3, <2>3 DEF SaveBearerToken
      <3> HIDE DEF n
      <3>5. q \in RequestRecord /\ q.at = "saved" /\ q.made = n
        BY <1>r, <3>3 DEF RequestRecord, RequestStates
      <3> HIDE DEF q
      <3>6. RequestsPoint' /\ reqs' \in [Requests -> RequestRecord]
        BY <3>3, <3>4, <3>5, RequestMoves
      <3> QED  BY <2>1, <3>1, <3>6 DEF FamilyTypeOK
    <2>4. CASE ~StillUsable(reqs[r].using)
      <3> DEFINE q == [reqs[r] EXCEPT !.at = "refused"]
      <3>1. q \in RequestRecord /\ q.at = "refused"
        BY <1>r DEF RequestRecord, RequestStates
      <3>2. reqs' = [reqs EXCEPT ![r] = q] /\ pairs' = pairs
        BY <1>3, <2>4 DEF SaveBearerToken
      <3> HIDE DEF q
      <3>3. RequestsPoint' /\ reqs' \in [Requests -> RequestRecord]
        BY <3>1, <3>2, RequestMoves
      <3> QED  BY <2>1, <3>2, <3>3 DEF FamilyTypeOK, OneLive
    <2> QED  BY <2>3, <2>4
  <1>4. ASSUME NEW r \in Requests, BindLooks(r) PROVE FamilyInv'
    <2>1. OneGrant' /\ (family \in Nat /\ grants \subseteq Nat /\ revoked \subseteq {"device",
                                                                                     "link"})'
      BY <1>4 DEF BindLooks, OneGrant, FamilyTypeOK
    <2>2. reqs[r].made \in DOMAIN pairs /\ reqs[r].at = "saved"
      BY <1>4 DEF BindLooks, RequestsPoint
    <2>3. Withdraws(pairs')
      <3> DEFINE k == reqs[r].made
                 p == [pairs[k] EXCEPT !.access = FALSE]
      <3>1. CASE revoked = {}
        BY <3>1, <1>4 DEF BindLooks, Withdraws, FamilyTypeOK
      <3>2. CASE revoked # {}
        <4>1. p \in PairRecord /\ p.refresh = pairs[k].refresh
          BY <2>2, <1>p DEF PairRecord
        <4>2. pairs' = [pairs EXCEPT ![k] = p]
          BY <3>2, <1>4 DEF BindLooks
        <4> HIDE DEF p
        <4> QED  BY <4>1, <4>2, <2>2, <1>t, PairUpdated
      <3> QED  BY <3>1, <3>2
    <2>4. OneLive' /\ DOMAIN pairs' = DOMAIN pairs /\ pairs' \in Seq(PairRecord)
      BY <2>3, PairsWithdrawn
    <2>5. RequestsPoint' /\ reqs' \in [Requests -> RequestRecord]
      <3> DEFINE q == [reqs[r] EXCEPT !.at = IF revoked = {} THEN "binding" ELSE "refused"]
      <3>1. q \in RequestRecord /\ q.at \in {"binding", "refused"} /\ q.made = reqs[r].made
        BY <1>r DEF RequestRecord, RequestStates
      <3>2. reqs' = [reqs EXCEPT ![r] = q]
        BY <1>4 DEF BindLooks
      <3> HIDE DEF q
      <3> QED  BY <3>1, <3>2, <2>2, <2>4, RequestMoves
    <2> QED  BY <2>1, <2>4, <2>5 DEF FamilyTypeOK
  <1>5. ASSUME NEW r \in Requests, BindSaves(r) PROVE FamilyInv'
    <2> DEFINE k == reqs[r].made
               p == [pairs[k] EXCEPT !.grant = GrantOf]
               q == [reqs[r] EXCEPT !.at = "bound"]
    <2>1. k \in DOMAIN pairs
      BY <1>5 DEF BindSaves, RequestsPoint
    <2>2. GrantOf \in Nat \ {0}
      <3>1. CASE family = 0
        <4>1. Cardinality(grants) = 0
          <5>1. grants = {}
            BY <3>1 DEF OneGrant
          <5>2. Cardinality({}) = 0
            BY FS_EmptySet
          <5> QED  BY <5>1, <5>2, Zenon
        <4> QED  BY <4>1, <3>1 DEF GrantOf, NewGrant
      <3>2. CASE family # 0
        BY <3>2 DEF GrantOf, FamilyTypeOK
      <3> QED  BY <3>1, <3>2
    <2>3. p \in PairRecord /\ p.refresh = pairs[k].refresh
      BY <2>1, <2>2, <1>p DEF PairRecord
    <2>4. pairs' = [pairs EXCEPT ![k] = p]
      BY <1>5 DEF BindSaves
    <2>5. q \in RequestRecord /\ q.at = "bound"
      BY <1>r DEF RequestRecord, RequestStates
    <2>6. reqs' = [reqs EXCEPT ![r] = q]
      BY <1>5 DEF BindSaves
    <2> HIDE DEF p, q
    <2>7. OneLive' /\ DOMAIN pairs' = DOMAIN pairs /\ pairs' \in Seq(PairRecord)
      BY <2>1, <2>3, <2>4, <1>t, PairUpdated, PairsWithdrawn
    <2>8. RequestsPoint' /\ reqs' \in [Requests -> RequestRecord]
      BY <2>5, <2>6, <2>7, RequestMoves
    <2>9. OneGrant' /\ family' \in Nat /\ grants' \subseteq Nat
      BY <1>5, <2>2 DEF BindSaves, GrantOf, OneGrant, FamilyTypeOK
    <2> QED  BY <1>5, <2>7, <2>8, <2>9 DEF BindSaves, FamilyTypeOK
  <1>6. ASSUME NEW r \in Requests, Answer(r) \/ RequestDies(r) PROVE FamilyInv'
    <2> DEFINE q == [reqs[r] EXCEPT !.at = IF Answer(r) THEN "answered" ELSE "died"]
    <2>1. q \in RequestRecord /\ q.at \in {"answered", "died"}
      BY <1>r DEF RequestRecord, RequestStates
    <2>2. reqs' = [reqs EXCEPT ![r] = q] /\ UNCHANGED <<pairs, family, revoked, grants>>
      BY <1>6 DEF Answer, RequestDies
    <2> HIDE DEF q
    <2>3. RequestsPoint' /\ reqs' \in [Requests -> RequestRecord]
      BY <2>1, <2>2, RequestMoves
    <2> QED  BY <2>2, <2>3 DEF FamilyTypeOK, OneLive, OneGrant
  <1>7. ASSUME RevokeGrants PROVE FamilyInv'
    <2>1. OneLive' /\ DOMAIN pairs' = DOMAIN pairs /\ pairs' \in Seq(PairRecord)
      BY <1>7, <1>t, BindingsRevokedWithdraw, PairsWithdrawn DEF RevokeGrants
    <2> QED  BY <2>1, <1>7 DEF RevokeGrants, FamilyTypeOK, RequestsPoint, OneGrant
  <1>8. ASSUME RotateLinks PROVE FamilyInv'
    BY <1>8 DEF RotateLinks, FamilyTypeOK, RequestsPoint, OneLive, OneGrant
  <1> QED  BY <1>1, <1>2, <1>3, <1>4, <1>5, <1>6, <1>7, <1>8 DEF FamilyNext

\* However refreshes and revocations interleave (oauth.py, signals.py, authz.py), one
\* consent stays one grant with one live refresh token, and nothing of it is accepted
\* once the device or its link is revoked.
THEOREM FamilyGrantsSafe == FamilySpec => []GrantsSafe
  <1>1. FamilyInv => GrantsSafe
    <2> SUFFICES ASSUME FamilyInv PROVE GrantsSafe
      OBVIOUS
    <2>1. GrantStable
      <3>1. \A x, y \in grants : x = y
        BY DEF FamilyInv, OneGrant
      <3> QED  BY <3>1, AtMostOne DEF GrantStable
    <2>2. RotateOnce
      <3> DEFINE S == {k \in DOMAIN pairs : pairs[k].refresh}
      <3>1. \A x, y \in S : x = y
        BY DEF FamilyInv, OneLive
      <3> HIDE DEF S
      <3>2. Cardinality(S) <= 1
        BY <3>1, AtMostOne
      <3> QED  BY <3>2 DEF RotateOnce, S
    <2>3. RevokedIsOut
      BY DEF RevokedIsOut, Authentic
    <2> QED  BY <2>1, <2>2, <2>3 DEF GrantsSafe
  <1>2. FamilyInit => FamilyInv
    BY FamilyInit_Inv
  <1>3. FamilyInv /\ [FamilyNext]_familyVars => FamilyInv'
    BY FamilyStep_Inv
  <1> QED  BY <1>1, <1>2, <1>3, PTL DEF FamilySpec

-----------------------------------------------------------------------------
(* Presence: one device, its connections and its catalogue.                *)

ConnRecord ==
    [pc : {"free", "consumed", "fenced", "welcomed", "up", "closing", "gone", "died"},
     epoch : Nat, wire : BOOLEAN, hellos : Seq(SUBSET Projects), job : Seq(SUBSET Projects)]

DeviceRow == [epoch : Nat, status : {"offline", "online", "revoked"}]

AgentLink ==
    [at : {"idle", "ticket", "dialing", "greeted", "linked"}, conn : Conns \cup {0},
     sync : {"done", "created", "sending"}, said : SUBSET Projects]

Catalogue == [rows : [Projects -> {"none", "available", "unavailable"}], by : Conns \cup {0}]

PresenceTypeOK ==
    /\ dev \in DeviceRow /\ conns \in [Conns -> ConnRecord] /\ link \in AgentLink
    /\ local \subseteq Projects /\ catalogue \in Catalogue

\* Every connection that was made has an epoch of its own, not above the device's.
EpochsDiffer ==
    /\ \A c \in Conns : IF conns[c].pc = "free" THEN conns[c] = NoConn
                        ELSE conns[c].epoch > 0 /\ conns[c].epoch <= dev.epoch
    /\ \A b, c \in Conns : conns[b].pc # "free" /\ conns[c].pc # "free" /\ conns[b].epoch = conns[c].epoch
                               => b = c

\* A HELLO is applied by a connection that was up, and the catalogue written by one.
JobsStarted ==
    \A c \in Conns : /\ conns[c].job # <<>> => conns[c].pc \in {"up", "closing", "gone"}
                     /\ catalogue.by = c => conns[c].pc \in {"up", "closing", "gone", "died"}

\* The agent's connection is one that the relay has.
LinkMade ==
    /\ link.at \in {"dialing", "greeted", "linked"} => link.conn # 0
    /\ link.conn # 0 => conns[link.conn].pc # "free"
    /\ \A c \in Conns : conns[c].pc # "free" => link.conn # 0


\* The last HELLO that is on its way, or else the one that is applied, is what the
\* agent said last, and once it is applied so is the catalogue.
HellosFollow ==
    \A c \in Conns : link.conn = c =>
        /\ conns[c].hellos # <<>> => conns[c].hellos[Len(conns[c].hellos)] = link.said
        /\ conns[c].hellos = <<>> /\ conns[c].job # <<>> => conns[c].job[1] = link.said
        /\ conns[c].hellos = <<>> /\ conns[c].job = <<>> /\ catalogue.by = c /\ conns[c].pc = "up"
               => Available = link.said

PresenceInv ==
    /\ PresenceTypeOK /\ EpochsDiffer /\ JobsStarted /\ LinkMade /\ HellosFollow
    /\ OnlineIsConnected /\ ConnectedIsOnline

\* The invariant holds at first.
LEMMA PresenceInit_Inv == PresenceInit => PresenceInv
  <1> SUFFICES ASSUME PresenceInit PROVE PresenceInv
    OBVIOUS
  <1> USE ConnAssumption DEF PresenceInit
  <1>1. NoConn \in ConnRecord /\ NoConn.pc = "free" /\ NoConn.job = <<>>
    BY DEF NoConn, ConnRecord
  <1>2. \A c \in Conns : conns[c] = NoConn /\ c # 0
    OBVIOUS
  <1>3. PresenceTypeOK
    BY <1>1 DEF PresenceTypeOK, DeviceRow, AgentLink, Catalogue
  <1>4. EpochsDiffer /\ JobsStarted
    BY <1>1, <1>2 DEF EpochsDiffer, JobsStarted
  <1>5. LinkMade /\ HellosFollow
    BY <1>1, <1>2 DEF LinkMade, HellosFollow
  <1>6. OnlineIsConnected /\ ConnectedIsOnline
    BY <1>1, <1>2 DEF OnlineIsConnected, ConnectedIsOnline
  <1> QED  BY <1>3, <1>4, <1>5, <1>6 DEF PresenceInv

\* What a step may do to a connection when it neither makes it nor gives it a HELLO:
\* the connection keeps its epoch and its HELLOs, and does not come up.
Wanes(c, r) ==
    /\ r \in ConnRecord /\ conns[c].pc # "free" /\ r.pc # "free"
    /\ r.epoch = conns[c].epoch /\ r.hellos = conns[c].hellos
    /\ r.job = conns[c].job \/ (r.job = <<>> /\ r.pc = "died")
    /\ r.job # <<>> => r.pc \in {"up", "closing", "gone"}
    /\ conns[c].pc \in {"up", "closing", "gone", "died"} => r.pc \in {"up", "closing", "gone",
                                                                      "died"}
    /\ r.pc = "up" => conns[c].pc \in {"welcomed", "up"}

\* A connection that only loses what it had breaks nothing.
LEMMA ConnWanes ==
    ASSUME PresenceInv, NEW c \in Conns, NEW r, Wanes(c, r),
           conns' = [conns EXCEPT ![c] = r], dev' \in DeviceRow, dev'.epoch = dev.epoch,
           local' = local, catalogue' = catalogue,
           link' \in AgentLink, link'.conn = link.conn, link'.said = link.said
    PROVE  PresenceTypeOK' /\ EpochsDiffer' /\ JobsStarted' /\ LinkMade' /\ HellosFollow'
  <1>1. PresenceTypeOK'
    BY DEF PresenceInv, PresenceTypeOK, Wanes
  <1>2. \A b \in Conns : conns'[b] = IF b = c THEN r ELSE conns[b]
    BY DEF PresenceInv, PresenceTypeOK
  <1>3. EpochsDiffer'
    BY <1>2 DEF PresenceInv, EpochsDiffer, Wanes
  <1>4. JobsStarted'
    BY <1>2 DEF PresenceInv, JobsStarted, Wanes
  <1>5. link.conn # 0
    BY DEF PresenceInv, LinkMade, Wanes
  <1>6. LinkMade'
    BY <1>2, <1>5 DEF PresenceInv, LinkMade, Wanes, PresenceTypeOK
  <1>7. Available' = Available
    BY DEF Available
  <1>8. HellosFollow'
    <2> SUFFICES ASSUME NEW b \in Conns, link.conn = b
                 PROVE  /\ conns'[b].hellos # <<>> => conns'[b].hellos[Len(conns'[b].hellos)] = link.said
                        /\ conns'[b].hellos = <<>> /\ conns'[b].job # <<>> => conns'[b].job[1] = link.said
                        /\ conns'[b].hellos = <<>> /\ conns'[b].job = <<>> /\ catalogue.by = b /\ conns'[b].pc = "up"
                               => Available = link.said
      BY <1>7 DEF HellosFollow
    <2>1. CASE b # c
      BY <1>2, <2>1 DEF PresenceInv, HellosFollow
    <2>2. CASE b = c
      <3>1. conns'[b] = r
        BY <1>2, <2>2
      <3>2. catalogue.by = c => conns[c].pc # "welcomed"
        BY DEF PresenceInv, JobsStarted
      <3>3. r.hellos = conns[c].hellos /\ (r.job # <<>> => r.job = conns[c].job)
            /\ (r.pc = "up" => r.job = conns[c].job /\ conns[c].pc \in {"welcomed", "up"})
        BY DEF Wanes
      <3> QED  BY <2>2, <3>1, <3>2, <3>3 DEF PresenceInv, HellosFollow
    <2> QED  BY <2>1, <2>2
  <1> QED  BY <1>1, <1>3, <1>4, <1>6, <1>8

\* When the device row does not change, nor does what it says of the connections.
LEMMA MarkStays ==
    ASSUME PresenceInv, NEW c \in Conns, NEW r,
           conns' = [conns EXCEPT ![c] = r], dev' = dev, r.epoch = conns[c].epoch,
           conns[c].pc \in {"up", "closing", "died"} => r.pc \in {"up", "closing", "died"},
           r.pc = "up" => conns[c].pc = "up"
    PROVE  OnlineIsConnected' /\ ConnectedIsOnline'
  <1>1. \A b \in Conns : conns'[b] = IF b = c THEN r ELSE conns[b]
    BY DEF PresenceInv, PresenceTypeOK
  <1>2. ConnectedIsOnline'
    BY <1>1 DEF PresenceInv, ConnectedIsOnline, Current
  <1>3. OnlineIsConnected'
    BY <1>1 DEF PresenceInv, OnlineIsConnected, Current
  <1> QED  BY <1>2, <1>3

\* Both at once.
LEMMA ConnQuiet ==
    ASSUME PresenceInv, NEW c \in Conns, NEW r, Wanes(c, r),
           conns' = [conns EXCEPT ![c] = r], dev' = dev, local' = local, catalogue' = catalogue,
           link' \in AgentLink, link'.conn = link.conn, link'.said = link.said,
           conns[c].pc \in {"up", "closing", "died"} => r.pc \in {"up", "closing", "died"},
           r.pc = "up" => conns[c].pc = "up"
    PROVE  PresenceInv'
  <1>1. dev' \in DeviceRow /\ dev'.epoch = dev.epoch
    BY DEF PresenceInv, PresenceTypeOK
  <1>2. PresenceTypeOK' /\ EpochsDiffer' /\ JobsStarted' /\ LinkMade' /\ HellosFollow'
    BY <1>1, ConnWanes
  <1>3. OnlineIsConnected' /\ ConnectedIsOnline'
    BY MarkStays DEF Wanes
  <1> QED  BY <1>2, <1>3 DEF PresenceInv

\* A step of the agent that makes no connection and says nothing.
LEMMA LinkQuiet ==
    ASSUME PresenceInv, UNCHANGED <<dev, conns, catalogue>>, local' \subseteq Projects,
           link' \in AgentLink, link'.conn = link.conn, link'.said = link.said,
           link'.at \in {"dialing", "greeted", "linked"} => link.at \in {"dialing", "greeted",
                                                                         "linked"}
    PROVE  PresenceInv'
  <1>1. PresenceTypeOK'
    BY DEF PresenceInv, PresenceTypeOK
  <1>2. EpochsDiffer' /\ JobsStarted' /\ OnlineIsConnected' /\ ConnectedIsOnline'
    BY DEF PresenceInv, EpochsDiffer, JobsStarted, OnlineIsConnected, ConnectedIsOnline, Current
  <1>3. LinkMade' /\ HellosFollow'
    BY DEF PresenceInv, LinkMade, HellosFollow, Available
  <1> QED  BY <1>1, <1>2, <1>3 DEF PresenceInv

\* A ticket makes a connection with an epoch of its own.
LEMMA ConsumeKept ==
    ASSUME PresenceInv, NEW c \in Conns, ConsumeTicket(c)
    PROVE  PresenceInv'
  <1> DEFINE r == [NoConn EXCEPT !.pc = "consumed", !.epoch = dev.epoch + 1, !.wire = TRUE]
             k == [link EXCEPT !.at = "dialing", !.conn = c]
  <1>0. dev.epoch \in Nat /\ dev.epoch + 1 \in Nat /\ c # 0
    BY ConnAssumption DEF PresenceInv, PresenceTypeOK, DeviceRow
  <1>1. r \in ConnRecord /\ r.pc = "consumed" /\ r.epoch = dev.epoch + 1 /\ r.job = <<>> /\ r.hellos = <<>>
    <2>1. NoConn \in ConnRecord /\ NoConn.job = <<>> /\ NoConn.hellos = <<>>
      BY DEF NoConn, ConnRecord
    <2> QED  BY <1>0, <2>1 DEF ConnRecord
  <1>2. k \in AgentLink /\ k.at = "dialing" /\ k.conn = c /\ k.said = link.said
    BY DEF PresenceInv, PresenceTypeOK, AgentLink
  <1>3. /\ conns[c].pc = "free" /\ conns' = [conns EXCEPT ![c] = r] /\ link' = k
        /\ dev' = [epoch |-> dev.epoch + 1, status |-> "offline"]
        /\ local' = local /\ catalogue' = catalogue
    BY DEF ConsumeTicket
  <1>4. dev' \in DeviceRow /\ dev'.epoch = dev.epoch + 1 /\ dev'.status = "offline"
    BY <1>0, <1>3 DEF DeviceRow
  <1> HIDE DEF r, k
  <1>5. PresenceTypeOK'
    BY <1>1, <1>2, <1>3, <1>4 DEF PresenceInv, PresenceTypeOK
  <1>6. \A b \in Conns : conns'[b] = IF b = c THEN r ELSE conns[b]
    BY <1>3 DEF PresenceInv, PresenceTypeOK
  <1>7. \A b \in Conns : b # c => conns[b].epoch \in Nat /\ conns[b].epoch <= dev.epoch
    <2>1. \A b \in Conns : conns[b].epoch \in Nat
      BY DEF PresenceInv, PresenceTypeOK, ConnRecord
    <2> QED  BY <2>1, <1>0 DEF PresenceInv, EpochsDiffer, NoConn
  <1>8. EpochsDiffer'
    <2>1. \A b \in Conns : IF conns'[b].pc = "free" THEN conns'[b] = NoConn
                           ELSE conns'[b].epoch > 0 /\ conns'[b].epoch <= dev'.epoch
      BY <1>0, <1>1, <1>4, <1>6, <1>7 DEF PresenceInv, EpochsDiffer
    <2>2. \A b, d \in Conns : conns'[b].pc # "free" /\ conns'[d].pc # "free" /\ conns'[b].epoch = conns'[d].epoch
                                  => b = d
      BY <1>0, <1>1, <1>6, <1>7 DEF PresenceInv, EpochsDiffer
    <2> QED  BY <2>1, <2>2 DEF EpochsDiffer
  <1>9. catalogue.by # c
    BY <1>3 DEF PresenceInv, JobsStarted
  <1>10. JobsStarted'
    BY <1>1, <1>3, <1>6, <1>9 DEF PresenceInv, JobsStarted
  <1>11. LinkMade' /\ HellosFollow'
    BY <1>0, <1>1, <1>2, <1>3, <1>6, <1>9 DEF LinkMade, HellosFollow
  <1>12. OnlineIsConnected' /\ ConnectedIsOnline'
    BY <1>0, <1>1, <1>4, <1>6, <1>7 DEF OnlineIsConnected, ConnectedIsOnline, Current
  <1> QED  BY <1>5, <1>8, <1>10, <1>11, <1>12 DEF PresenceInv

\* A hello is sent over the connection that the agent has.
LEMMA HelloKept ==
    ASSUME PresenceInv, NEW next \in AgentLink, Hello(next), next.conn = link.conn,
           link.at \in {"greeted", "linked"}, UNCHANGED <<dev, fence, local, catalogue, spent>>
    PROVE  PresenceInv'
  <1> DEFINE c == link.conn
             r == [conns[c] EXCEPT !.hellos = Append(conns[c].hellos, local)]
             k == [next EXCEPT !.said = local]
  <1>1. c \in Conns /\ conns[c].pc # "free"
    BY DEF PresenceInv, PresenceTypeOK, AgentLink, LinkMade
  <1>2. conns[c] \in ConnRecord /\ local \in SUBSET Projects
    BY <1>1 DEF PresenceInv, PresenceTypeOK
  <1>3. conns' = [conns EXCEPT ![c] = r] /\ link' = k
    BY DEF Hello
  <1> HIDE DEF c
  <1>4. PICK h : h = Append(conns[c].hellos, local)
    OBVIOUS
  <1>5. h \in Seq(SUBSET Projects) /\ h # <<>> /\ h[Len(h)] = local
    <2>1. conns[c].hellos \in Seq(SUBSET Projects)
      BY <1>2 DEF ConnRecord
    <2> QED  BY <1>2, <1>4, <2>1
  <1>6. r = [conns[c] EXCEPT !.hellos = h]
    BY <1>4
  <1> HIDE DEF r
  <1>7. /\ r \in ConnRecord /\ r.hellos = h /\ r.pc = conns[c].pc /\ r.epoch = conns[c].epoch
        /\ r.job = conns[c].job
    BY <1>2, <1>5, <1>6 DEF ConnRecord
  <1>8. k \in AgentLink /\ k.conn = c /\ k.said = local
    BY <1>2 DEF AgentLink, c
  <1> HIDE DEF k
  <1>9. \A b \in Conns : conns'[b] = IF b = c THEN r ELSE conns[b]
    BY <1>1, <1>3 DEF PresenceInv, PresenceTypeOK
  <1>10. PresenceTypeOK'
    BY <1>1, <1>3, <1>7, <1>8 DEF PresenceInv, PresenceTypeOK
  <1>11. EpochsDiffer' /\ JobsStarted'
    BY <1>1, <1>7, <1>9 DEF PresenceInv, EpochsDiffer, JobsStarted
  <1>12. OnlineIsConnected' /\ ConnectedIsOnline'
    BY <1>1, <1>3, <1>7, MarkStays
  <1>13. c # 0
    BY <1>1, ConnAssumption
  <1>14. LinkMade'
    BY <1>1, <1>3, <1>7, <1>8, <1>9, <1>13 DEF PresenceInv, LinkMade
  <1>15. HellosFollow'
    BY <1>3, <1>5, <1>7, <1>8, <1>9 DEF HellosFollow
  <1> QED  BY <1>10, <1>11, <1>12, <1>14, <1>15 DEF PresenceInv

\* A hello is taken from the wire into a job.
LEMMA ReceiveKept ==
    ASSUME PresenceInv, NEW c \in Conns, ReceiveHello(c)
    PROVE  PresenceInv'
  <1>1. conns[c] \in ConnRecord /\ conns[c].hellos \in Seq(SUBSET Projects)
    BY DEF PresenceInv, PresenceTypeOK, ConnRecord
  <1>2. PICK j : j = <<Head(conns[c].hellos)>>
    OBVIOUS
  <1>3. PICK t : t = Tail(conns[c].hellos)
    OBVIOUS
  <1>4. conns[c].hellos # <<>> /\ conns[c].pc = "up" /\ conns[c].job = <<>>
    BY DEF ReceiveHello
  <1>5. /\ j \in Seq(SUBSET Projects) /\ j # <<>> /\ t \in Seq(SUBSET Projects)
        /\ t # <<>> => t[Len(t)] = conns[c].hellos[Len(conns[c].hellos)]
        /\ t = <<>> => j[1] = conns[c].hellos[Len(conns[c].hellos)]
    <2>1. Head(conns[c].hellos) \in SUBSET Projects
      BY <1>1, <1>4
    <2>2. /\ t \in Seq(SUBSET Projects)
          /\ t # <<>> => t[Len(t)] = conns[c].hellos[Len(conns[c].hellos)]
          /\ t = <<>> => Head(conns[c].hellos) = conns[c].hellos[Len(conns[c].hellos)]
      BY <1>1, <1>3, <1>4, TailKeepsLast
    <2>3. \A x \in SUBSET Projects : <<x>> \in Seq(SUBSET Projects) /\ <<x>> # <<>> /\ <<x>>[1] = x
      OBVIOUS
    <2>4. j \in Seq(SUBSET Projects) /\ j # <<>> /\ j[1] = Head(conns[c].hellos)
      BY <1>2, <2>1, <2>3, Zenon
    <2> QED  BY <2>2, <2>4
  <1> DEFINE r == [conns[c] EXCEPT !.job = j, !.hellos = t]
  <1>6. /\ r \in ConnRecord /\ r.hellos = t /\ r.job = j /\ r.pc = "up" /\ r.epoch = conns[c].epoch
    BY <1>1, <1>4, <1>5 DEF ConnRecord
  <1>7. conns' = [conns EXCEPT ![c] = r] /\ UNCHANGED <<dev, fence, link, local, catalogue, spent>>
    BY <1>2, <1>3 DEF ReceiveHello
  <1> HIDE DEF r
  <1>8. \A b \in Conns : conns'[b] = IF b = c THEN r ELSE conns[b]
    BY <1>7 DEF PresenceInv, PresenceTypeOK
  <1>9. PresenceTypeOK'
    BY <1>6, <1>7 DEF PresenceInv, PresenceTypeOK
  <1>10. EpochsDiffer' /\ JobsStarted'
    BY <1>4, <1>6, <1>7, <1>8 DEF PresenceInv, EpochsDiffer, JobsStarted
  <1>11. LinkMade'
    BY <1>4, <1>6, <1>7, <1>8 DEF PresenceInv, LinkMade, PresenceTypeOK, AgentLink
  <1>12. OnlineIsConnected' /\ ConnectedIsOnline'
    BY <1>4, <1>6, <1>7, MarkStays
  <1>13. HellosFollow'
    BY <1>4, <1>5, <1>6, <1>7, <1>8 DEF PresenceInv, HellosFollow, Available
  <1> QED  BY <1>9, <1>10, <1>11, <1>12, <1>13 DEF PresenceInv

\* The catalogue after a HELLO shows the projects of the HELLO as available, no other.
LEMMA SynchronizedAvailable ==
    ASSUME PresenceTypeOK, NEW told \in SUBSET Projects
    PROVE  /\ Synchronized(told) \in [Projects -> {"none", "available", "unavailable"}]
           /\ {p \in Projects : Synchronized(told)[p] = "available"} = told
  <1>1. \A p \in Projects : catalogue.rows[p] \in {"none", "available", "unavailable"}
    BY DEF PresenceTypeOK, Catalogue
  <1>2. Synchronized(told) \in [Projects -> {"none", "available", "unavailable"}]
    BY <1>1 DEF Synchronized
  <1>3. \A p \in Projects : Synchronized(told)[p] = "available" <=> p \in told
    BY <1>1 DEF Synchronized
  <1> QED  BY <1>2, <1>3

\* The catalogue becomes what the hello said.
LEMMA SynchronizeKept ==
    ASSUME PresenceInv, NEW c \in Conns, SynchronizeProjects(c)
    PROVE  PresenceInv'
  <1> DEFINE told == conns[c].job[1]
             rows == Synchronized(told)
             ok == UniqueRoots(rows)
             r == [conns[c] EXCEPT !.job = <<>>,
                                   !.pc = IF ~ok /\ conns[c].pc = "up" THEN "closing" ELSE conns[c].pc,
                                   !.wire = conns[c].wire /\ (ok \/ conns[c].pc # "up")]
  <1>1. conns[c] \in ConnRecord /\ conns[c].job \in Seq(SUBSET Projects) /\ conns[c].job # <<>>
    BY DEF PresenceInv, PresenceTypeOK, ConnRecord, SynchronizeProjects
  <1>2. told \in SUBSET Projects
    BY <1>1
  <1>3. /\ catalogue' = IF ok THEN [rows |-> rows, by |-> c] ELSE catalogue
        /\ conns' = [conns EXCEPT ![c] = r] /\ UNCHANGED <<dev, fence, link, local, spent>>
    BY DEF SynchronizeProjects
  <1>4. conns[c].pc \in {"up", "closing", "gone"}
    BY <1>1 DEF PresenceInv, JobsStarted
  <1>5. /\ rows \in [Projects -> {"none", "available", "unavailable"}]
        /\ {p \in Projects : rows[p] = "available"} = told
    BY <1>2, SynchronizedAvailable DEF PresenceInv
  <1> HIDE DEF ok, rows, told
  <1>6. PICK e, v, w : /\ e = <<>> /\ v = IF ~ok /\ conns[c].pc = "up" THEN "closing" ELSE conns[c].pc
                       /\ w = (conns[c].wire /\ (ok \/ conns[c].pc # "up"))
    OBVIOUS
  <1>7. /\ r \in ConnRecord /\ r.job = <<>> /\ r.hellos = conns[c].hellos /\ r.epoch = conns[c].epoch
        /\ r.pc = IF ~ok /\ conns[c].pc = "up" THEN "closing" ELSE conns[c].pc
    <2>1. w \in BOOLEAN
      BY <1>6
    <2>2. v \in {"up", "closing", "gone"} /\ e \in Seq(SUBSET Projects)
      BY <1>4, <1>6
    <2>3. r = [conns[c] EXCEPT !.job = e, !.pc = v, !.wire = w]
      BY <1>6
    <2> HIDE DEF r
    <2>4. r \in ConnRecord /\ r.job = e /\ r.hellos = conns[c].hellos /\ r.epoch = conns[c].epoch /\ r.pc = v
      BY <1>1, <2>1, <2>2, <2>3 DEF ConnRecord
    <2> QED  BY <1>6, <2>4
  <1> HIDE DEF r
  <1>8. catalogue' \in Catalogue
    BY <1>3, <1>5 DEF Catalogue, PresenceInv, PresenceTypeOK
  <1>9. \A b \in Conns : conns'[b] = IF b = c THEN r ELSE conns[b]
    BY <1>3 DEF PresenceInv, PresenceTypeOK
  <1>10. PresenceTypeOK'
    BY <1>3, <1>7, <1>8 DEF PresenceInv, PresenceTypeOK
  <1>11. EpochsDiffer'
    BY <1>3, <1>4, <1>7, <1>9 DEF PresenceInv, EpochsDiffer
  <1>12. \A b \in Conns : catalogue'.by = b => b = c \/ catalogue.by = b
    BY <1>3
  <1>13. JobsStarted'
    BY <1>4, <1>7, <1>9, <1>12 DEF PresenceInv, JobsStarted
  <1>14. LinkMade'
    BY <1>3, <1>4, <1>7, <1>9 DEF PresenceInv, LinkMade, PresenceTypeOK, AgentLink
  <1>15. OnlineIsConnected' /\ ConnectedIsOnline'
    BY <1>3, <1>4, <1>7, MarkStays
  <1>16. HellosFollow'
    <2> SUFFICES ASSUME NEW b \in Conns, link.conn = b
                 PROVE  /\ conns'[b].hellos # <<>> => conns'[b].hellos[Len(conns'[b].hellos)] = link.said
                        /\ conns'[b].hellos = <<>> /\ conns'[b].job # <<>> => conns'[b].job[1] = link.said
                        /\ conns'[b].hellos = <<>> /\ conns'[b].job = <<>> /\ catalogue'.by = b /\ conns'[b].pc = "up"
                               => Available' = link.said
      BY <1>3 DEF HellosFollow
    <2>1. CASE b = c
      <3>1. conns'[b] = r
        BY <1>9, <2>1
      <3>2. ASSUME conns[c].hellos = <<>>, r.pc = "up" PROVE Available' = link.said
        <4>1. told = link.said
          BY <1>1, <2>1, <3>2 DEF PresenceInv, HellosFollow, told
        <4>2. ok
          BY <1>4, <1>7, <3>2
        <4>3. catalogue'.rows = rows
          BY <1>3, <4>2
        <4> QED  BY <1>5, <4>1, <4>3 DEF Available
      <3> QED  BY <1>7, <2>1, <3>1, <3>2 DEF PresenceInv, HellosFollow
    <2>2. CASE b # c
      <3>1. conns'[b] = conns[b]
        BY <1>9, <2>2
      <3>2. catalogue'.by = b => catalogue' = catalogue
        BY <1>3, <2>2
      <3> QED  BY <3>1, <3>2 DEF PresenceInv, HellosFollow, Available
    <2> QED  BY <2>1, <2>2
  <1> QED  BY <1>10, <1>11, <1>13, <1>14, <1>15, <1>16 DEF PresenceInv

\* What closing, and the other steps that only move a connection on, do to it.
LEMMA MovesWane ==
    ASSUME PresenceInv, NEW c \in Conns, NEW p \in {"fenced", "welcomed", "up", "closing", "gone"},
           NEW w \in BOOLEAN, conns[c].pc # "free",
           conns[c].pc \in {"up", "closing", "gone", "died"} => p \in {"up", "closing", "gone"},
           p = "up" => conns[c].pc \in {"welcomed", "up"}
    PROVE  LET r == [conns[c] EXCEPT !.pc = p, !.wire = w]
           IN  Wanes(c, r) /\ r.pc = p /\ r.epoch = conns[c].epoch
  <1>1. conns[c] \in ConnRecord
    BY DEF PresenceInv, PresenceTypeOK
  <1> DEFINE r == [conns[c] EXCEPT !.pc = p, !.wire = w]
  <1>2. /\ r \in ConnRecord /\ r.pc = p /\ r.epoch = conns[c].epoch /\ r.hellos = conns[c].hellos
        /\ r.job = conns[c].job
    BY <1>1 DEF ConnRecord
  <1> HIDE DEF r
  <1>3. Wanes(c, r)
    BY <1>2 DEF PresenceInv, JobsStarted, Wanes
  <1> QED  BY <1>2, <1>3 DEF r

\* The relay's own steps, but for those of the HELLOs and of the mark.
LEMMA RelayMoves ==
    ASSUME PresenceInv, NEW c \in Conns,
           SetFence(c) \/ Welcome(c) \/ Disconnected(c) \/ FencedOut(c) \/ RelayRaises(c)
    PROVE  PresenceInv'
  <1>0. conns[c] \in ConnRecord /\ conns[c].wire \in BOOLEAN /\ link \in AgentLink
    BY DEF PresenceInv, PresenceTypeOK, ConnRecord
  <1> DEFINE Moved(p, w) == [conns[c] EXCEPT !.pc = p, !.wire = w]
  <1>1. CASE SetFence(c)
    <2> DEFINE r == Moved("fenced", conns[c].wire)
    <2>1. Wanes(c, r) /\ r.pc = "fenced" /\ r.epoch = conns[c].epoch
      BY <1>0, <1>1, MovesWane, ZenonT(60) DEF SetFence
    <2>2. conns' = [conns EXCEPT ![c] = r]
      <3>1. [conns[c] EXCEPT !.pc = "fenced"] = r
        BY <1>0 DEF ConnRecord
      <3> QED  BY <1>1, <3>1 DEF SetFence
    <2> HIDE DEF r
    <2> QED  BY <1>0, <1>1, <2>1, <2>2, ConnQuiet DEF SetFence
  <1>2. CASE Welcome(c) /\ conns[c].wire
    <2> DEFINE r == Moved("welcomed", conns[c].wire)
               k == [link EXCEPT !.at = "greeted"]
    <2>1. Wanes(c, r) /\ r.pc = "welcomed" /\ r.epoch = conns[c].epoch
      BY <1>0, <1>2, MovesWane, ZenonT(60) DEF Welcome
    <2>2. conns' = [conns EXCEPT ![c] = r]
      <3>1. [conns[c] EXCEPT !.pc = "welcomed"] = r
        BY <1>0 DEF ConnRecord
      <3> QED  BY <1>2, <3>1 DEF Welcome
    <2>3. k \in AgentLink /\ k.conn = link.conn /\ k.said = link.said
      BY <1>0 DEF AgentLink
    <2>4. link' = k
      BY <1>2 DEF Welcome
    <2> HIDE DEF r, k
    <2> QED  BY <1>2, <2>1, <2>2, <2>3, <2>4, ConnQuiet DEF Welcome
  <1>3. CASE (Welcome(c) /\ ~conns[c].wire) \/ Disconnected(c) \/ FencedOut(c) \/ RelayRaises(c)
    <2> DEFINE r == Moved("closing", FALSE)
    <2>1. conns[c].pc \in {"consumed", "fenced", "welcomed", "up"}
      BY <1>3 DEF Welcome, Disconnected, FencedOut, RelayRaises
    <2>2. Wanes(c, r) /\ r.pc = "closing" /\ r.epoch = conns[c].epoch
      BY <2>1, MovesWane
    <2>3. conns' = [conns EXCEPT ![c] = r] /\ UNCHANGED <<dev, link, local, catalogue>>
      BY <1>3 DEF Welcome, Disconnected, FencedOut, RelayRaises, Closing
    <2> HIDE DEF r
    <2> QED  BY <1>0, <2>2, <2>3, ConnQuiet
  <1> QED  BY <1>1, <1>2, <1>3

\* A device is marked online by the connection that owns its epoch ...
LEMMA MarkOnlineKept ==
    ASSUME PresenceInv, NEW c \in Conns, MarkOnline(c)
    PROVE  PresenceInv'
  <1> DEFINE r == [conns[c] EXCEPT !.pc = "up", !.wire = conns[c].wire]
  <1>1. conns[c] \in ConnRecord /\ conns[c].wire \in BOOLEAN /\ link \in AgentLink /\ dev \in DeviceRow
    BY DEF PresenceInv, PresenceTypeOK, ConnRecord
  <1>2. Wanes(c, r) /\ r.pc = "up" /\ r.epoch = conns[c].epoch
    BY <1>1, MovesWane DEF MarkOnline
  <1>3. conns' = [conns EXCEPT ![c] = r]
    <2>1. [conns[c] EXCEPT !.pc = "up"] = r
      BY <1>1 DEF ConnRecord
    <2> QED  BY <2>1 DEF MarkOnline
  <1>4. /\ dev' \in DeviceRow /\ dev'.epoch = dev.epoch
        /\ dev'.status = IF Marks(c) THEN "online" ELSE dev.status
        /\ conns[c].pc = "welcomed" /\ UNCHANGED <<link, local, catalogue>>
    BY <1>1 DEF MarkOnline, DeviceRow
  <1> HIDE DEF r
  <1>5. PresenceTypeOK' /\ EpochsDiffer' /\ JobsStarted' /\ LinkMade' /\ HellosFollow'
    BY <1>1, <1>2, <1>3, <1>4, ConnWanes
  <1>6. \A b \in Conns : conns'[b] = IF b = c THEN r ELSE conns[b]
    BY <1>3 DEF PresenceInv, PresenceTypeOK
  <1>7. ConnectedIsOnline'
    BY <1>2, <1>4, <1>6 DEF PresenceInv, ConnectedIsOnline, Current, Marks
  <1>8. OnlineIsConnected'
    BY <1>2, <1>4, <1>6 DEF PresenceInv, OnlineIsConnected, Current, Marks
  <1> QED  BY <1>5, <1>7, <1>8 DEF PresenceInv

\* ... and offline by it alone.
LEMMA MarkOfflineKept ==
    ASSUME PresenceInv, NEW c \in Conns, MarkOffline(c)
    PROVE  PresenceInv'
  <1> DEFINE r == [conns[c] EXCEPT !.pc = "gone", !.wire = conns[c].wire]
  <1>1. conns[c] \in ConnRecord /\ conns[c].wire \in BOOLEAN /\ link \in AgentLink /\ dev \in DeviceRow
    BY DEF PresenceInv, PresenceTypeOK, ConnRecord
  <1>2. Wanes(c, r) /\ r.pc = "gone" /\ r.epoch = conns[c].epoch
    BY <1>1, MovesWane DEF MarkOffline
  <1>3. conns' = [conns EXCEPT ![c] = r]
    <2>1. [conns[c] EXCEPT !.pc = "gone"] = r
      BY <1>1 DEF ConnRecord
    <2> QED  BY <2>1 DEF MarkOffline
  <1>4. /\ dev' \in DeviceRow /\ dev'.epoch = dev.epoch
        /\ dev'.status = IF Unmarks(c) THEN "offline" ELSE dev.status
        /\ conns[c].pc = "closing" /\ UNCHANGED <<link, local, catalogue>>
    BY <1>1 DEF MarkOffline, DeviceRow
  <1> HIDE DEF r
  <1>5. PresenceTypeOK' /\ EpochsDiffer' /\ JobsStarted' /\ LinkMade' /\ HellosFollow'
    BY <1>1, <1>2, <1>3, <1>4, ConnWanes
  <1>6. \A b \in Conns : conns'[b] = IF b = c THEN r ELSE conns[b]
    BY <1>3 DEF PresenceInv, PresenceTypeOK
  <1>7. \A b \in Conns : Unmarks(c) /\ conns[b].pc = "up" => conns[b].epoch # dev.epoch
    BY <1>4 DEF PresenceInv, EpochsDiffer, Unmarks
  <1>8. ConnectedIsOnline'
    BY <1>2, <1>4, <1>6, <1>7 DEF PresenceInv, ConnectedIsOnline, Current
  <1>9. OnlineIsConnected'
    BY <1>2, <1>4, <1>6 DEF PresenceInv, OnlineIsConnected, Current, Unmarks
  <1> QED  BY <1>5, <1>8, <1>9 DEF PresenceInv

\* A worker dies with its connection.
LEMMA WorkerDiesKept ==
    ASSUME PresenceInv, NEW c \in Conns, WorkerDies(c)
    PROVE  PresenceInv'
  <1>1. conns[c] \in ConnRecord /\ link \in AgentLink
    BY DEF PresenceInv, PresenceTypeOK
  <1>0. PICK e : e = <<>>
    OBVIOUS
  <1>2. e = <<>> /\ e \in Seq(SUBSET Projects)
    BY <1>0
  <1> DEFINE r == [conns[c] EXCEPT !.pc = "died", !.wire = FALSE, !.job = e]
  <1>3. /\ r \in ConnRecord /\ r.pc = "died" /\ r.epoch = conns[c].epoch /\ r.hellos = conns[c].hellos
        /\ r.job = e
    BY <1>1, <1>2 DEF ConnRecord
  <1>4. /\ conns' = [conns EXCEPT ![c] = r] /\ conns[c].pc # "free"
        /\ UNCHANGED <<dev, link, local, catalogue>>
    BY <1>2 DEF WorkerDies
  <1> HIDE DEF r
  <1>5. Wanes(c, r)
    BY <1>2, <1>3, <1>4 DEF Wanes
  <1> QED  BY <1>1, <1>3, <1>4, <1>5, ConnQuiet

\* The agent gives its connection up.
LEMMA AgentDropsKept ==
    ASSUME PresenceInv, AgentDrops
    PROVE  PresenceInv'
  <1> DEFINE c == link.conn
             r == [conns[c] EXCEPT !.wire = FALSE]
  <1>1. c \in Conns /\ conns[c].pc # "free" /\ conns[c] \in ConnRecord /\ link \in AgentLink
    BY DEF PresenceInv, PresenceTypeOK, AgentLink, LinkMade, AgentDrops
  <1>2. conns' = [conns EXCEPT ![c] = r] /\ UNCHANGED <<dev, link, local, catalogue>>
    BY DEF AgentDrops
  <1> HIDE DEF c
  <1>3. /\ r \in ConnRecord /\ r.pc = conns[c].pc /\ r.epoch = conns[c].epoch
        /\ r.hellos = conns[c].hellos /\ r.job = conns[c].job
    BY <1>1 DEF ConnRecord
  <1> HIDE DEF r
  <1>4. Wanes(c, r)
    BY <1>1, <1>3 DEF Wanes, PresenceInv, JobsStarted
  <1> QED  BY <1>1, <1>2, <1>3, <1>4, ConnQuiet

\* A revocation moves the epoch on.
LEMMA RevokeKept ==
    ASSUME PresenceInv, RevokeDevice
    PROVE  PresenceInv'
  <1>1. /\ dev' = [epoch |-> dev.epoch + 1, status |-> "revoked"]
        /\ UNCHANGED <<conns, link, local, catalogue>> /\ dev.epoch \in Nat
    BY DEF RevokeDevice, PresenceInv, PresenceTypeOK, DeviceRow
  <1>2. dev' \in DeviceRow /\ dev'.epoch = dev.epoch + 1 /\ dev'.status = "revoked"
    BY <1>1 DEF DeviceRow
  <1>3. \A c \in Conns : conns[c].epoch \in Nat
    BY DEF PresenceInv, PresenceTypeOK, ConnRecord
  <1>4. EpochsDiffer'
    BY <1>1, <1>2, <1>3 DEF PresenceInv, EpochsDiffer
  <1>5. JobsStarted' /\ LinkMade' /\ HellosFollow' /\ PresenceTypeOK'
    BY <1>1, <1>2 DEF PresenceInv, PresenceTypeOK, JobsStarted, LinkMade, HellosFollow, Available
  <1>6. OnlineIsConnected' /\ ConnectedIsOnline'
    BY <1>2 DEF OnlineIsConnected, ConnectedIsOnline
  <1> QED  BY <1>4, <1>5, <1>6 DEF PresenceInv

\* The steps in which the agent dials, gives up or changes its projects.
LEMMA AgentMoves ==
    ASSUME PresenceInv,
           IssueTicket \/ RefuseTicket \/ SyncSent \/ AgentNotices \/ ChangeProjects \/ FenceLost
    PROVE  PresenceInv'
  <1>0. link \in AgentLink /\ local \subseteq Projects
    BY DEF PresenceInv, PresenceTypeOK
  <1>1. CASE IssueTicket \/ RefuseTicket \/ AgentNotices
    <2>1. /\ link' \in AgentLink /\ link'.conn = link.conn /\ link'.said = link.said
          /\ link'.at \in {"ticket", "idle"}
      BY <1>0, <1>1 DEF IssueTicket, RefuseTicket, AgentNotices, AgentLink
    <2>2. UNCHANGED <<dev, conns, catalogue, local>>
      BY <1>1 DEF IssueTicket, RefuseTicket, AgentNotices
    <2> QED  BY <1>0, <2>1, <2>2, LinkQuiet
  <1>2. CASE SyncSent \/ ChangeProjects
    <2>1. /\ link' \in AgentLink /\ link'.conn = link.conn /\ link'.said = link.said
          /\ link'.at = link.at
      BY <1>0, <1>2 DEF SyncSent, ChangeProjects, AgentLink
    <2>2. UNCHANGED <<dev, conns, catalogue>> /\ local' \subseteq Projects
      BY <1>0, <1>2 DEF SyncSent, ChangeProjects
    <2> QED  BY <2>1, <2>2, LinkQuiet
  <1>3. CASE FenceLost
    BY <1>0, <1>3, LinkQuiet DEF FenceLost
  <1> QED  BY <1>1, <1>2, <1>3

\* The agent says what it has registered.
LEMMA SaysHello ==
    ASSUME PresenceInv, AgentHello \/ SyncProjects
    PROVE  PresenceInv'
  <1>0. link \in AgentLink /\ local \subseteq Projects
    BY DEF PresenceInv, PresenceTypeOK
  <1>1. CASE AgentHello
    <2> DEFINE k == [link EXCEPT !.at = "linked"]
    <2>1. k \in AgentLink /\ k.conn = link.conn
      BY <1>0 DEF AgentLink
    <2>2. Hello(k) /\ link.at = "greeted" /\ UNCHANGED <<dev, fence, local, catalogue, spent>>
      BY <1>1 DEF AgentHello
    <2> HIDE DEF k
    <2> QED  BY <2>1, <2>2, HelloKept
  <1>2. CASE SyncProjects /\ link.at \in {"greeted", "linked"}
    <2> DEFINE k == [link EXCEPT !.sync = "sending"]
    <2>1. k \in AgentLink /\ k.conn = link.conn
      BY <1>0 DEF AgentLink
    <2>2. Hello(k) /\ UNCHANGED <<dev, fence, local, catalogue, spent>>
      BY <1>2 DEF SyncProjects
    <2> HIDE DEF k
    <2> QED  BY <1>2, <2>1, <2>2, HelloKept
  <1>3. CASE SyncProjects /\ link.at \notin {"greeted", "linked"}
    <2>1. link' = [link EXCEPT !.sync = "done"] /\ UNCHANGED <<dev, conns, catalogue, local>>
      BY <1>3 DEF SyncProjects
    <2>2. /\ link' \in AgentLink /\ link'.conn = link.conn /\ link'.said = link.said
          /\ link'.at = link.at
      BY <1>0, <2>1 DEF AgentLink
    <2> QED  BY <1>0, <2>1, <2>2, LinkQuiet
  <1> QED  BY <1>1, <1>2, <1>3

\* Every step keeps the invariant.
LEMMA PresenceStep_Inv == PresenceInv /\ [PresenceNext]_presenceVars => PresenceInv'
  <1> SUFFICES ASSUME PresenceInv, [PresenceNext]_presenceVars PROVE PresenceInv'
    OBVIOUS
  <1>1. CASE AgentStep
    BY <1>1, AgentMoves, SaysHello, ConsumeKept DEF AgentStep
  <1>2. ASSUME NEW c \in Conns, RelayStep(c) \/ RelayRaises(c) \/ WorkerDies(c) PROVE PresenceInv'
    BY <1>2, RelayMoves, MarkOnlineKept, MarkOfflineKept, ReceiveKept, SynchronizeKept,
       WorkerDiesKept
       DEF RelayStep
  <1>3. CASE ChangeProjects \/ FenceLost \/ AgentDrops \/ RevokeDevice
    BY <1>3, AgentMoves, AgentDropsKept, RevokeKept
  <1>4. CASE UNCHANGED presenceVars
    BY <1>4 DEF presenceVars, PresenceInv, PresenceTypeOK, EpochsDiffer, JobsStarted, LinkMade,
                HellosFollow, Available, OnlineIsConnected, ConnectedIsOnline, Current
  <1> QED  BY <1>1, <1>2, <1>3, <1>4 DEF PresenceNext

\* For any number of connections, in any interleaving with deaths, drops and a
\* revocation (websocket.py): the mark online has a connection behind it, a serving
\* connection has the mark, and a catalogue that the agent's connection wrote last is
\* that of its last HELLO.  The catalogue an older connection wrote is not covered.
THEOREM PresenceIsTrue == PresenceSpec => []PresenceSafe
  <1>1. PresenceInv => PresenceSafe
    BY DEF PresenceInv, PresenceSafe, CatalogueFollows, HellosFollow, Available
  <1>2. PresenceInit => PresenceInv
    BY PresenceInit_Inv
  <1>3. PresenceInv /\ [PresenceNext]_presenceVars => PresenceInv'
    BY PresenceStep_Inv
  <1> QED  BY <1>1, <1>2, <1>3, PTL DEF PresenceSpec

-----------------------------------------------------------------------------
(* The guards: client assertions, the rate limit, browser sessions.        *)

GuardNext == AssertionNext \/ RateNext \/ SessionsNext

\* The entry of the replay cache covers every time at which the assertion is fresh.
AssertionInv ==
    /\ seen \in [exp : Nat, until : Nat] /\ accepted \in {0, 1}
    /\ accepted = 0 => seen = [exp |-> 0, until |-> 0]
    /\ accepted = 1 => seen.exp # 0
    /\ seen.until # 0 => seen.until > now /\ seen.exp + Leeway <= seen.until
    /\ accepted = 1 /\ seen.until = 0 => seen.exp + Leeway <= now

\* How many of the requests that were let through are of the window that is open,
\* and when it was opened, or would be.
InWindow == IF window.count <= RateLimit THEN window.count ELSE RateLimit

WindowInv ==
    /\ window \in [count : Nat, opened : Nat, until : Nat]
    /\ window.count = 0 => window = NoWindow
    /\ window.count > 0 => /\ window.opened <= now
                           /\ window.until = window.opened + RateWindow
                           /\ now < window.until

\* The requests are in the order of time; those before the open window are not
\* younger than it.
PassedInv ==
    /\ passed \in Seq(Nat) /\ InWindow <= Len(passed)
    /\ \A i \in DOMAIN passed : passed[i] <= now
    /\ \A i, j \in DOMAIN passed : i <= j => passed[i] <= passed[j]
    /\ \A i \in DOMAIN passed : i + InWindow <= Len(passed) => passed[i] <= Opened

\* A request that is followed by a full window of requests before the open one is a
\* whole window older than the open one, and one that is followed by two full
\* windows is a whole window older than the last of them.
SpacedInv ==
    /\ \A i \in DOMAIN passed :
           i + RateLimit + InWindow <= Len(passed) => passed[i] + RateWindow <= Opened
    /\ \A i, j \in DOMAIN passed : i + 2 * RateLimit <= j => passed[i] + RateWindow <= passed[j]

\* The first entry of the history is the sign-in of the session that is open.
SessionInv ==
    /\ session \in [started : Nat, last : Nat, in : BOOLEAN]
    /\ browsed \in Seq(Nat)
    /\ session.in => Len(browsed) > 0 /\ browsed[1] = session.started /\ session.started <= now
    /\ \A i \in DOMAIN browsed : browsed[i] < browsed[1] + AbsoluteLimit

GuardInv == now \in Nat /\ AssertionInv /\ WindowInv /\ PassedInv /\ SpacedInv /\ SessionInv

\* The invariant holds at first.
LEMMA GuardInit_Inv == GuardInit => GuardInv
  <1> SUFFICES ASSUME GuardInit PROVE GuardInv
    OBVIOUS
  <1> USE GuardAssumption DEF GuardInit
  <1>1. AssertionInv
    BY DEF AssertionInv
  <1>2. WindowInv /\ InWindow = 0
    BY DEF WindowInv, NoWindow, InWindow
  <1>3. PassedInv /\ SpacedInv
    BY <1>2 DEF PassedInv, SpacedInv
  <1>4. SessionInv
    BY DEF SessionInv, NoSession
  <1> QED  BY <1>1, <1>2, <1>3, <1>4 DEF GuardInv

\* An assertion that was seen is remembered as long as it is valid.
LEMMA AssertionKept ==
    ASSUME GuardInv, Tick \/ AuthenticateClient
    PROVE  AssertionInv'
  <1> USE GuardAssumption DEF GuardInv, AssertionInv
  <1>1. CASE Tick
    <2>1. CASE seen.until <= now + 1
      <3>1. seen' = [exp |-> seen.exp, until |-> 0]
        BY <1>1, <2>1 DEF Tick
      <3> QED  BY <3>1, <1>1, <2>1 DEF Tick
    <2>2. CASE seen.until > now + 1
      BY <1>1, <2>2 DEF Tick
    <2> QED  BY <2>1, <2>2
  <1>2. CASE AuthenticateClient
    <2>1. PICK exp \in (IF seen.exp = 0 THEN 1 .. MaxNow ELSE {seen.exp}) :
             /\ Fresh(exp) /\ seen.until = 0
             /\ seen' = [exp |-> exp, until |-> now + ReplayTimeout(exp)]
      BY <1>2 DEF AuthenticateClient
    <2>2. accepted = 0 /\ accepted' = 1 /\ now' = now
      BY <1>2, <2>1 DEF AuthenticateClient, Fresh
    <2>3. exp \in Nat \ {0}
      BY <2>1
    <2> DEFINE u == now + ReplayTimeout(exp)
    <2>4. u \in Nat /\ u > now /\ exp + Leeway <= u
      BY <2>1, <2>3 DEF ReplayTimeout, Fresh
    <2> HIDE DEF u
    <2>5. seen'.exp = exp /\ seen'.until = u /\ seen' \in [exp : Nat, until : Nat]
      BY <2>1, <2>3, <2>4 DEF u
    <2> QED  BY <2>2, <2>3, <2>4, <2>5
  <1> QED  BY <1>1, <1>2

\* The requests let through, and the window, under the clock.
LEMMA TickRate ==
    ASSUME GuardInv, Tick
    PROVE  WindowInv' /\ PassedInv' /\ SpacedInv'
  <1> USE GuardAssumption
  <1>1. passed' = passed /\ now' = now + 1 /\ now \in Nat
    BY DEF Tick, GuardInv
  <1>2. CASE window.until <= now + 1
    <2>1. window' = NoWindow
      BY <1>2 DEF Tick
    <2>2. InWindow' = 0 /\ Opened' = now + 1
      BY <1>1, <2>1 DEF InWindow, Opened, NoWindow
    <2>3. WindowInv'
      BY <2>1 DEF WindowInv, NoWindow
    <2>4. InWindow \in 0 .. RateLimit
      BY DEF GuardInv, WindowInv, InWindow
    <2>5. Opened \in Nat /\ Opened <= now + 1
      BY DEF GuardInv, WindowInv, Opened
    <2>6. \A i \in DOMAIN passed :
             i + RateLimit <= Len(passed) => passed[i] + RateWindow <= now + 1
      <3> SUFFICES ASSUME NEW i \in DOMAIN passed, i + RateLimit <= Len(passed)
                   PROVE  passed[i] + RateWindow <= now + 1
        OBVIOUS
      <3>1. i \in Nat /\ Len(passed) \in Nat /\ passed[i] \in Nat
        BY DEF GuardInv, PassedInv
      <3>2. CASE window.count = 0
        BY <3>2, <3>1 DEF GuardInv, SpacedInv, InWindow, Opened
      <3>3. CASE window.count > 0
        <4>1. passed[i] <= Opened
          BY <2>4, <3>1 DEF GuardInv, PassedInv
        <4>2. Opened + RateWindow <= now + 1
          BY <1>2, <3>3 DEF GuardInv, WindowInv, Opened
        <4> QED  BY <1>1, <2>5, <3>1, <4>1, <4>2
      <3> QED  BY <3>2, <3>3 DEF GuardInv, WindowInv
    <2>7. PassedInv'
      BY <1>1, <2>2 DEF GuardInv, PassedInv
    <2>8. SpacedInv'
      <3>1. Len(passed) \in Nat /\ DOMAIN passed \subseteq Nat
        BY DEF GuardInv, PassedInv
      <3> QED  BY <1>1, <2>2, <2>6, <3>1 DEF GuardInv, SpacedInv
    <2> QED  BY <2>3, <2>7, <2>8
  <1>3. CASE ~(window.until <= now + 1)
    <2>1. window' = window
      BY <1>3 DEF Tick
    <2>2. window.count > 0
      BY <1>1, <1>3 DEF GuardInv, WindowInv, NoWindow
    <2>3. InWindow' = InWindow /\ Opened' = Opened
      BY <2>1, <2>2 DEF InWindow, Opened
    <2>4. WindowInv'
      BY <1>1, <1>3, <2>1, <2>2 DEF GuardInv, WindowInv
    <2>5. PassedInv'
      BY <1>1, <2>3 DEF GuardInv, PassedInv
    <2>6. SpacedInv'
      BY <1>1, <2>3 DEF GuardInv, SpacedInv
    <2> QED  BY <2>4, <2>5, <2>6
  <1> QED  BY <1>2, <1>3

\* The requests let through, and the window, under one more request.
LEMMA RequestRate ==
    ASSUME GuardInv, RateLimited
    PROVE  WindowInv' /\ PassedInv' /\ SpacedInv'
  <1> USE GuardAssumption
  <1>1. now' = now /\ now \in Nat /\ window' = Counted
    BY DEF RateLimited, GuardInv
  <1>2. window.count \in Nat /\ Counted.count = window.count + 1 /\ Opened \in Nat /\ Opened <= now
    BY DEF GuardInv, WindowInv, Counted, Opened
  <1>3. Opened' = Opened
    BY <1>1, <1>2 DEF Counted, Opened
  <1>4. WindowInv'
    BY <1>1, <1>2 DEF GuardInv, WindowInv, Counted, Opened
  <1>5. CASE OverLimit(Counted.count)
    <2>1. passed' = passed
      BY <1>5 DEF RateLimited
    <2>2. InWindow' = InWindow
      BY <1>1, <1>2, <1>5 DEF InWindow, OverLimit
    <2> QED  BY <1>1, <1>3, <1>4, <2>1, <2>2 DEF GuardInv, PassedInv, SpacedInv
  <1>6. CASE ~OverLimit(Counted.count)
    <2> DEFINE n == Len(passed)
    <2>1. passed' = Append(passed, now) /\ passed \in Seq(Nat) /\ n \in Nat
      BY <1>6 DEF RateLimited, GuardInv, PassedInv
    <2>2. InWindow' = InWindow + 1 /\ InWindow \in Nat /\ InWindow < RateLimit
      BY <1>1, <1>2, <1>6 DEF InWindow, OverLimit
    <2>3. /\ passed' \in Seq(Nat) /\ Len(passed') = n + 1 /\ DOMAIN passed' = 1 .. (n + 1)
          /\ DOMAIN passed = 1 .. n /\ passed'[n + 1] = now
          /\ \A i \in 1 .. n : passed'[i] = passed[i] /\ passed[i] \in Nat
      BY <1>1, <2>1
    <2> HIDE DEF n
    <2>4. \A i \in 1 .. n : passed[i] <= now
      BY <2>3 DEF GuardInv, PassedInv
    <2>5. InWindow <= n
      BY DEF GuardInv, PassedInv, n
    <2>6. \A i \in 1 .. (n + 1) : i = n + 1 \/ i \in 1 .. n
      BY <2>1
    <2>7. PassedInv'
      <3>1. \A i \in DOMAIN passed' : passed'[i] <= now'
        BY <1>1, <2>3, <2>4, <2>6
      <3>2. \A i, j \in DOMAIN passed' : i <= j => passed'[i] <= passed'[j]
        <4>1. \A i, j \in 1 .. n : i <= j => passed[i] <= passed[j]
          BY <2>3 DEF GuardInv, PassedInv
        <4> QED  BY <1>1, <2>1, <2>3, <2>4, <2>6, <4>1
      <3>3. \A i \in DOMAIN passed' : i + InWindow' <= Len(passed') => passed'[i] <= Opened'
        <4>1. \A i \in 1 .. n : i + InWindow <= n => passed[i] <= Opened
          BY <2>3 DEF GuardInv, PassedInv, n
        <4>2. \A i \in 1 .. (n + 1) : i + (InWindow + 1) <= n + 1 => i \in 1 .. n /\ i + InWindow <= n
          BY <2>1, <2>2
        <4> QED  BY <1>3, <2>2, <2>3, <4>1, <4>2
      <3>4. InWindow' <= Len(passed')
        BY <2>1, <2>2, <2>3, <2>5
      <3> QED  BY <2>3, <3>1, <3>2, <3>3, <3>4 DEF PassedInv
    <2>8. SpacedInv'
      <3>1. \A i \in 1 .. n : i + RateLimit + InWindow <= n => passed[i] + RateWindow <= Opened
        BY <2>3 DEF GuardInv, SpacedInv, n
      <3>2. \A i \in DOMAIN passed' :
               i + RateLimit + InWindow' <= Len(passed') => passed'[i] + RateWindow <= Opened'
        <4>1. \A i \in 1 .. (n + 1) : i + RateLimit + (InWindow + 1) <= n + 1
                 => i \in 1 .. n /\ i + RateLimit + InWindow <= n
          BY <2>1, <2>2
        <4> QED  BY <1>3, <2>2, <2>3, <3>1, <4>1
      <3>3. \A i, j \in DOMAIN passed' :
               i + 2 * RateLimit <= j => passed'[i] + RateWindow <= passed'[j]
        <4> SUFFICES ASSUME NEW i \in 1 .. (n + 1), NEW j \in 1 .. (n + 1), i + 2 * RateLimit <= j
                     PROVE  passed'[i] + RateWindow <= passed'[j]
          BY <2>3
        <4>0. i \in 1 .. n
          BY <2>1, <2>2
        <4>1. CASE j \in 1 .. n
          BY <2>3, <4>0, <4>1 DEF GuardInv, SpacedInv
        <4>2. CASE j = n + 1
          <5>1. i + RateLimit + InWindow <= n
            BY <2>1, <2>2, <4>2
          <5>2. passed[i] + RateWindow <= Opened
            BY <3>1, <4>0, <5>1
          <5> QED  BY <1>1, <1>2, <2>3, <4>0, <4>2, <5>2
        <4> QED  BY <2>6, <4>1, <4>2
      <3> QED  BY <3>2, <3>3 DEF SpacedInv
    <2> QED  BY <1>4, <2>7, <2>8
  <1> QED  BY <1>5, <1>6

\* A sequence of one, and one more.
LEMMA OneAndMore ==
    ASSUME NEW h \in Seq(Nat), Len(h) = 1, NEW x \in Nat, NEW t, t = Append(h, x)
    PROVE  t \in Seq(Nat) /\ Len(t) = 2 /\ t[1] = h[1] /\ t[2] = x
  <1>1. /\ t \in Seq(Nat) /\ Len(t) = Len(h) + 1 /\ t[Len(h) + 1] = x
        /\ \A i \in 1 .. Len(h) : t[i] = h[i]
    BY AppendFacts
  <1> QED  BY <1>1

\* A session is used before it is too old.
LEMMA SessionKept ==
    ASSUME GuardInv, Tick \/ SignIn \/ Browse
    PROVE  SessionInv'
  <1> USE GuardAssumption
  <1>0. /\ now \in Nat /\ session \in [started : Nat, last : Nat,
                                       in : BOOLEAN] /\ browsed \in Seq(Nat)
        /\ session.in => Len(browsed) > 0 /\ browsed[1] = session.started /\ session.started <= now
        /\ \A i \in DOMAIN browsed : browsed[i] < browsed[1] + AbsoluteLimit
    BY DEF GuardInv, SessionInv
  <1>1. CASE Tick
    BY <1>0, <1>1 DEF Tick, SessionInv
  <1>2. CASE SignIn
    BY <1>0, <1>2 DEF SignIn, SessionInv
  <1>3. CASE Browse
    <2>0. session.in /\ now' = now
      BY <1>3 DEF Browse
    <2>1. CASE Expired
      <3>1. session' = NoSession /\ browsed' = browsed
        BY <1>3, <2>1 DEF Browse
      <3>2. NoSession \in [started : Nat, last : Nat, in : BOOLEAN] /\ ~NoSession.in
        BY DEF NoSession
      <3> QED  BY <1>0, <3>1, <3>2 DEF SessionInv
    <2>2. CASE ~Expired
      <3>1. browsed' = Append(SubSeq(browsed, 1, 1),
                              now) /\ session' = [session EXCEPT !.last = now]
        BY <1>3, <2>2 DEF Browse
      <3>2. browsed[1] \in Nat /\ Len(browsed) \in Nat /\ Len(browsed) >= 1
        BY <1>0, <2>0
      <3>0. PICK h : h = SubSeq(browsed, 1, 1)
        OBVIOUS
      <3>3. h \in Seq(Nat) /\ Len(h) = 1 /\ h[1] = browsed[1]
        BY <1>0, <3>0, <3>2
      <3>4. browsed' = Append(h, now)
        BY <3>0, <3>1
      <3>5. browsed' \in Seq(Nat) /\ Len(browsed') = 2 /\ browsed'[1] = h[1] /\ browsed'[2] = now
        <4>1. now \in Nat
          BY <1>0
        <4> QED  BY <4>1, <3>3, <3>4, OneAndMore
      <3>6. now < browsed[1] + AbsoluteLimit
        BY <1>0, <2>0, <2>2 DEF Expired
      <3>7. session'.started = session.started /\ session' \in [started : Nat, last : Nat,
                                                                in : BOOLEAN]
        BY <1>0, <3>1
      <3>8. \A i \in DOMAIN browsed' : i = 1 \/ i = 2
        BY <3>5
      <3>9. \A i \in DOMAIN browsed' : browsed'[i] < browsed'[1] + AbsoluteLimit
        BY <3>2, <3>3, <3>5, <3>6, <3>8
      <3> QED  BY <1>0, <2>0, <3>3, <3>5, <3>7, <3>9 DEF SessionInv
    <2> QED  BY <2>1, <2>2
  <1> QED  BY <1>1, <1>2, <1>3

\* Every step keeps the invariant.
LEMMA GuardStep_Inv == GuardInv /\ [GuardNext]_guardVars => GuardInv'
  <1> SUFFICES ASSUME GuardInv, [GuardNext]_guardVars PROVE GuardInv'
    OBVIOUS
  <1>0. now \in Nat
    BY DEF GuardInv
  <1>1. CASE Tick
    BY <1>0, <1>1, AssertionKept, TickRate, SessionKept DEF GuardInv, Tick
  <1>2. CASE AuthenticateClient
    <2>1. UNCHANGED <<now, window, passed, session, browsed>>
      BY <1>2 DEF AuthenticateClient
    <2>2. WindowInv' /\ PassedInv' /\ SpacedInv' /\ SessionInv'
      BY <2>1 DEF GuardInv, WindowInv, PassedInv, SpacedInv, SessionInv, InWindow, Opened
    <2> QED  BY <1>2, <2>1, <2>2, AssertionKept DEF GuardInv
  <1>3. CASE RateLimited
    <2>1. UNCHANGED <<now, seen, accepted, session, browsed>>
      BY <1>3 DEF RateLimited
    <2>2. AssertionInv' /\ SessionInv'
      BY <2>1 DEF GuardInv, AssertionInv, SessionInv
    <2> QED  BY <1>3, <2>1, <2>2, RequestRate DEF GuardInv
  <1>4. CASE SignIn \/ Browse
    <2>1. UNCHANGED <<now, seen, accepted, window, passed>>
      BY <1>4 DEF SignIn, Browse
    <2>2. AssertionInv' /\ WindowInv' /\ PassedInv' /\ SpacedInv'
      BY <2>1 DEF GuardInv, AssertionInv, WindowInv, PassedInv, SpacedInv, InWindow, Opened
    <2> QED  BY <1>4, <2>1, <2>2, SessionKept DEF GuardInv
  <1>5. CASE UNCHANGED guardVars
    BY <1>5 DEF guardVars, GuardInv, AssertionInv, WindowInv, PassedInv, SpacedInv, SessionInv,
                InWindow, Opened
  <1> QED  BY <1>1, <1>2, <1>3, <1>4, <1>5 DEF GuardNext, AssertionNext, RateNext, SessionsNext

\* From the first request of a stretch on, at most two windows' worth are in it.
LEMMA SpacedBounds ==
    ASSUME GuardInv
    PROVE  RateBounded
  <1> USE GuardAssumption
  <1> SUFFICES ASSUME NEW i \in DOMAIN passed
               PROVE  Cardinality({j \in DOMAIN passed : passed[j] \in passed[i] .. passed[i] + RateWindow - 1})
                          <= 2 * RateLimit
    BY DEF RateBounded
  <1> DEFINE S == {j \in DOMAIN passed : passed[j] \in passed[i] .. passed[i] + RateWindow - 1}
  <1>1. passed \in Seq(Nat) /\ DOMAIN passed \subseteq Nat /\ \A j \in DOMAIN passed : passed[j] \in Nat
    BY DEF GuardInv, PassedInv
  <1>2. S \subseteq Nat /\ i \in S
    BY <1>1
  <1> HIDE DEF S
  <1>3. PICK k \in S : \A j \in S : k <= j
    BY <1>2, LeastNumber
  <1>4. k \in Nat /\ k \in DOMAIN passed /\ passed[k] \in Nat /\ passed[k] >= passed[i]
    BY <1>1, <1>2, <1>3 DEF S
  <1>5. \A j \in S : j <= k + 2 * RateLimit - 1
    <2> SUFFICES ASSUME NEW j \in S, k + 2 * RateLimit <= j PROVE FALSE
      BY <1>2, <1>4
    <2>1. j \in DOMAIN passed /\ passed[j] \in Nat /\ passed[j] <= passed[i] + RateWindow - 1
      BY <1>1 DEF S
    <2>2. passed[k] + RateWindow <= passed[j]
      BY <1>4, <2>1 DEF GuardInv, SpacedInv
    <2> QED  BY <1>1, <1>4, <2>1, <2>2
  <1>6. S \subseteq k .. (k + 2 * RateLimit - 1)
    BY <1>2, <1>3, <1>4, <1>5
  <1> DEFINE T == k .. (k + 2 * RateLimit - 1)
  <1>7. IsFiniteSet(T) /\ Cardinality(T) <= 2 * RateLimit /\ Cardinality(T) \in Nat
    <2> DEFINE m == k + 2 * RateLimit - 1
    <2>1. k \in Int /\ m \in Int /\ T = k .. m /\ (k > m => RateLimit = 0)
      BY <1>4
    <2>2. m - k + 1 = 2 * RateLimit
      BY <1>4
    <2> HIDE DEF m
    <2>3. IsFiniteSet(k .. m) /\ Cardinality(k .. m) = IF k > m THEN 0 ELSE m - k + 1
      BY <2>1, FS_Interval
    <2> QED  BY <2>1, <2>2, <2>3
  <1> HIDE DEF T
  <1>8. Cardinality(S) <= Cardinality(T) /\ Cardinality(S) \in Nat
    BY <1>6, <1>7, FS_Subset, FS_CardinalityType DEF T
  <1>9. Cardinality(S) <= 2 * RateLimit
    BY <1>7, <1>8
  <1> QED  BY <1>9 DEF S

\* What the invariant says of assertions, the rate limit and sessions.
LEMMA GuardInvSafe ==
    GuardInv => AssertionOnce /\ RateBounded /\ WindowEnds /\ SessionBounded
  <1> SUFFICES ASSUME GuardInv PROVE AssertionOnce /\ RateBounded /\ WindowEnds /\ SessionBounded
    OBVIOUS
  <1> USE GuardAssumption
  <1>1. AssertionOnce
    BY DEF AssertionOnce, GuardInv, AssertionInv
  <1>2. WindowEnds
    BY DEF WindowEnds, GuardInv, WindowInv
  <1>3. SessionBounded
    BY DEF SessionBounded, GuardInv, SessionInv
  <1> QED  BY <1>1, <1>2, <1>3, SpacedBounds

-----------------------------------------------------------------------------
(* Accounts: the links of an administrator and the enrolment of devices.   *)

LinkRecord == [used : BOOLEAN, valid : BOOLEAN, lock : Forms \cup {0}]

FormRecord == [at : {"start", "refused", "open", "done"}, link : LinkKinds \cup {"none"}]

\* A form that is open holds the lock of a link that has not had its effect.
LinkInv ==
    /\ links \in [LinkKinds -> LinkRecord]
    /\ forms \in [Forms -> FormRecord]
    /\ uses \in [LinkKinds -> {0, 1}]
    /\ \A l \in LinkKinds : ~links[l].used => uses[l] = 0
    /\ \A f \in Forms : forms[f].at = "open" =>
           /\ forms[f].link \in LinkKinds
           /\ links[forms[f].link].lock = f /\ ~links[forms[f].link].used

DeviceRecord ==
    [of : Enrolments, name : {NameOf[e] : e \in Enrolments}, key : {KeyOf[e] : e \in Enrolments},
     active : BOOLEAN]

EnrolledInv == devices \subseteq DeviceRecord /\ DevicesDistinct

AccountInv == LinkInv /\ EnrolledInv

\* The invariant holds at first.
LEMMA AccountInit_Inv == AccountInit => AccountInv
  BY DEF AccountInit, AccountInv, LinkInv, EnrolledInv, DevicesDistinct, LinkRecord, FormRecord,
     LinkKinds

\* A link is used once, whoever has its form open.
LEMMA LinksKept ==
    ASSUME LinkInv,
           \/ \E f \in Forms : (\E l \in LinkKinds : OpenForm(f, l)) \/ UseLink(f) \/ LeaveForm(f)
           \/ \E l \in LinkKinds : LinkEnds(l)
    PROVE  LinkInv'
  <1>0. \A l \in LinkKinds : links[l] \in LinkRecord
    BY DEF LinkInv
  <1>1. ASSUME NEW f \in Forms, NEW l \in LinkKinds, OpenForm(f, l) PROVE LinkInv'
    <2>1. CASE links[l].used \/ ~links[l].valid
      <3> DEFINE g == [at |-> "refused", link |-> l]
      <3>1. forms' = [forms EXCEPT ![f] = g] /\ links' = links /\ uses' = uses
        BY <1>1, <2>1 DEF OpenForm
      <3>2. g \in FormRecord /\ g.at # "open"
        BY DEF FormRecord
      <3> HIDE DEF g
      <3> QED  BY <3>1, <3>2 DEF LinkInv
    <2>2. CASE ~(links[l].used \/ ~links[l].valid)
      <3> DEFINE k == [links[l] EXCEPT !.lock = f]
      <3>1. k \in LinkRecord /\ k.lock = f /\ k.used = links[l].used
        BY <1>0 DEF LinkRecord
      <3>2. /\ links' = [links EXCEPT ![l] = k] /\ uses' = uses /\ links[l].lock = 0
            /\ forms' = [forms EXCEPT ![f] = [at |-> "open", link |-> l]]
        BY <1>1, <2>2 DEF OpenForm, MayRead
      <3> HIDE DEF k
      <3>3. links' \in [LinkKinds -> LinkRecord] /\ forms' \in [Forms -> FormRecord]
        BY <3>1, <3>2 DEF LinkInv, FormRecord
      <3> QED  BY <2>2, <3>1, <3>2, <3>3, FormAssumption DEF LinkInv
    <2> QED  BY <2>1, <2>2
  <1>2. ASSUME NEW f \in Forms, UseLink(f) PROVE LinkInv'
    <2> DEFINE l == forms[f].link
               k == [links[l] EXCEPT !.used = TRUE, !.lock = 0]
               g == [forms[f] EXCEPT !.at = "done"]
    <2>1. l \in LinkKinds /\ links[l].lock = f /\ ~links[l].used /\ uses[l] = 0
      BY <1>2 DEF UseLink, LinkInv
    <2>2. k \in LinkRecord /\ k.used
      BY <1>0, <2>1 DEF LinkRecord
    <2>3. g \in FormRecord /\ g.at = "done"
      BY DEF LinkInv, FormRecord
    <2>4. /\ links' = [links EXCEPT ![l] = k] /\ forms' = [forms EXCEPT ![f] = g]
          /\ uses' = [uses EXCEPT ![l] = uses[l] + 1]
      BY <1>2 DEF UseLink
    <2> HIDE DEF k, g, l
    <2>5. uses' = [uses EXCEPT ![l] = 1]
      BY <2>1, <2>4
    <2>6. links' \in [LinkKinds -> LinkRecord] /\ forms' \in [Forms -> FormRecord]
          /\ uses' \in [LinkKinds -> {0, 1}]
      BY <2>1, <2>2, <2>3, <2>4, <2>5 DEF LinkInv
    <2>7. \A h \in Forms : forms'[h].at = "open" => forms[h].at = "open" /\ forms'[h] = forms[h] /\ forms[h].link # l
      BY <1>2, <2>1, <2>3, <2>4 DEF LinkInv
    <2> QED  BY <2>1, <2>2, <2>4, <2>5, <2>6, <2>7 DEF LinkInv
  <1>3. ASSUME NEW f \in Forms, LeaveForm(f) PROVE LinkInv'
    <2> DEFINE l == forms[f].link
               k == [links[l] EXCEPT !.lock = 0]
               g == [forms[f] EXCEPT !.at = "start"]
    <2>1. l \in LinkKinds /\ links[l].lock = f
      BY <1>3 DEF LeaveForm, LinkInv
    <2>2. k \in LinkRecord /\ k.used = links[l].used
      BY <1>0, <2>1 DEF LinkRecord
    <2>3. g \in FormRecord /\ g.at = "start"
      BY DEF LinkInv, FormRecord
    <2>4. links' = [links EXCEPT ![l] = k] /\ forms' = [forms EXCEPT ![f] = g] /\ uses' = uses
      BY <1>3 DEF LeaveForm
    <2> HIDE DEF k, g, l
    <2>5. links' \in [LinkKinds -> LinkRecord] /\ forms' \in [Forms -> FormRecord]
      BY <2>1, <2>2, <2>3, <2>4 DEF LinkInv
    <2>6. \A h \in Forms : forms'[h].at = "open" => forms[h].at = "open" /\ forms'[h] = forms[h] /\ forms[h].link # l
      BY <1>3, <2>1, <2>3, <2>4 DEF LinkInv
    <2> QED  BY <2>1, <2>2, <2>4, <2>5, <2>6 DEF LinkInv
  <1>4. ASSUME NEW l \in LinkKinds, LinkEnds(l) PROVE LinkInv'
    <2> DEFINE k == [links[l] EXCEPT !.valid = FALSE]
    <2>1. k \in LinkRecord /\ k.used = links[l].used /\ k.lock = links[l].lock
      BY <1>0 DEF LinkRecord
    <2>2. links' = [links EXCEPT ![l] = k] /\ forms' = forms /\ uses' = uses
      BY <1>4 DEF LinkEnds
    <2> HIDE DEF k
    <2> QED  BY <2>1, <2>2 DEF LinkInv
  <1> QED  BY <1>1, <1>2, <1>3, <1>4

\* An active device keeps its name and key to itself.
LEMMA DevicesKept ==
    ASSUME EnrolledInv,
           (\E e \in Enrolments : CreateDevice(e)) \/ RevokeEnrolled
    PROVE  EnrolledInv'
  <1>1. ASSUME NEW e \in Enrolments, CreateDevice(e) PROVE EnrolledInv'
    <2>1. CASE ConstraintHolds(e)
      <3> DEFINE n == [of |-> e, name |-> NameOf[e], key |-> KeyOf[e], active |-> TRUE]
      <3>1. n.of = e /\ n.name = NameOf[e] /\ n.key = KeyOf[e] /\ n.active = TRUE
             /\ n \in DeviceRecord
        BY DEF DeviceRecord
      <3>2. devices' = devices \cup {n}
        BY <1>1, <2>1 DEF CreateDevice
      <3> HIDE DEF n
      <3>3. \A d \in devices : d.key # n.key /\ (d.active => d.name # n.name)
        BY <2>1, <3>1 DEF ConstraintHolds, NameTaken, KeyTaken
      <3>4. DevicesDistinct'
        BY <3>2, <3>3 DEF EnrolledInv, DevicesDistinct
      <3> QED  BY <3>1, <3>2, <3>4 DEF EnrolledInv
    <2>2. CASE ~ConstraintHolds(e)
      BY <1>1, <2>2 DEF CreateDevice, EnrolledInv, DevicesDistinct
    <2> QED  BY <2>1, <2>2
  <1>2. ASSUME RevokeEnrolled PROVE EnrolledInv'
    <2>1. PICK d \in devices :
             d.active /\ devices' = (devices \ {d}) \cup {[d EXCEPT !.active = FALSE]}
      BY <1>2 DEF RevokeEnrolled
    <2> DEFINE n == [d EXCEPT !.active = FALSE]
    <2>2. d \in DeviceRecord
      BY DEF EnrolledInv
    <2>3. n.of = d.of /\ n.name = d.name /\ n.key = d.key /\ n.active = FALSE /\ n \in DeviceRecord
      BY <2>2 DEF DeviceRecord
    <2>4. devices' = (devices \ {d}) \cup {n}
      BY <2>1
    <2> HIDE DEF n
    <2>5. DevicesDistinct'
      BY <2>3, <2>4 DEF EnrolledInv, DevicesDistinct
    <2> QED  BY <2>3, <2>4, <2>5 DEF EnrolledInv
  <1> QED  BY <1>1, <1>2

\* Every step keeps the invariant.
LEMMA AccountStep_Inv == AccountInv /\ [AccountNext]_accountVars => AccountInv'
  <1> SUFFICES ASSUME AccountInv, [AccountNext]_accountVars PROVE AccountInv'
    OBVIOUS
  <1>1. CASE \/ \E f \in Forms : (\E l \in LinkKinds : OpenForm(f, l)) \/ UseLink(f) \/ LeaveForm(f)
             \/ \E l \in LinkKinds : LinkEnds(l)
    <2>1. devices' = devices
      BY <1>1 DEF OpenForm, UseLink, LeaveForm, LinkEnds
    <2>2. LinkInv'
      BY <1>1, LinksKept DEF AccountInv
    <2> QED  BY <2>1, <2>2 DEF AccountInv, EnrolledInv, DevicesDistinct
  <1>2. CASE (\E e \in Enrolments : CreateDevice(e)) \/ RevokeEnrolled
    <2>1. UNCHANGED <<links, forms, uses>>
      BY <1>2 DEF CreateDevice, RevokeEnrolled
    <2>2. EnrolledInv'
      BY <1>2, DevicesKept DEF AccountInv
    <2> QED  BY <2>1, <2>2 DEF AccountInv, LinkInv
  <1>3. CASE (\E e \in Enrolments : CheckEnrolment(e)) \/ UNCHANGED accountVars
    <2>1. UNCHANGED <<links, forms, uses, devices>>
      BY <1>3 DEF CheckEnrolment, accountVars
    <2> QED  BY <2>1 DEF AccountInv, LinkInv, EnrolledInv, DevicesDistinct
  <1> QED  BY <1>1, <1>2, <1>3 DEF AccountNext

\* What the invariant says of links and devices.
LEMMA AccountInvSafe == AccountInv => LinkOnce /\ DevicesDistinct
  BY DEF AccountInv, LinkInv, EnrolledInv, LinkOnce

-----------------------------------------------------------------------------
(* The guards in the composition of the relay's parts.                     *)

\* A step of the relay is, for the guards and for the accounts, one of their own
\* steps or none.
LEMMA PartSteps ==
    [Next]_relayVars => [GuardNext]_guardVars /\ [AccountNext]_accountVars
  <1>1. Next => (GuardNext \/ UNCHANGED guardVars) /\ (AccountNext \/ UNCHANGED accountVars)
    BY DEF Next, GuardNext
  <1>2. UNCHANGED relayVars => UNCHANGED guardVars /\ UNCHANGED accountVars
    BY DEF relayVars
  <1> QED  BY <1>1, <1>2

\* Whatever the other parts do, an assertion is accepted once, at most two windows'
\* worth of requests pass in any stretch as long as a window, a window ends, a session
\* is not used past its absolute limit, a link has its effect once and active devices
\* have names and keys of their own (oauth.py, middleware.py, views.py).
THEOREM RelayGuardsSafe == Spec => []GuardsSafe
  <1>1. Init => GuardInv /\ AccountInv
    BY GuardInit_Inv, AccountInit_Inv DEF Init
  <1>2. GuardInv /\ AccountInv /\ [Next]_relayVars => (GuardInv /\ AccountInv)'
    BY PartSteps, GuardStep_Inv, AccountStep_Inv
  <1>3. GuardInv /\ AccountInv => GuardsSafe
    BY GuardInvSafe, AccountInvSafe DEF GuardsSafe
  <1> QED  BY <1>1, <1>2, <1>3, PTL DEF Spec

-----------------------------------------------------------------------------
(* The pages of the project list.  The cursor separates what was listed    *)
(* from what follows, and what was there all along up to the cursor was    *)
(* listed.                                                                 *)

ListTypes ==
    /\ shown \in Seq(SUBSET Ids) /\ after \in Nat /\ more \in BOOLEAN
    /\ there \subseteq Ids /\ always \subseteq there

ListInv ==
    /\ ListTypes
    /\ \A i, j \in DOMAIN shown : i < j => \A a \in shown[i] : \A b \in shown[j] : a < b
    /\ more => \A k \in DOMAIN shown : \A a \in shown[k] : a <= after
    /\ \A i \in always : ~more \/ i <= after => \E k \in DOMAIN shown : i \in shown[k]

\* The ranks of the projects that follow.
LEMMA Ranks ==
    ASSUME ListTypes
    PROVE  /\ IsFiniteSet(Following) /\ Following \subseteq Ids /\ Cardinality(Following) \in Nat
           /\ \A i \in Following : Rank(i) \in Nat /\ Rank(i) < Cardinality(Following)
           /\ \A i, j \in Following : i <= j => Rank(i) <= Rank(j)
  <1>1. IsFiniteSet(Ids) /\ Following \subseteq Ids /\ Ids \subseteq Nat
    <2>1. 1 \in Int /\ NProjects \in Int /\ Ids \subseteq Nat
      BY ListAssumption DEF Ids
    <2>2. IsFiniteSet(Ids)
      BY <2>1, FS_Interval DEF Ids
    <2> QED  BY <2>1, <2>2 DEF Following, ListTypes
  <1>2. IsFiniteSet(Following)
    BY <1>1, FS_Subset
  <1>3. Cardinality(Following) \in Nat
    BY <1>2, FS_CardinalityType
  <1>4. ASSUME NEW i \in Following
        PROVE  Rank(i) \in Nat /\ Rank(i) < Cardinality(Following)
    <2> DEFINE S == {j \in Following : j < i}
    <2>1. S \subseteq Following /\ i \notin S /\ i \in Nat
      BY <1>1 DEF Ids
    <2>2. IsFiniteSet(S) /\ Cardinality(S) <= Cardinality(Following)
          /\ (Cardinality(Following) = Cardinality(S) => Following = S)
      BY <1>2, <2>1, FS_Subset
    <2>3. Cardinality(S) \in Nat
      BY <2>2, FS_CardinalityType
    <2>4. Rank(i) = Cardinality(S)
      BY DEF Rank
    <2> HIDE DEF S
    <2> QED  BY <1>3, <2>1, <2>2, <2>3, <2>4
  <1>5. ASSUME NEW i \in Following, NEW j \in Following, i <= j
        PROVE  Rank(i) <= Rank(j)
    <2> DEFINE S == {k \in Following : k < i}
               T == {k \in Following : k < j}
    <2>1. S \subseteq T /\ T \subseteq Following
      <3>1. \A k \in Following : k \in Nat
        BY <1>1
      <3>2. \A k \in Following : k < i => k < j
        BY <1>5, <3>1
      <3> QED  BY <3>2
    <2>2. IsFiniteSet(T)
      BY <1>2, <2>1, FS_Subset
    <2>3. Cardinality(S) <= Cardinality(T)
      BY <2>1, <2>2, FS_Subset
    <2> QED  BY <2>3 DEF Rank
  <1> QED  BY <1>1, <1>2, <1>3, <1>4, <1>5

\* A page is what follows up to its cursor, or all that follows.
LEMMA PageCut ==
    ASSUME ListTypes, NEW limit \in Nat \ {0}
    PROVE  /\ Page(limit) \subseteq Following
           /\ Cardinality(Following) <= limit => Page(limit) = Following
           /\ Cardinality(Following) > limit =>
                  /\ Cursor(limit) \in Page(limit)
                  /\ \A i \in Following : i \in Page(limit) <=> i <= Cursor(limit)
  <1>1. Page(limit) \subseteq Following
    BY DEF Page
  <1>2. Cardinality(Following) <= limit => Page(limit) = Following
    BY Ranks DEF Page
  <1>3. ASSUME Cardinality(Following) > limit
        PROVE  /\ Cursor(limit) \in Page(limit)
               /\ \A i \in Following : i \in Page(limit) <=> i <= Cursor(limit)
    <2>1. Following # {} /\ Following \subseteq Nat
      <3>1. ASSUME Following = {} PROVE FALSE
        <4>1. Cardinality(Following) = 0
          BY <3>1, FS_EmptySet
        <4> QED  BY <1>3, <4>1
      <3>2. \A i \in Ids : i \in Nat
        BY ListAssumption DEF Ids
      <3> QED  BY <3>1, <3>2, Ranks
    <2>2. PICK n \in Following : \A m \in Following : n <= m
      BY <2>1, LeastNumber
    <2>3. Rank(n) = 0
      <3>0. \A j \in Following : ~(j < n)
        BY <2>1, <2>2
      <3>1. {j \in Following : j < n} = {}
        BY <3>0
      <3> QED  BY <3>1, FS_EmptySet DEF Rank
    <2>4. n \in Page(limit)
      BY <2>3 DEF Page
    <2>5. \E i \in Page(limit) : \A j \in Page(limit) : j <= i
      <3> DEFINE U == {u \in Nat : \A j \in Page(limit) : j <= u}
      <3>1. NProjects \in U
        BY <1>1, Ranks, ListAssumption DEF Ids
      <3>2. U \subseteq Nat /\ U # {}
        BY <3>1
      <3>3. PICK u \in U : \A v \in U : u <= v
        <4> HIDE DEF U
        <4> QED  BY <3>2, LeastNumber
      <3>4. u \in Page(limit)
        <4> SUFFICES ASSUME u \notin Page(limit) PROVE FALSE
          OBVIOUS
        <4>0. u \in Nat /\ \A j \in Page(limit) : j <= u /\ j \in Nat /\ j # u
          BY <1>1, <2>1
        <4>1. u \in Nat /\ \A j \in Page(limit) : j < u /\ j \in Nat
          BY <4>0
        <4>2. n < u /\ n \in Nat
          BY <2>1, <2>4, <4>1
        <4>3. u - 1 \in Nat /\ \A j \in Page(limit) : j <= u - 1
          BY <4>1, <4>2
        <4>4. u - 1 \in U
          BY <4>3
        <4> QED  BY <3>3, <4>1, <4>4
      <3> QED  BY <3>4
    <2>6. Cursor(limit) \in Page(limit) /\ \A j \in Page(limit) : j <= Cursor(limit)
      BY <2>5 DEF Cursor
    <2>7. ASSUME NEW i \in Following, i <= Cursor(limit)
          PROVE  i \in Page(limit)
      <3>1. Rank(i) <= Rank(Cursor(limit)) /\ Rank(Cursor(limit)) < limit
        BY <1>1, <2>6, <2>7, Ranks DEF Page
      <3> QED  BY <1>1, <2>6, <3>1, Ranks DEF Page
    <2> QED  BY <2>6, <2>7
  <1> QED  BY <1>1, <1>2, <1>3

LEMMA ListInvInit ==
    ASSUME ListInit
    PROVE  ListInv
  <1>1. ListTypes
    BY DEF ListInit, ListTypes
  <1>2. \A i \in always : i \in Nat /\ ~(i <= 0)
    BY ListAssumption DEF ListInit, Ids
  <1> QED  BY <1>1, <1>2 DEF ListInit, ListInv

LEMMA ListPageKeeps ==
    ASSUME ListInv, NEW limit \in PageLimits, ListProjects(limit)
    PROVE  ListInv'
  <1> DEFINE pg == Page(limit)
             n == Len(shown)
  <1>0. limit \in Nat \ {0} /\ ListTypes
    BY ListAssumption DEF ListInv
  <1>1. /\ shown' = Append(shown, pg) /\ UNCHANGED <<there, always>> /\ more
        /\ more' = (Cardinality(Following) > limit)
        /\ after' = IF more' THEN Cursor(limit) ELSE after
    BY DEF ListProjects
  <1>2. /\ pg \subseteq Following /\ Following \subseteq Ids /\ Cardinality(Following) \in Nat
        /\ ~more' => pg = Following
        /\ more' => /\ after' \in pg
                    /\ \A i \in Following : i \in pg <=> i <= after'
    <2>1. more' <=> Cardinality(Following) > limit
      BY <1>1
    <2>2. Following \subseteq Ids /\ Cardinality(Following) \in Nat
      BY <1>0, Ranks
    <2>3. ~more' => Cardinality(Following) <= limit
      BY <1>0, <2>1, <2>2
    <2>4. more' => after' = Cursor(limit)
      BY <1>1
    <2> QED  BY <1>0, <2>1, <2>2, <2>3, <2>4, PageCut
  <1>3. /\ pg \in SUBSET Ids /\ after' \in Nat /\ more' \in BOOLEAN
    <2>1. more' \in BOOLEAN
      BY <1>1
    <2>2. after' = after \/ after' \in Ids
      BY <1>1, <1>2
    <2>3. \A i \in Ids : i \in Nat
      BY ListAssumption DEF Ids
    <2> QED  BY <1>0, <1>2, <2>1, <2>2, <2>3 DEF ListTypes
  <1> HIDE DEF pg
  <1>4. /\ shown \in Seq(SUBSET Ids) /\ n \in Nat /\ shown' \in Seq(SUBSET Ids) /\ DOMAIN shown = 1 .. n
        /\ DOMAIN shown' = 1 .. n + 1 /\ shown'[n + 1] = pg
        /\ \A k \in 1 .. n : shown'[k] = shown[k]
    BY <1>0, <1>1, <1>3 DEF ListTypes
  <1> HIDE DEF n
  <1>5. ListTypes'
    BY <1>0, <1>1, <1>3, <1>4 DEF ListTypes
  <1>6. /\ \A k \in 1 .. n : \A a \in shown[k] : a <= after /\ a \in Nat
        /\ \A b \in pg : b > after /\ b \in Nat
        /\ after \in Nat
    BY <1>0, <1>1, <1>2, <1>4 DEF ListInv, ListTypes, Following, Ids
  <1>7. \A i, j \in DOMAIN shown' : i < j => \A a \in shown'[i] : \A b \in shown'[j] : a < b
    <2> SUFFICES ASSUME NEW i \in 1 .. n + 1, NEW j \in 1 .. n + 1, i < j,
                        NEW a \in shown'[i], NEW b \in shown'[j]
                 PROVE  a < b
      BY <1>4
    <2>1. i \in 1 .. n /\ a \in shown[i]
      BY <1>4
    <2>2. CASE j \in 1 .. n
      BY <1>4, <2>1, <2>2 DEF ListInv
    <2>3. CASE j = n + 1
      BY <1>4, <1>6, <2>1, <2>3
    <2> QED  BY <1>4, <2>2, <2>3
  <1>8. more' => \A k \in DOMAIN shown' : \A a \in shown'[k] : a <= after'
    <2> SUFFICES ASSUME more', NEW k \in 1 .. n + 1, NEW a \in shown'[k]
                 PROVE  a <= after'
      BY <1>4
    <2>1. after < after' /\ after' \in Nat
      BY <1>2, <1>6
    <2>2. CASE k \in 1 .. n
      BY <1>4, <1>6, <2>1, <2>2
    <2>3. CASE k = n + 1
      BY <1>2, <1>4, <2>3
    <2> QED  BY <1>4, <2>2, <2>3
  <1>9. ASSUME NEW i \in always', ~more' \/ i <= after'
        PROVE  \E k \in DOMAIN shown' : i \in shown'[k]
    <2>1. i \in there /\ i \in Nat /\ i \in always
      BY <1>0, <1>1 DEF ListTypes, Ids
    <2>2. CASE i <= after
      <3>1. PICK k \in 1 .. n : i \in shown[k]
        BY <1>4, <2>1, <2>2 DEF ListInv
      <3>2. k \in 1 .. n + 1
        BY <1>4
      <3> QED  BY <1>4, <3>1, <3>2
    <2>3. CASE ~(i <= after)
      <3>1. i \in Following
        BY <1>6, <2>1, <2>3 DEF Following
      <3>2. i \in pg
        BY <1>2, <1>9, <3>1
      <3>3. n + 1 \in 1 .. n + 1
        BY <1>4
      <3> QED  BY <1>4, <3>2, <3>3
    <2> QED  BY <2>2, <2>3
  <1> QED  BY <1>5, <1>7, <1>8, <1>9 DEF ListInv

LEMMA ListInvStep ==
    ASSUME ListInv, [ListNext]_pageListVars
    PROVE  ListInv'
  <1>1. CASE UNCHANGED pageListVars
    BY <1>1 DEF pageListVars, ListInv, ListTypes
  <1>2. CASE CatalogueFlips
    <2>1. /\ UNCHANGED <<shown, after, more>> /\ always' \subseteq always
          /\ there' \subseteq Ids /\ always' \subseteq there'
      BY <1>2 DEF CatalogueFlips, ListInv, ListTypes
    <2> QED  BY <2>1 DEF ListInv, ListTypes
  <1> QED  BY <1>1, <1>2, ListPageKeeps DEF ListNext

-----------------------------------------------------------------------------
(* Tools and their permissions.  The tables agree tool by tool; then what  *)
(* a client was granted only grows when it connects again.                 *)

\* What the tables say of one tool is what the relay demands and redelivers by.
Agreed(tool, contract) ==
    /\ Demanded(tool) = contract.scopes /\ contract.scopes \subseteq ToolScopeNames
    /\ ReplayUnsafe(Wire(tool)) <=> ~contract.read /\ ~contract.idempotent

\* The names in the tables.
LEMMA ToolNames ==
    /\ DOMAIN ProjectContracts = {"projects_list", "project_add", "project_rename", "project_remove"}
    /\ DOMAIN FileContracts = {"directory_list", "file_read", "text_search", "file_patch", "file_delete"}
    /\ DOMAIN DesktopContracts = {"execute_shell", "shell_status", "shell_cancel", "screen_list", "screenshot_capture", "browser_open"}
    /\ DOMAIN FrontendContracts = {"frontend_session_start", "frontend_snapshot", "frontend_inspect", "frontend_act", "frontend_source", "frontend_session_stop"}
    /\ DOMAIN FrontendOperation = DOMAIN FrontendContracts
    /\ DOMAIN NamedWire =
           DOMAIN ProjectContracts \cup DOMAIN FileContracts \cup DOMAIN DesktopContracts
    /\ DOMAIN CodeContracts = CodeMetadata \cup CodeLookups \cup {"code_reindex"}
  <1>1. DOMAIN ProjectContracts = {"projects_list", "project_add", "project_rename", "project_remove"}
    BY DEF ProjectContracts
  <1>2. DOMAIN FileContracts = {"directory_list", "file_read", "text_search", "file_patch", "file_delete"}
    BY DEF FileContracts
  <1>3. DOMAIN DesktopContracts = {"execute_shell", "shell_status", "shell_cancel", "screen_list", "screenshot_capture", "browser_open"}
    BY DEF DesktopContracts
  <1>4. DOMAIN FrontendContracts = {"frontend_session_start", "frontend_snapshot", "frontend_inspect", "frontend_act", "frontend_source", "frontend_session_stop"} /\ DOMAIN FrontendOperation = {"frontend_session_start", "frontend_snapshot", "frontend_inspect", "frontend_act", "frontend_source", "frontend_session_stop"}
    BY DEF FrontendContracts, FrontendOperation
  <1>5. DOMAIN NamedWire = DOMAIN ProjectContracts \cup DOMAIN FileContracts \cup DOMAIN DesktopContracts
    BY <1>1, <1>2, <1>3 DEF NamedWire
  <1>6. DOMAIN CodeContracts = CodeMetadata \cup CodeLookups \cup {"code_reindex"}
    BY DEF CodeContracts
  <1> QED  BY <1>1, <1>2, <1>3, <1>4, <1>5, <1>6

LEMMA ProjectToolsAgree == \A t \in DOMAIN ProjectContracts : Agreed(t, ProjectContracts[t])
  <1>1. Agreed("projects_list", ProjectContracts["projects_list"])
    <2>1. Wire("projects_list") = <<"project_read", "list_projects">>
      BY ToolNames DEF Wire, NamedWire
    <2> QED  BY <2>1 DEF Agreed, ProjectContracts, Contract, ManageScopes,
        Demanded, RequiredScopes, WithoutProject, ReplayUnsafe, ToolScopeNames
  <1>2. Agreed("project_add", ProjectContracts["project_add"])
    <2>1. Wire("project_add") = <<"project_manage", "request_add_project">>
      BY ToolNames DEF Wire, NamedWire
    <2> QED  BY <2>1 DEF Agreed, ProjectContracts, Contract, ManageScopes,
        Demanded, RequiredScopes, WithoutProject, ReplayUnsafe, ToolScopeNames
  <1>3. Agreed("project_rename", ProjectContracts["project_rename"])
    <2>1. Wire("project_rename") = <<"project_manage", "rename_project">>
      BY ToolNames DEF Wire, NamedWire
    <2> QED  BY <2>1 DEF Agreed, ProjectContracts, Contract, ManageScopes,
        Demanded, RequiredScopes, WithoutProject, ReplayUnsafe, ToolScopeNames
  <1>4. Agreed("project_remove", ProjectContracts["project_remove"])
    <2>1. Wire("project_remove") = <<"project_manage", "remove_project">>
      BY ToolNames DEF Wire, NamedWire
    <2> QED  BY <2>1 DEF Agreed, ProjectContracts, Contract, ManageScopes,
        Demanded, RequiredScopes, WithoutProject, ReplayUnsafe, ToolScopeNames
  <1> QED  BY <1>1, <1>2, <1>3, <1>4, ToolNames

LEMMA FileToolsAgree == \A t \in DOMAIN FileContracts : Agreed(t, FileContracts[t])
  <1>1. Agreed("directory_list", FileContracts["directory_list"])
    <2>1. Wire("directory_list") = <<"project_read", "list_directory">>
      BY ToolNames DEF Wire, NamedWire
    <2> QED  BY <2>1 DEF Agreed, FileContracts, Contract, ReadScopes, WriteScopes,
        Demanded, RequiredScopes, WithoutProject, ReplayUnsafe, ToolScopeNames
  <1>2. Agreed("file_read", FileContracts["file_read"])
    <2>1. Wire("file_read") = <<"project_read", "read_file">>
      BY ToolNames DEF Wire, NamedWire
    <2> QED  BY <2>1 DEF Agreed, FileContracts, Contract, ReadScopes, WriteScopes,
        Demanded, RequiredScopes, WithoutProject, ReplayUnsafe, ToolScopeNames
  <1>3. Agreed("text_search", FileContracts["text_search"])
    <2>1. Wire("text_search") = <<"project_read", "search_text">>
      BY ToolNames DEF Wire, NamedWire
    <2> QED  BY <2>1 DEF Agreed, FileContracts, Contract, ReadScopes, WriteScopes,
        Demanded, RequiredScopes, WithoutProject, ReplayUnsafe, ToolScopeNames
  <1>4. Agreed("file_patch", FileContracts["file_patch"])
    <2>1. Wire("file_patch") = <<"project_apply_patch", "none">>
      BY ToolNames DEF Wire, NamedWire
    <2> QED  BY <2>1 DEF Agreed, FileContracts, Contract, ReadScopes, WriteScopes,
        Demanded, RequiredScopes, WithoutProject, ReplayUnsafe, ToolScopeNames
  <1>5. Agreed("file_delete", FileContracts["file_delete"])
    <2>1. Wire("file_delete") = <<"project_apply_patch", "none">>
      BY ToolNames DEF Wire, NamedWire
    <2> QED  BY <2>1 DEF Agreed, FileContracts, Contract, ReadScopes, WriteScopes,
        Demanded, RequiredScopes, WithoutProject, ReplayUnsafe, ToolScopeNames
  <1> QED  BY <1>1, <1>2, <1>3, <1>4, <1>5, ToolNames

LEMMA DesktopToolsAgree == \A t \in DOMAIN DesktopContracts : Agreed(t, DesktopContracts[t])
  <1>1. Agreed("execute_shell", DesktopContracts["execute_shell"])
    <2>1. Wire("execute_shell") = <<"project_shell", "start">>
      BY ToolNames DEF Wire, NamedWire
    <2> QED  BY <2>1 DEF Agreed, DesktopContracts, Contract, ShellScopes,
        Demanded, RequiredScopes, WithoutProject, ReplayUnsafe, ToolScopeNames
  <1>2. Agreed("shell_status", DesktopContracts["shell_status"])
    <2>1. Wire("shell_status") = <<"project_shell", "poll">>
      BY ToolNames DEF Wire, NamedWire
    <2> QED  BY <2>1 DEF Agreed, DesktopContracts, Contract, ShellScopes,
        Demanded, RequiredScopes, WithoutProject, ReplayUnsafe, ToolScopeNames
  <1>3. Agreed("shell_cancel", DesktopContracts["shell_cancel"])
    <2>1. Wire("shell_cancel") = <<"project_shell", "cancel">>
      BY ToolNames DEF Wire, NamedWire
    <2> QED  BY <2>1 DEF Agreed, DesktopContracts, Contract, ShellScopes,
        Demanded, RequiredScopes, WithoutProject, ReplayUnsafe, ToolScopeNames
  <1>4. Agreed("screen_list", DesktopContracts["screen_list"])
    <2>1. Wire("screen_list") = <<"device_screenshot", "list_displays">>
      BY ToolNames DEF Wire, NamedWire
    <2> QED  BY <2>1 DEF Agreed, DesktopContracts, Contract, ShellScopes,
        Demanded, RequiredScopes, WithoutProject, ReplayUnsafe, ToolScopeNames
  <1>5. Agreed("screenshot_capture", DesktopContracts["screenshot_capture"])
    <2>1. Wire("screenshot_capture") = <<"device_screenshot", "capture">>
      BY ToolNames DEF Wire, NamedWire
    <2> QED  BY <2>1 DEF Agreed, DesktopContracts, Contract, ShellScopes,
        Demanded, RequiredScopes, WithoutProject, ReplayUnsafe, ToolScopeNames
  <1>6. Agreed("browser_open", DesktopContracts["browser_open"])
    <2>1. Wire("browser_open") = <<"device_desktop", "open_browser">>
      BY ToolNames DEF Wire, NamedWire
    <2> QED  BY <2>1 DEF Agreed, DesktopContracts, Contract, ShellScopes,
        Demanded, RequiredScopes, WithoutProject, ReplayUnsafe, ToolScopeNames
  <1> QED  BY <1>1, <1>2, <1>3, <1>4, <1>5, <1>6, ToolNames

LEMMA FrontendToolsAgree == \A t \in DOMAIN FrontendContracts : Agreed(t, FrontendContracts[t])
  <1>1. Agreed("frontend_session_start", FrontendContracts["frontend_session_start"])
    <2>1. Wire("frontend_session_start") = <<"project_frontend", "session_start">>
      BY ToolNames DEF Wire, FrontendOperation, NamedWire
    <2> QED  BY <2>1 DEF Agreed, FrontendContracts, Contract, InteractScopes, FrontendReadScopes, FrontendScopes,
        Demanded, RequiredScopes, WithoutProject, ReplayUnsafe, ToolScopeNames
  <1>2. Agreed("frontend_snapshot", FrontendContracts["frontend_snapshot"])
    <2>1. Wire("frontend_snapshot") = <<"project_frontend", "snapshot">>
      BY ToolNames DEF Wire, FrontendOperation, NamedWire
    <2> QED  BY <2>1 DEF Agreed, FrontendContracts, Contract, InteractScopes, FrontendReadScopes, FrontendScopes,
        Demanded, RequiredScopes, WithoutProject, ReplayUnsafe, ToolScopeNames
  <1>3. Agreed("frontend_inspect", FrontendContracts["frontend_inspect"])
    <2>1. Wire("frontend_inspect") = <<"project_frontend", "inspect">>
      BY ToolNames DEF Wire, FrontendOperation, NamedWire
    <2> QED  BY <2>1 DEF Agreed, FrontendContracts, Contract, InteractScopes, FrontendReadScopes, FrontendScopes,
        Demanded, RequiredScopes, WithoutProject, ReplayUnsafe, ToolScopeNames
  <1>4. Agreed("frontend_act", FrontendContracts["frontend_act"])
    <2>1. Wire("frontend_act") = <<"project_frontend", "act">>
      BY ToolNames DEF Wire, FrontendOperation, NamedWire
    <2> QED  BY <2>1 DEF Agreed, FrontendContracts, Contract, InteractScopes, FrontendReadScopes, FrontendScopes,
        Demanded, RequiredScopes, WithoutProject, ReplayUnsafe, ToolScopeNames
  <1>5. Agreed("frontend_source", FrontendContracts["frontend_source"])
    <2>1. Wire("frontend_source") = <<"project_frontend", "source">>
      BY ToolNames DEF Wire, FrontendOperation, NamedWire
    <2> QED  BY <2>1 DEF Agreed, FrontendContracts, Contract, InteractScopes, FrontendReadScopes, FrontendScopes,
        Demanded, RequiredScopes, WithoutProject, ReplayUnsafe, ToolScopeNames
  <1>6. Agreed("frontend_session_stop", FrontendContracts["frontend_session_stop"])
    <2>1. Wire("frontend_session_stop") = <<"project_frontend", "session_stop">>
      BY ToolNames DEF Wire, FrontendOperation, NamedWire
    <2> QED  BY <2>1 DEF Agreed, FrontendContracts, Contract, InteractScopes, FrontendReadScopes, FrontendScopes,
        Demanded, RequiredScopes, WithoutProject, ReplayUnsafe, ToolScopeNames
  <1> QED  BY <1>1, <1>2, <1>3, <1>4, <1>5, <1>6, ToolNames

LEMMA CodeToolsAgree == \A t \in DOMAIN CodeContracts : Agreed(t, CodeContracts[t])
  <1> SUFFICES ASSUME NEW t \in DOMAIN CodeContracts
               PROVE  Agreed(t, CodeContracts[t])
    OBVIOUS
  <1>1. t \notin DOMAIN NamedWire /\ t \notin DOMAIN FrontendOperation /\ t \notin WithoutProject
    BY ToolNames DEF CodeMetadata, CodeLookups, WithoutProject
  <1>2. Wire(t) = <<"project_code", t>>
    BY <1>1 DEF Wire
  <1>3. /\ CodeContracts[t].read = TRUE
        /\ CodeContracts[t].scopes = IF t \in CodeMetadata THEN ReadScopes ELSE AnalyzeScopes
    BY ToolNames DEF CodeContracts, Contract
  <1>4. Demanded(t) = {"projects:read", "files:read"} \cup (IF t \in CodeMetadata THEN {} ELSE {"shell:execute"})
    BY <1>1, <1>2 DEF Demanded, RequiredScopes
  <1>5. ~ReplayUnsafe(Wire(t))
    BY <1>2 DEF ReplayUnsafe
  <1> QED  BY <1>3, <1>4, <1>5 DEF Agreed, ReadScopes, AnalyzeScopes, ToolScopeNames

\* No tool is in two tables.
LEMMA TablesDisjoint ==
    /\ DOMAIN FileContracts \cap DOMAIN ProjectContracts = {}
    /\ DOMAIN DesktopContracts \cap (DOMAIN ProjectContracts \cup DOMAIN FileContracts) = {}
    /\ DOMAIN FrontendContracts
          \cap (DOMAIN ProjectContracts \cup DOMAIN FileContracts \cup DOMAIN DesktopContracts) = {}
    /\ DOMAIN CodeContracts
          \cap (DOMAIN ProjectContracts \cup DOMAIN FileContracts \cup DOMAIN DesktopContracts
               \cup DOMAIN FrontendContracts) = {}
  <1>1. DOMAIN FileContracts \cap DOMAIN ProjectContracts = {}
    BY ToolNames
  <1>2. DOMAIN DesktopContracts \cap (DOMAIN ProjectContracts \cup DOMAIN FileContracts) = {}
    BY ToolNames
  <1>3. DOMAIN FrontendContracts
          \cap (DOMAIN ProjectContracts \cup DOMAIN FileContracts \cup DOMAIN DesktopContracts) = {}
    BY ToolNames
  <1>4. DOMAIN CodeContracts
          \cap (DOMAIN ProjectContracts \cup DOMAIN FileContracts \cup DOMAIN DesktopContracts
               \cup DOMAIN FrontendContracts) = {}
    BY ToolNames DEF CodeMetadata, CodeLookups
  <1> QED  BY <1>1, <1>2, <1>3, <1>4

LEMMA ToolTablesAgree == \A t \in Tools : Agreed(t, Contracts[t])
  <1>1. ASSUME NEW t \in DOMAIN ProjectContracts PROVE Contracts[t] = ProjectContracts[t]
    BY TablesDisjoint DEF Contracts, Tools
  <1>2. ASSUME NEW t \in DOMAIN FileContracts PROVE Contracts[t] = FileContracts[t]
    BY TablesDisjoint DEF Contracts, Tools
  <1>3. ASSUME NEW t \in DOMAIN DesktopContracts PROVE Contracts[t] = DesktopContracts[t]
    BY TablesDisjoint DEF Contracts, Tools
  <1>4. ASSUME NEW t \in DOMAIN FrontendContracts PROVE Contracts[t] = FrontendContracts[t]
    BY TablesDisjoint DEF Contracts, Tools
  <1>5. ASSUME NEW t \in DOMAIN CodeContracts PROVE Contracts[t] = CodeContracts[t]
    BY TablesDisjoint DEF Contracts, Tools
  <1> QED  BY <1>1, <1>2, <1>3, <1>4, <1>5, ProjectToolsAgree, FileToolsAgree, DesktopToolsAgree,
      FrontendToolsAgree, CodeToolsAgree DEF Tools

\* A client that was refused lacks something; the tool for which it has connected again
\* first is still covered by its grant.
ScopeInv ==
    /\ granted \subseteq ToolScopeNames
    /\ refused \in Tools \cup {NoTool} /\ obtained \in Tools \cup {NoTool}
    /\ refused # NoTool => ~Accepted(refused) /\ challenge = granted \cup Demanded(refused)
    /\ obtained # NoTool => Accepted(obtained)

LEMMA ScopeInvInit == ASSUME ScopeInit PROVE ScopeInv
  BY DEF ScopeInit, ScopeInv

LEMMA ScopeInvStep ==
    ASSUME ScopeInv, [ScopeNext]_scopeVars
    PROVE  ScopeInv'
  <1>0. \A t \in Tools : Demanded(t) \subseteq ToolScopeNames
    BY ToolTablesAgree DEF Agreed
  <1>1. CASE UNCHANGED scopeVars
    BY <1>1 DEF scopeVars, ScopeInv, Accepted
  <1>2. ASSUME NEW t \in Tools, CallTool(t) PROVE ScopeInv'
    <2>1. UNCHANGED <<granted, obtained>>
      BY <1>2 DEF CallTool
    <2>2. CASE Demanded(t) \subseteq granted
      BY <1>2, <2>1, <2>2 DEF CallTool, ScopeInv, Accepted
    <2>3. CASE ~(Demanded(t) \subseteq granted)
      <3>1. refused' = t /\ challenge' = granted \cup Demanded(t)
        BY <1>0, <1>2, <2>3 DEF CallTool, Accepted, Challenged, ScopeInv
      <3> QED  BY <2>1, <2>3, <3>1 DEF ScopeInv, Accepted
    <2> QED  BY <2>2, <2>3
  <1>3. CASE ConnectAgain
    <2>1. /\ refused \in Tools /\ granted' = granted \cup Demanded(refused) /\ refused' = NoTool
          /\ obtained' \in {refused, obtained} /\ (obtained' = obtained \/ obtained = NoTool)
      BY <1>3 DEF ConnectAgain, ScopeInv
    <2>2. granted' \subseteq ToolScopeNames
      BY <1>0, <2>1 DEF ScopeInv
    <2>3. obtained' # NoTool => Demanded(obtained') \subseteq granted'
      <3>1. CASE obtained' = refused
        BY <2>1, <3>1
      <3>2. CASE obtained' = obtained
        BY <2>1, <3>2 DEF ScopeInv, Accepted
      <3> QED  BY <2>1, <3>1, <3>2
    <2> QED  BY <2>1, <2>2, <2>3 DEF ScopeInv, Accepted
  <1> QED  BY <1>1, <1>2, <1>3 DEF ScopeNext

\* A step of the composition is one of the list or of the client, or leaves both alone.
LEMMA ListAndToolSteps ==
    [Next]_relayVars => [ListNext]_pageListVars /\ [ScopeNext]_scopeVars
  <1>1. Next => (ListNext \/ UNCHANGED pageListVars) /\ (ScopeNext \/ UNCHANGED scopeVars)
    BY DEF Next
  <1>2. UNCHANGED relayVars => UNCHANGED pageListVars /\ UNCHANGED scopeVars
    BY DEF relayVars
  <1> QED  BY <1>1, <1>2

\* What the relay tells a client agrees with what it does (dispatch.py, mcp_server.py,
\* facade_contracts.py).  However the catalogue changes between the pages of the project
\* list and whatever limits are asked for, no project is listed twice and one that was there
\* all along is not left out.  Whatever a client was granted, a tool is accepted exactly with
\* the scopes it declares and is repeatable exactly when the relay may redeliver it, and a
\* client that connects again as it was told is never sent back for that tool.
THEOREM ListsAndToolsAgree == Spec => []ToolsAgree
  <1>1. Init => ListInv /\ ScopeInv
    BY ListInvInit, ScopeInvInit DEF Init
  <1>2. ListInv /\ ScopeInv /\ [Next]_relayVars => (ListInv /\ ScopeInv)'
    BY ListAndToolSteps, ListInvStep, ScopeInvStep
  <1>3. ListInv => EachListedOnce
    BY DEF ListInv, EachListedOnce
  <1>4. ScopeInv => ContractsAgree /\ OneReconnectIsEnough
    BY ToolTablesAgree DEF ScopeInv, ContractsAgree, OneReconnectIsEnough, Agreed, Accepted
  <1>5. ListInv /\ ScopeInv => ToolsAgree
    BY <1>3, <1>4 DEF ToolsAgree
  <1> QED  BY <1>1, <1>2, <1>5, PTL DEF Spec
=============================================================================
