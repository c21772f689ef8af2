-------------------------- MODULE AgentToolsProofs --------------------------
(***************************************************************************)
(* Theorems about the tools of the agent: code queries, the language       *)
(* server and the output of shell jobs.                                    *)
(***************************************************************************)
EXTENDS CodeQueries, LspSession, ShellOutput, SequenceTheorems, WellFoundedInduction, TLAPS

-----------------------------------------------------------------------------
(* Code queries.  The server and the graph are asked between two captures  *)
(* of the files.  A version does not come back, so a file that both        *)
(* captures found with one version had it all the time between them: at    *)
(* the end of the first capture, and whenever the server read it.          *)

CallOps == {"status", "code", "impact", "reindex"}
CallSteps == {"scan", "restart", "mirror", "index", "verify", "run", "starting", "after",
              "fail", "deliver"}
Snapshots == [gen : Nat, files : Seq(Nat)]
Calls ==
    [op : CallOps, pc : CallSteps, attempt : {1, 2}, round : {1, 2}, force : BOOLEAN,
     reads : Seq(Nat), cand : Snapshots, empty : BOOLEAN, saw : SUBSET (CodeFiles \X Nat),
     verified : BOOLEAN, past : SUBSET [CodeFiles -> Nat]]

CodeTypes ==
    /\ disk \in [CodeFiles -> Nat] /\ edits \in Nat
    /\ latest \in Snapshots /\ {gens, synced, graphGen} \subseteq Nat
    /\ mirror \in [CodeFiles -> Nat] /\ index \in [CodeFiles -> Nat]
    /\ server \in [up : BOOLEAN, seen : SUBSET (CodeFiles \X Nat)]
    /\ query = NoQuery \/ query \in Calls

\* A snapshot that was captured, and the calls that have one.
Captured(c) ==
    /\ c.gen > 0 /\ c.gen <= gens /\ Len(c.files) = NFiles
    /\ \A f \in CodeFiles : c.files[f] <= edits
Verified == query.pc = "deliver" /\ query.verified
HasCand ==
    \/ query.pc \in {"restart", "mirror", "index", "verify", "run", "starting", "after"}
    \/ Verified

CountInv ==
    /\ \A f \in CodeFiles : disk[f] <= edits
    /\ synced <= gens /\ graphGen <= gens
    /\ latest = NoLatest \/ Captured(latest)

ReadInv ==
    query.pc # "idle" =>
        /\ disk \in query.past
        /\ Len(query.reads) <= NFiles
        /\ \A i \in 1 .. Len(query.reads) : query.reads[i] <= edits
        /\ query.verified => query.pc = "deliver" /\ query.reads = query.cand.files
        /\ query.pc \in {"scan", "restart", "mirror", "index", "verify"} => query.saw = {}
        /\ query.pc \in {"run", "starting"} => query.reads = <<>>

CandInv ==
    HasCand => Captured(query.cand) /\ (query.cand.gen = latest.gen => query.cand = latest)

\* Both captures of the call may still agree on f.
Steady(f) ==
    /\ f \in Present(query.cand.files)
    /\ \/ disk[f] = query.cand.files[f]
       \/ f <= Len(query.reads) /\ query.reads[f] = query.cand.files[f]

MomentInv ==
    HasCand => \E files \in query.past :
                   \A f \in CodeFiles : Steady(f) => files[f] = query.cand.files[f]

SawInv ==
    HasCand => \A read \in query.saw : Steady(read[1]) => read[2] = query.cand.files[read[1]]

\* A warm server read the files of the snapshot it is synchronized with.
ServerInv ==
    /\ synced # 0 /\ synced = latest.gen =>
           \A read \in server.seen :
               read[1] \in Present(latest.files) /\ disk[read[1]] = latest.files[read[1]]
                   => read[2] = latest.files[read[1]]
    /\ query.pc \in {"mirror", "index", "verify"} => server = NoServer

RunInv ==
    (query.pc \in {"run", "starting", "after"} \/ Verified) =>
        latest = query.cand /\ (query.op # "status" => synced = query.cand.gen)

DownInv ==
    down => \/ query.pc \in {"idle", "fail"}
            \/ query.pc = "scan" /\ query.reads = <<>>
            \/ query.pc = "deliver" /\ ~query.verified

Agree(copy, files) == \A f \in Present(files) : copy[f] = files[f]

GraphInv ==
    /\ graphGen # 0 /\ graphGen = latest.gen => Agree(index, latest.files)
    /\ HasCand /\ graphGen = query.cand.gen => Agree(index, query.cand.files)
    /\ query.pc = "index" => Agree(mirror, query.cand.files)
    /\ query.pc = "verify" /\ ~graphErr => graphGen = query.cand.gen
    /\ (query.pc = "after" \/ Verified) /\ query.op = "reindex" => graphGen = query.cand.gen

ClosedInv == closed => query = NoQuery /\ server = NoServer

CodeInv ==
    /\ CodeTypes /\ CountInv /\ ReadInv /\ CandInv /\ MomentInv /\ SawInv /\ ServerInv
    /\ RunInv /\ DownInv /\ GraphInv /\ ClosedInv

\* A call that has no snapshot, or will not use the one it has.
Loose(q) ==
    \/ q = NoQuery
    \/ /\ q \in Calls /\ disk \in q.past /\ ~q.verified
       /\ Len(q.reads) <= NFiles /\ \A i \in 1 .. Len(q.reads) : q.reads[i] <= edits
       /\ q.pc \in {"fail", "deliver"} \/ (q.pc = "scan" /\ q.reads = <<>> /\ q.saw = {})

\* A call that gives up, starts over, begins or ends keeps the invariant, also if
\* the server is stopped and the synchronization is forgotten.
LEMMA LooseKeeps ==
    ASSUME CodeInv, UNCHANGED <<disk, edits, latest, gens, index>>, Loose(query'),
           mirror' \in [CodeFiles -> Nat], graphGen' \in {graphGen, 0}, synced' \in {synced, 0},
           server' \in {server, NoServer}, closed' => query' = NoQuery /\ server' = NoServer
    PROVE  CodeInv'
  <1>1. CodeTypes'
    <2>1. NoServer \in [up : BOOLEAN, seen : SUBSET (CodeFiles \X Nat)]
      BY DEF NoServer
    <2> QED BY <2>1 DEF CodeInv, CodeTypes, Loose
  <1>2. query'.pc \in {"idle", "fail", "deliver", "scan"} /\ ~Verified' /\ ~HasCand'
    BY DEF Loose, NoQuery, Verified, HasCand
  <1>3. CountInv'
    <2>1. latest' = NoLatest \/ Captured(latest)'
      BY DEF CodeInv, CountInv, Captured
    <2> QED BY <2>1 DEF CodeInv, CountInv, CodeTypes
  <1>4. ReadInv'
    BY <1>2 DEF Loose, NoQuery, ReadInv
  <1>5. CandInv' /\ MomentInv' /\ SawInv' /\ RunInv'
    BY <1>2 DEF CandInv, MomentInv, SawInv, RunInv
  <1>6. ServerInv'
    <2>1. NoServer.seen = {}
      BY DEF NoServer
    <2> QED BY <1>2, <2>1 DEF CodeInv, ServerInv
  <1>7. DownInv'
    BY <1>2 DEF Loose, NoQuery, DownInv
  <1>8. GraphInv'
    BY <1>2 DEF CodeInv, GraphInv
  <1>9. ClosedInv'
    BY DEF ClosedInv
  <1> QED BY <1>1, <1>3, <1>4, <1>5, <1>6, <1>7, <1>8, <1>9 DEF CodeInv

\* A call that waits for nothing has its type, and is not verified yet.
LEMMA CallTyped ==
    ASSUME CodeInv, query.pc # "idle"
    PROVE  query \in Calls /\ (query.pc # "deliver" => ~query.verified)
  <1>1. query # NoQuery
    BY DEF NoQuery
  <1> QED BY <1>1 DEF CodeInv, CodeTypes, ReadInv

\* FailCall and TryAgain drop the snapshot of the call.
LEMMA GivesUp ==
    ASSUME CodeInv, query.pc \notin {"idle", "deliver"}, FailCall \/ TryAgain
    PROVE  Loose(query')
  <1>1. query \in Calls /\ ~query.verified
    BY CallTyped
  <1>2. ReadInv
    BY DEF CodeInv
  <1>3. CASE query' = [query EXCEPT !.pc = "fail"]
    <2>1. query' \in Calls /\ query'.pc = "fail" /\ query'.reads = query.reads
      BY <1>1, <1>3 DEF Calls, CallSteps
    <2>2. query'.past = query.past /\ ~query'.verified
      BY <1>1, <1>3 DEF Calls
    <2> QED BY <1>2, <2>1, <2>2 DEF ReadInv, Loose
  <1>4. CASE query' = [query EXCEPT !.pc = "scan", !.attempt = 2, !.round = 1,
                          !.reads = <<>>, !.force = FALSE, !.empty = FALSE, !.saw = {}]
    <2>1. query' \in Calls
      BY <1>1, <1>4, EmptySeq DEF Calls, CallSteps
    <2>2. query'.pc = "scan" /\ query'.reads = <<>> /\ query'.saw = {}
      BY <1>1, <1>4 DEF Calls
    <2>3. query'.past = query.past /\ ~query'.verified
      BY <1>1, <1>4 DEF Calls
    <2>4. NFiles \in Nat
      BY CodeAssumption
    <2> QED BY <1>2, <2>1, <2>2, <2>3, <2>4 DEF ReadInv, Loose
  <1> QED BY <1>3, <1>4 DEF FailCall, TryAgain

\* So does an answer that says that nothing was completed.
LEMMA Unverified ==
    ASSUME CodeInv, query.pc \notin {"idle", "deliver"},
           query' = [query EXCEPT !.pc = "deliver"]
    PROVE  Loose(query')
  <1>1. query \in Calls /\ ~query.verified
    BY CallTyped
  <1>2. query' \in Calls /\ query'.pc = "deliver" /\ query'.reads = query.reads
    BY <1>1 DEF Calls, CallSteps
  <1>3. query'.past = query.past /\ ~query'.verified
    BY <1>1 DEF Calls
  <1> QED BY <1>2, <1>3 DEF CodeInv, ReadInv, Loose

\* And an exception that leaves _refresh.
LEMMA LeavesRefresh ==
    ASSUME CodeInv, query.pc \notin {"idle", "deliver"}, NEW race \in BOOLEAN,
           LeaveRefresh(race)
    PROVE  Loose(query') /\ synced' = 0
  BY GivesUp, Unverified DEF LeaveRefresh

-----------------------------------------------------------------------------
\* The steps that drop the snapshot.

LEMMA BeginKeeps ==
    ASSUME CodeInv, NEW op \in CallOps, BeginQuery(op)
    PROVE  CodeInv'
  <1> DEFINE q == [op |-> op, pc |-> "scan", attempt |-> 1, round |-> 1,
                   force |-> op = "reindex", reads |-> <<>>, cand |-> NoLatest,
                   empty |-> FALSE, saw |-> {}, verified |-> FALSE, past |-> {disk}]
  <1>1. q \in Calls
    <2>1. NoLatest \in Snapshots /\ <<>> \in Seq(Nat)
      BY EmptySeq DEF NoLatest, Snapshots
    <2>2. {disk} \in SUBSET [CodeFiles -> Nat]
      BY DEF CodeInv, CodeTypes
    <2>3. (op = "reindex") \in BOOLEAN
      OBVIOUS
    <2> QED BY <2>1, <2>2, <2>3 DEF Calls, CallSteps
  <1>2. Loose(q)
    BY <1>1, CodeAssumption DEF Loose
  <1>3. query' = q /\ ~closed /\ UNCHANGED <<disk, edits, spaceVars, serverVars, graphVars, closed>>
    BY DEF BeginQuery
  <1> QED BY <1>2, <1>3, LooseKeeps
          DEF spaceVars, serverVars, graphVars, CodeInv, CodeTypes

\* Calls that fail, time out, are cancelled or end, and the shutdowns.
LEMMA DropKeeps ==
    ASSUME CodeInv,
           \/ \E race \in BOOLEAN : ScanFails(race)
           \/ Absent \/ AskFails \/ Deliver \/ ReindexTimeout \/ CancelQuery \/ EndFailed
           \/ EndShutdown \/ IdleReap \/ CloseCode
    PROVE  CodeInv'
  <1> USE DEF spaceVars, serverVars, graphVars
  <1>0. mirror \in [CodeFiles -> Nat] /\ (closed => query = NoQuery /\ server = NoServer)
    BY DEF CodeInv, CodeTypes, ClosedInv
  <1>1. NoQuery.pc = "idle" /\ Loose(NoQuery)
    BY DEF NoQuery, Loose
  <1>2. ASSUME NEW race \in BOOLEAN, ScanFails(race) PROVE CodeInv'
    <2>1. query.pc \notin {"idle", "deliver"}
      BY <1>2 DEF ScanFails, Scanning
    <2>2. Loose(query') /\ synced' \in {synced, 0}
      BY <1>2, <2>1, GivesUp, LeavesRefresh DEF ScanFails
    <2>3. UNCHANGED <<disk, edits, latest, gens, server, mirror, index, graphGen, closed>>
      BY <1>2 DEF ScanFails
    <2> QED BY <1>0, <1>1, <2>1, <2>2, <2>3, LooseKeeps
  <1>3. CASE Absent
    <2>1. query.pc = "run" /\ FailCall
      BY <1>3 DEF Absent
    <2>2. UNCHANGED <<disk, edits, latest, gens, synced, server, mirror, index, graphGen, closed>>
      BY <1>3 DEF Absent
    <2> QED BY <1>0, <1>1, <2>1, <2>2, GivesUp, LooseKeeps
  <1>4. CASE AskFails
    <2>1. query.pc = "run" /\ FailCall /\ server' \in {server, NoServer}
      BY <1>4 DEF AskFails, Answering
    <2>2. UNCHANGED <<disk, edits, latest, gens, synced, mirror, index, graphGen, closed>>
      BY <1>4 DEF AskFails
    <2> QED BY <1>0, <1>1, <2>1, <2>2, GivesUp, LooseKeeps
  <1>5. CASE Deliver \/ EndFailed
    <2>1. query' = NoQuery
      BY <1>5 DEF Deliver, EndFailed
    <2>2. UNCHANGED <<disk, edits, latest, gens, synced, server, mirror, index, graphGen, closed>>
      BY <1>5 DEF Deliver, EndFailed
    <2> QED BY <1>0, <1>1, <2>1, <2>2, LooseKeeps
  <1>6. CASE ReindexTimeout
    <2>1. query.pc \notin {"idle", "deliver"} /\ query' = [query EXCEPT !.pc = "deliver"]
      BY <1>6 DEF ReindexTimeout
    <2>2. synced' = 0 /\ server' \in {server, NoServer}
      BY <1>6 DEF ReindexTimeout
    <2>3. UNCHANGED <<disk, edits, latest, gens, mirror, index, graphGen, closed>>
      BY <1>6 DEF ReindexTimeout
    <2> QED BY <1>0, <1>1, <2>1, <2>2, <2>3, Unverified, LooseKeeps
  <1>7. CASE CancelQuery
    <2>1. query.pc \notin {"idle", "deliver"} /\ FailCall
      BY <1>7 DEF CancelQuery
    <2>2. /\ UNCHANGED <<disk, edits, latest, gens, synced, mirror, index, graphGen, closed>>
          /\ server' \in {server, NoServer}
      BY <1>7 DEF CancelQuery
    <2> QED BY <1>0, <1>1, <2>1, <2>2, GivesUp, LooseKeeps
  <1>8. CASE EndShutdown
    <2>1. UNCHANGED <<query, closed>> /\ server' = NoServer /\ synced' = 0 /\ down
      BY <1>8 DEF EndShutdown, Shutdown
    <2>2. UNCHANGED <<disk, edits, latest, gens, mirror, index, graphGen>>
      BY <1>8 DEF EndShutdown, Shutdown
    <2>3. Loose(query)
      <3>1. CASE query.pc = "idle"
        BY <1>1, <3>1 DEF CodeInv, CodeTypes, Calls, CallSteps
      <3>2. CASE query.pc # "idle"
        BY <2>1, <3>2, CallTyped DEF CodeInv, DownInv, ReadInv, Loose
      <3> QED BY <3>1, <3>2
    <2> QED BY <1>0, <2>1, <2>2, <2>3, LooseKeeps
  <1>9. CASE IdleReap \/ CloseCode
    <2>1. query' = NoQuery /\ server' = NoServer /\ synced' = 0
      BY <1>9 DEF IdleReap, CloseCode, Shutdown
    <2>2. UNCHANGED <<disk, edits, latest, gens, mirror, index, graphGen>>
      BY <1>9 DEF IdleReap, CloseCode, Shutdown
    <2> QED BY <1>0, <1>1, <2>1, <2>2, LooseKeeps
  <1> QED BY <1>2, <1>3, <1>4, <1>5, <1>6, <1>7, <1>8, <1>9

-----------------------------------------------------------------------------
\* The steps that use the snapshot.

\* An edit gives a file a version that no snapshot has, or none.
LEMMA EditKeeps ==
    ASSUME CodeInv, NEW f \in CodeFiles, Edit(f)
    PROVE  CodeInv'
  <1> USE DEF spaceVars, serverVars, graphVars
  <1>1. /\ UNCHANGED <<latest, gens, synced, graphErr, server, mirror, index, graphGen, down,
                       closed>>
        /\ edits' = edits + 1
    BY DEF Edit
  <1>2. PICK v \in {0, edits + 1} : disk' = [disk EXCEPT ![f] = v]
    BY DEF Edit
  <1>3. /\ disk' \in [CodeFiles -> Nat] /\ edits \in Nat /\ disk'[f] = v
        /\ \A g \in CodeFiles : g # f => disk'[g] = disk[g]
    BY <1>2 DEF CodeInv, CodeTypes
  <1>4. \A n \in Nat : n <= edits => n <= edits' /\ n # edits + 1
    BY <1>1, <1>3
  <1>5. \A c \in Snapshots : Captured(c) => Captured(c)'
    <2> SUFFICES ASSUME NEW c \in Snapshots, Captured(c) PROVE Captured(c)'
      OBVIOUS
    <2>1. \A g \in CodeFiles : c.files[g] \in Nat
      BY CodeAssumption DEF Captured, Snapshots, CodeFiles
    <2> QED BY <1>1, <1>4, <2>1 DEF Captured
  <1>6. \A c \in Snapshots : \A g \in Present(c.files) :
            Captured(c) /\ disk'[g] = c.files[g] => disk[g] = c.files[g]
    <2> SUFFICES ASSUME NEW c \in Snapshots, Captured(c), NEW g \in Present(c.files),
                        disk'[g] = c.files[g]
                 PROVE  disk[g] = c.files[g]
      OBVIOUS
    <2>1. g \in CodeFiles /\ c.files[g] # 0
      BY DEF Present
    <2>2. c.files[g] \in Nat /\ c.files[g] <= edits
      BY <2>1, CodeAssumption DEF Captured, Snapshots, CodeFiles
    <2> QED BY <1>2, <1>3, <1>4, <2>1, <2>2
  <1>7. CountInv'
    <2>1. \A g \in CodeFiles : disk'[g] <= edits'
      BY <1>1, <1>2, <1>3, <1>4 DEF CodeInv, CodeTypes, CountInv
    <2>2. latest' = NoLatest \/ Captured(latest)'
      BY <1>1, <1>5 DEF CodeInv, CodeTypes, CountInv
    <2> QED BY <1>1, <2>1, <2>2 DEF CodeInv, CountInv
  <1>8. /\ synced # 0 /\ synced = latest.gen =>
               \A read \in server.seen :
                   read[1] \in Present(latest.files) /\ disk'[read[1]] = latest.files[read[1]]
                       => read[2] = latest.files[read[1]]
    <2>1. synced # 0 /\ synced = latest.gen => Captured(latest)
      BY DEF CodeInv, CountInv, NoLatest
    <2> QED BY <1>6, <2>1 DEF CodeInv, CodeTypes, ServerInv
  <1>9. CASE query.pc = "idle"
    <2>1. query = NoQuery
      BY <1>9 DEF CodeInv, CodeTypes, Calls, CallSteps
    <2>2. query' = query
      BY <2>1 DEF Edit
    <2>3. CodeTypes'
      BY <1>1, <1>3, <2>2 DEF CodeInv, CodeTypes
    <2>4. ~HasCand' /\ ~Verified'
      BY <1>9, <2>2 DEF HasCand, Verified
    <2>5. ReadInv' /\ CandInv' /\ MomentInv' /\ SawInv' /\ RunInv' /\ DownInv'
      BY <1>9, <2>2, <2>4 DEF ReadInv, CandInv, MomentInv, SawInv, RunInv, DownInv
    <2>6. ServerInv'
      BY <1>1, <1>8, <1>9, <2>2 DEF ServerInv
    <2>7. GraphInv'
      BY <1>1, <1>9, <2>2, <2>4 DEF CodeInv, GraphInv
    <2>8. ClosedInv'
      BY <1>1, <2>2 DEF CodeInv, ClosedInv
    <2> QED BY <1>7, <2>3, <2>5, <2>6, <2>7, <2>8 DEF CodeInv
  <1>10. CASE query.pc # "idle"
    <2>1. query \in Calls
      BY <1>10, CallTyped
    <2>2. query' = [query EXCEPT !.past = @ \cup {disk'}]
      BY <1>10 DEF Edit, NoQuery
    <2>3. query' \in Calls
      BY <1>3, <2>1, <2>2 DEF Calls
    <2>4. /\ query'.pc = query.pc /\ query'.op = query.op /\ query'.cand = query.cand
          /\ query'.reads = query.reads /\ query'.saw = query.saw
          /\ query'.past = query.past \cup {disk'}
      BY <2>1, <2>2 DEF Calls
    <2>5. query'.verified = query.verified
      BY <2>1, <2>2 DEF Calls
    <2>6. HasCand' = HasCand /\ Verified' = Verified
      BY <2>4, <2>5 DEF HasCand, Verified
    <2>7. CodeTypes'
      BY <1>1, <1>3, <2>3 DEF CodeInv, CodeTypes
    <2>8. ReadInv'
      <3>1. \A i \in 1 .. Len(query.reads) : query.reads[i] \in Nat
        BY <2>1 DEF Calls
      <3>2. \A i \in 1 .. Len(query.reads) : query.reads[i] <= edits'
        BY <1>4, <1>10, <3>1 DEF CodeInv, ReadInv
      <3> QED BY <1>10, <2>4, <2>5, <3>2 DEF CodeInv, ReadInv
    <2>9. query.cand \in Snapshots
      BY <2>1 DEF Calls
    <2>10. CandInv'
      BY <1>1, <1>5, <2>4, <2>6, <2>9 DEF CodeInv, CandInv
    <2>11. \A g \in CodeFiles : HasCand /\ Steady(g)' => Steady(g)
      BY <1>6, <2>4, <2>9 DEF CodeInv, CandInv, Steady
    <2>12. MomentInv'
      <3> SUFFICES ASSUME HasCand
                   PROVE  \E files \in query'.past :
                              \A g \in CodeFiles : Steady(g)' => files[g] = query'.cand.files[g]
        BY <2>6 DEF MomentInv
      <3>1. PICK files \in query.past :
                \A g \in CodeFiles : Steady(g) => files[g] = query.cand.files[g]
        BY DEF CodeInv, MomentInv
      <3> QED BY <2>4, <2>11, <3>1
    <2>13. SawInv'
      <3>1. \A read \in query.saw : read[1] \in CodeFiles
        BY <2>1 DEF Calls
      <3> QED BY <2>4, <2>6, <2>11, <3>1 DEF CodeInv, SawInv
    <2>14. ServerInv'
      BY <1>1, <1>8, <2>4 DEF CodeInv, ServerInv
    <2>15. RunInv' /\ DownInv'
      BY <1>1, <2>4, <2>5, <2>6 DEF CodeInv, RunInv, DownInv
    <2>16. GraphInv'
      BY <1>1, <2>4, <2>6 DEF CodeInv, GraphInv
    <2>17. ClosedInv'
      BY <1>1, <1>10 DEF CodeInv, ClosedInv, NoQuery
    <2> QED BY <1>7, <2>7, <2>8, <2>10, <2>12, <2>13, <2>14, <2>15, <2>16, <2>17 DEF CodeInv
  <1> QED BY <1>9, <1>10

\* What the server reads now is the version of the snapshot, if the file still has it.
LEMMA ServerKeeps ==
    ASSUME CodeInv, (\E f \in CodeFiles : ServerReads(f)) \/ ServerExits
    PROVE  CodeInv'
  <1> USE DEF spaceVars, graphVars
  <1>1. UNCHANGED <<disk, edits, latest, synced, gens, graphErr, mirror, index, graphGen, down,
                    query, closed>>
    BY DEF ServerReads, ServerExits
  <1>2. /\ server' \in [up : BOOLEAN, seen : SUBSET (CodeFiles \X Nat)]
        /\ \A read \in server'.seen : read \in server.seen \/ read[2] = disk[read[1]]
    <2>1. ASSUME NEW f \in CodeFiles, ServerReads(f)
          PROVE  /\ server' \in [up : BOOLEAN, seen : SUBSET (CodeFiles \X Nat)]
                 /\ server'.seen = server.seen \cup {<<f, disk[f]>>}
      <3>1. <<f, disk[f]>> \in CodeFiles \X Nat
        BY DEF CodeInv, CodeTypes
      <3> QED BY <2>1, <3>1 DEF ServerReads, CodeInv, CodeTypes
    <2>2. CASE ServerExits
      <3>1. server' = server \/ server' = NoServer
        BY <2>2 DEF ServerExits
      <3>2. CASE server' = server
        BY <3>2 DEF CodeInv, CodeTypes
      <3>3. CASE server' = NoServer
        BY <3>3 DEF NoServer
      <3> QED BY <3>1, <3>2, <3>3
    <2> QED BY <2>1, <2>2
  <1>3. server' = server \/ (server.up /\ server # NoServer)
    BY DEF ServerReads, ServerExits, NoServer
  <1>4. CodeTypes' /\ CountInv'
    BY <1>1, <1>2 DEF CodeInv, CodeTypes, CountInv, Captured
  <1>5. ReadInv' /\ CandInv' /\ RunInv' /\ DownInv' /\ GraphInv'
    BY <1>1 DEF CodeInv, ReadInv, CandInv, Captured, HasCand, Verified, RunInv, DownInv, GraphInv
  <1>6. MomentInv' /\ SawInv'
    BY <1>1 DEF CodeInv, MomentInv, SawInv, HasCand, Verified, Steady
  <1>7. ServerInv'
    BY <1>1, <1>2, <1>3 DEF CodeInv, ServerInv
  <1>8. ClosedInv'
    BY <1>1, <1>3 DEF CodeInv, ClosedInv
  <1> QED BY <1>4, <1>5, <1>6, <1>7, <1>8 DEF CodeInv

\* A capture that reads the version of the snapshot reads it in the file.
LEMMA ScanKeeps ==
    ASSUME CodeInv, Scan
    PROVE  CodeInv'
  <1> USE DEF spaceVars, serverVars, graphVars
  <1> DEFINE n == Len(query.reads) + 1
  <1>1. UNCHANGED <<disk, edits, latest, synced, gens, graphErr, server, mirror, index, graphGen,
      down, closed>>
    BY DEF Scan
  <1>2. query.pc \in {"scan", "verify", "after"} /\ (query.pc = "after" \/ ~down)
    BY DEF Scan, Scanning
  <1>3. query \in Calls /\ ~query.verified
    BY <1>2, CallTyped
  <1>4. n \in CodeFiles
    <2>1. Len(query.reads) \in Nat /\ Len(query.reads) # NFiles
      BY <1>3 DEF Scan, Scanned, Calls
    <2>2. Len(query.reads) <= NFiles /\ NFiles \in Nat
      BY <1>2, CodeAssumption DEF CodeInv, ReadInv
    <2> QED BY <2>1, <2>2 DEF CodeFiles
  <1>5. disk[n] \in Nat /\ disk[n] <= edits
    BY <1>4 DEF CodeInv, CodeTypes, CountInv
  <1>6. /\ Append(query.reads, disk[n]) \in Seq(Nat)
        /\ Len(Append(query.reads, disk[n])) = n
        /\ \A i \in 1 .. Len(query.reads) : Append(query.reads, disk[n])[i] = query.reads[i]
        /\ Append(query.reads, disk[n])[n] = disk[n]
    BY <1>3, <1>5, AppendProperties DEF Calls
  <1>7. query' = [query EXCEPT !.reads = Append(query.reads, disk[n])]
    BY <1>3 DEF Scan
  <1> HIDE DEF n
  <1>8. query' \in Calls
    BY <1>3, <1>6, <1>7 DEF Calls
  <1>9. /\ query'.pc = query.pc /\ query'.op = query.op /\ query'.cand = query.cand
        /\ query'.reads = Append(query.reads, disk[n]) /\ query'.saw = query.saw
        /\ query'.past = query.past
    BY <1>3, <1>7 DEF Calls
  <1>10. query'.verified = query.verified
    BY <1>3, <1>7 DEF Calls
  <1>11. HasCand' = HasCand /\ Verified' = Verified
    BY <1>9, <1>10 DEF HasCand, Verified
  <1>12. CodeTypes' /\ CountInv'
    BY <1>1, <1>8 DEF CodeInv, CodeTypes, CountInv, Captured
  <1>13. ReadInv'
    <2>1. \A i \in 1 .. Len(query'.reads) : query'.reads[i] <= edits
      BY <1>2, <1>3, <1>5, <1>6, <1>9 DEF CodeInv, ReadInv, n, Calls
    <2>2. Len(query'.reads) <= NFiles
      BY <1>4, <1>6, <1>9, CodeAssumption DEF CodeFiles
    <2> QED BY <1>1, <1>2, <1>3, <1>9, <1>10, <2>1, <2>2 DEF CodeInv, ReadInv
  <1>14. CandInv'
    BY <1>1, <1>9, <1>11 DEF CodeInv, CandInv, Captured
  <1>15. \A g \in CodeFiles : Steady(g)' => Steady(g)
    <2> SUFFICES ASSUME NEW g \in CodeFiles, Steady(g)', ~Steady(g) PROVE FALSE
      OBVIOUS
    <2>1. g <= n /\ query'.reads[g] = query.cand.files[g]
      BY <1>1, <1>6, <1>9 DEF Steady
    <2>2. g \in Nat \ {0} /\ Len(query.reads) \in Nat
      BY <1>3 DEF CodeFiles, Calls
    <2>3. CASE g = n
      BY <1>1, <1>6, <1>9, <2>1, <2>3 DEF Steady
    <2>4. CASE g # n
      <3>1. g \in 1 .. Len(query.reads)
        BY <2>1, <2>2, <2>4 DEF n
      <3> QED BY <1>1, <1>6, <1>9, <2>1, <2>2, <3>1 DEF Steady
    <2> QED BY <2>3, <2>4
  <1>16. MomentInv'
    BY <1>9, <1>11, <1>15 DEF CodeInv, MomentInv
  <1>17. SawInv'
    <2>1. \A read \in query.saw : read[1] \in CodeFiles
      BY <1>3 DEF Calls
    <2> QED BY <1>9, <1>11, <1>15, <2>1 DEF CodeInv, SawInv
  <1>18. ServerInv' /\ RunInv'
    BY <1>1, <1>9, <1>11 DEF CodeInv, ServerInv, RunInv
  <1>19. DownInv'
    BY <1>1, <1>2, <1>9 DEF CodeInv, DownInv
  <1>20. GraphInv'
    BY <1>1, <1>9, <1>11 DEF CodeInv, GraphInv
  <1>21. ClosedInv'
    BY <1>1, <1>2 DEF CodeInv, ClosedInv, NoQuery
  <1> QED BY <1>12, <1>13, <1>14, <1>16, <1>17, <1>18, <1>19, <1>20, <1>21 DEF CodeInv


\* At the end of the first capture the files themselves are the moment the call is
\* about; a snapshot that is new has a generation nobody is synchronized with.
LEMMA EndScanKeeps ==
    ASSUME CodeInv, EndScan
    PROVE  CodeInv'
  <1> USE DEF spaceVars, serverVars, graphVars
  <1>1. UNCHANGED <<disk, edits, synced, graphErr, server, mirror, index, graphGen, down, closed>>
    BY DEF EndScan
  <1>2. query.pc = "scan" /\ Len(query.reads) = NFiles
    BY DEF EndScan, Scanned
  <1>3. query \in Calls /\ ~query.verified
    BY <1>2, CallTyped
  <1>4. /\ query.reads \in Seq(Nat) /\ gens \in Nat /\ NFiles \in Nat \ {0}
        /\ latest \in Snapshots /\ graphGen \in Nat /\ synced \in Nat
    BY <1>3, CodeAssumption DEF Calls, CodeInv, CodeTypes
  <1>5. PICK c : c = Candidate
    OBVIOUS
  <1>6. \/ c = latest /\ latest # NoLatest
        \/ c = [gen |-> gens + 1, files |-> query.reads]
    BY <1>5 DEF Candidate
  <1>7. c \in Snapshots
    BY <1>4, <1>6 DEF Snapshots
  <1>8. latest = NoLatest \/ Captured(latest)
    BY DEF CodeInv, CountInv
  <1>9. latest.gen <= gens /\ latest.gen \in Nat
    BY <1>4, <1>8 DEF Captured, NoLatest, Snapshots
  <1>10. \/ c = latest /\ latest # NoLatest /\ gens' = gens
         \/ c.gen = gens + 1 /\ c.files = query.reads /\ c # latest /\ gens' = gens + 1
    <2>1. gens' = IF c = latest THEN gens ELSE gens + 1
      BY <1>5 DEF EndScan
    <2> QED BY <1>4, <1>6, <1>9, <2>1
  <1>11. gens' \in Nat /\ gens <= gens' /\ Captured(c)' /\ (c.gen <= gens => c = latest)
    <2>1. CASE c = latest /\ latest # NoLatest /\ gens' = gens
      BY <1>1, <1>4, <1>8, <2>1 DEF Captured
    <2>2. CASE c.gen = gens + 1 /\ c.files = query.reads /\ gens' = gens + 1
      <3>1. \A f \in CodeFiles : query.reads[f] <= edits
        BY <1>2, <1>4 DEF CodeInv, ReadInv, CodeFiles
      <3> QED BY <1>1, <1>2, <1>4, <2>2, <3>1 DEF Captured
    <2> QED BY <1>10, <2>1, <2>2
  <1>12. query' \in Calls /\ query'.cand = c /\ query'.reads = <<>>
    <2>1. <<>> \in Seq(Nat)
      BY EmptySeq
    <2>2. \/ query' = [query EXCEPT !.pc = "restart", !.cand = c, !.reads = <<>>]
          \/ query' = [query EXCEPT !.pc = "run", !.cand = c, !.reads = <<>>]
      BY <1>5 DEF EndScan
    <2> QED BY <1>3, <1>7, <2>1, <2>2, ZenonT(60) DEF Calls, CallSteps
  <1>13. query'.past = query.past /\ query'.saw = query.saw /\ query'.op = query.op
    BY <1>3 DEF EndScan, Calls
  <1>14. ~query'.verified
    BY <1>3 DEF EndScan, Calls
  <1>15. \/ query'.pc = "restart" /\ latest' = latest
         \/ /\ query'.pc = "run" /\ latest' = c
            /\ query.op # "status" => synced = c.gen
    BY <1>3, <1>5 DEF EndScan, Calls
  <1>16. CodeTypes'
    BY <1>1, <1>4, <1>7, <1>11, <1>12, <1>15 DEF CodeInv, CodeTypes
  <1>17. CountInv'
    <2>1. latest' = NoLatest \/ Captured(latest)'
      <3>1. CASE latest' = latest
        <4>1. CASE latest = NoLatest
          BY <3>1, <4>1
        <4>2. CASE Captured(latest)
          BY <1>1, <1>4, <1>9, <1>11, <3>1, <4>2 DEF Captured
        <4> QED BY <1>8, <4>1, <4>2
      <3>2. CASE latest' = c
        BY <1>11, <3>2 DEF Captured
      <3> QED BY <1>15, <3>1, <3>2
    <2> QED BY <1>1, <1>4, <1>11, <2>1 DEF CodeInv, CountInv
  <1>18. ReadInv'
    <2>1. disk \in query.past /\ query.saw = {}
      BY <1>2 DEF CodeInv, ReadInv
    <2> QED BY <1>1, <1>4, <1>12, <1>13, <1>14, <1>15, <2>1 DEF ReadInv
  <1>19. CandInv'
    <2>1. c.gen = latest'.gen => c = latest'
      BY <1>9, <1>11, <1>15
    <2> QED BY <1>11, <1>12, <2>1 DEF CandInv, Captured
  <1>20. MomentInv' /\ SawInv'
    <2>1. disk' \in query'.past /\ query'.saw = {}
      BY <1>1, <1>2, <1>13 DEF CodeInv, ReadInv
    <2>2. \A f \in CodeFiles : Steady(f)' => disk'[f] = query'.cand.files[f]
      <3> SUFFICES ASSUME NEW f \in CodeFiles, f <= Len(query'.reads) PROVE FALSE
        BY DEF Steady
      <3> QED BY <1>4, <1>12 DEF CodeFiles
    <2> QED BY <2>1, <2>2 DEF MomentInv, SawInv
  <1>21. ServerInv'
    <2>1. synced <= gens
      BY DEF CodeInv, CountInv
    <2>2. synced = latest'.gen => latest' = latest
      BY <1>11, <1>15, <2>1
    <2> QED BY <1>1, <1>15, <2>2 DEF CodeInv, ServerInv
  <1>22. RunInv'
    BY <1>1, <1>12, <1>13, <1>14, <1>15 DEF RunInv, Verified
  <1>23. DownInv'
    <2>1. query.reads # <<>>
      BY <1>2, <1>4
    <2> QED BY <1>1, <1>2, <2>1 DEF CodeInv, DownInv
  <1>24. GraphInv'
    <2>1. graphGen <= gens /\ c.gen > 0
      BY <1>11 DEF CodeInv, CountInv, Captured
    <2>2. graphGen = latest'.gen => latest' = latest
      BY <1>11, <1>15, <2>1
    <2>3. graphGen = c.gen => graphGen # 0 /\ c = latest
      BY <1>4, <1>11, <2>1
    <2>4. ~Verified'
      BY <1>14 DEF Verified
    <2> QED BY <1>1, <1>12, <1>15, <2>2, <2>3, <2>4 DEF CodeInv, GraphInv
  <1>25. ClosedInv'
    BY <1>1, <1>2 DEF CodeInv, ClosedInv, NoQuery
  <1> QED BY <1>16, <1>17, <1>18, <1>19, <1>20, <1>21, <1>22, <1>23, <1>24, <1>25 DEF CodeInv

\* A call that goes on with its snapshot: what the captures can still agree on does
\* not grow, so that the moment stays, and what was seen of it.
LEMMA GoesOn ==
    ASSUME CodeInv, HasCand, UNCHANGED <<disk, edits, gens>>, latest' \in {latest, query.cand},
           query' \in Calls, query'.cand = query.cand, query'.past = query.past,
           query'.reads \in {query.reads, <<>>},
           \A read \in query'.saw :
               read \in query.saw \/ (Steady(read[1]) => read[2] = query.cand.files[read[1]])
    PROVE  /\ latest' \in Snapshots /\ (latest' = NoLatest \/ Captured(latest)')
           /\ CandInv' /\ MomentInv' /\ SawInv'
  <1>1. Captured(query.cand) /\ query.cand \in Snapshots
    <2>1. query.pc # "idle"
      BY DEF HasCand, Verified
    <2> QED BY <2>1, CallTyped DEF CodeInv, CandInv, Calls
  <1>2. latest' \in Snapshots /\ (latest' = NoLatest \/ Captured(latest)')
    BY <1>1 DEF CodeInv, CodeTypes, CountInv, Captured
  <1>3. CandInv'
    BY <1>1 DEF CodeInv, CandInv, Captured
  <1>4. \A g \in CodeFiles : Steady(g)' => Steady(g)
    <2>1. CASE query'.reads = query.reads
      BY <2>1 DEF Steady
    <2>2. CASE query'.reads = <<>>
      BY <2>2, CodeAssumption DEF Steady, CodeFiles
    <2> QED BY <2>1, <2>2
  <1>5. MomentInv'
    BY <1>4 DEF CodeInv, MomentInv
  <1>6. SawInv'
    <2>1. \A read \in query'.saw : read[1] \in CodeFiles
      BY DEF Calls
    <2> QED BY <1>4, <2>1 DEF CodeInv, SawInv
  <1> QED BY <1>2, <1>3, <1>5, <1>6

LEMMA RestartKeeps ==
    ASSUME CodeInv, Restart
    PROVE  CodeInv'
  <1> USE DEF graphVars
  <1>1. UNCHANGED <<disk, edits, latest, synced, gens, mirror, index, graphGen, down, closed>>
    BY DEF Restart
  <1>2. query.pc = "restart" /\ server' = NoServer
    BY DEF Restart
  <1>3. query \in Calls /\ ~query.verified
    BY <1>2, CallTyped
  <1>4. query' \in Calls /\ query'.pc = "mirror" /\ query'.cand = query.cand
    BY <1>3 DEF Restart, Calls, CallSteps
  <1>5. query'.past = query.past /\ query'.saw = query.saw /\ query'.reads = query.reads
    BY <1>3 DEF Restart, Calls
  <1>6. ~query'.verified
    BY <1>3 DEF Restart, Calls
  <1>7. HasCand /\ ~Verified'
    BY <1>2, <1>4 DEF HasCand, Verified
  <1>8. CandInv' /\ MomentInv' /\ SawInv' /\ (latest' = NoLatest \/ Captured(latest)')
    BY <1>1, <1>4, <1>5, <1>7, GoesOn
  <1>9. CodeTypes'
    <2>1. NoServer \in [up : BOOLEAN, seen : SUBSET (CodeFiles \X Nat)]
      BY DEF NoServer
    <2> QED BY <1>1, <1>2, <1>4, <2>1 DEF CodeInv, CodeTypes
  <1>10. CountInv'
    BY <1>1, <1>8 DEF CodeInv, CountInv
  <1>11. ReadInv'
    BY <1>1, <1>2, <1>4, <1>5, <1>6 DEF CodeInv, ReadInv
  <1>12. ServerInv'
    BY <1>2, <1>4 DEF ServerInv, NoServer
  <1>13. RunInv'
    BY <1>4, <1>7 DEF RunInv
  <1>14. DownInv'
    BY <1>1, <1>2 DEF CodeInv, DownInv
  <1>15. GraphInv'
    BY <1>1, <1>4, <1>7 DEF CodeInv, GraphInv
  <1>16. ClosedInv'
    BY <1>1, <1>2 DEF CodeInv, ClosedInv, NoQuery
  <1> QED BY <1>8, <1>9, <1>10, <1>11, <1>12, <1>13, <1>14, <1>15, <1>16 DEF CodeInv

\* The mirror is written only if every file still has its version.
LEMMA MirrorKeeps ==
    ASSUME CodeInv, PrepareMirror
    PROVE  CodeInv'
  <1> USE DEF serverVars
  <1>1. UNCHANGED <<disk, edits, latest, gens, graphErr, server, index, closed>> /\ graphGen' = 0
    BY DEF PrepareMirror
  <1>2. query.pc = "mirror"
    BY DEF PrepareMirror
  <1>3. query \in Calls /\ ~query.verified
    BY <1>2, CallTyped
  <1>4. HasCand /\ Captured(query.cand)
    BY <1>2 DEF HasCand, CodeInv, CandInv
  <1>5. /\ \A f \in CodeFiles : query.cand.files[f] \in Nat
        /\ mirror \in [CodeFiles -> Nat]
    <2>1. query.cand.files \in Seq(Nat) /\ Len(query.cand.files) = NFiles
      BY <1>3, <1>4 DEF Calls, Snapshots, Captured
    <2> QED BY <2>1, CodeAssumption, SMTT(30) DEF CodeFiles, CodeInv, CodeTypes
  <1>6. CASE \A f \in Present(query.cand.files) : disk[f] = query.cand.files[f]
    <2>1. /\ query' = [query EXCEPT !.pc = "index"] /\ UNCHANGED <<synced, down>>
          /\ mirror' \in [CodeFiles -> Nat] /\ Agree(mirror', query.cand.files)
      <3> DEFINE P == Present(query.cand.files)
      <3>1. /\ query' = [query EXCEPT !.pc = "index"] /\ UNCHANGED <<synced, down>>
            /\ mirror' = [f \in CodeFiles |-> IF f \in P THEN query.cand.files[f]
                              ELSE [g \in CodeFiles |-> IF g \in mirrored \ P THEN 0
                                                        ELSE mirror[g]][f]]
        BY <1>6 DEF PrepareMirror
      <3>2. P \subseteq CodeFiles
        BY DEF Present
      <3> HIDE DEF P
      <3>3. mirror' \in [CodeFiles -> Nat] /\ \A f \in P : mirror'[f] = query.cand.files[f]
        BY <1>5, <3>1, <3>2
      <3> QED BY <3>1, <3>3 DEF Agree, P
    <2>2. query' \in Calls /\ query'.pc = "index" /\ query'.cand = query.cand
      BY <1>3, <2>1 DEF Calls, CallSteps
    <2>3. query'.past = query.past /\ query'.saw = query.saw /\ query'.reads = query.reads
      BY <1>3, <2>1 DEF Calls
    <2>4. ~query'.verified
      BY <1>3, <2>1 DEF Calls
    <2>5. ~Verified'
      BY <2>2 DEF Verified
    <2>6. CandInv' /\ MomentInv' /\ SawInv' /\ (latest' = NoLatest \/ Captured(latest)')
      BY <1>1, <1>4, <2>2, <2>3, GoesOn
    <2>7. CodeTypes'
      BY <1>1, <2>1, <2>2 DEF CodeInv, CodeTypes
    <2>8. CountInv'
      BY <1>1, <2>1, <2>6 DEF CodeInv, CodeTypes, CountInv
    <2>9. ReadInv'
      BY <1>1, <1>2, <2>2, <2>3, <2>4 DEF CodeInv, ReadInv
    <2>10. ServerInv'
      BY <1>1, <1>2, <2>1 DEF CodeInv, ServerInv
    <2>11. RunInv'
      BY <2>2, <2>5 DEF RunInv
    <2>12. DownInv'
      BY <1>2, <2>1 DEF CodeInv, DownInv
    <2>13. GraphInv'
      <3>1. query'.cand.gen # 0
        BY <1>3, <1>4, <2>2 DEF Captured, Calls, Snapshots
      <3> QED BY <1>1, <2>1, <2>2, <2>5, <3>1 DEF GraphInv, Agree
    <2>14. ClosedInv'
      BY <1>1, <1>2 DEF CodeInv, ClosedInv, NoQuery
    <2> QED BY <2>6, <2>7, <2>8, <2>9, <2>10, <2>11, <2>12, <2>13, <2>14 DEF CodeInv
  <1>7. CASE ~(\A f \in Present(query.cand.files) : disk[f] = query.cand.files[f])
    <2>1. LeaveRefresh(TRUE) /\ mirror' \in [CodeFiles -> Nat]
      BY <1>5, <1>7 DEF PrepareMirror, Present
    <2>2. Loose(query') /\ synced' = 0
      BY <1>2, <2>1, LeavesRefresh
    <2>3. ~closed'
      BY <1>1, <1>2 DEF CodeInv, ClosedInv, NoQuery
    <2> QED BY <1>1, <2>1, <2>2, <2>3, LooseKeeps
  <1> QED BY <1>6, <1>7

LEMMA IndexKeeps ==
    ASSUME CodeInv, EndIndex
    PROVE  CodeInv'
  <1> USE DEF serverVars
  <1>1. UNCHANGED <<disk, edits, latest, synced, gens, server, mirror, down, closed>>
    BY DEF EndIndex
  <1>2. query.pc = "index"
    BY DEF EndIndex
  <1>3. query \in Calls /\ ~query.verified
    BY <1>2, CallTyped
  <1>4. query' \in Calls /\ query'.pc = "verify" /\ query'.cand = query.cand
    BY <1>3 DEF EndIndex, Calls, CallSteps
  <1>5. query'.past = query.past /\ query'.saw = query.saw /\ query'.reads = query.reads
    BY <1>3 DEF EndIndex, Calls
  <1>6. ~query'.verified
    BY <1>3 DEF EndIndex, Calls
  <1>7. HasCand /\ ~Verified' /\ Captured(query.cand)
    BY <1>2, <1>4 DEF HasCand, Verified, CodeInv, CandInv
  <1>8. CandInv' /\ MomentInv' /\ SawInv' /\ (latest' = NoLatest \/ Captured(latest)')
    BY <1>1, <1>4, <1>5, <1>7, GoesOn
  <1>9. /\ \/ index' = mirror /\ graphGen' = query.cand.gen
           \/ index' = index /\ graphGen' = graphGen /\ graphErr'
        /\ query.cand.gen \in Nat
    BY <1>3 DEF EndIndex, Calls, Snapshots
  <1>10. CodeTypes'
    BY <1>1, <1>4, <1>9 DEF CodeInv, CodeTypes
  <1>11. CountInv'
    BY <1>1, <1>7, <1>8, <1>9 DEF CodeInv, CountInv, Captured
  <1>12. ReadInv'
    BY <1>1, <1>2, <1>4, <1>5, <1>6 DEF CodeInv, ReadInv
  <1>13. ServerInv'
    BY <1>1, <1>2, <1>4 DEF CodeInv, ServerInv
  <1>14. RunInv'
    BY <1>4, <1>7 DEF RunInv
  <1>15. DownInv'
    BY <1>1, <1>2 DEF CodeInv, DownInv
  <1>16. GraphInv'
    <2>1. HasCand => (query.cand.gen = latest.gen => query.cand = latest)
      BY DEF CodeInv, CandInv
    <2>2. Agree(mirror, query.cand.files)
      BY <1>2 DEF CodeInv, GraphInv
    <2>3. CASE index' = mirror /\ graphGen' = query.cand.gen
      BY <1>1, <1>4, <1>7, <2>1, <2>2, <2>3 DEF GraphInv
    <2>4. CASE index' = index /\ graphGen' = graphGen /\ graphErr'
      BY <1>1, <1>4, <1>7, <2>4 DEF CodeInv, GraphInv
    <2> QED BY <1>9, <2>3, <2>4
  <1>17. ClosedInv'
    BY <1>1, <1>2 DEF CodeInv, ClosedInv, NoQuery
  <1> QED BY <1>8, <1>10, <1>11, <1>12, <1>13, <1>14, <1>15, <1>16, <1>17 DEF CodeInv

\* The second capture: what it confirms is synchronized, and the servers that could
\* have read something else were stopped before it.
LEMMA VerifyKeeps ==
    ASSUME CodeInv, EndVerify
    PROVE  CodeInv'
  <1> USE DEF serverVars, graphVars
  <1>1. UNCHANGED <<disk, edits, gens, graphErr, server, mirror, index, graphGen, closed>>
    BY DEF EndVerify
  <1>2. query.pc = "verify"
    BY DEF EndVerify
  <1>3. query \in Calls /\ ~query.verified
    BY <1>2, CallTyped
  <1>4. HasCand /\ Captured(query.cand) /\ query.saw = {} /\ server = NoServer /\ ~down
    BY <1>2 DEF HasCand, CodeInv, CandInv, ReadInv, ServerInv, DownInv
  <1>5. mirror \in [CodeFiles -> Nat] /\ ~closed' /\ <<>> \in Seq(Nat)
    BY <1>1, <1>2, EmptySeq DEF CodeInv, CodeTypes, ClosedInv, NoQuery
  <1>6. CASE query.reads = query.cand.files
    <2>1. PICK p \in {"run", "after", "deliver"} :
              /\ query' = [query EXCEPT !.pc = p, !.reads = <<>>]
              /\ p = "after" => ~graphErr
      BY <1>6 DEF EndVerify, Completed
    <2>2. synced' = query.cand.gen /\ latest' = query.cand /\ UNCHANGED down
      BY <1>6 DEF EndVerify
    <2>3. query' \in Calls /\ query'.pc = p /\ query'.cand = query.cand /\ query'.reads = <<>>
      BY <1>3, <1>5, <2>1 DEF Calls, CallSteps
    <2>4. query'.past = query.past /\ query'.saw = query.saw /\ query'.op = query.op
      BY <1>3, <2>1 DEF Calls
    <2>5. ~query'.verified
      BY <1>3, <2>1 DEF Calls
    <2>6. ~Verified'
      BY <2>5 DEF Verified
    <2>7. /\ latest' \in Snapshots /\ (latest' = NoLatest \/ Captured(latest)')
          /\ CandInv' /\ MomentInv' /\ SawInv'
      BY <1>1, <1>4, <2>2, <2>3, <2>4, GoesOn
    <2>8. query.cand.gen \in Nat /\ query.cand.gen <= gens
      BY <1>3, <1>4 DEF Calls, Snapshots, Captured
    <2>9. CodeTypes'
      BY <1>1, <2>2, <2>3, <2>7, <2>8 DEF CodeInv, CodeTypes
    <2>10. CountInv'
      BY <1>1, <2>2, <2>7, <2>8 DEF CodeInv, CountInv
    <2>11. ReadInv'
      <3>1. disk' \in query'.past
        BY <1>1, <1>2, <2>4 DEF CodeInv, ReadInv
      <3> QED BY <1>4, <2>3, <2>4, <2>5, <3>1, CodeAssumption DEF ReadInv
    <2>12. ServerInv'
      BY <1>1, <1>4, <2>1, <2>3 DEF ServerInv, NoServer
    <2>13. RunInv'
      BY <2>2, <2>3 DEF RunInv
    <2>14. DownInv'
      BY <1>4, <2>2 DEF DownInv
    <2>15. GraphInv'
      <3>1. graphGen = query.cand.gen => Agree(index, query.cand.files)
        BY <1>4 DEF CodeInv, GraphInv
      <3>2. ~graphErr => graphGen = query.cand.gen
        BY <1>2 DEF CodeInv, GraphInv
      <3> QED BY <1>1, <2>1, <2>2, <2>3, <2>6, <3>1, <3>2 DEF GraphInv
    <2>16. ClosedInv'
      BY <1>5 DEF ClosedInv
    <2> QED BY <2>7, <2>9, <2>10, <2>11, <2>12, <2>13, <2>14, <2>15, <2>16 DEF CodeInv
  <1>7. CASE query.reads # query.cand.files
    <2>1. Loose(query') /\ synced' \in {synced, 0} /\ latest' = latest
      <3>1. CASE query.round = 1
        <4>1. /\ query' = [query EXCEPT !.pc = "scan", !.round = 2, !.force = TRUE, !.reads = <<>>]
              /\ synced' = synced /\ latest' = latest
          BY <1>7, <3>1 DEF EndVerify
        <4>2. query' \in Calls /\ query'.pc = "scan" /\ query'.reads = <<>>
          BY <1>3, <1>5, <4>1 DEF Calls, CallSteps
        <4>3. query'.past = query.past /\ query'.saw = query.saw
          BY <1>3, <4>1 DEF Calls
        <4>4. ~query'.verified
          BY <1>3, <4>1 DEF Calls
        <4>5. disk \in query.past
          BY <1>2 DEF CodeInv, ReadInv
        <4> QED BY <1>4, <4>1, <4>2, <4>3, <4>4, <4>5, CodeAssumption DEF Loose
      <3>2. CASE query.round # 1
        <4>1. LeaveRefresh(TRUE) /\ latest' = latest
          BY <1>7, <3>2 DEF EndVerify
        <4> QED BY <1>2, <4>1, LeavesRefresh
      <3> QED BY <3>1, <3>2
    <2> QED BY <1>1, <1>5, <2>1, LooseKeeps
  <1> QED BY <1>6, <1>7

\* The providers answer from the files of the snapshot: the server is synchronized
\* with it, and the graph has its generation.
LEMMA RunKeeps ==
    ASSUME CodeInv, StartServer \/ Started \/ AskServer \/ AskGraph \/ AskNobody
    PROVE  CodeInv'
  <1> USE DEF spaceVars, serverVars, graphVars
  <1>1. UNCHANGED <<disk, edits, latest, synced, gens, graphErr, mirror, index, graphGen, down,
                    closed>>
    BY DEF StartServer, Started, AskServer, AskGraph, AskNobody
  <1>2. query.pc \in {"run", "starting"}
    BY DEF StartServer, Started, AskServer, AskGraph, AskNobody, Answering
  <1>3. query \in Calls /\ ~query.verified
    BY <1>2, CallTyped
  <1>4. /\ HasCand /\ Captured(query.cand) /\ query.reads = <<>> /\ ~closed /\ ~down
        /\ latest = query.cand /\ (query.op # "status" => synced = query.cand.gen)
    BY <1>2 DEF HasCand, CodeInv, CandInv, ReadInv, ClosedInv, NoQuery, RunInv, DownInv
  <1>5. \A read \in CodeFiles \X Nat : Steady(read[1]) =>
            /\ read[1] \in Present(query.cand.files) /\ disk[read[1]] = query.cand.files[read[1]]
    BY <1>4, CodeAssumption DEF Steady, CodeFiles
  <1>6. server.seen \in SUBSET (CodeFiles \X Nat)
    BY DEF CodeInv, CodeTypes
  <1>7. query.op = "code" =>
            \A read \in server.seen : Steady(read[1]) => read[2] = query.cand.files[read[1]]
    <2>1. query.op = "code" => synced # 0 /\ synced = latest.gen
      BY <1>3, <1>4 DEF Captured, Calls, Snapshots
    <2> QED BY <1>4, <1>5, <1>6, <2>1 DEF CodeInv, ServerInv
  <1>8. /\ KnownNodes \in SUBSET (CodeFiles \X Nat)
        /\ graphGen = query.cand.gen =>
               \A read \in KnownNodes : read[2] = query.cand.files[read[1]]
    BY <1>4 DEF KnownNodes, Present, Agree, CodeInv, CodeTypes, GraphInv
  <1>9. PICK p \in {"run", "starting", "after"}, s \in SUBSET (CodeFiles \X Nat), e \in BOOLEAN :
            /\ query' = [query EXCEPT !.pc = p, !.saw = s, !.empty = e]
            /\ p = "after" => query.op # "reindex"
            /\ \A read \in s :
                   read \in query.saw \/ (Steady(read[1]) => read[2] = query.cand.files[read[1]])
    <2>0. query.saw \in SUBSET (CodeFiles \X Nat) /\ query.empty \in BOOLEAN
      BY <1>3 DEF Calls
    <2>1. CASE StartServer
      <3>1. query' = [query EXCEPT !.pc = "starting", !.saw = query.saw, !.empty = query.empty]
        BY <1>3, <2>1 DEF StartServer, Calls
      <3> QED BY <2>0, <3>1
    <2>2. CASE Started
      <3>1. query' = [query EXCEPT !.pc = "run", !.saw = query.saw, !.empty = query.empty]
        BY <1>3, <2>2 DEF Started, Calls
      <3> QED BY <2>0, <3>1
    <2>3. CASE AskServer
      <3>1. query.op = "code" /\ query.pc = "run"
        BY <2>3 DEF AskServer, Answering
      <3>2. CASE query' = [query EXCEPT !.pc = "after", !.saw = server.seen]
        <4>1. query' = [query EXCEPT !.pc = "after", !.saw = server.seen, !.empty = query.empty]
          BY <1>3, <3>2 DEF Calls
        <4> QED BY <1>6, <1>7, <2>0, <3>1, <4>1
      <3>3. CASE query' = [query EXCEPT !.empty = TRUE, !.saw = server.seen]
        <4>1. query' = [query EXCEPT !.pc = "run", !.saw = server.seen, !.empty = TRUE]
          BY <1>3, <3>1, <3>3 DEF Calls
        <4> QED BY <1>6, <1>7, <3>1, <4>1
      <3> QED BY <2>3, <3>2, <3>3 DEF AskServer
    <2>4. CASE AskGraph
      <3>1. query.op # "reindex" /\ graphGen = query.cand.gen
        BY <2>4 DEF AskGraph
      <3>2. query' = [query EXCEPT !.pc = "after", !.saw = query.saw \cup KnownNodes,
                                   !.empty = query.empty]
        BY <1>3, <2>4 DEF AskGraph, Calls
      <3>3. query.saw \cup KnownNodes \in SUBSET (CodeFiles \X Nat)
        BY <1>8, <2>0
      <3> QED BY <1>8, <2>0, <3>1, <3>2, <3>3
    <2>5. CASE AskNobody
      <3>1. query.op # "reindex"
        BY <2>5 DEF AskNobody
      <3>2. query' = [query EXCEPT !.pc = "after", !.saw = query.saw, !.empty = query.empty]
        BY <1>3, <2>5 DEF AskNobody, Calls
      <3> QED BY <2>0, <3>1, <3>2
    <2> QED BY <2>1, <2>2, <2>3, <2>4, <2>5
  <1>10. /\ query' \in Calls /\ query'.pc = p /\ query'.saw = s /\ query'.cand = query.cand
         /\ query'.past = query.past /\ query'.reads = query.reads /\ query'.op = query.op
    BY <1>3, <1>9 DEF Calls, CallSteps
  <1>11. ~query'.verified
    BY <1>3, <1>9 DEF Calls
  <1>12. ~Verified'
    BY <1>11 DEF Verified
  <1>13. /\ latest' \in Snapshots /\ (latest' = NoLatest \/ Captured(latest)')
         /\ CandInv' /\ MomentInv' /\ SawInv'
    BY <1>1, <1>4, <1>9, <1>10, GoesOn
  <1>14. /\ server' \in [up : BOOLEAN, seen : SUBSET (CodeFiles \X Nat)]
         /\ (server' = server \/ server'.seen = {})
    <2>1. server' = server \/ server' = [up |-> TRUE, seen |-> {}] \/ server' = NoServer
      BY DEF StartServer, Started, AskServer, AskGraph, AskNobody
    <2>2. [up |-> TRUE, seen |-> {}] \in [up : BOOLEAN, seen : SUBSET (CodeFiles \X Nat)]
      OBVIOUS
    <2>3. server \in [up : BOOLEAN, seen : SUBSET (CodeFiles \X Nat)]
      BY DEF CodeInv, CodeTypes
    <2>4. CASE server' = server
      BY <2>3, <2>4
    <2>5. CASE server' = [up |-> TRUE, seen |-> {}]
      BY <2>2, <2>5
    <2>6. CASE server' = NoServer
      BY <2>6 DEF NoServer
    <2> QED BY <2>1, <2>4, <2>5, <2>6
  <1>15. CodeTypes'
    BY <1>1, <1>10, <1>13, <1>14 DEF CodeInv, CodeTypes
  <1>16. CountInv'
    BY <1>1, <1>13 DEF CodeInv, CountInv
  <1>17. ReadInv'
    BY <1>1, <1>2, <1>4, <1>9, <1>10, <1>11 DEF CodeInv, ReadInv
  <1>18. ServerInv'
    BY <1>1, <1>9, <1>10, <1>14 DEF CodeInv, ServerInv
  <1>19. RunInv'
    BY <1>1, <1>4, <1>10 DEF RunInv
  <1>20. DownInv' /\ ClosedInv'
    BY <1>1, <1>4 DEF DownInv, ClosedInv
  <1>21. GraphInv'
    BY <1>1, <1>4, <1>9, <1>10, <1>12 DEF CodeInv, GraphInv
  <1> QED BY <1>13, <1>15, <1>16, <1>17, <1>18, <1>19, <1>20, <1>21 DEF CodeInv

\* The capture after the answer.
LEMMA AfterKeeps ==
    ASSUME CodeInv, EndAfter
    PROVE  CodeInv'
  <1> USE DEF spaceVars, serverVars, graphVars
  <1>1. UNCHANGED <<disk, edits, latest, synced, gens, graphErr, server, mirror, index, graphGen,
                    closed>>
    BY DEF EndAfter
  <1>2. query.pc = "after"
    BY DEF EndAfter
  <1>3. query \in Calls /\ ~query.verified
    BY <1>2, CallTyped
  <1>4. /\ HasCand /\ ~closed /\ ~down /\ latest = query.cand
        /\ query.op # "status" => synced = query.cand.gen
    BY <1>2 DEF HasCand, CodeInv, ClosedInv, NoQuery, RunInv, DownInv
  <1>5. CASE StillSame
    <2>1. query' = [query EXCEPT !.pc = "deliver", !.verified = TRUE] /\ UNCHANGED down
      BY <1>5 DEF EndAfter
    <2>2. /\ query' \in Calls /\ query'.pc = "deliver" /\ query'.saw = query.saw
          /\ query'.cand = query.cand /\ query'.op = query.op
          /\ query'.past = query.past /\ query'.reads = query.reads
      BY <1>3, <2>1 DEF Calls, CallSteps
    <2>3. query.reads = query.cand.files
      BY <1>5 DEF StillSame
    <2>4. /\ latest' \in Snapshots /\ (latest' = NoLatest \/ Captured(latest)')
          /\ CandInv' /\ MomentInv' /\ SawInv'
      BY <1>1, <1>4, <2>2, GoesOn
    <2>5. CodeTypes'
      BY <1>1, <2>2, <2>4 DEF CodeInv, CodeTypes
    <2>6. CountInv'
      BY <1>1, <2>4 DEF CodeInv, CountInv
    <2>7. ReadInv'
      BY <1>1, <1>2, <2>2, <2>3 DEF CodeInv, ReadInv
    <2>8. ServerInv'
      BY <1>1, <2>2 DEF CodeInv, ServerInv
    <2>9. RunInv'
      BY <1>1, <1>4, <2>2 DEF RunInv
    <2>10. DownInv' /\ ClosedInv'
      BY <1>1, <1>4, <2>1 DEF DownInv, ClosedInv
    <2>11. GraphInv'
      BY <1>1, <1>2, <1>4, <2>2 DEF CodeInv, GraphInv
    <2> QED BY <2>4, <2>5, <2>6, <2>7, <2>8, <2>9, <2>10, <2>11 DEF CodeInv
  <1>6. CASE ~StillSame
    <2>1. TryAgain \/ query' = [query EXCEPT !.pc = "deliver"]
      BY <1>6 DEF EndAfter
    <2>2. Loose(query') /\ mirror \in [CodeFiles -> Nat]
      BY <1>2, <2>1, GivesUp, Unverified DEF CodeInv, CodeTypes
    <2> QED BY <1>1, <1>4, <2>2, LooseKeeps
  <1> QED BY <1>5, <1>6

\* The inductive invariant of the code queries.
LEMMA CodeHolds == CodeSpec => []CodeInv
  <1>1. CodeInit => CodeInv
    <2> SUFFICES ASSUME CodeInit PROVE CodeInv
      OBVIOUS
    <2>1. query = NoQuery /\ query.pc = "idle" /\ ~HasCand /\ ~Verified
      BY DEF CodeInit, NoQuery, HasCand, Verified
    <2>2. CodeTypes
      <3>1. NoLatest \in Snapshots
        BY EmptySeq DEF NoLatest, Snapshots
      <3>2. NoServer \in [up : BOOLEAN, seen : SUBSET (CodeFiles \X Nat)]
        BY DEF NoServer
      <3> QED BY <3>1, <3>2 DEF CodeInit, CodeTypes
    <2>3. CountInv
      BY DEF CodeInit, CountInv
    <2>4. ReadInv /\ CandInv /\ MomentInv /\ SawInv /\ RunInv /\ DownInv
      BY <2>1 DEF ReadInv, CandInv, MomentInv, SawInv, RunInv, DownInv
    <2>5. ServerInv /\ GraphInv /\ ClosedInv
      BY <2>1 DEF CodeInit, ServerInv, GraphInv, ClosedInv
    <2> QED BY <2>2, <2>3, <2>4, <2>5 DEF CodeInv
  <1>2. CodeInv /\ [CodeNext]_codeVars => CodeInv'
    <2> SUFFICES ASSUME CodeInv, [CodeNext]_codeVars PROVE CodeInv'
      OBVIOUS
    <2>1. CASE \E f \in CodeFiles : Edit(f) \/ ServerReads(f)
      BY <2>1, EditKeeps, ServerKeeps
    <2>2. CASE ServerExits
      BY <2>2, ServerKeeps
    <2>3. CASE \E op \in CallOps : BeginQuery(op)
      BY <2>3, BeginKeeps
    <2>4. CASE Scan
      BY <2>4, ScanKeeps
    <2>5. CASE \/ \E race \in BOOLEAN : ScanFails(race)
               \/ Absent \/ AskFails \/ Deliver \/ ReindexTimeout \/ CancelQuery \/ EndFailed
               \/ EndShutdown \/ IdleReap \/ CloseCode
      BY <2>5, DropKeeps
    <2>6. CASE EndScan \/ Restart \/ PrepareMirror \/ EndIndex \/ EndVerify \/ EndAfter
      BY <2>6, EndScanKeeps, RestartKeeps, MirrorKeeps, IndexKeeps, VerifyKeeps, AfterKeeps
    <2>7. CASE StartServer \/ Started \/ AskServer \/ AskGraph \/ AskNobody
      BY <2>7, RunKeeps
    <2>8. CASE UNCHANGED codeVars
      <3> USE DEF codeVars, spaceVars, serverVars, graphVars
      <3>1. CodeTypes' /\ CountInv' /\ ReadInv' /\ CandInv'
        BY <2>8 DEF CodeInv, CodeTypes, CountInv, ReadInv, CandInv, Captured, HasCand, Verified
      <3>2. MomentInv' /\ SawInv'
        BY <2>8 DEF CodeInv, MomentInv, SawInv, HasCand, Verified, Steady
      <3>3. ServerInv' /\ RunInv' /\ DownInv' /\ GraphInv' /\ ClosedInv'
        BY <2>8 DEF CodeInv, ServerInv, RunInv, DownInv, GraphInv, ClosedInv, HasCand, Verified
      <3> QED BY <3>1, <3>2, <3>3 DEF CodeInv
    <2> QED BY <2>1, <2>2, <2>3, <2>4, <2>5, <2>6, <2>7, <2>8 DEF CodeNext, CallOps
  <1> QED BY <1>1, <1>2, PTL DEF CodeSpec

\* Code answers while the project is edited (manager.py, workspace.py), for every
\* number of files, edits and generations: a verified answer is of one moment of the
\* files, the server and the graph that gave it had read those files, a completed
\* reindex is synchronized, and no server that the router knows outlives close.
THEOREM CodeAnswersAreSafe == CodeSpec => []CodeSafe
  <1>1. CodeInv => CodeSafe
    <2> SUFFICES ASSUME CodeInv PROVE CodeSafe
      OBVIOUS
    <2>1. NoServerAfterClose
      BY DEF CodeInv, ClosedInv, NoServerAfterClose, NoServer
    <2>2. CASE ~Verified
      BY <2>1, <2>2 DEF CodeSafe, Verified, VerifiedOfOneMoment, ProvidersAgree,
                        CompletedIsSynchronized
    <2>3. CASE Verified
      <3>1. query.pc = "deliver" /\ query.verified /\ HasCand
        BY <2>3 DEF Verified, HasCand
      <3>2. query \in Calls
        BY <3>1, CallTyped
      <3>3. Captured(query.cand) /\ query.reads = query.cand.files
        BY <3>1 DEF CodeInv, CandInv, ReadInv
      <3>4. \A f \in Present(query.cand.files) : f \in CodeFiles /\ Steady(f)
        BY <3>3 DEF Present, Steady, Captured, CodeFiles
      <3>5. VerifiedOfOneMoment
        <4>1. PICK files \in query.past :
                  \A f \in CodeFiles : Steady(f) => files[f] = query.cand.files[f]
          BY <3>1 DEF CodeInv, MomentInv
        <4> QED BY <3>4, <4>1 DEF VerifiedOfOneMoment
      <3>6. ProvidersAgree
        <4> SUFFICES ASSUME NEW read \in query.saw, query.cand.files[read[1]] # 0
                     PROVE  query.cand.files[read[1]] = read[2]
          BY DEF ProvidersAgree
        <4>1. read[1] \in Present(query.cand.files)
          BY <3>2 DEF Calls, Present
        <4> QED BY <3>1, <3>4, <4>1 DEF CodeInv, SawInv
      <3>7. CompletedIsSynchronized
        <4> SUFFICES ASSUME query.op = "reindex"
                     PROVE  /\ latest = query.cand /\ synced = latest.gen
                            /\ graphGen = latest.gen /\ Pairs(latest.files) \subseteq Pairs(index)
          BY DEF CompletedIsSynchronized
        <4>1. latest = query.cand /\ synced = latest.gen
          BY <2>3 DEF CodeInv, RunInv
        <4>2. graphGen = latest.gen /\ Agree(index, latest.files)
          BY <2>3, <3>1, <4>1 DEF CodeInv, GraphInv
        <4>3. Pairs(latest.files) \subseteq Pairs(index)
          BY <4>2 DEF Agree, Pairs, Present
        <4> QED BY <4>1, <4>2, <4>3
      <3> QED BY <2>1, <3>5, <3>6, <3>7 DEF CodeSafe
    <2> QED BY <2>2, <2>3
  <1> QED BY <1>1, CodeHolds, PTL

-----------------------------------------------------------------------------
(* The language server.  While no file changed since the last refresh,     *)
(* whatever the client keeps of a document is of its text; a call begins   *)
(* only after a refresh, and files that change during it are seen by the   *)
(* next one.                                                               *)

LookupSteps == {"open", "quiet", "report", "done"}
Judgements == {"none", "ready", "partial", "stale", "pending", "unavailable"}
Lookups == [pc : LookupSteps, doc : Uris, warned : BOOLEAN, epoch : Nat, state : Judgements,
            of : Nat]
Kept == [version : Nat, text : Nat]
Reports == [doc : Uris, version : Nat, text : Nat]

SessionTypes ==
    /\ text \in [Uris -> Nat \ {0}] /\ epoch \in Nat
    /\ docs \in [Uris -> Kept] /\ push \in [Uris -> Kept] /\ pull \in [Uris -> Kept]
    /\ order \in Seq(Uris) /\ late \in SUBSET Reports
    /\ lookup = NoLookup \/ lookup \in Lookups

IsOf(copy, d) == copy[d] # NoDoc => copy[d].text = text[d]

FreshInv ==
    /\ lookup # NoLookup => ~dirty
    /\ ~dirty =>
           /\ \A d \in Uris : IsOf(docs, d) /\ IsOf(push, d) /\ IsOf(pull, d)
           /\ \A report \in late : report.text = text[report.doc]

OrderInv ==
    /\ Len(order) <= MaxOpen
    /\ \A i, j \in 1 .. Len(order) : order[i] = order[j] => i = j
    /\ \A d \in Uris : docs[d] # NoDoc <=> \E i \in 1 .. Len(order) : order[i] = d

AskedInv ==
    /\ lookup.pc \in {"quiet", "report", "done"} => docs[lookup.doc] # NoDoc
    /\ ReadyIsCurrent

SessionInv == SessionTypes /\ FreshInv /\ OrderInv /\ AskedInv

\* A step that leaves the documents alone.
LEMMA DocumentsStay ==
    ASSUME SessionInv, UNCHANGED <<text, dirty, overlay>>, late' \in SUBSET late, epoch' \in Nat,
           \/ lookup' = NoLookup
           \/ /\ lookup # NoLookup /\ lookup' \in Lookups /\ lookup'.doc = lookup.doc
              /\ lookup.pc # "open" \/ lookup'.pc = "open"
              /\ lookup'.pc = "done" /\ lookup'.state = "ready" => lookup'.of = text[lookup.doc]
    PROVE  SessionInv'
  <1> USE DEF overlay
  <1>1. SessionTypes'
    BY DEF SessionInv, SessionTypes
  <1>2. FreshInv'
    BY DEF SessionInv, FreshInv, IsOf
  <1>3. OrderInv'
    BY DEF SessionInv, OrderInv
  <1>4. AskedInv'
    <2>1. CASE lookup' = NoLookup
      BY <2>1 DEF AskedInv, ReadyIsCurrent, NoLookup
    <2>2. CASE lookup' # NoLookup
      BY <2>2 DEF SessionInv, SessionTypes, Lookups, LookupSteps, AskedInv, ReadyIsCurrent
    <2> QED BY <2>1, <2>2
  <1> QED BY <1>1, <1>2, <1>3, <1>4 DEF SessionInv

\* A call in progress.
LEMMA Looking ==
    ASSUME SessionInv, lookup.pc # "idle"
    PROVE  lookup \in Lookups /\ lookup # NoLookup /\ ~dirty
  BY DEF SessionInv, SessionTypes, FreshInv, NoLookup

LEMMA QuietSteps ==
    ASSUME SessionInv,
           \/ ServerDies \/ WaitAgain \/ AnalysisQuiet \/ AnalysisSlow
           \/ PushReport \/ NothingPushed \/ EndLookup
           \/ \E t \in Tokens : CreateProgress(t) \/ BeginProgress(t) \/ EndProgress(t)
    PROVE  SessionInv'
  <1> USE DEF progress
  <1>0. epoch \in Nat
    BY DEF SessionInv, SessionTypes
  <1>1. UNCHANGED <<text, dirty, overlay>> /\ late' \in SUBSET late
    BY DEF ServerDies, WaitAgain, AnalysisQuiet, AnalysisSlow, PushReport, NothingPushed,
           EndLookup, CreateProgress, BeginProgress, EndProgress
  <1>2. CASE ServerDies \/ \E t \in Tokens : CreateProgress(t) \/ BeginProgress(t) \/ EndProgress(t)
    <2>1. lookup' = lookup /\ epoch' \in Nat
      BY <1>0, <1>2 DEF ServerDies, CreateProgress, BeginProgress, EndProgress
    <2>2. lookup' = NoLookup \/ lookup' \in Lookups
      BY <2>1 DEF SessionInv, SessionTypes
    <2>3. lookup'.pc = "done" /\ lookup'.state = "ready" => lookup'.of = text[lookup.doc]
      BY <2>1 DEF SessionInv, AskedInv, ReadyIsCurrent
    <2> QED BY <1>1, <2>1, <2>2, <2>3, DocumentsStay
  <1>3. CASE WaitAgain
    <2>1. /\ lookup.pc = "quiet" /\ epoch' = epoch
          /\ lookup' = [lookup EXCEPT !.epoch = epoch]
      BY <1>3 DEF WaitAgain
    <2>2. lookup \in Lookups /\ lookup # NoLookup
      BY <2>1, Looking
    <2>3. lookup' \in Lookups /\ lookup'.doc = lookup.doc /\ lookup'.pc = "quiet"
      BY <1>0, <2>1, <2>2 DEF Lookups, LookupSteps
    <2> QED BY <1>0, <1>1, <2>1, <2>2, <2>3, DocumentsStay
  <1>4. CASE AnalysisQuiet \/ AnalysisSlow
    <2>1. /\ lookup.pc = "quiet" /\ epoch' = epoch
          /\ \/ lookup' = [lookup EXCEPT !.pc = "report"]
             \/ lookup' = [lookup EXCEPT !.pc = "report", !.warned = TRUE]
      BY <1>4 DEF AnalysisQuiet, AnalysisSlow
    <2>2. lookup \in Lookups /\ lookup # NoLookup
      BY <2>1, Looking
    <2>3. lookup' \in Lookups /\ lookup'.doc = lookup.doc /\ lookup'.pc = "report"
      BY <2>1, <2>2 DEF Lookups, LookupSteps
    <2> QED BY <1>0, <1>1, <2>1, <2>2, <2>3, DocumentsStay
  <1>5. CASE PushReport
    <2>1. /\ lookup.pc = "report" /\ epoch' = epoch /\ push[lookup.doc] # NoReport
          /\ lookup' = [lookup EXCEPT !.pc = "done", !.of = push[lookup.doc].text,
                            !.state = Judge(push[lookup.doc], docs[lookup.doc])]
      BY <1>5 DEF PushReport
    <2>2. lookup \in Lookups /\ lookup # NoLookup /\ ~dirty
      BY <2>1, Looking
    <2>3. push[lookup.doc].text = text[lookup.doc] /\ text[lookup.doc] \in Nat
      BY <2>1, <2>2 DEF SessionInv, SessionTypes, FreshInv, IsOf, NoDoc, NoReport, Lookups
    <2>4. Judge(push[lookup.doc], docs[lookup.doc]) \in Judgements
      BY DEF Judge, Judgements
    <2>5. /\ lookup' \in Lookups /\ lookup'.doc = lookup.doc
          /\ lookup'.of = push[lookup.doc].text /\ lookup'.pc = "done"
      BY <2>1, <2>2, <2>3, <2>4 DEF Lookups, LookupSteps
    <2> QED BY <1>0, <1>1, <2>1, <2>2, <2>3, <2>5, DocumentsStay
  <1>6. CASE NothingPushed
    <2>1. /\ lookup.pc = "report" /\ epoch' = epoch
          /\ lookup' = [lookup EXCEPT !.pc = "done", !.state = "pending"]
      BY <1>6 DEF NothingPushed
    <2>2. lookup \in Lookups /\ lookup # NoLookup
      BY <2>1, Looking
    <2>3. /\ lookup' \in Lookups /\ lookup'.doc = lookup.doc
          /\ lookup'.pc = "done" /\ lookup'.state = "pending"
      BY <2>1, <2>2 DEF Lookups, LookupSteps, Judgements
    <2> QED BY <1>0, <1>1, <2>1, <2>2, <2>3, DocumentsStay
  <1>7. CASE EndLookup
    <2>1. lookup' = NoLookup /\ epoch' = epoch
      BY <1>7 DEF EndLookup
    <2> QED BY <1>0, <1>1, <2>1, DocumentsStay
  <1> QED BY <1>2, <1>3, <1>4, <1>5, <1>6, <1>7

\* A client that forgot everything.
LEMMA ForgetKeeps ==
    ASSUME SessionInv, Forget, UNCHANGED text,
           \/ lookup' = NoLookup
           \/ lookup' \in Lookups /\ lookup'.pc = "open" /\ ~dirty'
    PROVE  SessionInv'
  <1>1. /\ docs' = Emptied /\ push' = Emptied /\ pull' = Emptied /\ late' = {} /\ epoch' = 0
        /\ order' = <<>>
    BY DEF Forget
  <1>2. Emptied \in [Uris -> Kept] /\ \A d \in Uris : Emptied[d] = NoDoc
    BY DEF Emptied, Kept, NoDoc, NoText
  <1>3. SessionTypes'
    BY <1>1, <1>2, EmptySeq DEF SessionInv, SessionTypes
  <1>4. FreshInv'
    BY <1>1, <1>2 DEF FreshInv, IsOf
  <1>5. OrderInv'
    BY <1>1, <1>2, SessionAssumption DEF OrderInv
  <1>6. AskedInv'
    BY DEF AskedInv, ReadyIsCurrent, NoLookup
  <1> QED BY <1>3, <1>4, <1>5, <1>6 DEF SessionInv

LEMMA BeginLookupKeeps ==
    ASSUME SessionInv, NEW d \in Uris, BeginLookup(d)
    PROVE  SessionInv'
  <1> DEFINE l == [pc |-> "open", doc |-> d, warned |-> FALSE, epoch |-> 0, state |-> "none",
                   of |-> NoText]
  <1>1. l \in Lookups /\ l.pc = "open" /\ l.doc = d
    BY DEF Lookups, LookupSteps, Judgements, NoText
  <1>2. lookup' = l /\ dirty' = FALSE /\ text' = text /\ lookup = NoLookup
    BY DEF BeginLookup
  <1> HIDE DEF l
  <1>3. CASE NeedsServer
    <2>1. Forget
      BY <1>3 DEF BeginLookup
    <2> QED BY <1>1, <1>2, <2>1, ForgetKeeps
  <1>4. CASE ~NeedsServer
    <2>1. UNCHANGED <<docs, order, push, pull, late, epoch>> /\ ~dirty
      BY <1>4 DEF BeginLookup, NeedsServer, overlay, progress
    <2>2. SessionTypes'
      BY <1>1, <1>2, <2>1 DEF SessionInv, SessionTypes
    <2>3. FreshInv'
      BY <1>2, <2>1 DEF SessionInv, FreshInv, IsOf
    <2>4. OrderInv'
      BY <2>1 DEF SessionInv, OrderInv
    <2>5. AskedInv'
      BY <1>1, <1>2 DEF AskedInv, ReadyIsCurrent
    <2> QED BY <2>2, <2>3, <2>4, <2>5 DEF SessionInv
  <1> QED BY <1>3, <1>4

LEMMA LookupFailsKeeps ==
    ASSUME SessionInv, LookupFails
    PROVE  SessionInv'
  BY ForgetKeeps DEF LookupFails

LEMMA ChangeTextKeeps ==
    ASSUME SessionInv, NEW d \in Uris, ChangeText(d)
    PROVE  SessionInv'
  <1>1. /\ UNCHANGED <<docs, order, push, pull, late, epoch, lookup>> /\ dirty' = TRUE
        /\ lookup = NoLookup /\ text' = [text EXCEPT ![d] = @ + 1]
    BY DEF ChangeText, overlay, progress
  <1>2. SessionTypes'
    BY <1>1 DEF SessionInv, SessionTypes
  <1>3. FreshInv' /\ AskedInv'
    BY <1>1 DEF FreshInv, AskedInv, ReadyIsCurrent, NoLookup
  <1>4. OrderInv'
    BY <1>1 DEF SessionInv, OrderInv
  <1> QED BY <1>2, <1>3, <1>4 DEF SessionInv

LEMMA PublishKeeps ==
    ASSUME SessionInv, NEW report \in late, NEW versioned \in BOOLEAN, Publish(report, versioned)
    PROVE  SessionInv'
  <1> DEFINE seen == [version |-> IF versioned THEN report.version ELSE 0, text |-> report.text]
  <1>1. /\ UNCHANGED <<text, dirty, docs, order, pull, epoch, lookup>> /\ late' \in SUBSET late
        /\ push' \in {push, [push EXCEPT ![report.doc] = seen]}
    BY DEF Publish, progress
  <1>2. seen \in Kept /\ report.doc \in Uris /\ seen.text = report.text
    BY DEF Kept, SessionInv, SessionTypes, Reports
  <1> HIDE DEF seen
  <1>3. SessionTypes'
    BY <1>1, <1>2 DEF SessionInv, SessionTypes
  <1>4. FreshInv'
    <2> SUFFICES ASSUME ~dirty
                 PROVE  /\ \A d \in Uris : IsOf(docs, d)' /\ IsOf(push, d)' /\ IsOf(pull, d)'
                        /\ \A r \in late' : r.text = text'[r.doc]
      BY <1>1 DEF FreshInv, SessionInv
    <2>1. \A d \in Uris : IsOf(push, d)'
      BY <1>1, <1>2 DEF SessionInv, SessionTypes, FreshInv, IsOf
    <2> QED BY <1>1, <2>1 DEF SessionInv, FreshInv, IsOf
  <1>5. OrderInv' /\ AskedInv'
    BY <1>1 DEF SessionInv, OrderInv, AskedInv, ReadyIsCurrent
  <1> QED BY <1>3, <1>4, <1>5 DEF SessionInv

LEMMA PullKeeps ==
    ASSUME SessionInv, PullReport
    PROVE  SessionInv'
  <1> DEFINE d == lookup.doc
  <1>1. /\ UNCHANGED <<text, dirty, docs, order, push, late, epoch>> /\ lookup.pc = "report"
        /\ \/ /\ pull' = [pull EXCEPT ![d] = [version |-> 1, text |-> docs[d].text]]
              /\ lookup' = [lookup EXCEPT !.pc = "done", !.state = "ready", !.of = docs[d].text]
           \/ /\ pull[d] # NoReport /\ pull' = pull
              /\ lookup' = [lookup EXCEPT !.pc = "done", !.state = "ready", !.of = pull[d].text]
           \/ /\ lookup' = [lookup EXCEPT !.pc = "done", !.state = "unavailable"]
              /\ pull' = pull
    BY DEF PullReport, progress
  <1>2. lookup \in Lookups /\ lookup # NoLookup /\ ~dirty
    BY <1>1, Looking
  <1>3. d \in Uris /\ text[d] \in Nat /\ docs[d] # NoDoc
    BY <1>1, <1>2 DEF SessionInv, SessionTypes, AskedInv, Lookups
  <1>4. docs[d].text = text[d] /\ (pull[d] # NoReport => pull[d].text = text[d])
    BY <1>2, <1>3 DEF SessionInv, FreshInv, IsOf, NoDoc, NoReport
  <1>5. /\ lookup' \in Lookups /\ lookup'.doc = d /\ lookup'.pc = "done"
        /\ lookup'.state = "unavailable" \/ lookup'.of = text[d]
    BY <1>1, <1>2, <1>3, <1>4 DEF Lookups, LookupSteps, Judgements
  <1>6. pull' \in [Uris -> Kept] /\ \A u \in Uris : pull'[u] = pull[u] \/ pull'[u].text = text[u]
    <2>1. PICK k : k = [version |-> 1, text |-> text[d]]
      OBVIOUS
    <2>2. k \in Kept /\ k.text = text[d]
      BY <1>3, <2>1 DEF Kept
    <2>3. pull \in [Uris -> Kept]
      BY DEF SessionInv, SessionTypes
    <2>4. pull' = pull \/ pull' = [pull EXCEPT ![d] = k]
      BY <1>1, <1>4, <2>1
    <2> QED BY <1>3, <2>2, <2>3, <2>4
  <1> HIDE DEF d
  <1>7. SessionTypes'
    BY <1>1, <1>5, <1>6 DEF SessionInv, SessionTypes
  <1>8. FreshInv'
    BY <1>1, <1>2, <1>6 DEF SessionInv, FreshInv, IsOf
  <1>9. OrderInv'
    BY <1>1 DEF SessionInv, OrderInv
  <1>10. AskedInv'
    BY <1>1, <1>3, <1>5 DEF AskedInv, ReadyIsCurrent
  <1> QED BY <1>7, <1>8, <1>9, <1>10 DEF SessionInv

\* The document is opened with the text of the file; the oldest one gives way.
LEMMA EnsureKeeps ==
    ASSUME SessionInv, EnsureDocument
    PROVE  SessionInv'
  <1> DEFINE d == lookup.doc
  <1> DEFINE new == [version |-> 1, text |-> text[d]]
  <1> DEFINE sent == [doc |-> d, version |-> 1, text |-> text[d]]
  <1>1. /\ UNCHANGED <<text, dirty, epoch>> /\ lookup.pc = "open"
        /\ lookup' = [lookup EXCEPT !.pc = "quiet", !.epoch = epoch]
    BY DEF EnsureDocument, progress
  <1>2. lookup \in Lookups /\ lookup # NoLookup /\ ~dirty
    BY <1>1, Looking
  <1>3. d \in Uris /\ text[d] \in Nat /\ epoch \in Nat
    BY <1>2 DEF SessionInv, SessionTypes, Lookups
  <1>4. lookup' \in Lookups /\ lookup'.doc = d /\ lookup'.pc = "quiet"
    BY <1>1, <1>2, <1>3 DEF Lookups, LookupSteps
  <1>5. new \in Kept /\ new # NoDoc /\ new.text = text[d] /\ sent \in Reports
    BY <1>3 DEF Kept, Reports, NoDoc
  <1>6. sent.text = text[d] /\ sent.doc = d
    OBVIOUS
  <1>7. Opened(d, 1) = [docs EXCEPT ![d] = new] /\ Sent(d, 1) = late \cup {sent}
    BY DEF Opened, Sent
  <1>8. docs[d] # NoDoc => docs[d].text = text[d]
    BY <1>2, <1>3 DEF SessionInv, FreshInv, IsOf
  <1> DEFINE oldest == Head(order)
  <1>9. \/ /\ docs[d] = NoDoc /\ Len(order) >= MaxOpen
           /\ docs' = [[docs EXCEPT ![d] = new] EXCEPT ![oldest] = NoDoc]
           /\ push' = [push EXCEPT ![oldest] = NoReport]
           /\ pull' = [pull EXCEPT ![oldest] = NoReport]
           /\ order' = Append(Tail(order), d) /\ late' = late \cup {sent}
        \/ /\ docs[d] = NoDoc /\ ~(Len(order) >= MaxOpen)
           /\ docs' = [docs EXCEPT ![d] = new] /\ order' = Append(order, d)
           /\ late' = late \cup {sent} /\ UNCHANGED <<push, pull>>
        \/ docs[d] # NoDoc /\ UNCHANGED <<docs, order, push, pull, late>>
    BY <1>7, <1>8 DEF EnsureDocument, TooMany
  <1> HIDE DEF new, sent, d
  <1>10. /\ order \in Seq(Uris) /\ Len(order) \in Nat /\ MaxOpen \in Nat \ {0}
         /\ docs \in [Uris -> Kept] /\ push \in [Uris -> Kept] /\ pull \in [Uris -> Kept]
         /\ NoDoc \in Kept /\ NoReport = NoDoc
    BY SessionAssumption DEF SessionInv, SessionTypes, Kept, NoDoc, NoReport, NoText
  <1>11. /\ Len(order) <= MaxOpen
         /\ \A i, j \in 1 .. Len(order) : order[i] = order[j] => i = j
         /\ \A u \in Uris : docs[u] # NoDoc <=> \E i \in 1 .. Len(order) : order[i] = u
    BY DEF SessionInv, OrderInv
  <1>12. ASSUME docs' \in [Uris -> Kept], push' \in [Uris -> Kept], pull' \in [Uris -> Kept],
                order' \in Seq(Uris), late' \in SUBSET (late \cup {sent}),
                \A u \in Uris : /\ docs'[u] \in {docs[u], NoDoc} \/ docs'[u].text = text[u]
                                /\ push'[u] \in {push[u], NoDoc} /\ pull'[u] \in {pull[u], NoDoc},
                docs'[d] # NoDoc, OrderInv'
         PROVE  SessionInv'
    <2>1. SessionTypes'
      BY <1>1, <1>4, <1>5, <1>12 DEF SessionInv, SessionTypes
    <2>2. FreshInv'
      <3>1. \A u \in Uris : IsOf(docs, u)' /\ IsOf(push, u)' /\ IsOf(pull, u)'
        BY <1>1, <1>2, <1>12 DEF SessionInv, FreshInv, IsOf
      <3>2. \A r \in late' : r.text = text'[r.doc]
        BY <1>1, <1>2, <1>6, <1>12 DEF SessionInv, FreshInv
      <3> QED BY <1>1, <1>2, <3>1, <3>2 DEF FreshInv
    <2>3. AskedInv'
      BY <1>4, <1>12 DEF AskedInv, ReadyIsCurrent
    <2> QED BY <1>12, <2>1, <2>2, <2>3 DEF SessionInv
  <1>13. CASE /\ docs[d] = NoDoc /\ Len(order) >= MaxOpen
              /\ docs' = [[docs EXCEPT ![d] = new] EXCEPT ![oldest] = NoDoc]
              /\ push' = [push EXCEPT ![oldest] = NoReport]
              /\ pull' = [pull EXCEPT ![oldest] = NoReport]
              /\ order' = Append(Tail(order), d) /\ late' = late \cup {sent}
    <2>1. order # <<>> /\ 1 \in 1 .. Len(order)
      BY <1>10, <1>13
    <2>2. PICK t \in Seq(Uris) :
              /\ t = Tail(order) /\ Len(t) = Len(order) - 1
              /\ \A i \in 1 .. Len(t) : t[i] = order[i + 1]
      BY <1>10, <2>1, HeadTailProperties
    <2>3. PICK o \in Uris : o = oldest /\ o = order[1]
      BY <1>10, <2>1
    <2>4. o # d
      BY <1>3, <1>11, <1>13, <2>1, <2>3
    <2>5. /\ order' \in Seq(Uris) /\ Len(order') = Len(order)
          /\ \A i \in 1 .. Len(order) - 1 : order'[i] = order[i + 1]
          /\ order'[Len(order)] = d
      <3>1. order' = Append(t, d) /\ Len(t) \in Nat
        BY <1>13, <2>2
      <3> QED BY <1>3, <1>10, <2>2, <3>1, AppendProperties
    <2>6. /\ docs' \in [Uris -> Kept] /\ docs'[d] = new /\ docs'[o] = NoDoc
          /\ \A u \in Uris : u # d /\ u # o => docs'[u] = docs[u]
      BY <1>3, <1>5, <1>10, <1>13, <2>3, <2>4
    <2>7. /\ push' \in [Uris -> Kept] /\ pull' \in [Uris -> Kept]
          /\ \A u \in Uris : push'[u] \in {push[u], NoDoc} /\ pull'[u] \in {pull[u], NoDoc}
      BY <1>10, <1>13
    <2>8. OrderInv'
      <3>1. Len(order') <= MaxOpen
        BY <1>11, <2>5
      <3>2. \A i \in 1 .. Len(order) : order[i] # d
        BY <1>3, <1>11, <1>13
      <3>3. \A i, j \in 1 .. Len(order') : order'[i] = order'[j] => i = j
        <4> SUFFICES ASSUME NEW i \in 1 .. Len(order), NEW j \in 1 .. Len(order),
                            order'[i] = order'[j]
                     PROVE  i = j
          BY <2>5
        <4>1. CASE i = Len(order) /\ j # Len(order)
          <5>1. j \in 1 .. Len(order) - 1 /\ j + 1 \in 1 .. Len(order)
            BY <1>10, <4>1
          <5> QED BY <2>5, <3>2, <4>1, <5>1
        <4>2. CASE i # Len(order) /\ j = Len(order)
          <5>1. i \in 1 .. Len(order) - 1 /\ i + 1 \in 1 .. Len(order)
            BY <1>10, <4>2
          <5> QED BY <2>5, <3>2, <4>2, <5>1
        <4>3. CASE i # Len(order) /\ j # Len(order)
          <5>1. i + 1 \in 1 .. Len(order) /\ j + 1 \in 1 .. Len(order)
            BY <1>10, <4>3
          <5>2. order[i + 1] = order[j + 1]
            BY <1>10, <2>5, <4>3
          <5>3. i + 1 = j + 1
            BY <1>11, <5>1, <5>2
          <5> QED BY <5>3
        <4> QED BY <4>1, <4>2, <4>3
      <3>4. ASSUME NEW u \in Uris
            PROVE  docs'[u] # NoDoc <=> \E i \in 1 .. Len(order') : order'[i] = u
        <4>1. CASE u = d
          BY <1>5, <2>1, <2>5, <2>6, <4>1
        <4>2. CASE u = o
          <5>1. \A i \in 1 .. Len(order) - 1 : order'[i] # o
            <6> SUFFICES ASSUME NEW i \in 1 .. Len(order) - 1, order[i + 1] = order[1] PROVE FALSE
              BY <2>3, <2>5
            <6>1. i + 1 \in 1 .. Len(order) /\ i + 1 # 1
              BY <1>10
            <6> QED BY <1>11, <2>1, <6>1
          <5>2. \A i \in 1 .. Len(order) : order'[i] # o
            BY <1>10, <2>4, <2>5, <5>1
          <5> QED BY <2>5, <2>6, <4>2, <5>2
        <4>3. CASE u # d /\ u # o
          <5>1. docs'[u] # NoDoc <=> \E i \in 1 .. Len(order) : order[i] = u
            BY <1>11, <2>6, <4>3
          <5>2. ASSUME NEW i \in 1 .. Len(order), order[i] = u
                PROVE  \E j \in 1 .. Len(order') : order'[j] = u
            <6>1. i # 1
              BY <2>3, <4>3, <5>2
            <6>2. i - 1 \in 1 .. Len(order) - 1 /\ i - 1 \in 1 .. Len(order)
              BY <1>10, <6>1
            <6>3. order'[i - 1] = u
              BY <2>5, <5>2, <6>2
            <6> QED BY <2>5, <6>2, <6>3
          <5>3. ASSUME NEW i \in 1 .. Len(order'), order'[i] = u
                PROVE  \E j \in 1 .. Len(order) : order[j] = u
            <6>1. i \in 1 .. Len(order) - 1 /\ i + 1 \in 1 .. Len(order)
              BY <1>10, <2>5, <4>3, <5>3
            <6> QED BY <2>5, <5>3, <6>1
          <5> QED BY <5>1, <5>2, <5>3
        <4> QED BY <4>1, <4>2, <4>3
      <3> QED BY <3>1, <3>3, <3>4 DEF OrderInv
    <2>9. \A u \in Uris : docs'[u] \in {docs[u], NoDoc} \/ docs'[u].text = text[u]
      BY <1>5, <2>6
    <2>10. late' \in SUBSET (late \cup {sent}) /\ docs'[d] # NoDoc
      BY <1>5, <1>13, <2>6
    <2> QED BY <1>12, <2>5, <2>6, <2>7, <2>8, <2>9, <2>10
  <1>14. CASE /\ docs[d] = NoDoc /\ ~(Len(order) >= MaxOpen)
              /\ docs' = [docs EXCEPT ![d] = new] /\ order' = Append(order, d)
              /\ late' = late \cup {sent} /\ UNCHANGED <<push, pull>>
    <2>1. /\ order' \in Seq(Uris) /\ Len(order') = Len(order) + 1
          /\ \A i \in 1 .. Len(order) : order'[i] = order[i]
          /\ order'[Len(order) + 1] = d
      BY <1>3, <1>10, <1>14, AppendProperties
    <2>2. /\ docs' \in [Uris -> Kept] /\ docs'[d] = new
          /\ \A u \in Uris : u # d => docs'[u] = docs[u]
      BY <1>3, <1>5, <1>10, <1>14
    <2>3. OrderInv'
      <3>1. \A i \in 1 .. Len(order) : order[i] # d
        BY <1>3, <1>11, <1>14
      <3>2. Len(order') <= MaxOpen
        BY <1>10, <1>14, <2>1
      <3>3. \A i \in 1 .. Len(order') : i \in 1 .. Len(order) \/ i = Len(order) + 1
        BY <1>10, <2>1
      <3>4. \A i, j \in 1 .. Len(order') : order'[i] = order'[j] => i = j
        BY <1>11, <2>1, <3>1, <3>3
      <3>5. \A u \in Uris : docs'[u] # NoDoc <=> \E i \in 1 .. Len(order') : order'[i] = u
        <4>1. 1 .. Len(order) \subseteq 1 .. Len(order') /\ Len(order) + 1 \in 1 .. Len(order')
          BY <1>10, <2>1
        <4> QED BY <1>5, <1>11, <2>1, <2>2, <3>3, <4>1
      <3> QED BY <3>2, <3>4, <3>5 DEF OrderInv
    <2>4. \A u \in Uris : docs'[u] \in {docs[u], NoDoc} \/ docs'[u].text = text[u]
      BY <1>5, <2>2
    <2> QED BY <1>5, <1>10, <1>12, <1>14, <2>1, <2>2, <2>3, <2>4
  <1>15. CASE docs[d] # NoDoc /\ UNCHANGED <<docs, order, push, pull, late>>
    <2>1. OrderInv'
      BY <1>15 DEF SessionInv, OrderInv
    <2> QED BY <1>10, <1>12, <1>15, <2>1
  <1> QED BY <1>9, <1>13, <1>14, <1>15

\* The inductive invariant of the language server.
LEMMA SessionHolds == SessionSpec => []SessionInv
  <1>1. SessionInit => SessionInv
    <2> SUFFICES ASSUME SessionInit PROVE SessionInv
      OBVIOUS
    <2>1. Emptied \in [Uris -> Kept] /\ \A d \in Uris : Emptied[d] = NoDoc
      BY DEF Emptied, Kept, NoDoc, NoText
    <2>2. SessionTypes
      BY <2>1, EmptySeq DEF SessionInit, SessionTypes
    <2>3. FreshInv /\ AskedInv
      BY <2>1 DEF SessionInit, FreshInv, IsOf, AskedInv, ReadyIsCurrent, NoLookup
    <2>4. OrderInv
      BY <2>1, SessionAssumption DEF SessionInit, OrderInv
    <2> QED BY <2>2, <2>3, <2>4 DEF SessionInv
  <1>2. SessionInv /\ [SessionNext]_sessionVars => SessionInv'
    <2> SUFFICES ASSUME SessionInv, [SessionNext]_sessionVars PROVE SessionInv'
      OBVIOUS
    <2>1. CASE \E d \in Uris : ChangeText(d) \/ BeginLookup(d)
      BY <2>1, ChangeTextKeeps, BeginLookupKeeps
    <2>2. CASE \E report \in late : \E versioned \in BOOLEAN : Publish(report, versioned)
      BY <2>2, PublishKeeps
    <2>3. CASE \/ ServerDies \/ WaitAgain \/ AnalysisQuiet \/ AnalysisSlow
               \/ PushReport \/ NothingPushed \/ EndLookup
               \/ \E t \in Tokens : CreateProgress(t) \/ BeginProgress(t) \/ EndProgress(t)
      BY <2>3, QuietSteps
    <2>4. CASE EnsureDocument \/ PullReport \/ LookupFails
      BY <2>4, EnsureKeeps, PullKeeps, LookupFailsKeeps
    <2>5. CASE UNCHANGED sessionVars
      BY <2>5 DEF sessionVars, overlay, progress, SessionInv, SessionTypes, FreshInv, IsOf,
                  OrderInv, AskedInv, ReadyIsCurrent
    <2> QED BY <2>1, <2>2, <2>3, <2>4, <2>5 DEF SessionNext
  <1> QED BY <1>1, <1>2, PTL DEF SessionSpec

\* Diagnostics that are reported as ready are of the text that the file has, and the
\* documents open at the server stay within their limit with the one that is asked
\* about among them (lsp_client.py), for every number of documents, texts and progress
\* messages and every limit.
THEOREM DiagnosticsAreCurrent == SessionSpec => []DiagnosticsCurrent
  <1>1. SessionInv => DiagnosticsCurrent
    <2> SUFFICES ASSUME SessionInv PROVE DiagnosticsCurrent
      OBVIOUS
    <2>1. ReadyIsCurrent
      BY DEF SessionInv, AskedInv
    <2>2. OverlayBounded
      <3> SUFFICES ASSUME lookup.pc \in {"quiet", "report", "done"}
                   PROVE  /\ Len(order) <= MaxOpen
                          /\ ToSet(order) = {d \in Uris : docs[d] # NoDoc}
                          /\ lookup.doc \in ToSet(order)
        BY DEF OverlayBounded
      <3>1. lookup.doc \in Uris /\ docs[lookup.doc] # NoDoc
        BY Looking DEF Lookups, SessionInv, AskedInv
      <3>2. order \in Seq(Uris) /\ DOMAIN order = 1 .. Len(order)
        BY DEF SessionInv, SessionTypes
      <3>3. ToSet(order) = {d \in Uris : docs[d] # NoDoc}
        BY <3>2 DEF SessionInv, OrderInv, ToSet
      <3> QED BY <3>1, <3>3 DEF SessionInv, OrderInv
    <2> QED BY <2>1, <2>2 DEF DiagnosticsCurrent
  <1> QED BY <1>1, SessionHolds, PTL

-----------------------------------------------------------------------------
(* The output of shell jobs.                                               *)

\* A set of numbers that is not empty has a least one.
LEMMA LeastNumber ==
    ASSUME NEW S, S \subseteq Nat, S # {}
    PROVE  \E n \in S : \A m \in S : n <= m
  <1> DEFINE R == {ss \in Nat \X Nat : ss[1] < ss[2]}
  <1>0. IsWellFoundedOn(R, Nat)
    BY NatLessThanWellFounded, Zenon DEF OpToRel
  <1>1. \A x, y \in Nat : <<y, x>> \in R <=> y < x
    OBVIOUS
  <1> HIDE DEF R
  <1>2. PICK x \in S : \A y \in S : ~ (<<y, x>> \in R)
    BY <1>0, WFMin
  <1>3. \A y \in S : ~ (y < x) /\ x \in Nat /\ y \in Nat
    BY <1>1, <1>2
  <1>4. \A y \in S : x <= y
    BY <1>3
  <1> QED BY <1>2, <1>4

\* Max, for a set of numbers with a bound.
LEMMA MaxOfBounded ==
    ASSUME NEW K \in Nat, NEW S \in SUBSET (1 .. K), S # {}
    PROVE  Max(S) \in S
  <1> DEFINE U == {u \in Nat : \A x \in S : x <= u}
  <1>1. K \in U /\ U \subseteq Nat
    OBVIOUS
  <1>2. PICK u \in U : \A v \in U : u <= v
    <2> HIDE DEF U
    <2> QED BY <1>1, LeastNumber
  <1>3. u \in S
    <2>1. SUFFICES ASSUME u \notin S PROVE FALSE
      OBVIOUS
    <2>0. PICK x \in S : TRUE
      OBVIOUS
    <2>2. x \in Nat \ {0} /\ x <= u /\ u \in Nat
      BY <2>0
    <2>3. u - 1 \in Nat
      BY <2>2
    <2>4. \A y \in S : y <= u - 1
      <3> SUFFICES ASSUME NEW y \in S PROVE y <= u - 1
        OBVIOUS
      <3>1. y \in Nat /\ y <= u /\ y # u /\ u \in Nat
        BY <2>1
      <3> QED BY <3>1
    <2>5. u - 1 \in U
      BY <2>3, <2>4
    <2> QED BY <1>2, <2>2, <2>5
  <1>4. \A y \in S : u >= y
    OBVIOUS
  <1> QED BY <1>3, <1>4 DEF Max

\* A page begins behind the cursor, or at the end, and stays within the chunks.
LEMMA PageWithin ==
    ASSUME NEW chunks \in Seq(Nat), NEW cursor \in Nat, NEW size
    PROVE  \E first \in Nat, m \in Nat :
               /\ first = IF cursor < Len(chunks) THEN cursor ELSE Len(chunks)
               /\ first + m <= Len(chunks)
               /\ Page(chunks, cursor, size) \in Seq(Nat) /\ Len(Page(chunks, cursor, size)) = m
               /\ \A i \in 1 .. m : Page(chunks, cursor, size)[i] = first + i
  <1> DEFINE a == IF cursor < Len(chunks) THEN cursor ELSE Len(chunks)
             fits == {n \in 1 .. Len(chunks) - a :
                          n = 1 \/ Total(SubSeq(chunks, a + 1, a + n)) <= size}
             long == IF fits = {} THEN 0 ELSE Max(fits)
  <1>1. Page(chunks, cursor, size) = [i \in 1 .. long |-> a + i]
    BY DEF Page
  <1>2. a \in Nat /\ Len(chunks) - a \in Nat
    OBVIOUS
  <1>3. fits \in SUBSET (1 .. Len(chunks) - a)
    OBVIOUS
  <1> HIDE DEF a, fits
  <1>4. long \in Nat /\ a + long <= Len(chunks)
    <2>1. CASE fits = {}
      BY <1>2, <2>1
    <2>2. CASE fits # {}
      <3>1. long \in fits
        BY <1>2, <1>3, <2>2, MaxOfBounded
      <3>2. long \in 1 .. Len(chunks) - a
        BY <1>3, <3>1
      <3> QED BY <1>2, <3>2
    <2> QED BY <2>1, <2>2
  <1>5. a = IF cursor < Len(chunks) THEN cursor ELSE Len(chunks)
    BY DEF a
  <1> HIDE DEF long
  <1>6. /\ Page(chunks, cursor, size) \in Seq(Nat) /\ Len(Page(chunks, cursor, size)) = long
        /\ \A i \in 1 .. long : Page(chunks, cursor, size)[i] = a + i
    <2>1. \A i \in 1 .. long : a + i \in Nat
      BY <1>2, <1>4
    <2> QED BY <1>1, <1>4, <2>1
  <1> QED BY <1>2, <1>4, <1>5, <1>6

JobStates == {"running"} \cup Final
Jobs ==
    [chunks : Seq(Nat), bytes : Nat, cut : BOOLEAN, state : JobStates, reading : BOOLEAN,
     task : BOOLEAN, kept : BOOLEAN, stored : Seq(Nat), produced : Nat]
Tails ==
    [cursor : Nat, got : Seq(Nat), told : {"more", "live", "done"}, state : JobStates,
     by : {"row", "job"}]

KeptInv ==
    /\ out.bytes <= OutputLimit /\ (~out.cut => out.bytes = out.produced)
    /\ out.state = "completed" => ~out.reading
    /\ Len(out.stored) <= Len(out.chunks)

TailInv ==
    /\ tail.cursor = Len(tail.got) /\ tail.cursor <= Len(out.chunks)
    /\ \A i \in 1 .. Len(tail.got) : tail.got[i] = i
    /\ tail.state = "completed" => out.state = "completed"
    /\ CompletedWhole

OutputInv == out \in Jobs /\ tail \in Tails /\ KeptInv /\ TailInv

\* _append keeps what fits, and says when it does not.
LEMMA Appends ==
    ASSUME NEW o \in Jobs, NEW size \in Nat, o.bytes <= OutputLimit,
           ~o.cut => o.bytes = o.produced
    PROVE  \E c \in Seq(Nat), b \in Nat, k \in BOOLEAN :
               /\ AppendOutput(o, size) = [o EXCEPT !.chunks = c, !.bytes = b, !.cut = k]
               /\ b <= OutputLimit /\ (~k => b = o.produced + size)
               /\ Len(o.chunks) <= Len(c)
  <1> DEFINE room == OutputLimit - o.bytes
             keep == IF size < room THEN size ELSE room
  <1>1. /\ o.chunks \in Seq(Nat) /\ o.bytes \in Nat /\ o.cut \in BOOLEAN /\ o.produced \in Nat
        /\ OutputLimit \in Nat
    BY OutputAssumption DEF Jobs
  <1>2. room \in Nat /\ keep \in Nat /\ keep <= room /\ keep <= size
    BY <1>1
  <1>3. CASE room = 0
    <2>1. AppendOutput(o, size) = [o EXCEPT !.chunks = o.chunks, !.bytes = o.bytes, !.cut = TRUE]
      BY <1>3 DEF AppendOutput, Jobs
    <2>2. o.bytes <= OutputLimit /\ Len(o.chunks) <= Len(o.chunks)
      BY <1>1
    <2>3. o.chunks \in Seq(Nat) /\ o.bytes \in Nat /\ TRUE \in BOOLEAN
      BY <1>1
    <2> USE <2>3
    <2> WITNESS o.chunks \in Seq(Nat), o.bytes \in Nat, TRUE \in BOOLEAN
    <2> QED BY <2>1, <2>2
  <1>4. CASE room # 0
    <2>1. AppendOutput(o, size) = [o EXCEPT !.chunks = Append(o.chunks, keep),
                                       !.bytes = o.bytes + keep, !.cut = o.cut \/ keep < size]
      BY <1>4 DEF AppendOutput, Jobs
    <2>2. Append(o.chunks, keep) \in Seq(Nat) /\ Len(o.chunks) <= Len(Append(o.chunks, keep))
      BY <1>1, <1>2, AppendProperties
    <2>3. o.bytes + keep \in Nat /\ o.bytes + keep <= OutputLimit
      BY <1>1, <1>2
    <2>4. ~(o.cut \/ keep < size) => o.bytes + keep = o.produced + size
      BY <1>1, <1>2
    <2>5. (o.cut \/ keep < size) \in BOOLEAN
      OBVIOUS
    <2> HIDE DEF keep
    <2> QED BY <2>1, <2>2, <2>3, <2>4, <2>5
  <1> QED BY <1>3, <1>4

\* A step of the job that keeps its chunks or adds some, unless it is completed.
LEMMA JobKeeps ==
    ASSUME OutputInv, UNCHANGED tail, out' \in Jobs, KeptInv',
           Len(out.chunks) <= Len(out'.chunks),
           out.state = "completed" => out'.state = "completed" /\ out'.chunks = out.chunks
    PROVE  OutputInv'
  <1>1. /\ Len(out.chunks) \in Nat /\ Len(out'.chunks) \in Nat /\ tail.cursor \in Nat
        /\ tail.cursor <= Len(out.chunks)
    BY DEF OutputInv, TailInv, Jobs, Tails
  <1>2. TailInv'
    BY <1>1 DEF OutputInv, TailInv, CompletedWhole
  <1> QED BY <1>2 DEF OutputInv

\* The first chunks of the job, as its terminal row keeps them.
LEMMA RowWithin ==
    ASSUME OutputInv
    PROVE  LET row == SubSeq(out.chunks, 1, Len(Page(out.chunks, 0, RowPage)))
           IN  row \in Seq(Nat) /\ Len(row) <= Len(out.chunks)
  <1>1. out.chunks \in Seq(Nat) /\ Len(out.chunks) \in Nat
    BY DEF OutputInv, Jobs
  <1>2. PICK first \in Nat, m \in Nat :
            /\ first + m <= Len(out.chunks)
            /\ Len(Page(out.chunks, 0, RowPage)) = m
    BY <1>1, PageWithin
  <1>3. m <= Len(out.chunks) /\ \A i \in 1 .. m : out.chunks[i] \in Nat
    BY <1>1, <1>2
  <1>4. /\ SubSeq(out.chunks, 1, m) \in Seq(Nat)
        /\ Len(SubSeq(out.chunks, 1, m)) = IF 1 <= m THEN m - 1 + 1 ELSE 0
    BY <1>3, SubSeqProperties
  <1> QED BY <1>1, <1>2, <1>3, <1>4

LEMMA JobSteps ==
    ASSUME OutputInv,
           \/ \E size \in ChunkSizes : CaptureOutput(size)
           \/ PipesEnd \/ Completes \/ TimesOut \/ CancelJob \/ FinishJob \/ DropJob
    PROVE  OutputInv'
  <1>1. out \in Jobs /\ KeptInv
    BY DEF OutputInv
  <1>2. /\ out.chunks \in Seq(Nat) /\ Len(out.chunks) \in Nat /\ out.produced \in Nat
        /\ out.bytes \in Nat /\ out.stored \in Seq(Nat) /\ Len(out.stored) \in Nat
    BY <1>1 DEF Jobs
  <1>3. ASSUME NEW size \in Nat, NEW st \in JobStates, UNCHANGED tail,
               out.state # "completed", st # "completed",
               out' = [AppendOutput(out, size) EXCEPT !.state = st, !.produced = @ + size]
        PROVE  OutputInv'
    <2>1. PICK c \in Seq(Nat), b \in Nat, k \in BOOLEAN :
              /\ AppendOutput(out, size) = [out EXCEPT !.chunks = c, !.bytes = b, !.cut = k]
              /\ b <= OutputLimit /\ (~k => b = out.produced + size)
              /\ Len(out.chunks) <= Len(c)
      BY <1>1, Appends DEF KeptInv
    <2>2. out' = [out EXCEPT !.chunks = c, !.bytes = b, !.cut = k, !.state = st,
                             !.produced = out.produced + size]
      BY <1>1, <1>3, <2>1 DEF Jobs
    <2>3. out.produced + size \in Nat
      BY <1>2
    <2>4. /\ out' \in Jobs /\ out'.chunks = c /\ out'.bytes = b /\ out'.stored = out.stored
          /\ out'.state = st /\ out'.produced = out.produced + size
      BY <1>1, <2>2, <2>3 DEF Jobs
    <2>5. out'.cut = k
      BY <1>1, <2>2 DEF Jobs
    <2>6. KeptInv'
      BY <1>1, <1>2, <1>3, <2>1, <2>4, <2>5 DEF KeptInv
    <2> QED BY <1>3, <2>1, <2>4, <2>6, JobKeeps
  <1>4. CASE \E size \in ChunkSizes : CaptureOutput(size)
    <2>1. PICK size \in Nat : CaptureOutput(size)
      BY <1>4, OutputAssumption
    <2>2. /\ out.reading /\ UNCHANGED tail
          /\ out' = [AppendOutput(out, size) EXCEPT !.produced = @ + size]
      BY <2>1 DEF CaptureOutput
    <2>3. out.state # "completed" /\ out.state \in JobStates
      BY <1>1, <2>2 DEF KeptInv, Jobs
    <2>4. PICK c \in Seq(Nat), b \in Nat, k \in BOOLEAN :
              /\ AppendOutput(out, size) = [out EXCEPT !.chunks = c, !.bytes = b, !.cut = k]
              /\ b <= OutputLimit /\ (~k => b = out.produced + size)
              /\ Len(out.chunks) <= Len(c)
      BY <1>1, Appends DEF KeptInv
    <2>5. out' = [AppendOutput(out, size) EXCEPT !.state = out.state, !.produced = @ + size]
      BY <1>1, <2>2, <2>4 DEF Jobs
    <2> QED BY <1>3, <2>2, <2>3, <2>5
  <1>5. CASE TimesOut
    <2>1. /\ out.state = "running" /\ UNCHANGED tail
          /\ out' = [AppendOutput(out, 1) EXCEPT !.state = "failed", !.produced = @ + 1]
      BY <1>5 DEF TimesOut
    <2>2. "failed" \in JobStates
      BY DEF JobStates, Final
    <2> QED BY <1>3, <2>1, <2>2
  <1>6. CASE PipesEnd \/ DropJob
    <2>1. /\ UNCHANGED tail
          /\ \/ out' = [out EXCEPT !.reading = FALSE]
             \/ out' = [out EXCEPT !.kept = FALSE]
      BY <1>6 DEF PipesEnd, DropJob
    <2>2. /\ out' \in Jobs /\ out'.chunks = out.chunks /\ out'.bytes = out.bytes
          /\ out'.stored = out.stored /\ out'.state = out.state /\ out'.produced = out.produced
      BY <1>1, <2>1 DEF Jobs
    <2>3. out'.cut = out.cut /\ (out'.reading => out.reading)
      BY <1>1, <2>1 DEF Jobs
    <2>4. KeptInv'
      BY <1>1, <2>2, <2>3 DEF KeptInv
    <2> QED BY <1>2, <2>1, <2>2, <2>4, JobKeeps
  <1>7. CASE Completes
    <2>1. ~out.reading /\ UNCHANGED tail /\ out' = [out EXCEPT !.state = "completed"]
      BY <1>7 DEF Completes, MayComplete
    <2>2. /\ out' \in Jobs /\ out'.chunks = out.chunks /\ out'.bytes = out.bytes
          /\ out'.stored = out.stored /\ out'.state = "completed" /\ out'.produced = out.produced
      BY <1>1, <2>1 DEF Jobs, JobStates, Final
    <2>3. out'.cut = out.cut /\ out'.reading = out.reading
      BY <1>1, <2>1 DEF Jobs
    <2>4. KeptInv'
      BY <1>1, <2>1, <2>2, <2>3 DEF KeptInv
    <2> QED BY <1>2, <2>1, <2>2, <2>4, JobKeeps
  <1>8. CASE CancelJob \/ FinishJob
    <2>1. PICK row : row = SubSeq(out.chunks, 1, Len(Page(out.chunks, 0, RowPage)))
      OBVIOUS
    <2>2. row \in Seq(Nat) /\ Len(row) <= Len(out.chunks)
      BY <2>1, RowWithin
    <2>3. /\ UNCHANGED tail
          /\ \/ out.state = "running" /\ out' = [out EXCEPT !.state = "cancelled", !.stored = row]
             \/ out' = [out EXCEPT !.task = FALSE, !.stored = row]
      BY <1>8, <2>1 DEF CancelJob, FinishJob
    <2>4. /\ out' \in Jobs /\ out'.chunks = out.chunks /\ out'.bytes = out.bytes
          /\ out'.stored = row /\ out'.produced = out.produced
      BY <1>1, <2>2, <2>3 DEF Jobs, JobStates, Final
    <2>5. out'.state = out.state \/ (out.state = "running" /\ out'.state = "cancelled")
      BY <1>1, <2>3 DEF Jobs
    <2>6. out'.cut = out.cut /\ out'.reading = out.reading
      BY <1>1, <2>3 DEF Jobs
    <2>7. KeptInv'
      BY <1>1, <2>2, <2>4, <2>5, <2>6 DEF KeptInv
    <2> QED BY <1>2, <2>3, <2>4, <2>5, <2>7, JobKeeps
  <1> QED BY <1>4, <1>5, <1>6, <1>7, <1>8

\* The page that the client gets goes on where it stopped.
LEMMA PollKeeps ==
    ASSUME OutputInv, NEW size \in PageSizes, Poll(size)
    PROVE  OutputInv'
  <1>1. out \in Jobs /\ tail \in Tails /\ KeptInv /\ TailInv
    BY DEF OutputInv
  <1>2. PICK chunks : chunks = IF out.kept THEN out.chunks ELSE out.stored
    OBVIOUS
  <1>3. /\ chunks \in Seq(Nat) /\ Len(chunks) \in Nat /\ Len(out.chunks) \in Nat
        /\ Len(chunks) <= Len(out.chunks)
    BY <1>1, <1>2 DEF Jobs, KeptInv
  <1>4. PICK cursor \in Nat, got \in Seq(Nat) :
            /\ cursor = tail.cursor /\ got = tail.got /\ cursor = Len(got)
            /\ cursor <= Len(out.chunks) /\ \A i \in 1 .. Len(got) : got[i] = i
    BY <1>1 DEF TailInv, Tails
  <1>5. PICK first \in Nat, m \in Nat :
            /\ first = IF cursor < Len(chunks) THEN cursor ELSE Len(chunks)
            /\ first + m <= Len(chunks)
            /\ Page(chunks, cursor, size) \in Seq(Nat) /\ Len(Page(chunks, cursor, size)) = m
            /\ \A i \in 1 .. m : Page(chunks, cursor, size)[i] = first + i
    BY <1>3, PageWithin
  <1>6. PICK page : page = Page(chunks, cursor, size)
    OBVIOUS
  <1>7. page \in Seq(Nat) /\ Len(page) = m /\ \A i \in 1 .. m : page[i] = first + i
    BY <1>5, <1>6
  <1>8. PICK next : next = NextSequence(chunks, page)
    OBVIOUS
  <1>9. next = cursor + m /\ next <= Len(out.chunks) /\ (m # 0 => cursor < Len(chunks))
    <2>1. CASE m = 0
      <3>1. page = <<>>
        BY <1>7, <2>1
      <3>2. next = cursor
        BY <1>4, <1>8, <3>1 DEF NextSequence
      <3> QED BY <1>4, <2>1, <3>2
    <2>2. CASE m # 0
      <3>1. page # <<>> /\ Last(page) = first + m
        BY <1>7, <2>2 DEF Last
      <3>2. cursor < Len(chunks) /\ first = cursor
        BY <1>3, <1>5, <2>2
      <3> QED BY <1>3, <1>5, <1>8, <2>2, <3>1, <3>2 DEF NextSequence
    <2> QED BY <2>1, <2>2
  <1>10. /\ tail' = [cursor |-> next, got |-> got \o page, state |-> out.state,
                     told |-> IF next < Len(chunks) THEN "more"
                              ELSE IF out.state \in Final THEN "done" ELSE "live",
                     by |-> IF out.kept THEN "job" ELSE "row"]
         /\ out' = out
    BY <1>2, <1>4, <1>6, <1>8 DEF Poll
  <1>11. /\ got \o page \in Seq(Nat) /\ Len(got \o page) = cursor + m
         /\ \A i \in 1 .. cursor + m : (got \o page)[i] = i
    <2>1. /\ got \o page \in Seq(Nat) /\ Len(got \o page) = Len(got) + Len(page)
          /\ \A i \in 1 .. Len(got) + Len(page) :
                 (got \o page)[i] = IF i <= Len(got) THEN got[i] ELSE page[i - Len(got)]
      BY <1>7, ConcatProperties
    <2>2. ASSUME NEW i \in 1 .. cursor + m PROVE (got \o page)[i] = i
      <3>1. CASE i <= cursor
        BY <1>4, <1>7, <2>1, <3>1
      <3>2. CASE ~(i <= cursor)
        <4>1. i - cursor \in 1 .. m /\ m # 0
          BY <3>2
        <4>2. first = cursor
          BY <1>3, <1>5, <1>9, <4>1
        <4>3. (got \o page)[i] = page[i - cursor]
          BY <1>4, <1>7, <2>1, <3>2
        <4> QED BY <1>7, <4>1, <4>2, <4>3
      <3> QED BY <3>1, <3>2
    <2> QED BY <1>4, <1>7, <2>1, <2>2
  <1>12. /\ tail' \in Tails /\ tail'.cursor = next /\ tail'.got = got \o page
         /\ tail'.state = out.state
    BY <1>1, <1>9, <1>10, <1>11 DEF Tails, Jobs
  <1>13. tail'.told = "done" /\ tail'.by = "job" => out.kept /\ ~(next < Len(chunks))
    BY <1>10
  <1>14. CompletedWhole'
    <2> SUFFICES ASSUME tail'.told = "done", tail'.by = "job"
                 PROVE  Len(tail'.got) = Len(out'.chunks)
      BY DEF CompletedWhole
    <2>1. chunks = out.chunks /\ ~(next < Len(chunks))
      BY <1>2, <1>13
    <2> QED BY <1>3, <1>9, <1>10, <1>11, <1>12, <2>1
  <1>15. TailInv'
    BY <1>9, <1>10, <1>11, <1>12, <1>14 DEF TailInv
  <1>16. KeptInv'
    BY <1>1, <1>10 DEF KeptInv
  <1> QED BY <1>1, <1>10, <1>12, <1>15, <1>16 DEF OutputInv

\* The output of a job (shell.py) for every limit, page size and sequence of reads:
\* the client gets the chunks in order, a completed job that is in memory says it has
\* no more only when the client has all, and output is dropped only with a word.  Of
\* a completed job that was evicted the row has the first page, and nothing is claimed.
THEOREM OutputIsSafe == OutputSpec => []OutputSafe
  <1>1. OutputInit => OutputInv
    <2> SUFFICES ASSUME OutputInit PROVE OutputInv
      OBVIOUS
    <2>1. out \in Jobs
      BY EmptySeq DEF OutputInit, Jobs, JobStates
    <2>2. tail \in Tails
      BY EmptySeq DEF OutputInit, Tails, JobStates
    <2>3. KeptInv /\ TailInv
      BY OutputAssumption DEF OutputInit, KeptInv, TailInv, CompletedWhole
    <2> QED BY <2>1, <2>2, <2>3 DEF OutputInv
  <1>2. OutputInv /\ [OutputNext]_outputVars => OutputInv'
    <2> SUFFICES ASSUME OutputInv, [OutputNext]_outputVars PROVE OutputInv'
      OBVIOUS
    <2>1. CASE UNCHANGED outputVars
      BY <2>1 DEF outputVars, OutputInv, KeptInv, TailInv, CompletedWhole
    <2> QED BY <2>1, JobSteps, PollKeeps DEF OutputNext
  <1>3. OutputInv => OutputSafe
    <2> SUFFICES ASSUME OutputInv PROVE OutputSafe
      OBVIOUS
    <2>1. DOMAIN tail.got = 1 .. Len(tail.got)
      BY DEF OutputInv, Tails
    <2> QED BY <2>1 DEF OutputInv, KeptInv, TailInv, OutputSafe, TailInOrder, OutputHonest
  <1> QED BY <1>1, <1>2, <1>3, PTL DEF OutputSpec
=============================================================================
