---------------------------- MODULE MCLocalWork -----------------------------
(***************************************************************************)
(* What an operation does on the user's machine, side by side: each        *)
(* behaviour is of one of the parts, which share no state.                 *)
(*   patch   Patching: two patches of one root; the first updates a file   *)
(*           and moves another one, the second deletes the file that the   *)
(*           first updates                                                 *)
(*   hunks   PatchText: a text and a pair of hunks                         *)
(*   tray    TrayQueue: operations that wait for the tray                  *)
(***************************************************************************)
EXTENDS Patching, TrayQueue

VARIABLES
    part,
    sample     \* a text and two hunks, NoSample before they are chosen

workVars == <<patchVars, vars, part, sample>>

MCAbsent == <<"absent">>
A == <<"a">>
B == <<"b">>
U == <<"u">>
MCStart == [p \in Paths |-> IF p = 3 THEN MCAbsent ELSE A]
MCEdits == {A, B, U}
MCSections ==
    <<  << [action |-> "update", path |-> 1, hunks |-> << << <<"-", "a">>, <<"+", "b">> >> >>],
           [action |-> "move", path |-> 2, to |-> 3,
            hunks |-> << << <<" ", "a">>, <<"+", "b">> >> >>] >>,
        << [action |-> "delete", path |-> 1] >> >>
MCBase == << MCStart, [p \in {1} |-> A] >>

Texts == UNION {[1 .. n -> {"a", "b"}] : n \in 0 .. 4}
SomeHunks == {<<<<s[1], x>>, <<s[2], y>>>> :
                  s \in {<<"-", "+">>, <<" ", "+">>, <<"-", " ">>}, x, y \in {"a", "b"}}
NoSample == <<>>

WorkInit ==
    PatchInit /\ Init /\ sample = NoSample /\ part \in {"patch", "hunks", "tray"}

WorkNext ==
    /\ UNCHANGED part
    /\ \/ part = "patch" /\ PatchNext /\ UNCHANGED <<vars, sample>>
       \/ part = "tray" /\ Next /\ UNCHANGED <<patchVars, sample>>
       \/ /\ part = "hunks" /\ sample = NoSample
          /\ \E t \in Texts, g, h \in SomeHunks : sample' = <<t, g, h>>
          /\ UNCHANGED <<patchVars, vars>>

\* The fairness of each part, in the behaviours of that part.
OfTray(step) == part = "tray" /\ step /\ UNCHANGED <<patchVars, part, sample>>
OfPatch(step) == part = "patch" /\ step /\ UNCHANGED <<vars, part, sample>>
WorkFairness ==
    /\ \A o \in Ops :
           /\ WF_workVars(OfTray(Deadline(o))) /\ WF_workVars(OfTray(Fire(o)))
           /\ WF_workVars(OfTray(Resume(o))) /\ WF_workVars(OfTray(Leave(o)))
           /\ WF_workVars(OfTray(Mark(o))) /\ WF_workVars(OfTray(Check(o)))
    /\ \A k \in Keys : WF_workVars(OfPatch(ApplyNext(k))) /\ WF_workVars(OfPatch(RestoreNext(k)))
    /\ WF_workVars(OfPatch(Recover \/ Launch \/ Serve))

WorkSpec == WorkInit /\ [][WorkNext]_workVars /\ WorkFairness

\* Hunks only replace what they quote: the result keeps what stands before, between
\* and behind two unique places, the second one behind the first, and there is a
\* result whenever there are such places.
StandsAt(t, i, old) ==
    i + Len(old) <= Len(t) /\ \A m \in 1 .. Len(old) : t[i + m] = old[m]
Places(t, from, old) == {i \in from .. Len(t) : StandsAt(t, i, old)}
Splices(t, g, h) ==
    LET text == ApplyHunks(t, <<g, h>>)
        behind(i) == i + Len(Expected(g))
        unique(i, j) == /\ Places(t, 0, Expected(g)) = {i}
                        /\ Places(t, behind(i), Expected(h)) = {j}
        spliced(i, j) == SubSeq(t, 1, i) \o Replacement(g) \o SubSeq(t, behind(i) + 1, j)
                         \o Replacement(h) \o SubSeq(t, j + Len(Expected(h)) + 1, Len(t))
    IN  \/ \E i, j \in 0 .. Len(t) :
               unique(i, j) /\ text # Conflict /\ text.lines = spliced(i, j)
        \/ /\ text = Conflict
           /\ \A i, j \in 0 .. Len(t) : ~unique(i, j)
HunksSplice == sample # NoSample => Splices(sample[1], sample[2], sample[3])
=============================================================================
