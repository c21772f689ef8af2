---------------------------- MODULE MCShellJobs ----------------------------
(***************************************************************************)
(* Instances of ShellJobs with three requests, of which two arrive:        *)
(*   1 and 2   repeat one key of one project, and the agent may die        *)
(*   2 and 3   have keys of their own on one root                          *)
(***************************************************************************)
EXTENDS ShellJobs

VARIABLE arriving

MCSlot == <<"k1", "k1", "k2">>
MCOwner == <<"shell:k1", "shell:k1", "shell:k2">>
OneRoot == [r \in Jobs |-> "root"]

MCInit == Init /\ arriving \in {{1, 2}, {2, 3}}

MCNext ==
    /\ Next
    /\ \A r \in Jobs \ arriving : pc'[r] = "idle"
    /\ arriving = {2, 3} => restarts' = 0
    /\ UNCHANGED arriving

MCSpec == MCInit /\ [][MCNext]_<<vars, arriving>> /\ Fairness
=============================================================================
