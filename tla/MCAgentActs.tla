---------------------------- MODULE MCAgentActs -----------------------------
(***************************************************************************)
(* What the agent does in the user's name, side by side: each behaviour is *)
(* of one of the parts, which share no state.                              *)
(*   reads  Approvals: two reads outside the project (1 and 2) that one    *)
(*          permission covers                                              *)
(*   file   Approvals: a file operation in the project (3), which none     *)
(*          covers                                                         *)
(*   page   FrontendPage: input into the page that a client was shown      *)
(***************************************************************************)
EXTENDS Approvals, FrontendPage

VARIABLE part

ReadKey == [o \in Ops |-> IF o \in FileOps THEN "none" ELSE "k"]

\* The operations of the part.  The second read starts when the first waits for the
\* user or is past that.
Arriving ==
    /\ \A o \in Ops : pc'[o] # "new" => part = IF o \in FileOps THEN "file" ELSE "reads"
    /\ pc'[2] # "new" => pc[1] \notin {"new", "started", "policy", "consult", "asking", "registering"}

\* Of the two keys of acts the second is there to push the first out of the journal,
\* which remembers one: it is used only when the first was, and the behaviour ends when
\* the first is sent again.
KeysInOrder ==
    /\ sent[1] < MaxSent
    /\ call'.op = "act" /\ call'.key = 2 => sent[1] = 1

ActsInit == Init /\ PageInit /\ part \in {"reads", "file", "page"}

ActsNext ==
    /\ UNCHANGED part
    /\ \/ part # "page" /\ Next /\ Arriving /\ UNCHANGED pageVars
       \/ part = "page" /\ PageNext /\ KeysInOrder /\ UNCHANGED vars

ActsSpec == ActsInit /\ [][ActsNext]_<<vars, pageVars, part>>
=============================================================================
