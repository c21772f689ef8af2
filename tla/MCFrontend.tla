---------------------------- MODULE MCFrontend ----------------------------
\* Two projects that compete for one session, with a browser or a server that
\* does not close; or two requests of one project with the same key, without.
EXTENDS FrontendSessions

MCProjectOf == <<1, 1, 2>>
MCKeyOf == <<"k", "k", "l">>
MCOwnerOf == <<"o", "o", "o">>
MCDigestOf == <<"d", "d", "d">>
MCFiles ==
    << [config |-> <<"absent", "absent", "absent">>, scripts |-> {"dev"},
        lockfiles |-> {"yarn.lock"}, dependencies |-> {"vite"}],
       [config |-> <<"absent", "valid", "absent">>, scripts |-> {}, lockfiles |-> {},
        dependencies |-> {}] >>

MCInit ==
    \E silent \in {2, 3} :
        /\ up = TRUE /\ epoch = 1 /\ fence = "none" /\ closing = "no"
        /\ req = [r \in Requests |-> IF r = silent THEN Done ELSE [pc |-> "new", epoch |-> 0]]
        /\ start = [p \in Projects |-> NoStart] /\ sess = [p \in Projects |-> NoSession]
        /\ clean = [p \in Projects |-> NoCleanup]
        /\ ctx = [p \in Projects |-> "none"]
        /\ reg = [p \in Projects |-> "none"] /\ proc = [p \in Projects |-> FALSE]
        /\ aborting = [p \in Projects |-> 0] /\ lost = [p \in Projects |-> 0]
        /\ guard = {} /\ events = 0 /\ faults = IF silent = 3 THEN MaxFaults ELSE 0
MCSpec == MCInit /\ [][Next]_vars /\ Fairness
=============================================================================
