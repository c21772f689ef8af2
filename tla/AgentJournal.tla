---------------------------- MODULE AgentJournal ----------------------------
(***************************************************************************)
(* The operations table of the agent's SQLite database                     *)
(* (agent/src/codito_agent/db.py): the receipt of every delivered          *)
(* operation, the state of its execution and its terminal result, kept     *)
(* across restarts of the agent.  Each operator is one transaction as a    *)
(* function from the stored row to the row it writes.                      *)
(***************************************************************************)
EXTENDS RelayOperation

\* TERMINAL_OPERATION_STATES; "cancelled" is declared and never assigned.
JournalTerminal == {"succeeded", "failed", "denied", "outcome_unknown"}
JournalStates == {"absent", "received", "running"} \cup JournalTerminal

JournalRows ==
    [state: JournalStates, result: DevicePayloads \cup {Null},
     acked: BOOLEAN, epoch: Nat]

AbsentEntry ==
    [state |-> "absent", result |-> Null, acked |-> FALSE, epoch |-> 0]

\* record_received inserts the receipt of a new operation ...
InsertsUntilStarted(entry) == entry.state \in {"absent", "received"}
Inserts(entry) == entry.state = "absent"

\* ... and for a known one only raises the epoch.  (A lower epoch would be an
\* operation_conflict; the agent's epoch never decreases.)
RecordReceived(entry, epoch) ==
    IF Inserts(entry)
    THEN [state |-> "received", result |-> Null, acked |-> FALSE, epoch |-> epoch]
    ELSE [entry EXCEPT !.epoch = IF epoch > @ THEN epoch ELSE @]

\* transition_operation raises invalid_state when a terminal entry would
\* change its state; it does not compare results.
MayAlwaysTransition(entry, state) == TRUE
MayTransition(entry, state) ==
    entry.state \in JournalTerminal => entry.state = state

TransitionOperation(entry, state, result) ==
    [entry EXCEPT !.state = state, !.result = result,
                  !.acked = IF state \in JournalTerminal THEN FALSE ELSE @]

\* list_unacknowledged_terminals.
Unacknowledged(entry) ==
    entry.state \in JournalTerminal /\ ~entry.acked /\ entry.result # Null

\* acknowledge_terminal: the update is keyed by the bindings of the operation
\* and does not look at the result.
AcknowledgeSuccess(entry) ==
    IF entry.state = "succeeded" THEN [entry EXCEPT !.acked = TRUE] ELSE entry
AcknowledgeTerminal(entry) ==
    IF entry.state \in JournalTerminal THEN [entry EXCEPT !.acked = TRUE] ELSE entry

\* The journal state under which _dispatch stores a payload.
TerminalState(p) ==
    IF p \in {"ok", "image", "invalid"} THEN "succeeded"
    ELSE IF p = "denied" THEN "denied"
    ELSE IF p \in {"unknown", "uncertain"} THEN "outcome_unknown" ELSE "failed"
=============================================================================
