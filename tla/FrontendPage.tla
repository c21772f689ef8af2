---------------------------- MODULE FrontendPage ----------------------------
(***************************************************************************)
(* The calls on the page of one frontend session (agent                    *)
(* frontend_sessions.py _snapshot, _inspect, _act, _source and the close   *)
(* of the session; frontend_playwright.py snapshot, inspect, act, the      *)
(* routing and the restoration of a page that left its origin).  A call    *)
(* holds session.lock; the page changes between any two of its awaits.     *)
(*                                                                         *)
(* Navigations and mutations raise counters by events; the scroll offset   *)
(* and the layout fingerprint (the boxes in document coordinates) are only *)
(* known since the last refresh, which reads one after the other, and may  *)
(* come back to a former value.  A document token holds all of them.       *)
(***************************************************************************)
EXTENDS Integers, Sequences, FiniteSets

CONSTANTS
    ActKeys,        \* idempotency keys of act requests
    Kinds,          \* actions of act requests
    ActLimit,       \* 128: acts that are remembered
    MaxChanges,     \* bound: changes of the page
    MaxSent         \* bound: inputs with one key

NoSnapshot == [dom |-> 0]
NoCall == [op |-> "none"]

ASSUME PageAssumption == ActLimit \in Nat \ {0} /\ {MaxChanges, MaxSent} \subseteq Nat

VARIABLES
    page,           \* the page: document, scroll, layout, and whether it left its origin
    scroll,         \* scroll_x and scroll_y of the record
    layout,         \* layout_fingerprint of the record
    restoring,      \* a restore_task is running
    life,           \* the session: "open", "closing" or "closed"
    snap,           \* snapshot_id, document_token and what the capture read
    nodes,          \* registry: the document of each registered element
    call,           \* the call that holds session.lock
    acts,           \* journal of acts
    sent, forgotten \* history: inputs per key, keys that left the journal

pageVars == <<page, scroll, layout, restoring, life, snap, nodes, call, acts, sent, forgotten>>

PageInit ==
    /\ page = [dom |-> 1, scroll |-> 0, layout |-> 0, away |-> FALSE]
    /\ scroll = 0 /\ layout = 0 /\ restoring = FALSE
    /\ life = "open" /\ snap = NoSnapshot /\ nodes = {} /\ call = NoCall
    /\ acts = <<>> /\ sent = [k \in ActKeys |-> 0] /\ forgotten = {}

-----------------------------------------------------------------------------
(* The page.                                                               *)

\* A mutation of the document, or a navigation within the origin.
Mutated ==
    /\ life # "closed" /\ page.dom < MaxChanges
    /\ page' = [page EXCEPT !.dom = @ + 1]
    /\ UNCHANGED <<scroll, layout, restoring, life, snap, nodes, call, acts, sent, forgotten>>

\* The page scrolls or moves its elements: there is no event for it.
Moved ==
    /\ life # "closed"
    /\ page' \in {[page EXCEPT !.scroll = 1 - @], [page EXCEPT !.layout = 1 - @]}
    /\ UNCHANGED <<scroll, layout, restoring, life, snap, nodes, call, acts, sent, forgotten>>

\* _navigated to another origin; _mark_blocked_navigation starts a restore
\* unless one is running.
NavigatedAway ==
    /\ life # "closed" /\ page.dom < MaxChanges /\ ~page.away
    /\ page' = [page EXCEPT !.dom = @ + 1, !.away = TRUE] /\ restoring' = TRUE
    /\ UNCHANGED <<scroll, layout, life, snap, nodes, call, acts, sent, forgotten>>

\* _restore_safe_page loads the last safe address.  When that fails, or the page
\* left again in the meantime, nobody tries again.
RestoreSafePage ==
    /\ restoring /\ restoring' = FALSE
    /\ \/ life # "closed" /\ page' = [page EXCEPT !.dom = @ + 1, !.away = FALSE]
       \/ UNCHANGED page
    /\ UNCHANGED <<scroll, layout, life, snap, nodes, call, acts, sent, forgotten>>

-----------------------------------------------------------------------------
(* Snapshot.                                                               *)

\* document_token, by what the record knows.
Token == [dom |-> page.dom, scroll |-> scroll, layout |-> layout]

\* The points at which a call refreshes the record: "read" counts how far it is.
Refreshing == {"before", "after", "locate", "read", "check", "input"}

RefreshScroll ==
    /\ call # NoCall /\ call.pc \in Refreshing /\ call.read = 0
    /\ scroll' = page.scroll /\ call' = [call EXCEPT !.read = 1]
    /\ UNCHANGED <<page, layout, restoring, life, snap, nodes, acts, sent, forgotten>>

RefreshLayout ==
    /\ call # NoCall /\ call.pc \in Refreshing /\ call.read = 1
    /\ layout' = page.layout /\ call' = [call EXCEPT !.read = 2]
    /\ UNCHANGED <<page, scroll, restoring, life, snap, nodes, acts, sent, forgotten>>

\* _ensure_session, taken with the lock, and _ensure_open.
MayCall == life = "open" /\ call = NoCall /\ ~page.away

BeginSnapshot ==
    /\ MayCall
    /\ call' = [op |-> "snapshot", pc |-> "before", read |-> 0, attempt |-> 1]
    /\ UNCHANGED <<page, scroll, layout, restoring, life, snap, nodes, acts, sent, forgotten>>

\* The token before; then the screenshot, the tree and the accessibility tree
\* are read one after the other.
Capture ==
    /\ call.op = "snapshot"
    /\ \/ /\ call.pc = "before" /\ call.read = 2
          /\ call' = [op |-> "snapshot", pc |-> "shot", read |-> 0, attempt |-> call.attempt,
                      before |-> Token]
       \/ /\ call.pc = "shot"
          /\ call' = [op |-> "snapshot", pc |-> "tree", read |-> 0, attempt |-> call.attempt,
                      before |-> call.before, shot |-> page.dom]
       \/ /\ call.pc = "tree"
          /\ call' = [op |-> "snapshot", pc |-> "ax", read |-> 0, attempt |-> call.attempt,
                      before |-> call.before, shot |-> call.shot,
                      tree |-> [dom |-> page.dom, layout |-> page.layout]]
       \/ /\ call.pc = "ax"
          /\ call' = [op |-> "snapshot", pc |-> "after", read |-> 0, attempt |-> call.attempt,
                      before |-> call.before, shot |-> call.shot, tree |-> call.tree,
                      ax |-> page.dom]
    /\ UNCHANGED <<page, scroll, layout, restoring, life, snap, nodes, acts, sent, forgotten>>

\* The tokens of both refreshes agree, and the tree has the fingerprint of the
\* last one.  The offset by which the tree was scrolled is not compared.
Stable(before, tree, after) == before = after /\ tree.layout = after.layout

\* _ensure_open again, before the capture is returned.
StillOnOrigin == ~page.away

\* After the second refresh: a second attempt, a stale or blocked snapshot, or
\* a new generation of elements, all in one step of the event loop.
EndSnapshot ==
    /\ call.op = "snapshot" /\ call.pc = "after" /\ call.read = 2
    /\ IF ~Stable(call.before, call.tree, Token) /\ call.attempt = 1
       THEN /\ call' = [op |-> "snapshot", pc |-> "before", read |-> 0, attempt |-> 2]
            /\ UNCHANGED <<snap, nodes>>
       ELSE /\ call' = NoCall
            /\ IF Stable(call.before, call.tree, Token) /\ StillOnOrigin
               THEN /\ snap' = [dom |-> page.dom, scroll |-> scroll, layout |-> layout,
                                shot |-> call.shot, tree |-> call.tree, ax |-> call.ax]
                    /\ nodes' = {call.tree.dom}
               ELSE UNCHANGED <<snap, nodes>>
    /\ UNCHANGED <<page, scroll, layout, restoring, life, acts, sent, forgotten>>

\* A capture or a look at an element fails, or is cancelled.
GiveUpCall ==
    /\ call.op \in {"snapshot", "inspect", "source"}
    /\ call' = NoCall
    /\ UNCHANGED <<page, scroll, layout, restoring, life, snap, nodes, acts, sent, forgotten>>

-----------------------------------------------------------------------------
(* Inspect and source.                                                     *)

\* The token of the snapshot is that of the record.
Matches ==
    /\ snap # NoSnapshot
    /\ snap.dom = page.dom /\ snap.scroll = scroll /\ snap.layout = layout
Invalidate == snap' = NoSnapshot /\ nodes' = {}

\* _require_snapshot, by what the record knows, before the call begins.
RequireSnapshot(next) ==
    IF Matches THEN call' = next /\ UNCHANGED <<snap, nodes>>
    ELSE Invalidate /\ UNCHANGED call

\* op is "inspect" for coordinates and for an element, or "source".
BeginLook(op) ==
    /\ life = "open" /\ call = NoCall /\ snap # NoSnapshot
    /\ RequireSnapshot([op |-> op, pc |-> "locate", read |-> 0])
    /\ UNCHANGED <<page, scroll, layout, restoring, life, acts, sent, forgotten>>

\* inspect() refreshes, then finds a node of the page as it is now; the rest of
\* the element is read after it.
Locate ==
    /\ call.op \in {"inspect", "source"} /\ call.pc = "locate" /\ call.read = 2
    /\ call' = IF page.away THEN NoCall
               ELSE [op |-> call.op, pc |-> "read", read |-> 0, node |-> page.dom]
    /\ UNCHANGED <<page, scroll, layout, restoring, life, snap, nodes, acts, sent, forgotten>>

\* _ensure_main_document_element: the node that was found is inside a frame.
FoundInFrame ==
    /\ call.op \in {"inspect", "source"} /\ call.pc = "read"
    /\ call' = NoCall
    /\ UNCHANGED <<page, scroll, layout, restoring, life, snap, nodes, acts, sent, forgotten>>

EndInspectTrusting ==
    /\ call.op = "inspect" /\ call.pc = "read" /\ call.read = 2
    /\ call' = NoCall /\ nodes' = nodes \cup {call.node}
    /\ UNCHANGED <<page, scroll, layout, restoring, life, snap, acts, sent, forgotten>>

\* inspect() refreshes again, and the snapshot is required again, before the
\* node becomes an element of the snapshot.
EndInspect ==
    /\ call.op = "inspect" /\ call.pc = "read" /\ call.read = 2
    /\ call' = NoCall
    /\ IF Matches THEN nodes' = nodes \cup {call.node} /\ UNCHANGED snap
       ELSE Invalidate
    /\ UNCHANGED <<page, scroll, layout, restoring, life, acts, sent, forgotten>>

\* The same for the places in the source that the element names.
EndSource ==
    /\ call.op = "source" /\ call.pc = "read" /\ call.read = 2
    /\ call' = NoCall
    /\ IF Matches THEN UNCHANGED <<snap, nodes>> ELSE Invalidate
    /\ UNCHANGED <<page, scroll, layout, restoring, life, acts, sent, forgotten>>

-----------------------------------------------------------------------------
(* Act.                                                                    *)

\* The inputs of an action: the pointer is moved before it is pressed (_mouse), an
\* element is focused before a key is pressed (_press).
Inputs(kind) == IF kind \in {"click", "press"} THEN 2 ELSE 1
\* _scroll and _select look for their element between the last check and the
\* input; the others compare the token in the step that sends the input.
CheckedLast(kind) == kind \notin {"scroll", "select"}
Remembered(k) == \E i \in 1 .. Len(acts) : acts[i] = k

\* A key that is known is answered from the journal; else the snapshot is
\* required and the element is registered in it.
BeginAct(k, kind) ==
    /\ life = "open" /\ call = NoCall /\ ~Remembered(k) /\ snap # NoSnapshot
    /\ sent[k] < MaxSent
    /\ RequireSnapshot([op |-> "act", pc |-> "check", read |-> 0, key |-> k, kind |-> kind,
                        done |-> 0])
    /\ UNCHANGED <<page, scroll, layout, restoring, life, acts, sent, forgotten>>

\* acts[key] = ..., _bound_acts and _invalidate_snapshot.
Journal(k) ==
    /\ acts' = IF Len(acts) < ActLimit THEN Append(acts, k) ELSE Append(Tail(acts), k)
    /\ forgotten' = IF Len(acts) < ActLimit THEN forgotten ELSE forgotten \cup {acts[1]}
    /\ Invalidate /\ call' = NoCall

\* The checks of the generation around inspect(): refused, or on to the input.
CheckAct ==
    /\ call.op = "act" /\ call.pc = "check" /\ call.read = 2
    /\ call' = IF Matches /\ ~page.away THEN [call EXCEPT !.pc = "input", !.read = 0] ELSE NoCall
    /\ UNCHANGED <<page, scroll, layout, restoring, life, snap, nodes, acts, sent, forgotten>>

\* _ensure_not_file_input: a file input is neither focused nor clicked.
FileInput ==
    /\ call.op = "act" /\ call.pc = "check" /\ call.kind \in {"click", "focus", "press"}
    /\ call' = NoCall
    /\ UNCHANGED <<page, scroll, layout, restoring, life, snap, nodes, acts, sent, forgotten>>

\* _ensure_hit_target: something covers the element, before or after the pointer
\* was moved to it.
Covered ==
    /\ call.op = "act" /\ call.pc = "input" /\ call.kind \in {"click", "hover"}
    /\ call.read = 0 /\ call.done < Inputs(call.kind)
    /\ IF call.done = 0 THEN call' = NoCall /\ UNCHANGED <<snap, nodes, acts, forgotten>>
       ELSE Journal(call.key)
    /\ UNCHANGED <<page, scroll, layout, restoring, life, sent>>

\* The functions of _fill and _select refuse an element before they change it.
FillRefused ==
    /\ call.op = "act" /\ call.pc = "input" /\ call.kind = "fill" /\ call.done = 0
    /\ call' = NoCall
    /\ UNCHANGED <<page, scroll, layout, restoring, life, snap, nodes, acts, sent, forgotten>>
SelectRefused ==
    /\ call.op = "act" /\ call.pc = "find" /\ call.kind = "select"
    /\ call' = NoCall
    /\ UNCHANGED <<page, scroll, layout, restoring, life, snap, nodes, acts, sent, forgotten>>

\* An input is handed to the browser.
Send ==
    /\ call' = [call EXCEPT !.pc = "input", !.read = 0, !.done = @ + 1]
    /\ sent' = IF call.done = 0 THEN [sent EXCEPT ![call.key] = @ + 1] ELSE sent
    /\ UNCHANGED <<snap, nodes, acts, forgotten>>

InputOnceChecked ==
    /\ call.op = "act" /\ call.pc = "input" /\ call.done < Inputs(call.kind)
    /\ call.done = 0 => call.read = 2 /\ Matches
    /\ Send
    /\ UNCHANGED <<page, scroll, layout, restoring, life>>

\* _ensure_current_generation compares the token after the refresh, before each
\* input, and the input is sent in the same step: a stale one is refused before
\* the first input and an unknown outcome after it.
Input ==
    /\ call.op = "act" /\ call.pc = "input" /\ call.read = 2 /\ call.done < Inputs(call.kind)
    /\ IF Matches
       THEN IF CheckedLast(call.kind) THEN Send
            ELSE /\ call' = [call EXCEPT !.pc = "find"]
                 /\ UNCHANGED <<sent, snap, nodes, acts, forgotten>>
       ELSE /\ IF call.done = 0 THEN call' = NoCall /\ UNCHANGED <<snap, nodes, acts, forgotten>>
               ELSE Journal(call.key)
            /\ UNCHANGED sent
    /\ UNCHANGED <<page, scroll, layout, restoring, life>>

\* _scroll and _select send their input to the element they found.
InputFound ==
    /\ call.op = "act" /\ call.pc = "find" /\ Send
    /\ UNCHANGED <<page, scroll, layout, restoring, life>>

\* A cancellation, or an error of the browser: nothing is journaled before the
\* side effect may have started (for focus, scroll and select a cancellation
\* before their check has passed), and an unknown outcome after that.
FailAct ==
    /\ call.op = "act"
    /\ \/ /\ \/ call.pc = "check"
             \/ call.pc = "input" /\ call.done = 0 /\ call.kind \in {"focus", "scroll", "select"}
          /\ call' = NoCall /\ UNCHANGED <<snap, nodes, acts, forgotten>>
       \/ call.pc # "check" /\ Journal(call.key)
    /\ UNCHANGED <<page, scroll, layout, restoring, life, sent>>

\* The outcome is journaled: completed, or unknown if a click left the origin,
\* after the page was restored.
EndAct ==
    /\ call.op = "act" /\ call.pc = "input" /\ call.done = Inputs(call.kind)
    /\ call.kind = "click" => ~restoring
    /\ Journal(call.key)
    /\ UNCHANGED <<page, scroll, layout, restoring, life, sent>>

-----------------------------------------------------------------------------
(* The end of the session.                                                 *)

\* _begin_close_locked: no new call, the running one goes on.
StopSession ==
    /\ life = "open" /\ life' = "closing"
    /\ UNCHANGED <<page, scroll, layout, restoring, snap, nodes, call, acts, sent, forgotten>>

\* _finish_close and close_page, when the lock is free.
FinishClose ==
    /\ life = "closing" /\ call = NoCall
    /\ life' = "closed"
    /\ UNCHANGED <<page, scroll, layout, restoring, snap, nodes, call, acts, sent, forgotten>>

PageNext ==
    \/ Mutated \/ Moved \/ NavigatedAway \/ RestoreSafePage
    \/ RefreshScroll \/ RefreshLayout \/ BeginSnapshot \/ Capture \/ EndSnapshot \/ GiveUpCall
    \/ \E op \in {"inspect", "source"} : BeginLook(op)
    \/ Locate \/ FoundInFrame \/ EndInspect \/ EndSource
    \/ \E k \in ActKeys, kind \in Kinds : BeginAct(k, kind)
    \/ CheckAct \/ FileInput \/ Covered \/ FillRefused \/ SelectRefused
    \/ Input \/ InputFound \/ FailAct \/ EndAct \/ StopSession \/ FinishClose

PageSpec == PageInit /\ [][PageNext]_pageVars

-----------------------------------------------------------------------------
\* A snapshot is of one document: the image, the elements, their roles and every
\* element that was found later by its coordinates, although they were all
\* read at different times while the page changed; and the elements have the
\* places in the document of the fingerprint that later calls are compared with.
\* (By how much the tree was scrolled nobody compares.)
SnapshotOneDocument ==
    snap # NoSnapshot =>
        /\ snap.shot = snap.dom /\ snap.tree.dom = snap.dom /\ snap.ax = snap.dom
        /\ snap.tree.layout = snap.layout /\ nodes = {snap.dom}

\* A snapshot that calls accept is never one of a page outside its origin.
UsableOnOrigin == Matches => ~page.away

\* An act is sent once for its key, however it ended and however often it is
\* repeated, as long as the journal remembers it.
SentOncePerKey == \A k \in ActKeys : sent[k] <= 1 \/ k \in forgotten

\* What is read from a frontend page and done to it (frontend_playwright.py): an
\* answer is of one document, a page is used only on its origin, and an action is
\* sent once per key.
PageSafe == SnapshotOneDocument /\ UsableOnOrigin /\ SentOncePerKey

\* No input, neither the first of an act nor the press after the pointer has moved
\* or the element has the focus, is sent to a page that is closed, nor after a
\* navigation or mutation since the snapshot was reported, nor with another
\* scroll or layout than the snapshot's, as they were read after the input before it
\* (frontend_playwright.py, act).  Scroll and select look for their element after the
\* check; what moves between the reads and the input is not seen.
InputsInTime ==
    [][call.op = "act" /\ call'.op = "act" /\ call'.done # call.done =>
           /\ life # "closed"
           /\ CheckedLast(call.kind) => call.read = 2 /\ Matches]_pageVars
=============================================================================
