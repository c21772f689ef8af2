# TLA+ verification of Codito

Codito lets an MCP client (a chat assistant) work on a developer's Windows
machine.  The client talks to the **relay** (Django, PostgreSQL, Redis); the
relay forwards each tool call over a WebSocket to the **agent** on the device,
which asks for local approval where needed, executes the tool and returns the
result.  This directory holds a formal model of the parts of that system whose
correctness depends on interleavings, failures, retries and limits, the TLC
runs that check it and proofs checked by TLAPS.

## 1. Inventory

| Component | Source | State | Operations | What is hard about it |
|---|---|---|---|---|
| Durable dispatch | relay `core/dispatch.py`, `models.py` | `Operation` row: status, result, error, epoch, delivery marker, sequence | admit, mark dispatched, publish to a Redis stream, wait, finish, fail | timeout racing a late result; the client or the relay dies in between; idempotent retries; two calls at the queue limit |
| Device connection | relay `core/websocket.py` | connection epoch, recovery list, stream cursor, online mark, project catalogue | consume a ticket, receive loop, record a message, recover, deliver, acknowledge, synchronize projects | an old connection next to a new one; cancellation between two steps; double delivery; dying workers |
| Devices, links, accounts | relay `core/views.py` | active link, device status, tickets, invitations, reset links | enrol, rotate, revoke, issue a ticket, register, reset | check-then-create races; revocation of what is in use |
| OAuth and guards | relay `core/oauth.py`, `signals.py`, `authz.py`, `middleware.py` | token families, bindings, replay cache, counters, sessions | refresh, bind, authenticate, count, expire | two refreshes of one token; binding racing revocation; edges of time windows |
| MCP facade | relay `core/mcp_server.py`, `protocol/facade.py`, `facade_contracts.py` | none | translate calls, demand scopes, challenge | several tables that must agree |
| Tunnel client | agent `websocket_client.py` | socket, epoch, output sequence, pending terminals, tasks, budgets | connect, welcome, replay, receive, refuse, dispatch, acknowledge | tasks that outlive their socket; redelivery; every await is a switch point |
| Operation journal | agent `db.py` | one row per operation, durable | receipt, transition, list, acknowledge | crash between two transitions |
| Approvals | agent `approvals.py`, `access_policy.py`, `ipc.py` | generation, saved permissions, open prompts | request, revoke, clear, invalidate | the answer arrives after the state it was asked under is gone |
| Shell jobs | agent `shell.py`, `operation_gate.py`, `broker_client.py` | jobs, tasks, gate owners, idempotency rows, output buffer | start, run, poll, cancel, disconnect, reconnect | start/start, cancel/finish and grace/reconnect races; output at its limit |
| Patching | agent `patching.py` | idempotency row, manifest, backups, files | preflight, replace, roll back, reconcile, recover | one of several writes fails; the daemon dies; the user edits the same file |
| Tray | agent `desktop_actions.py`, `screen_capture.py` | queue of claims | claim, act, report, time out | a timeout racing a claim; lost answers |
| Frontend sessions | agent `frontend_sessions.py`, `frontend_playwright.py`, `dev_servers.py` | starts, sessions, cleanups, servers, pages, snapshots | start, snapshot, inspect, act, stop, expire, shut down | cancellation anywhere; a page that changes under a call; failing cleanup |
| Code intelligence | agent `code_intelligence/` | snapshots, servers, graph mirror, open documents, diagnostics | refresh, query, reindex, walk, close | files edited during a call; stale providers; late diagnostics; truncated searches |
| Reads | agent `read_tools.py`, `scoped_read_tools.py` | none but the cursor | read a file, search a tree, page by page | page edges inside lines and characters |
| Everything else | UI, updates, settings, image capture, credentials | local or none | I/O | - |

`PROJECT.json` lists every component with its status and reason, and every
hazard at its line.

How they interact: an MCP request passes the facade and runs `dispatch_tool`,
which admits it, commits an `Operation` row and adds its id to the device's
dispatch stream.  The device connection reads the stream, checks the row, and
sends a tunnel envelope.  The agent journals the receipt, runs a task per
operation and reports `received`, `started` and a terminal.  The connection
commits what it is told, publishes a result to the stream of the operation, and
acknowledges it to the agent; the request wakes up and answers the client.  All
three sides retry: the connection redelivers open rows when a device connects,
the agent replays terminals that were not acknowledged, and the client repeats
a call with the same idempotency key.  Inside the agent the task asks the
approvals, takes the gate of the workspace for a patch or a shell job, or talks
to the tray, a browser, a language server or the file system.

What must hold: a native action (a desktop action, a shell start, a frontend
session start) is not executed twice; a client is never told one result while
another one is stored; a terminal that the agent forgets has been stored; a
connection that was replaced does not write an operation that a newer one has
written; and no terminal stays on the agent forever while a connection is up.  The relay shows a device online while
it is, admits no more than its queue holds, and accepts nothing that was revoked.
On the device: a shell command starts at most once per idempotency key and holds
its workspace while it runs; a patch is applied to all files or to none; nothing
passes on a permission or a mode after the user was told that it is gone; what
an operation reports is true; and nothing that was started is left behind.

## 2. Modules

| Module | Models | Composition |
|---|---|---|
| `RelayOperation` | the transactions on an `Operation` row, as functions from row to row, and the conversion of results (`Normalize`, `Durable`, `ErrorCode`) | base |
| `AgentJournal` | the transactions on the agent's journal entry | extends `RelayOperation` |
| `Tunnel` | waiting requests, relay connections, sockets, the agent's connection, receive loop and tasks | composes both |
| `OperationOutcome` | abstract contract: an operation is started at most once if it is unsafe, and takes one durable result | abstract specification of `Tunnel` |
| `Presence` | tickets, epochs, fence, HELLO, catalogue, online mark and revocation of one device over several connections | part of `MCRelay` |
| `Admission` | calls that arrive together: lookup by key, lock of the device row, queue limit, dispatch, end | part of `MCRelay` |
| `GrantFamilies` | refresh tokens, rotation, binding to a grant, revocation | part of `MCRelay` |
| `RelayGuards` | replay cache of assertions, rate limit, session limits, against a clock | part of `MCRelay` |
| `Accounts` | invitations, reset links, enrolment | part of `MCRelay` |
| `ProjectPages` | the paged project list while projects come and go | part of `MCRelay` |
| `ToolScopes` | contracts of the public tools, their wire requests, demanded scopes, challenges | part of `MCRelay` |
| `Approvals` | the security generation, prompts, saved permissions, access modes, the IPC thread and the operations that ask | part of `MCAgentActs` |
| `ShellJobs`, `MCShellJobs` | `ShellManager` (start, task, cancel, grace, eviction, restart), the workspace gate, the launch of the broker, the idempotency table | stands alone |
| `PatchText` | sections and hunks of a patch, what they make of a file | used by `Patching` |
| `Patching` | one workspace root: preflight, manifest, replacement, rollback, redelivery, death, recovery, a user who edits | part of `MCLocalWork` |
| `TrayQueue` | the claims through which the tray opens a browser or captures a screen | part of `MCLocalWork` |
| `FrontendSessions`, `MCFrontend` | starts, sessions, development servers, browser contexts, cleanup, reaper, disconnect fence, shutdown | stands alone |
| `FrontendPage` | snapshot, inspect, act and source on one page, which changes at any time | part of `MCAgentActs` |
| `SemanticElements` | which elements of a page a snapshot returns | part of `MCAgentTools` |
| `CodeQueries` | captures, synchronization, verification and shutdown of one workspace | part of `MCAgentTools` |
| `LspSession` | documents, diagnostics and progress of one language server | part of `MCAgentTools` |
| `CodeWalks` | bounded searches in call, type and file graphs | part of `MCAgentTools` |
| `CodeAnswers` | columns, merged symbols, choice of the provider, completeness of an answer | part of `MCAgentTools` |
| `ReadPages` | `read_file` and `search_text`, page by page, for projects and for the device | part of `MCAgentTools` |
| `ShellOutput` | output buffer, poll and stored page of one shell job | part of `MCAgentTools` |
| `TunnelProofs`, `OutcomeProofs` | types and at-most-once; rows, refinement, answers, redelivery and the journal | extend `Tunnel`, the second the first |
| `ShellProofs`, `ApprovalProofs` | theorems about shell jobs and about approvals | extend the above |
| `LocalWorkProofs` | theorems about the tray, patches and hunks | extends `MCLocalWork` |
| `RelayProofs` | theorems about admission, grants, presence, guards, the project list and the tools | extends `MCRelay` |
| `AgentToolsProofs` | theorems about code queries, the language server and the output of jobs | extends `CodeQueries`, `LspSession`, `ShellOutput` |
| `FrontendProofs` | theorems about sessions and about calls on a page | extends `FrontendSessions`, `FrontendPage` |

`MCRelay`, `MCLocalWork`, `MCAgentTools` and `MCAgentActs` put parts that share no
state side by side: a variable `part` is chosen at the start and never changes, and a behaviour
takes only the steps of its part.  A property of a part holds trivially in the
behaviours of the others.

### State and code: the tunnel

In `Tunnel`, `op` is the table of rows, `waiter` the position of
`dispatch_tool`, `dispatchStream` and `published` the Redis streams, `conn`,
`recovery`, `cursor`, `reply` and `verdict` the locals of one
`device_websocket` per epoch, `up` and `down` the socket buffers, `phase` the
position of `DeviceWebSocketClient.run`, `rx` the local state of `_receive`,
`task` the position of `_dispatch`, and `journal` the SQLite table.  Each
`await` at which another task can run separates two actions.  A payload is one
of a few names: `ok`, `image` (a result with screenshot bytes, which the
durable form drops), `invalid` (a result that breaks the contract, which the
relay normalizes to a failure), and one name per failure that some code tells
apart.  `PROJECT.json` maps every definition to its lines.

Choices that a reader of the code should know:

- `ReadResult` is one step although `publish_and_wait` reads the epoch and
  `_finish` writes the row in two transactions.  A published result was
  committed before, so the row is closed and `_finish` does not change it;
  nothing can be observed in between.
- `operation_timeout` stands for `relay_unavailable` too, since no code treats
  a row closed by one differently from the other.
- The agent decides by `_is_uncertain_native_action` and the relay by
  `_is_replay_unsafe`.  The two predicates agree in the code; they are two
  constants here (`Native`, `Unsafe`) so that each guard can be checked
  without the other.
- `KeptBudgets` lets any budget whose task is not active be dropped, because the
  monotonic deadline of a budget is not related to anything else in the model.
- Heartbeats, progress events and diagnostics carry no state that a property
  looks at and are left out; HELLO is in `Presence`.  The failure to build an
  envelope in `dispatch_tool` happens before anything is published and is left out.
- The relay process and a client that disconnects are the same event for a
  waiting request (`WaiterDies`); the deaths of agent and request share the
  bound `MaxCrashes`.
- `refused` and `runs` are history variables.

### State and code: the relay

- `Presence`: `dev` is the device row, a connection has the steps of
  `device_websocket` (ticket, fence, WELCOME, mark, receive loop, end).
  Transactions are single steps; the fence in Redis is set after the transaction
  that raised the epoch, and may be lost.  A worker may die with its connection.
  `_synchronize_projects` runs in a thread and compares no epoch, so that
  `SynchronizeProjects` is enabled for a connection whatever came after it;
  `catalogue.by` is history, the connection that wrote the catalogue last.
- `Admission`: a call looks up its key, then again under the lock of the device
  row, where it counts and creates; key 0 is no key.  The locked transaction is
  one step.
- `GrantFamilies`: `SaveBearerToken` is the locked transaction of
  `_save_bearer_token`, `BindLooks` and `BindSaves` are the two halves of the
  signal handler, between which a revocation may fall.  Rotation inside the
  OAuth library is external, modelled from the overridden methods.
- `RelayGuards`: one clock in units; an assertion has passed its other checks.
- `ToolScopes`: the contracts are a function from tool to scopes and hints,
  written down from `facade_contracts.py`; the wire request and the demanded
  scopes from `facade.py` and `dispatch.py`.

### State and code: shell jobs

`pc` is the position of `start`, `task` that of `_run_job`, `canceller` that of
`cancel` and `killer` that of `_kill_after_grace`; `gate` is
`ProjectOperationGate._owners`, `mem`, `state`, `handle` and `retired` are the
jobs in memory, `row` is the idempotency table and `proc` the process in the
operating system.  An action is what happens between two awaits.  A write to
SQLite is a thread that goes on when the coroutine awaiting it is cancelled,
so `write` holds the writes in flight and `WriteLands` is a step of its own.

- `task.cancel()` marks the task in `interrupted`; the exception is raised at
  its next step (`Interrupt`), and a task that has not taken its first step ends
  without its `finally` clause.  The order in which `asyncio.gather` and
  `wait_for` deliver it is that of Python 3.12.
- The first lookup of `start` and its snapshot of the generation are one
  step (`Prepare`); the lookup is repeated under the lock and only the second
  one decides.  The branch that deletes a row again after a failed start is
  left out: no exception reaches it once the row is stored.
- One `cancel` per job, while its task is past its first step or a row exists;
  before that, the code answers "not found".
- The kill of a process is assumed to be effective, as `_terminate` assumes.
- `Slot`, `Owner` and `Root` are three independent functions of a request: the row
  has project and key, the owner name has the key only, and the root is that of the
  project or of an external folder.  `Unshared` is the set of requests whose row
  and reservation determine each other.
- `ShellOutput` is the buffer of one job: two pipes append chunks of a size, and
  a client polls with the sequence it was told, before and after the job left
  memory.  A chunk is its number and its size.

### State and code: approvals

`pc` is the position of an operation (a device read, or `_file_operation`),
`seen` and `proj` its snapshots of the generation and of the project row,
`shown` the generation of its prompt; `future` is the decision the prompt waits
for and `handed` a decision that `call_soon_threadsafe` has not delivered yet.
`ipc` is the step of the IPC thread inside a handler.  `told` is the project row
last confirmed to the user, `void` the operations that a confirmed request of
the user has stopped: both are history, and so is `basis`.

- The loop runs the callbacks of the IPC thread in order and `_resolve` keeps the
  first decision, so one decision per prompt is in flight.  This subsumes the
  one-use tokens of a toast.
- Session grants do not occur: every caller passes `session_eligible=False`.
- `native_trusted` behaves as `native_approval` and is the mode "ask".
- A deadline may be over at every check: each one may fail.
- After the last check of the generation a worker acts without a lock.  A
  revocation that falls in that gap does not stop the action, only its answer:
  the properties speak of checks, which is what the code promises.
- A `permissions.revoke` that finds no row changes nothing and is answered; for
  the model it is a `NextRequest`.

### State and code: patches and the tray

`progress` is the position of `apply` for an idempotency key, or of the recovery
of its journal; `row` is the idempotency table, `manifest` the state in
`manifest.json`, `todo` the paths that the current loop has still to visit,
`swapped` the files whose identity changed since they were resolved, `owner` the
gate, `daemon` whether recovery is over.  `applied` is history.  The content of a
file is a sequence of lines, and what a patch makes of it is computed by
`PatchText`.  A manifest and its backups are written before the first file is
replaced; each replacement is a step, since `os.replace` is atomic.  A rollback
compares a file (`Compare`) and puts it back in a later step (`PutBack`); `checked`
is the request that stands between the two and `raced` whether the file was
changed there.  The adapter may answer with an error of its own at any point
after the worker was started, also after the commit (`LeaveApply` with
`adapter_error`: a policy that was revoked, a cancel that `_drain_file_worker` raises
again, a budget that is over).  A death
keeps files, rows and manifests and loses the rest.  The removal of a journal
directory, which ignores errors, is assumed to succeed.

In `TrayQueue`, `claim` is the position of the IPC thread in `next_request`,
which holds the lock of the queue; `Enqueue`, `Leave` and `Report` need that
lock, the timeout does not.  A timeout wins against a result that the coroutine
has not seen, as in Python 3.12.  It fires not before the deadline: the timer of
the loop and the wall clock that `ensure_current` reads are assumed to agree.
The queue of screen captures has the same protocol; it also checks the deadline
in `respond` and does not tell failures apart.  `TrayActs` lets the tray
(`desktop_ui.py`, `poll_desktop_action` and `poll_capture`) act, fail or die at any
time, which is more than its own checks allow.

### State and code: frontend sessions and pages

In `FrontendSessions`, `req` is the position of a `session_start` request,
`start` the start task of a project (`_start_tasks`, `_project_starts`), `sess`
its session, `clean` the cleanup of a closing session or of a partial start,
`ctx` the browser context, `reg` and `proc` the registry of servers and the
process itself, `fence` the task of `_connection_changed`, `closing` the progress
of `close()`.  Generations are only compared with the present one, so a start
and a session carry whether theirs is still the present one.  A browser or a
server may fail to close `MaxFaults` times.  The launch of a server is a stretch of
its own: `AcquireLaunches` asks the broker, `AcquireBoots` and `LaunchFails` are its
answers, and a cancel in between (`LaunchCancelled`) leaves the process to a task of
the broker, in no registry, until it is undone; `aborting` counts such launches and
`lost` the processes that could not be undone.

In `FrontendPage` one call at a time holds `session.lock`; the page mutates,
scrolls, moves its elements, leaves its origin and is restored between any two of its
steps.  Documents are numbered and do not come back; scroll and layout may.
`scroll` and `layout` are what the record has read of the page, in two steps
(`call.read`), before a call compares them; the tree of a snapshot is compared by the
layout fingerprint only, as in the code.  A click or a press sends two inputs, each
after reads of its own (`call.done`).  `sent` and `forgotten` are history.  The engine (CDP, Playwright) is external: it answers
from the document that is there when it is asked.

### State and code: code intelligence

`CodeQueries` is one workspace: `disk` is the version of each file, `latest` and
`synced` the snapshot and the synchronized generation, `server` what the language
server has read, `abandoned` whether the process of a cancelled start runs, `mirror` and `index` the graph's copy of the files and its
content, `query` the call that holds `query_lock`.  A capture reads one file per
step.  A version stands for time stamp, size and content, and versions do not
come back: a file that is deleted, created and deleted again during one call is
not told from one that was away.  `LspSession` follows the documents that a
client has opened, with version numbers that start again at 1 for a document
that is opened again, diagnostics that the server has computed and not yet sent,
and progress tokens.  In `CodeWalks` the provider's graph is chosen at the
start; a walk asks it once per symbol or level, and `dependencies` merges what it
found with what the manifests declare.  `CodeAnswers` and
`SemanticElements` are operators, checked over all small inputs against
definitions of what they should return.

### State and code: reads

`ReadPages` follows a client through the pages of one file, or of one search.  A
file is a sequence of lines, a line a sequence of characters, and a character
its width in bytes; a tree is a sequence of files with a size and lines that
match, hold the expression literally, or do neither.  `service` tells the
project reader from the device reader, which differ in where they stop.

## 3. Runs

| Run | Configuration | Shows |
|---|---|---|
| `tunnel_native` | a native action that only the agent guards, a result that breaks the contract, 2 connections, 1 death | `AtMostOnce` (the journal alone suffices), `SettledOnce`, `EpochFence` |
| `tunnel_rotation` | an operation that only the relay guards; a death or a rotation of the link, a deadline, a full queue, a fast clock | `NeverRedelivered` (the delivery marker alone suffices), `AckedIsStored` |
| `tunnel_repeatable` | a repeatable operation with a screenshot result, executed again after a death | `AnswerDurable`, `JournalImmutable` |
| `tunnel_live` | an operation that both ends guard, with a deadline; fair specification | `OutcomeSpec` (refinement), `TerminalsAcknowledged` |
| `agent_acts` | two reads under one permission, or a file operation, with two security events; one page that changes between any two awaits of a snapshot, a look or an act | `RevokedNeverPasses`, `RevokedNeverSaves`, `ModeStillAllows`; `PageSafe`, `InputsInTime` |
| `shell` | two starts with one key and a restart, or two jobs and a patch on one root; one job has a prompt; starts that time out, a cancel, a disconnect; fair specification | `SpawnedOnce`, `OwnedWhileRunning`, `NoUntrackedProcess`, `RetainedBounded`, `TerminalRowStays`, `RootsFreed` |
| `local_work` | two patches of one root, over three paths, with redelivery, an edit by the user and a death; a pair of hunks in every small text; two operations that wait for the tray; fair specification | `PatchSafe`, `RollbackKeepsWork`, `ServesAgain`, `HunksSplice`; `TrayTruthful`, `EveryoneLeaves` |
| `frontend` | two projects that compete for one session, or two requests with one key; disconnect, revocation, failing cleanup, shutdown; fair specification | `SessionsKept`, `OutdatedSessionsEnd`, `StartsEnd` |
| `frontend_claim_reconnect` | expected violation | `SurvivesReconnect`: a short disconnect takes the authority of every session |
| `agent_tools` | one workspace, one language server, walks in every graph over 4 nodes, reads, searches, shell output, and samples of the algorithms | `CodeSafe`, `DiagnosticsCurrent`, `AnswersSound`, `ReadsWhole`, `OutputSafe` |
| `relay` | three connections of a device, four calls at a queue of one, four refreshes, a clock of 8 units, two forms, three enrolments, four projects, all tools; fair for the device | `PresenceSafe`, `DeviceBackOnline`, `AdmissionSafe`, `GrantsSafe`, `GuardsSafe`, `ToolsAgree` |
| `patch_claim_rollback` | expected violation | `NewerWorkPreserved`: an edit between the comparison of a file and its restoration is lost |

The invariants of a part that belong together are conjunctions of named facts:

- `PatchSafe`: types; when nothing works on a patch it is applied to all of its
  paths or to none, as its row says (`AllOrNothing`); what the transaction told a
  request is true (`AnswersAreTrue`; an error of the adapter says nothing of the files); two requests never replace files together (`OneWriter`).
- `TrayTruthful`: the tray acts once (`ActsOnce`), never on what was reported as not
  accepted (`NotAcceptedMeansNever`), and did open what was reported as opened
  (`OpenedMeansActed`).
  `RollbackKeepsWork`: a rollback changes a file that the user has edited only if the
  edit came between the comparison and the replacement of that file.
- `SessionsKept`: types; every server and page in use has a holder, and every process a
  registry but for those whose launch is not answered, is being undone or could not be
  undone (`NothingLost`); the limit counts what is being cleaned up
  (`SessionsBounded`), and a shutdown leaves nothing but what could not be closed or
  the broker still undoes (`ShutdownComplete`).
- `PageSafe`: a snapshot is of one document and of the layout that is compared later
  (`SnapshotOneDocument`) and never of a foreign page (`UsableOnOrigin`), and an act is
  sent once for its key (`SentOncePerKey`).  `InputsInTime`: before each input of an
  act, the second one too, scroll and layout were read again and are the snapshot's.
- `CodeSafe`: a verified answer about code is about files that existed at one moment
  (`VerifiedOfOneMoment`), and its provider had read those files (`ProvidersAgree`); a
  completed reindex has synchronized (`CompletedIsSynchronized`); no server that the
  router has recorded is left after the shutdown (`NoServerAfterClose`).
- `DiagnosticsCurrent`: diagnostics that are reported as ready belong to the present
  text (`ReadyIsCurrent`), within the limit of documents (`OverlayBounded`).
- `AnswersSound`: of a page with many elements the useful ones are returned
  (`ElementsPreferred`); searches return only what is reachable within their limits
  (`WalkSound`) and everything unless they say otherwise (`NothingLeftOut`, with the
  exceptions that its comment lists); `ColumnsRoundTrip`, `SymbolsMerged` and
  `AnswersHonest` compare algorithms with reference definitions.  `CompleteIsWhole`, a
  part of the last, excepts the build roots of a summary.
- `ReadsWhole`: pages of a file join without loss (`PagesJoin`), serve the range asked
  for (`RangeServed`: all lines for the device reader, those up to the cap for the
  project reader) and move on (`EveryPageMoves`); a search finds every match
  (`SearchComplete`) and moves on (`SearchMoves`).
- `OutputSafe`: shell output arrives in order (`TailInOrder`), whole for a completed
  job (`CompletedWhole`), and truncation is admitted (`OutputHonest`).
- `PresenceSafe`: an online device has a current connection (`OnlineIsConnected`), a
  served device is online (`ConnectedIsOnline`), and a catalogue that the agent's own
  connection wrote last is that of its last HELLO (`CatalogueFollows`).  `DeviceBackOnline`: a device whose agent keeps trying is
  online again.
- `AdmissionSafe`: the queue limit holds (`PendingBounded`), a key names one operation
  (`KeyOnce`) and answers only its own action (`AnsweredOwnAction`).
- `GrantsSafe`: a consent stays one grant (`GrantStable`) with one live refresh token
  (`RotateOnce`), and after a revocation nothing is accepted (`RevokedIsOut`).
- `GuardsSafe`: an assertion is used once (`AssertionOnce`), no stretch of
  time as long as a window lets more than two windows' worth through (`RateBounded`)
  and a window ends (`WindowEnds`), a session ends
  (`SessionBounded`), a link is used once (`LinkOnce`), devices differ
  (`DevicesDistinct`).
- `ToolsAgree`: over the pages of the project list no project is listed twice and one
  that was there all along is not left out (`EachListedOnce`), the scopes that a tool
  declares are those that are demanded and what the hints call repeatable the relay
  would redeliver (`ContractsAgree`), and a client that reconnects as it was told is not
  refused again (`OneReconnectIsEnough`).

### Where code and documents differ

Two properties state what a document says and are violated; each has a run of its
own and a finding with the lines it contradicts: `SurvivesReconnect` and
`NewerWorkPreserved`.  The models reach other states that a reader of the documents
would not expect.  Those have no run: the properties are stated so that they do not
claim the case, and the list below names it, at its lines, with the condition that
leaves it out.

Tunnel and dispatch:

- A task that outlived its socket may write to the next one before its WELCOME
  is read, with the old epoch, or with a number from before the reset of the
  sequence (`websocket_client.py:170-173`).  The relay closes the connection on
  the former; `EpochFence` says that it writes nothing.
- A row that was closed with `link_revoked` has a result, so the terminal that
  the agent has journaled is rejected at each replay (`websocket.py:416`).
  `TerminalsAcknowledged` is checked without rotations.
- A result can be published under one epoch and read after the row has moved to
  the next; its request then answers with a protocol error although the result
  is stored (`dispatch.py:202`).  `AnswerDurable` speaks of answers with a result.
- An acknowledgement is matched by operation, not by result: a redelivery that
  was refused without a journal entry is acknowledged, and that marks a different
  result that the journal holds (`db.py:974`).  `AckedIsStored` excepts it.
- A row whose request ends between its creation and its dispatch stays accepted
  and keeps its place in the queue (`websocket.py:504`).
- `docs/protocol/errors.md:37` maps `operation_in_progress` to
  `idempotency_conflict`; `dispatch.py` maps it to `rate_limited`.
- `rename_project` answers with a stripped title (`project_management.py:113`)
  and the relay compares it with the one asked for (`dispatch.py:313`).

Presence and accounts:

- The catalogue of a HELLO is applied without a check of the epoch
  (`websocket.py:560`), although `docs/adr/0005-durable-dispatch.md:18-20` says that
  older epochs mutate nothing: a HELLO that an older connection still has in hand
  replaces the catalogue of the newest one, until its next HELLO.  `CatalogueFollows`
  is about catalogues that the agent's own connection wrote last.
- A folder that is registered again under another id violates the unique root of
  the relay's projects (`models.py:192`): the exception ends the connection at
  every HELLO.  With `Folder <- MCMoved` in `Relay.cfg`, `DeviceBackOnline` fails;
  the run has distinct folders.
- A change of the projects during a synchronization starts no second one
  (`daemon.py:260`), so it may stay unsent until the next HELLO.

Shell jobs:

- A task that a disconnect cancels before its first step runs no `finally`
  clause, and a start whose budget ends while its row is written does not
  release its root (`shell.py:978`, `shell.py:500`).  `RootsFreed` excepts
  both (`Leaked`).
- Two projects on one root with the same key text share an owner name, and one
  may free the root of the other (`shell.py:443`): a cancelled job releases it twice,
  in its task and in `cancel`, and the second release gives back the reservation that
  the other has taken in between, so that a patch is admitted beside its process,
  although `operation_gate.py:14-16` says that they must not mutate it at the same
  time.  Two
  requests with one key and different external roots share a row.
  `OwnedWhileRunning` and `TerminalRowStays` are about the other requests
  (`Unshared`), whatever these do.
- A cancel during the launch releases the root while the broker still recovers
  the process (`shell.py:884`), although `docs/adr/0022` says that jobs on one
  root are serialized.  `OwnedWhileRunning` speaks of uncancelled jobs.
- `cancel` may interrupt the `finally` clause of a task, and then nothing
  forgets the job (`shell.py:882`).  `RetainedBounded` does not count such jobs.
- The grace period may mark a job `outcome_unknown` in memory whose row says
  `failed` (`shell.py:994`), and a process may be launched after its approval
  was invalidated, between the last check and the launch (`shell.py:619`).
- After a timeout or a cancel the job is terminal before its pipes are read to
  the end, and once it has left memory only the first page of its output is there,
  without a hint of more (`shell.py:669`), while `docs/adr/0021:55` promises lossless
  continuation.  `CompletedWhole` is about completed jobs in memory.

Approvals and patches:

- The answer to the tray is sent outside of the `try` (`ipc.py:100`): a tray that
  is gone ends the thread, and open prompts are fetched by nobody.
- A file that the user deletes during a rollback comes back, and an edit between
  the last comparison and the replacement of a file is lost (`patching.py:742`,
  `patching.py:909`), although `docs/adr/0022:42` says that newer work is preserved:
  `patch_claim_rollback`.
- A patch that is applied and journaled may be answered with an error: the policy is
  checked again behind the worker (`protocol_adapter.py:492`), a cancel is raised again
  when the worker is done (`protocol_adapter.py:64-73`), and the budget is checked
  after the handler (`websocket_client.py:554-560`).  A repetition finds the row.
- `docs/protocol/patch-format.md` says that an unresolved manifest disables
  writes; a failed rollback of a running daemon only fails its request
  (`patching.py:916`).

Frontend:

- A start task that is cancelled before its first step stays registered and
  blocks its project (`frontend_sessions.py:499`).  `StartsEnd` excepts it.
- A server whose stop fails while it is started is only retried by `close()`
  (`dev_servers.py:346`), and a second disconnect during the fence of a first makes
  no new fence (`daemon.py:225`).
- A server whose launch is cancelled is in no registry until the broker has undone
  the launch, and stays if that fails (`dev_servers.py:331`, `broker_client.py:143`);
  if the start task is cancelled again, `close()` does not wait for it.
- `scroll` and `select` look for their element after the last check, what moves
  between the reads of scroll and layout and the input is not seen
  (`frontend_playwright.py:1589-1592`), a page that scrolls away and back while its tree
  is captured passes with the boxes of the other scroll
  (`frontend_playwright.py:618-627`), and the journal forgets acts beyond 128.
  `InputsInTime`, `SnapshotOneDocument` and `SentOncePerKey` do not claim these.

Code intelligence and reads:

- A language server whose start is cancelled may be left running
  (`lsp_client.py:148-163`, `lsp_router.py:226`), although `docs/adr/0019:137` says
  process trees are owned.  The model keeps such a process (`abandoned`), and
  `NoServerAfterClose` is about the servers that the router knows.
- A new progress token sets the idle event while another token is active
  (`lsp_client.py:290`): the wait then spins until its deadline (`Spinning`).
- Some truncations are not reported: walks with `max_nodes` 1
  (`lsp_provider.py:919`), graph walks at their request limit
  (`cbm_provider.py:486-512`, `643-645`), dependencies below the fourth level and those
  cut from the merge with the manifests (`cbm_provider.py:715-735`), and the build roots
  of a summary beyond 32, which `manager.py:294` calls complete
  (`lsp_provider.py:463-469`).  `NothingLeftOut` and `CompleteIsWhole` name these as
  exceptions; `SummaryWhole` says when a summary is whole.
- A continuation drops `end_line`, so later pages go past it
  (`protocol_adapter.py:527`, `read.py:71`); a page smaller than a character is empty.
- A project read that stops at its cap on lines has no continuation
  (`read_tools.py:391`), although the cap is "per-page" by `read.py:69` and the device
  reader continues (`test_scoped_read_tools.py:80`).  `RangeServed` asks of a project
  read only the lines up to its cap.
- A regular expression is also searched as a literal text in projects
  (`read_tools.py:522`).

### Bounds

In the tunnel, `MaxEpoch = 2` gives an old connection next to a new one,
redelivery and replay.  One operation is enough for the properties about an
operation, because operations share only the socket, the queue limits and the
streams; `MaxPending = 1` makes the queue full for a redelivery
(`tunnel_rotation`), and `FastClock`, a clock of the agent that runs ahead, is on
there.  `Expiring` lets the deadline of an operation pass on the relay; it is
empty in `tunnel_native` and `tunnel_repeatable`, whose properties are about
redelivery.  `MaxCrashes = 1` puts a death between any two steps, `MaxRotations =
1` a rotation; `MaxFaults = 1` keeps the two apart.  `outSeq` and the streams are
bounded by these.

Two jobs on one root, with keys and owners equal or different, give every
conflict between two starts: of the three requests of `MCShellJobs` either 1 and 2
arrive, which repeat a key, or 2 and 3, which have their own, and the agent dies only
in the first case.  `RetainLimit = 1` lets the second finished job evict the first.  `MaxCancels`, `MaxEvents` (disconnects and revocations) and
`MaxRestarts` put each event between any two steps.  For the approvals,
in `agent_acts`, the second of two reads starts when the first waits for the user or is
past that (`Arriving`), so that it meets an open prompt, a saved permission or one that
was just revoked, and the file operation is alone, since it has no permission;
`MaxGeneration = 2` bounds the security events, so that a permission is revoked
after a change of mode and a mode is changed and changed back.

In `local_work` one patch updates a file and moves another (three paths, so that
a failure falls before, between and after replacements) and the other deletes the
file that the first updates; each is requested up to twice, with one death and one
edit by the user at any step.  Texts have up to four lines of two kinds, hunks two
lines.  Two operations share the queue of the tray.

In `frontend` the limit is one session, so that two projects compete, or two
requests of one project share a start; one revocation, one failing cleanup and two
connections.  Failing cleanups are only in the behaviours with two projects, to
keep the state space within reach.

For the page of `agent_acts` the document changes once and scroll and layout flip at any time;
two keys, a journal that remembers one, and three kinds of acts: with two inputs, with
text, and with an element that is found after the check.  The second key is used only
when the first was, to push it out of the journal, and a behaviour ends when the first
is sent again (`KeysInOrder`).

In `agent_tools` a project has two files, three edits and two generations of snapshots, so that a
file changes during a capture and another one between captures; a language server
has two documents of which one stays open, two texts and two tokens; graphs have
four nodes, one of them outside of the project, with cycles, and manifests that
declare up to three of them (`Declared`); a summary has up to `MaxManifests` = 4
manifests of which `MaxBuildRoots` = 2 are listed; files have up to
three lines of characters of one and two bytes and pages of one to three bytes;
trees up to five files with a budget of four units; output up to six units with a
limit of five.  `relay` has three connections, so that an old one meets two newer
ones, one loss and one local change; four calls of which three share a key; four
refreshes; and a clock that runs past two windows.

**Deadlock** is not checked: after the last connection, job or event the
bounded system stops.

### Fairness

The event loops run tasks that are ready, the agent reconnects with a bounded
backoff, and every wait has a timeout; so weak fairness is assumed of the steps
of the agent, of the connection and of the request.  Nothing is assumed of
failures, deaths, deadlines or new requests.  `TerminalsAcknowledged` is stated
for behaviours in which a connection eventually stays up, and `DeviceBackOnline`
for the steps of the agent and of each connection.  For shell jobs weak fairness
is assumed of the coroutines, of threads that write to SQLite, of the launch, of
the exit of a process that is being killed and of the end of a patch; not of the
user's decision, of a process that exits by itself or of a cancel call.  For the
tray it is assumed of time, of the timeout, of the waiting coroutine and of a
claim in progress; not of the tray.  For patches it is assumed of the loops of
`apply` and of recovery, and of a supervisor that starts the daemon again.  For
frontend sessions it is assumed of start tasks, whose waits for the user, the
server and the browser all have deadlines, of cleanups, the reaper and the
shutdown; not of requests or of the end of a server.

## 4. Proofs

All theorems hold for every set of operations, jobs, calls, connections, patches,
files or documents and for every bound.  Each rests on an inductive invariant that
was first checked by TLC on an instance, then proved action by action.

The tunnel (`TunnelProofs`, `OutcomeProofs`):

- `TypeCorrect`: `TypeOK` is inductive with what it says about payloads.
- `NativeActionsRunAtMostOnce`: `AtMostOnce` alone is not inductive.  `StartInv`
  adds that a task is created only together with the receipt of its operation,
  that the receipt is never removed, and that a redelivery of a native action
  creates no task; so a handler that has started is the only one there is.
- `RowsSettleOnce`, `EpochsNeverGoBack`: action properties, from lemmas on each
  row transaction and `RowInv`: a row with a result is closed, there is no row
  before its request, and the epoch of a row is at most the device's.
- `TunnelKeepsOutcome`: the refinement.  Initial states map to initial states
  and each action is a start, a settlement or a stutter of
  `OperationOutcome`.
- `AnswersAreStored`: needs `StoredInv`, which follows a result from the
  transaction that stored it through `reply`, `verdict` and `published` to the
  answer: what is in those places is already the durable result of its row.
- `UnsafeOperationsRunAtMostOnce` (`NeverRedelivered`): `HandInv` says where the one
  copy of an unsafe operation is: in the stream of dispatches, in a socket, in the
  receive loop or in a task, never in two of them.
- `JournalNeverRewritten` (`JournalImmutable`): `EntryInv` relates the state of an
  entry to the step of the task that will write it.
- `AcknowledgedIsStored` (`AckedIsStored`): `TravelInv` follows every copy of a
  result to the relay (socket, `pending`, replay queue, the receive loop's `prior`, a
  task that is sending) and every acknowledgement back: the copy says what the journal
  says, and an acknowledgement exists only if the relay's row has it.

The last two assume `Native \subseteq Unsafe`: what the agent's journal treats as
native is what the relay does not redeliver, as it is in the code.  Without it
`JournalImmutable` is false, which the attempt to prove it showed: a redelivery reads
the entry (`websocket_client.py:399`, an await), the task writes its result and ends,
and then `_terminalize_uncertain_action` replaces that result by `uncertain`.

Shell jobs (`ShellProofs`):

- `ShellTypes`; `OneProcessPerKey`: `SpawnedOnce` from `OnceInv`, which says that
  a start holds the lock from its lookup to its write, and that a job that has
  begun has its row, so that no other start with its key gets past the lookup.
- `TerminalRowsStay`: `SlotInv` says which job of a key may still write its row, and
  what: the write of a start that was given up may land late, but only while nothing
  of the key has ended, because the start still holds the root.
- `ProcessesAreTracked`: `TrackInv` relates a process to the phases of its task
  in which the task waits for it, launches it or recovers it.
- `ProcessesOwnTheirRoot`: `OwnInv` adds that an uncancelled job owns its root
  from the reservation to its `finally` clause.  `ReleaseSpares`: a release by
  whatever job leaves the reservation of an unshared one alone.
- `FinishedJobsAreForgotten` (`RetainedBounded`): `JobsInv` says which states of a job
  go with which step of its task, so that whatever is finished has been through
  `_retire`; `QueueInv` says that the finished jobs in memory are those in the queue.

`TerminalRowsStay` and `ProcessesOwnTheirRoot` assume nothing of rows, roots and owner
names.  They are about the requests in `Unshared`, next to any others: the owner name
`shell:{key}` (`shell.py:443`) has no project in it, and for two projects on one root
with one key text the claim is false (section 3).  `SharesNothing` is what the proofs
use: who has the row or the reservation of an unshared request is unshared as well.

Approvals, tray and patches (`ApprovalProofs`, `LocalWorkProofs`):

- `ApprovalTypes`; `RevocationStops` and `RevocationIsFinal`: `StopInv` says that
  an operation which a request of the user must stop has taken its snapshots
  of the generation, takes none again, and that both are below the
  generation once the request has raised it, hence before it is confirmed.
- `ModeIsRespected`: `ModeInv` says that a read with a current generation holds
  the stored project row, or, between the store and the clear of a change, the
  row the user still believes in.
- `TrayTypes`, `TrayActsOnce`, `NotAcceptedIsTrue`, `OpenedIsTrue`, and
  `TrayIsTruthful`, which puts the last three together: from `TrayInv`, which follows
  an entry from its mark to the act and the act to the result, and says that a timeout
  was after the deadline: a claim that the timeout misses fails its own check.
- `PatchesAreSafe` (`PatchSafe`): `PatchInv` says, for each step of a request, what its
  row and its manifest are and which paths it has written (`JournalSays`,
  `StepKnows`): a manifest that is `prepared` means nothing is written, `committed`
  that all is, and between them what is written is what is not left to do or what
  could not be restored.  `GateInv` says who holds the gate, and that a daemon that
  starts rolls back one journal at a time.
- `RollbacksKeepWork`: an action property, from the same invariant with `CheckedInv`:
  who stands between a comparison and its replacement is in a rollback with files left,
  and unless the file was changed since (`raced`), it may still be put back.
- `HunksSpliceAnyText`, and `HunksAreSpliced` (`HunksSplice`) as its instance: two hunks of
  any length in a text of any length.  `ReplacedLines` says which line stands where after
  a replacement, `MovedPlaces` that the text behind it is only moved, so the second hunk
  finds there what stood in the first text; the number of hunks is two because the
  function that applies them one by one needs no induction then (`TwoHunks`).

The relay (`RelayProofs`):

- `AdmissionIsSafe`: `AdmissionSafe` is inductive with `AdmissionTypeOK`, which adds
  that the row of a call exists.  `StepCases` sorts the steps: all but one create no
  row, reopen none and leave keys and actions alone (`Quiet`, `Settles`), and the
  one that creates a row has found no row of its key and room in the queue under the
  same lock (`Creates`).
- `FamilyGrantsSafe` (`GrantsSafe`): `FamilyInv` says that one pair of tokens at most
  has a refresh token that was not consumed, that requests name pairs that exist, and
  that the family row names the only grant.
- `PresenceIsTrue` (`PresenceSafe`): `PresenceInv` adds that connections have distinct
  epochs up to the device's, and follows the catalogue: the last HELLO on its way, else
  the one that is being applied, else the catalogue, if the agent's connection wrote
  it last, is what the agent said last.
- `RelayGuardsSafe` (`GuardsSafe`): for the rate limit `SpacedInv` says that a request
  which is followed by a full window of others is a whole window older than the next
  window; for assertions that the entry of the replay cache covers the time in which
  the assertion is fresh; for sessions that the history begins with the sign-in; for
  links and devices that a form which is open holds the lock of a link without effect.
- `ListsAndToolsAgree` (`ToolsAgree`): `ListInv` says that the cursor separates what
  was listed from what follows, and that what was there all along up to the cursor was
  listed.  `Ranks` and `PageCut` show that a page of a limit is what follows up to its
  cursor, or all of it.  The tables of the tools are compared tool by tool
  (`ToolTablesAgree`); `ScopeInv` says that the grant only grows when a client connects
  again, so that it keeps the tool it has connected for.

The tools of the agent (`AgentToolsProofs`):

- `CodeAnswersAreSafe` (`CodeSafe`): a version of a file does not come back, so a file
  that both captures of a call found with one version had it all the time between them
  (`Steady`, `MomentInv`).  `SawInv` and `ServerInv` say the same of what the server
  read: a warm server has read nothing but the synchronized versions of the files that
  still have them.  `GraphInv` ties the index to the generation, `DownInv` says that no
  call uses its snapshot while the workspace is shut down.  The process of a cancelled
  start (`abandoned`) is in the model and not in the claim.
- `DiagnosticsAreCurrent` (`DiagnosticsCurrent`): `FreshInv` says that while no file
  changed since the last refresh, every document, report and late message of the server
  is of the text of the file, and that a call runs only then; `OrderInv` that the order
  of opening lists the open documents once each.
- `OutputIsSafe` (`OutputSafe`): `TailInv` says that the cursor of a client is the
  number of chunks it got and not beyond the job's; `KeptInv` that a completed job has
  no reader; what the stored row says after eviction is not in the claim.  `MaxOfBounded` shows that the longest page that fits exists.

The proof of `CodeSafe` corrected the model's properties: two of its conjuncts held in
the run's bounds and not beyond, because a file that is absent in both captures may have
come and gone between them.  The code drops what is not a file of the snapshot
(`lsp_provider.py:164`), and the properties now speak of the files of the snapshot.

Frontend sessions and pages (`FrontendProofs`):

- `SessionsAreKept` (`SessionsKept`): `SessionInv` has, besides types, three parts.
  `ProjectsAgree` says for each project which of its start task, its session and its
  cleanup has it (`OneHas`), what that one holds of the server and of the page at each
  of its steps (`ServerHeld`, `PageHeld`), and that the shutdown goes on only when the
  starts, sessions, servers and browsers have ended (`Ended`).  `WaitersServed` says that
  who waits, waits for a start that is running.  `LimitKept` counts sessions, cleanups and
  starts together, so that a start that was let in has its place when it becomes a session.
  `LaunchInv` says that a launch which the broker could not undo was a fault.
- `PagesAreSafe` (`PageSafe`) and `InputsAreInTime` (`InputsInTime`): `PageInv`.
  Documents only go forward, so one that was there before and after the parts of a
  snapshot were read was there all the time (`SnapOK`, and `CallOK` for the documents
  that a running call has read, in order, with the fingerprint that it compared); an act that was sent is running or has its key
  in the journal until the journal forgets it (`SentOK`).

The assumptions are those the modules declare, which say what kind of values the
constants are: numbers, sets of numbers or functions, a limit that is not 0
(`SessionAssumption`), connections numbered from 1 (`ConnAssumption`), finite sets of
paths (`PatchAssumption`), a rate window and a session limit that are not 0
(`GuardAssumption`), reads and pages that are not empty (`OutputAssumption`), a device
that has connected once (`FrontendAssumption`), project ids that are numbered in their
order and pages that are not empty (`ListAssumption`).  Where a proof needs induction
over numbers, it takes the least member of a set (`LeastNumber`), since the library's
induction theorems are out of the provers' reach.

Only model-checked: every liveness property (fairness is out of the prover's reach); and
`AnswersSound` and `ReadsWhole`, which compare algorithms on sequences and graphs with
reference definitions: what a recursive function or a fold computes needs induction over
its input.

## 5. Plan

Done: every component that section 1 calls modelled, with its runs; the theorems of
section 4, which state every invariant and action property of the runs but the two
named there.  What could come next:

1. An abstract specification of the gate (a workspace has one owner) that
   `ShellJobs` and `Patching` share.
2. The soundness of the walks (`WalkSound`), stated with paths instead of a recursive
   function.

## 6. Not modelled

The Windows API (named pipes, toasts, DPAPI, job objects), the browser engine,
the language servers, the graph tool, the OAuth library, the schemas of the tool
contracts, directory listings, the encoding of images and text files, the agent's
sign-in and update, and the desktop UI beyond its polls for the tray, which is a view
over the state of the other parts.  Their effect on the modelled parts is nondeterminism: a handler returns
anything from `Replies`, a socket is lost at any time, a server or a browser
answers late, fails or exits.
