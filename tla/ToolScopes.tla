----------------------------- MODULE ToolScopes -----------------------------
(***************************************************************************)
(* The public tools and their permissions: what a tool's contract declares *)
(* (facade_contracts.py), the wire request it becomes (facade.py), and     *)
(* what the relay then demands of it (dispatch.py, mcp_server.py).  A      *)
(* client calls tools under its grant and, when it is told that a          *)
(* permission is missing, connects again with the scopes of the challenge. *)
(***************************************************************************)
EXTENDS Naturals

VARIABLES
    granted,    \* scopes of the client's access token
    refused,    \* the tool of its last call, if that was refused
    challenge,  \* scopes of the challenge of the refusal
    obtained    \* history: the first tool for which it has connected again

scopeVars == <<granted, refused, challenge, obtained>>

NoTool == "none"

ToolScopeNames == {"projects:read", "projects:write", "files:read", "files:write",
                   "shell:execute", "screen:read", "frontend:read", "frontend:interact"}

-----------------------------------------------------------------------------
(* The contracts: scopes, readOnlyHint and idempotentHint.                 *)

Contract(scopes, read, idempotent) == [scopes |-> scopes, read |-> read, idempotent |-> idempotent]

ReadScopes == {"projects:read", "files:read"}
WriteScopes == ReadScopes \cup {"files:write"}
AnalyzeScopes == ReadScopes \cup {"shell:execute"}
ManageScopes == {"projects:read", "projects:write"}
ShellScopes == {"projects:read", "shell:execute"}
FrontendReadScopes == {"projects:read", "frontend:read"}
InteractScopes == {"projects:read", "frontend:interact"}

ProjectContracts ==
    [projects_list |-> Contract({"projects:read"}, TRUE, TRUE),
     project_add |-> Contract(ManageScopes, FALSE, TRUE),
     project_rename |-> Contract(ManageScopes, FALSE, TRUE),
     project_remove |-> Contract(ManageScopes, FALSE, TRUE)]

FileContracts ==
    [directory_list |-> Contract(ReadScopes, TRUE, TRUE),
     file_read |-> Contract(ReadScopes, TRUE, TRUE),
     text_search |-> Contract(ReadScopes, TRUE, TRUE),
     file_patch |-> Contract(WriteScopes, FALSE, TRUE),
     file_delete |-> Contract(WriteScopes, FALSE, TRUE)]

DesktopContracts ==
    [execute_shell |-> Contract(ShellScopes, FALSE, FALSE),
     shell_status |-> Contract(ShellScopes, TRUE, TRUE),
     shell_cancel |-> Contract(ShellScopes, FALSE, TRUE),
     screen_list |-> Contract({"screen:read"}, TRUE, FALSE),
     screenshot_capture |-> Contract({"projects:read", "screen:read"}, TRUE, FALSE),
     browser_open |-> Contract(ShellScopes, FALSE, FALSE)]

FrontendContracts ==
    [frontend_session_start |-> Contract(InteractScopes \cup {"shell:execute"}, FALSE, FALSE),
     frontend_snapshot |-> Contract(FrontendReadScopes, TRUE, FALSE),
     frontend_inspect |-> Contract(FrontendReadScopes, TRUE, TRUE),
     frontend_act |-> Contract(InteractScopes, FALSE, FALSE),
     frontend_source |-> Contract(FrontendReadScopes \cup {"files:read"}, TRUE, TRUE),
     frontend_session_stop |-> Contract(InteractScopes, FALSE, TRUE)]

CodeLookups == {"code_symbol_search", "code_definition", "code_references", "code_implementations",
                "code_diagnostics", "code_hover", "code_context", "code_call_hierarchy",
                "code_type_hierarchy", "code_impact", "code_architecture", "code_dependencies",
                "code_related_tests"}
CodeMetadata == {"code_intelligence_status", "code_workspace_summary"}
CodeContracts ==
    [t \in CodeMetadata \cup CodeLookups \cup {"code_reindex"} |->
        Contract(IF t \in CodeMetadata THEN ReadScopes ELSE AnalyzeScopes, TRUE, t # "code_reindex")]

Tools ==
    DOMAIN ProjectContracts \cup DOMAIN FileContracts \cup DOMAIN DesktopContracts
    \cup DOMAIN FrontendContracts \cup DOMAIN CodeContracts
Contracts ==
    [t \in Tools |-> CASE t \in DOMAIN ProjectContracts -> ProjectContracts[t]
                       [] t \in DOMAIN FileContracts -> FileContracts[t]
                       [] t \in DOMAIN DesktopContracts -> DesktopContracts[t]
                       [] t \in DOMAIN FrontendContracts -> FrontendContracts[t]
                       [] t \in DOMAIN CodeContracts -> CodeContracts[t]]

-----------------------------------------------------------------------------
(* facade_wire_request: the wire tool and its operation or action, if any. *)

FrontendOperation ==
    [frontend_session_start |-> "session_start", frontend_snapshot |-> "snapshot",
     frontend_inspect |-> "inspect", frontend_act |-> "act", frontend_source |-> "source",
     frontend_session_stop |-> "session_stop"]

NamedWire ==
    [projects_list |-> <<"project_read", "list_projects">>,
     project_add |-> <<"project_manage", "request_add_project">>,
     project_rename |-> <<"project_manage", "rename_project">>,
     project_remove |-> <<"project_manage", "remove_project">>,
     directory_list |-> <<"project_read", "list_directory">>,
     file_read |-> <<"project_read", "read_file">>,
     text_search |-> <<"project_read", "search_text">>,
     file_patch |-> <<"project_apply_patch", "none">>,
     file_delete |-> <<"project_apply_patch", "none">>,
     execute_shell |-> <<"project_shell", "start">>,
     shell_status |-> <<"project_shell", "poll">>,
     shell_cancel |-> <<"project_shell", "cancel">>,
     screen_list |-> <<"device_screenshot", "list_displays">>,
     screenshot_capture |-> <<"device_screenshot", "capture">>,
     browser_open |-> <<"device_desktop", "open_browser">>]

Wire(tool) ==
    IF tool \in DOMAIN NamedWire THEN NamedWire[tool]
    ELSE IF tool \in DOMAIN FrontendOperation THEN <<"project_frontend", FrontendOperation[tool]>>
    ELSE <<"project_code", tool>>

\* The tools whose input has no project_id.
WithoutProject == {"projects_list", "project_add", "screen_list"}

-----------------------------------------------------------------------------
(* What the relay demands.                                                 *)

FrontendScopes(operation) ==
    {"projects:read"} \cup
    CASE operation = "session_start" -> {"frontend:interact", "shell:execute"}
      [] operation \in {"snapshot", "inspect"} -> {"frontend:read"}
      [] operation = "source" -> {"frontend:read", "files:read"}
      [] operation \in {"act", "session_stop"} -> {"frontend:interact"}

RequiredScopes(wire) ==
    CASE wire[1] = "device_desktop" -> {"shell:execute"}
      [] wire[1] = "device_screenshot" -> {"screen:read"}
      [] wire[1] = "project_read" ->
             IF wire[2] = "list_projects" THEN {"projects:read"} ELSE {"projects:read", "files:read"}
      [] wire[1] = "project_apply_patch" -> {"projects:read", "files:read", "files:write"}
      [] wire[1] = "project_shell" -> {"projects:read", "shell:execute"}
      [] wire[1] = "project_manage" -> {"projects:read", "projects:write"}
      [] wire[1] = "project_code" ->
             {"projects:read", "files:read"} \cup (IF wire[2] \in CodeMetadata THEN {} ELSE {"shell:execute"})
      [] wire[1] = "project_frontend" -> FrontendScopes(wire[2])

Demanded(tool) ==
    RequiredScopes(Wire(tool)) \cup (IF tool \in WithoutProject THEN {} ELSE {"projects:read"})

ReplayUnsafe(wire) ==
    \/ wire[1] = "device_desktop" \/ wire = <<"project_shell", "start">>
    \/ wire \in {<<"project_frontend", "session_start">>, <<"project_frontend", "act">>}

-----------------------------------------------------------------------------
ScopeInit ==
    granted \in SUBSET ToolScopeNames /\ refused = NoTool /\ challenge = {} /\ obtained = NoTool

\* Only what the refused tool needs.
ChallengedForTool(tool) == Demanded(tool) \cap ToolScopeNames

Challenged(tool) == (granted \cup Demanded(tool)) \cap ToolScopeNames

Accepted(tool) == Demanded(tool) \subseteq granted

CallTool(tool) ==
    /\ refused' = IF Accepted(tool) THEN NoTool ELSE tool
    /\ challenge' = IF Accepted(tool) THEN {} ELSE Challenged(tool)
    /\ UNCHANGED <<granted, obtained>>

\* validate_scopes lets the client ask for any of the tools' scopes; the user agrees.
ConnectAgain ==
    /\ refused # NoTool /\ challenge \subseteq ToolScopeNames
    /\ granted' = challenge /\ challenge' = {} /\ refused' = NoTool
    /\ obtained' = IF obtained = NoTool THEN refused ELSE obtained

ScopeNext == (\E tool \in Tools : CallTool(tool)) \/ ConnectAgain

-----------------------------------------------------------------------------
\* What a client is told of a tool and what the relay does with it, which are kept in
\* several tables behind a mapping of names, agree: whatever was granted, the tool is
\* accepted exactly when the scopes it declares are there, and a client that repeats a
\* lost call only where the hints allow it never repeats an action that the relay
\* itself would not redeliver (FACADE_CONTRACTS, dispatch_tool, _is_replay_unsafe).
ContractsAgree ==
    \A tool \in Tools :
        /\ Accepted(tool) <=> Contracts[tool].scopes \subseteq granted
        /\ ReplayUnsafe(Wire(tool)) <=> ~Contracts[tool].read /\ ~Contracts[tool].idempotent

\* A client that connects again as it was told gets the tool, and keeps it when it
\* connects again for others: it is never sent back for it (mcp_server.py, _run).
OneReconnectIsEnough == refused # NoTool => refused # obtained
=============================================================================
