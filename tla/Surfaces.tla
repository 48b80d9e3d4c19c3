------------------------------ MODULE Surfaces ------------------------------
(***************************************************************************)
(* One operation from the command or call that asks for it to the exit     *)
(* code or the answer that tells how it went.  `workhub cli` and the MCP   *)
(* server run the same operations (src/operations/) behind two surfaces:   *)
(*                                                                         *)
(*   cli:  command line, configuration, long inputs  \                     *)
(*                                                    guard, arguments,    *)
(*   mcp:  route and tool controls, arguments        /  client, requests   *)
(*                                                                         *)
(* and each surface tells the operation's result in its own way.  What an  *)
(* operation asks of the server is a plan, a sequence of requests of four  *)
(* kinds; what the other modules check of one operation's requests is not  *)
(* repeated here.  The server is external: a request is refused, carried   *)
(* out and answered, or carried out and its answer lost or not understood. *)
(***************************************************************************)
EXTENDS Naturals, Sequences, FiniteSets, ToolRegistry

CONSTANT MaxRepeats        \* bound: the requests of a batch or a walk

ASSUME RepeatsAssumption == MaxRepeats \in Nat \ {0}

VARIABLES
  call,     \* the surface, the tool, whether its tool controls, its service's
            \* configuration and its project filter let it through
  pc,       \* the next step
  inputs,   \* CLI: the long inputs and numbers still to be read
  plan,     \* the requests the operation makes of the server
  sent,     \* how many of them were sent
  applied,  \* the requests the server carried out (history)
  result,   \* what the operation returned
  told      \* what the caller got

vars == <<call, pc, inputs, plan, sent, applied, result, told>>

None == [status |-> "none"]
Ok == [status |-> "ok"]
Business == [status |-> "business"]   \* a result with its error flag set
Error(category) == [status |-> "error", category |-> category]
Categories == {"invalid_input", "config", "service_unavailable", "upstream"}

-----------------------------------------------------------------------------
(* What a command reads before it asks for the operation: texts given      *)
(* inline, in a file or on standard input, JSON inline or in a file, and   *)
(* numbers (the functions of src/cli/).  A reading with a ? may be absent. *)

JiraIssueInputs(tool) ==
  CASE tool = "jira_create_issue" -> <<"text?", "json?">>
    [] tool = "jira_create_issues" -> <<"json">>
    [] tool = "jira_update_issue" -> <<"json">>
    [] OTHER -> <<>>

JiraDetailInputs(tool) ==
  CASE tool \in {"jira_add_issue_comment", "jira_update_issue_comment"} -> <<"text", "json?">>
    [] tool = "jira_transition_issue" -> <<"json?", "text?">>
    [] tool = "jira_add_issue_worklog" -> <<"text?", "json?">>
    [] tool = "jira_create_issue_link" -> <<"text?">>
    [] tool = "jira_create_remote_issue_link" -> <<"json?">>
    [] OTHER -> <<>>

JiraProjectInputs(tool) ==
  IF tool = "jira_create_project_versions" THEN <<"json">> ELSE <<>>

JiraAgileInputs(tool) ==
  IF tool \in {"jira_list_board_issues", "jira_list_board_sprints", "jira_list_sprint_issues",
               "jira_create_sprint", "jira_update_sprint", "jira_add_issues_to_sprint"}
  THEN <<"number">> ELSE <<>>

ConfluenceInputs(tool) ==
  IF tool \in {"confluence_create_page", "confluence_update_page",
               "confluence_add_page_comment", "confluence_reply_to_comment"}
  THEN <<"text">> ELSE <<>>

GitlabInputs(tool) ==
  CASE tool = "gitlab_create_merge_request" -> <<"text?", "number?", "number?">>
    [] tool = "gitlab_update_merge_request" -> <<"text?", "number", "number?", "number?">>
    [] tool = "gitlab_set_merge_request_approval" -> <<"number", "action">>
    [] tool \in {"gitlab_add_merge_request_note", "gitlab_reply_merge_request_discussion"} ->
         <<"text", "number">>
    [] tool \in ToolsOf.gitlab \ {"gitlab_get_current_user", "gitlab_get_project",
                                  "gitlab_list_merge_requests"} -> <<"number">>
    [] OTHER -> <<>>

CliInputs(tool) ==
  JiraIssueInputs(tool) \o JiraDetailInputs(tool) \o JiraProjectInputs(tool)
    \o JiraAgileInputs(tool) \o ConfluenceInputs(tool) \o GitlabInputs(tool)

-----------------------------------------------------------------------------
(* The requests of each operation.  A request reads, adds something new,   *)
(* replaces what is there, or erases it.                                   *)

Repeat(kind) == {[i \in 1..n |-> kind] : n \in 0..MaxRepeats}

\* Annotated as additive though they may replace: Jira replaces the remote link that has
\* the globalId of the new one, and the remaining estimate if a worklog brings another.
Renewing == {"jira_create_remote_issue_link", "jira_add_issue_worklog"}

JiraIssuePlans(tool) ==
  CASE tool \in {"jira_create_issue", "jira_create_issues", "jira_add_issue_watcher",
                 "jira_create_issue_link"} -> {<<"add">>}
    [] tool \in Renewing -> {<<"add">>, <<"replace">>}
    [] tool \in {"jira_update_issue", "jira_set_issue_parent"} -> {<<"replace">>}
    [] tool \in {"jira_delete_issue", "jira_remove_issue_watcher",
                 "jira_delete_issue_link"} -> {<<"erase">>}
    [] tool = "jira_get_issue_changelogs" -> {<<>>, <<"read">>}   \* only on Jira Cloud
    [] OTHER -> {}

JiraDetailPlans(tool) ==
  CASE tool = "jira_add_issue_comment" -> {<<"add">>}
    [] tool \in {"jira_update_issue_comment", "jira_transition_issue"} -> {<<"replace">>}
    [] tool \in {"jira_get_issue_attachments", "jira_get_issue_image_attachments"} ->
         {<<"read">> \o contents : contents \in Repeat("read")}
    [] tool = "jira_create_project_version" -> {<<"add">>}
    [] tool = "jira_create_project_versions" -> Repeat("add")
    [] OTHER -> {}

\* A sprint is started once it was created.
Fault_JiraAgilePlans(tool) ==
  CASE tool = "jira_create_sprint" -> {<<"add", "replace">>}
    [] tool \in {"jira_update_sprint", "jira_add_issues_to_sprint"} -> {<<"replace">>}
    [] OTHER -> {}

JiraAgilePlans(tool) ==
  CASE tool = "jira_create_sprint" -> {<<"add">>}
    [] tool \in {"jira_update_sprint", "jira_add_issues_to_sprint"} -> {<<"replace">>}
    [] OTHER -> {}

\* Field options on Jira Cloud: the context is looked up unless it is given.
JiraLookupPlans(tool) ==
  CASE tool = "jira_list_field_options" -> {<<"read">>, <<"read", "read", "read">>}
    [] tool = "jira_get_issue_development" -> {<<"read">>, <<"read", "read">>}
    [] tool \in {"jira_search_issues", "jira_list_project_issues"} ->
         {<<"read">>, <<"read", "read">>}
    [] tool = "jira_get_issues_development" -> Repeat("read")
    [] OTHER -> {}

\* An emoji is a property of the page that was just made, or is replaced.
ConfluencePagePlans(tool) ==
  CASE tool = "confluence_create_page" -> {<<"add">>, <<"add", "add">>}
    [] tool = "confluence_update_page" -> {<<"read", "replace">>, <<"read", "replace", "replace">>}
    [] tool = "confluence_move_page" -> {<<"replace", "read">>, <<"read", "replace">>}
    [] tool = "confluence_delete_page" -> {<<"erase">>}
    [] tool = "confluence_get_page_diff" -> {<<"read">>, <<"read", "read">>}
    [] OTHER -> {}

\* An upload is a PUT: it replaces an attachment of the same name.
ConfluenceContentPlans(tool) ==
  CASE tool \in {"confluence_add_page_comment", "confluence_reply_to_comment"} -> {<<"add">>}
    [] tool = "confluence_add_content_label" -> {<<"add", "read">>}
    [] tool = "confluence_delete_attachment" -> {<<"erase">>}
    [] tool = "confluence_upload_content_attachment" -> {<<"replace">>}
    [] tool = "confluence_upload_content_attachments" -> Repeat("replace")
    [] tool = "confluence_get_page_view_analytics" -> {<<>>, <<"read">>, <<"read", "read">>}
    [] tool = "confluence_download_attachment" -> {<<"read", "read">>}
    [] tool \in {"confluence_search_content", "confluence_search_users",
                 "confluence_list_page_children", "confluence_get_space_page_tree",
                 "confluence_download_content_attachments",
                 "confluence_get_content_image_attachments"} -> Repeat("read") \ {<<>>}
    [] OTHER -> {}

GitlabPlans(tool) ==
  CASE tool \in {"gitlab_create_merge_request", "gitlab_add_merge_request_note",
                 "gitlab_reply_merge_request_discussion"} -> {<<"add">>}
    [] tool \in {"gitlab_update_merge_request", "gitlab_resolve_merge_request_discussion",
                 "gitlab_set_merge_request_approval", "gitlab_accept_merge_request"} ->
         {<<"replace">>}
    [] OTHER -> {}

\* Every other operation is one read.
Plans(tool) ==
  LET listed == UNION {JiraIssuePlans(tool), JiraDetailPlans(tool), JiraAgilePlans(tool),
                       JiraLookupPlans(tool), ConfluencePagePlans(tool),
                       ConfluenceContentPlans(tool), GitlabPlans(tool)}
  IN IF listed = {} THEN {<<"read">>} ELSE listed

Batches == {"jira_create_project_versions", "jira_get_issues_development",
            "confluence_upload_content_attachments"}

\* The failure of request i is passed over: the rest of a batch goes on, an emoji or
\* a content that cannot be had is told in the answer, a title is left out.
PassedOver(i) ==
  \/ call.tool \in Batches
  \/ call.tool = "confluence_create_page" /\ i = 2
  \/ call.tool = "confluence_update_page" /\ i = 3
  \/ call.tool = "confluence_get_page_view_analytics" /\ i < Len(plan)
  \/ i > 1 /\ call.tool \in {"jira_get_issue_attachments", "jira_get_issue_image_attachments",
                             "confluence_get_content_image_attachments"}

\* Some failures of a search lead to a second attempt, and a content among listed ones
\* that cannot be had is told in the answer.
MayPassOver(i) ==
  \/ i < Len(plan) /\ call.tool \in {"confluence_search_content", "jira_search_issues",
                                    "jira_list_project_issues"}
  \/ i > 1 /\ call.tool = "confluence_download_content_attachments"

\* The operations that tell every failure of the client in a result of their own.
Catching == {"confluence_delete_page", "confluence_add_page_comment",
             "confluence_reply_to_comment", "confluence_upload_content_attachment",
             "confluence_delete_attachment"}

\* Those that do so for some failures, and those that take them for a product that
\* is not installed, which is no failure.
Excusing == {"confluence_get_page", "confluence_search_users",
             "confluence_get_page_view_analytics", "confluence_download_attachment"}
Lenient == {"jira_list_agile_boards", "jira_list_board_issues", "jira_list_board_sprints",
            "jira_list_sprint_issues", "jira_get_project_service_desk",
            "jira_list_service_desk_queues", "jira_list_service_desk_queue_issues",
            "jira_get_issue_development"}

\* The answer to a move is judged as the answers to some reads are.
Fault_Judging == {"jira_list_field_options", "confluence_move_page"}

\* Those that may turn down what a read brought.
Judging == {"jira_list_field_options", "jira_get_issue_development", "jira_search_issues",
            "jira_list_project_issues", "confluence_list_page_children"}

\* The operations that name a project, or an issue by its key, the filter is about.
JiraScoped == {
  "jira_get_issue", "jira_get_issue_timeline", "jira_get_issue_sla_metrics",
  "jira_update_issue", "jira_set_issue_parent", "jira_delete_issue",
  "jira_list_issue_watchers", "jira_add_issue_watcher", "jira_remove_issue_watcher",
  "jira_list_issue_worklogs", "jira_add_issue_worklog", "jira_create_remote_issue_link",
  "jira_add_issue_comment", "jira_update_issue_comment", "jira_list_issue_transitions",
  "jira_transition_issue", "jira_get_issue_attachments", "jira_get_issue_image_attachments",
  "jira_list_project_issues", "jira_list_project_versions", "jira_list_project_components",
  "jira_get_issue_development"}
GitlabScoped == ToolsOf.gitlab \ {"gitlab_get_current_user"}
Scoped == JiraScoped \cup GitlabScoped

-----------------------------------------------------------------------------
(* The two surfaces, up to the operation.                                  *)

Calls == [surface : {"cli", "mcp"}, tool : RegisteredTools,
          enabled : BOOLEAN, configured : BOOLEAN, in_scope : BOOLEAN]

Init ==
  /\ call \in {c \in Calls : c.in_scope \/ c.tool \in Scoped}
  /\ pc = (IF call.surface = "cli" THEN "command" ELSE "route")
  /\ inputs = (IF call.surface = "cli" THEN CliInputs(call.tool) ELSE <<>>)
  /\ plan \in Plans(call.tool)
  /\ sent = 0 /\ applied = {} /\ result = None /\ told = None

Return(r) == result' = r /\ pc' = "tell" /\ UNCHANGED <<sent, applied, told>>
GoOn(to) == pc' = to /\ UNCHANGED <<sent, applied, result, told>>
Exit(code) == told' = [exit |-> code] /\ pc' = "done" /\ UNCHANGED <<sent, applied, result>>

\* CLI: the parser ends the process on a bad command line, a required input that is
\* absent or given twice; the environment file and the configuration come next.
CommandLine ==
  /\ pc = "command"
  /\ \/ Exit(2)
     \/ Return(Error("config"))
     \/ GoOn("read")
  /\ UNCHANGED <<call, inputs, plan>>

\* CLI: the inputs are read one after the other, before any check of the operation.
ReadInput ==
  /\ pc = "read"
  /\ IF inputs = <<>>
       THEN GoOn("guard") /\ UNCHANGED inputs
       ELSE /\ inputs' = Tail(inputs)
            /\ \/ Return(Error("invalid_input"))   \* unreadable, not JSON, not a number
               \/ GoOn("read")
  /\ UNCHANGED <<call, plan>>

\* MCP: a tool that is disabled or whose service is not configured is not available,
\* and arguments that do not fit its schema are not passed on.
Route ==
  /\ pc = "route"
  /\ \/ /\ told' = [mcp |-> "invalid_params"] /\ pc' = "done"
        /\ UNCHANGED <<sent, applied, result>>
     \/ call.enabled /\ call.configured /\ GoOn("guard")
  /\ UNCHANGED <<call, inputs, plan>>

-----------------------------------------------------------------------------
(* The operation.                                                          *)

\* guard_operation: the tool controls are for MCP only.
Guard ==
  /\ pc = "guard"
  /\ IF call.configured THEN GoOn("arguments") ELSE Return(Error("service_unavailable"))
  /\ UNCHANGED <<call, inputs, plan>>

\* The arguments are checked, and then the client is built.
Arguments ==
  /\ pc = "arguments"
  /\ \/ Return(Error("invalid_input"))
     \/ \E category \in {"config", "invalid_input", "upstream"} : Return(Error(category))
     \/ GoOn("client")
  /\ UNCHANGED <<call, inputs, plan>>

\* What a failure of the client becomes.
Failure(category) == IF call.tool \in Catching THEN Business ELSE Error(category)

\* What ensure_issue_allowed and ensure_project_allowed make of a filtered project.
Filtered == [status |-> "error", category |-> "invalid_input", by |-> "filter"]

\* The client's own checks: the project filter, and that what becomes part of a path
\* can be one.
Client ==
  /\ pc = "client"
  /\ \/ Return(Failure("invalid_input"))
     \/ ~call.in_scope /\ Return(Filtered)
     \/ call.in_scope /\ GoOn("send")
  /\ UNCHANGED <<call, inputs, plan>>

FailedRequest(i) ==
  \/ (PassedOver(i) \/ MayPassOver(i)) /\ UNCHANGED <<pc, result>>
  \/ /\ ~PassedOver(i)
     /\ pc' = "tell"
     /\ \/ result' = Failure("upstream")
        \/ /\ call.tool \in Excusing
           /\ i = Len(plan) \/ call.tool = "confluence_search_users"
           /\ result' = Business
        \/ call.tool \in Lenient /\ i = Len(plan) /\ result' = Ok

\* One request after the other.
Send ==
  /\ pc = "send" /\ sent < Len(plan)
  /\ sent' = sent + 1
  /\ \/ applied' = applied \cup {sent + 1} /\ UNCHANGED <<pc, result>>
     \/ applied' \in {applied, applied \cup {sent + 1}} /\ FailedRequest(sent + 1)
     \/ /\ call.tool \in Judging /\ plan[sent + 1] = "read"
        /\ applied' = applied \cup {sent + 1}
        /\ pc' = "tell" /\ result' = Error("invalid_input")
  /\ UNCHANGED <<call, inputs, plan, told>>

Finish ==
  /\ pc = "send" /\ sent = Len(plan)
  /\ Return(Ok)
  /\ UNCHANGED <<call, inputs, plan>>

-----------------------------------------------------------------------------
(* Telling the result.                                                     *)

ExitCode(category) ==
  CASE category = "invalid_input" -> 2
    [] category \in {"config", "service_unavailable"} -> 3
    [] OTHER -> 4

McpError(category) ==
  IF category = "upstream" THEN "internal_error" ELSE "invalid_params"

\* A result with its error flag set is printed like any other.
Fault_TellCli ==
  /\ pc = "tell" /\ call.surface = "cli" /\ pc' = "done"
  /\ told' = [exit |-> IF result.status = "error" THEN ExitCode(result.category) ELSE 0]
  /\ UNCHANGED <<call, inputs, plan, sent, applied, result>>

\* Only a success is printed to standard output; a standard output nobody reads ends
\* the process there (101), after the operation.
TellCli ==
  /\ pc = "tell" /\ call.surface = "cli" /\ pc' = "done"
  /\ CASE result.status = "ok" -> \E code \in {0, 101} : told' = [exit |-> code]
       [] result.status = "business" -> told' = [exit |-> 5]
       [] OTHER -> told' = [exit |-> ExitCode(result.category)]
  /\ UNCHANGED <<call, inputs, plan, sent, applied, result>>

TellMcp ==
  /\ pc = "tell" /\ call.surface = "mcp" /\ pc' = "done"
  /\ told' = [mcp |-> CASE result.status = "ok" -> "result"
                        [] result.status = "business" -> "error_result"
                        [] OTHER -> McpError(result.category)]
  /\ UNCHANGED <<call, inputs, plan, sent, applied, result>>

Next ==
  \/ CommandLine \/ ReadInput \/ Route \/ Guard \/ Arguments \/ Client
  \/ Send \/ Finish \/ TellCli \/ TellMcp

Spec == Init /\ [][Next]_vars

-----------------------------------------------------------------------------

Told(exits, answers) ==
  /\ pc = "done"
  /\ IF call.surface = "cli" THEN told.exit \in exits ELSE told.mcp \in answers
Writes == {i \in DOMAIN plan : plan[i] # "read"}

\* A caller told that a call was not accepted may correct it and call again: nothing was
\* written.  An exit with code 2 or 3, or an invalid_params error, leaves the server as it
\* was, whatever the operation had read by then; exit code 3 means nothing was even sent
\* (OperationError::exit_code, operation_error_to_mcp and every operation behind them).
RefusedMeansUntouched ==
  /\ Told({2, 3}, {"invalid_params"}) => applied \cap Writes = {}
  /\ Told({3}, {}) => sent = 0

\* A caller told of success need not look: exit code 0, or an answer without the error
\* flag, means every request of the operation was sent and each of its writes carried
\* out, but for batches and emojis, whose answers tell each failure.
SuccessMeansDone ==
  Told({0}, {"result"}) =>
    \A i \in Writes : i <= sent /\ (i \in applied \/ PassedOver(i))

\* What a tool is annotated as for MCP clients, against every request it sends on either
\* surface (tool_registry's annotations and the operations' requests): a read-only tool
\* only reads, and an additive one erases nothing.  That an additive one replaces nothing
\* either is not so of two tools; it holds of all the others.
AnnotationHolds ==
  /\ ReadOnly(call.tool) => \A i \in 1..sent : plan[i] = "read"
  /\ ~Destructive(call.tool) =>
       \A i \in 1..sent :
          plan[i] \in {"read", "add"} \/ (plan[i] = "replace" /\ call.tool \in Renewing)

=============================================================================
