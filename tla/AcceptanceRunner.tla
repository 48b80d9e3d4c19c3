-------------------------- MODULE AcceptanceRunner --------------------------
(***************************************************************************)
(* The acceptance runner (xtask/src/acceptance.rs).  It reads its settings *)
(* from the process and a dotenv file, checks that a service is configured *)
(* and then works through the rows of a mode against a real service: each  *)
(* row starts the program as a child, calls one tool and prints one line.  *)
(* Some rows call a tool that changes the service; the others of these     *)
(* have it disabled and expect to be refused.                              *)
(*                                                                         *)
(* A row is left out as blocked when one of its settings is missing; no    *)
(* row ends the suite.  What a row prints is judged against what its child *)
(* and the service really did.                                             *)
(***************************************************************************)
EXTENDS Sequences, Integers, SequencesExt, ToolRegistry

CONSTANTS
    AcceptanceCommands, \* the commands given: a mode and an action
    Processes,          \* the settings the runner may be started with
    Files,              \* what may be found at the path of the dotenv file
    Dotenvs,            \* what a .env in the working directory may disable
    MaxTroubles         \* bound: the rows of one suite that do not go well

VARIABLES
    command, pc, children, exit, hung, dotenv, outside,
    process,    \* the settings of the process, a value for each key
    file,       \* the dotenv file: its kind, whether it was asked for, its lines
    env,        \* the settings in force
    row,        \* the row at work
    printed,    \* the status of each row that has been printed
    truth       \* how the child and the service really dealt with each row

own == <<process, file, env, row, printed, truth>>
vars == <<command, pc, children, exit, hung, dotenv, outside, own>>

-----------------------------------------------------------------------------
(* Settings.  A key is a pair of its prefix and its name; a key is unset,  *)
(* empty, blank (white space only) or has a value.                         *)

Jira(name) == <<"JIRA", name>>
Confluence(name) == <<"CONFLUENCE", name>>

Given(key) == env[key] = "value"

\* The file fills in what is unset or empty.
Merged(key) ==
    IF process[key] \in {"unset", "empty"} /\ key \in DOMAIN file.lines
      THEN file.lines[key] ELSE process[key]

HasAuth(prefix) ==
    \E p \in {prefix, "ATLASSIAN"} :
        \/ Given(<<p, "PERSONAL_TOKEN">>)
        \/ /\ Given(<<p, "USERNAME">>)
           /\ Given(<<p, "API_TOKEN">>) \/ Given(<<p, "PASSWORD">>)

NeededServices ==
    CASE command.mode = "jira" -> {"JIRA"}
      [] command.mode = "confluence" -> {"CONFLUENCE"}
      [] command.mode = "mcp" -> {"JIRA", "CONFLUENCE"}

BaseGiven == \A s \in NeededServices : Given(<<s, "URL">>) /\ HasAuth(s)

-----------------------------------------------------------------------------
(* The rows.                                                               *)

\* A row that calls a tool over stdio, and one whose tool is disabled.
Row(tool, required) ==
    [tool |-> tool, required |-> required, restricted |-> FALSE, transport |-> "stdio"]
Guarded(tool, required) ==
    [tool |-> tool, required |-> required, restricted |-> TRUE, transport |-> "stdio"]

JiraRows ==
    LET issue == Jira("READ_ISSUE")
        project == Jira("PROJECT_KEY")
        desk == Jira("SERVICE_DESK_ID")
    IN <<Row("jira_get_issue", {issue}),
         Row("jira_search_issues", {project}),
         Row("jira_list_project_issues", {project}),
         Row("jira_search_fields", {}),
         Row("jira_list_field_options", {Jira("FIELD_ID"), Jira("FIELD_CONTEXT_ID")}),
         Row("jira_list_issue_watchers", {issue}),
         Guarded("jira_remove_issue_watcher", {issue, Jira("WATCHER_USER")}),
         Guarded("jira_create_issue", {project}),
         Row("jira_list_agile_boards", {project}),
         Row("jira_get_project_service_desk", {project}),
         Row("jira_list_service_desk_queues", {desk}),
         Row("jira_list_service_desk_queue_issues", {desk, Jira("QUEUE_ID")}),
         Row("jira_get_issue_sla_metrics", {issue}),
         Row("jira_get_issue_development", {issue}),
         Row("jira_get_issues_development", {issue})>>

ConfluenceReadRows ==
    LET page == Confluence("PAGE_ID")
    IN <<Row("confluence_search_content", {Confluence("SEARCH_QUERY")}),
         Row("confluence_get_page", {page}),
         Row("confluence_list_page_children", {page}),
         Row("confluence_get_space_page_tree", {Confluence("SPACE_KEY")}),
         Row("confluence_list_page_comments", {page})>>

ConfluenceWriteRows ==
    LET page == Confluence("PAGE_ID")
        mutated == Confluence("MUTATION_PAGE_ID")
        create == {Confluence("SPACE_KEY"), Confluence("TEST_PAGE_PREFIX")}
    IN <<Guarded("confluence_create_page", create),
         Row("confluence_create_page", create),
         Row("confluence_update_page", {mutated, Confluence("TEST_PAGE_PREFIX")}),
         Guarded("confluence_delete_page", {mutated}),
         Guarded("confluence_move_page", {mutated, page}),
         Row("confluence_add_page_comment", {page}),
         Row("confluence_reply_to_comment", {Confluence("COMMENT_ID")}),
         Row("confluence_list_content_labels", {page}),
         Row("confluence_add_content_label", {page}),
         Row("confluence_get_page_view_analytics", {page})>>

ConfluenceAttachmentRows ==
    LET page == Confluence("PAGE_ID")
        attachment == Confluence("ATTACHMENT_ID")
        upload == {page, Confluence("ATTACHMENT_FILE")}
    IN <<Row("confluence_list_content_attachments", {page}),
         Row("confluence_download_attachment", {attachment}),
         Row("confluence_download_content_attachments", {page}),
         Row("confluence_get_content_image_attachments", {page}),
         Row("confluence_upload_content_attachment", upload),
         Row("confluence_upload_content_attachments", upload),
         Guarded("confluence_delete_attachment", {attachment})>>

McpRows ==
    LET get_issue == Row("jira_get_issue", {Jira("READ_ISSUE")})
        get_page == Row("confluence_get_page", {Confluence("PAGE_ID")})
    IN <<[Row("tools/list", {}) EXCEPT !.transport = "list"], get_issue, get_page,
         [get_issue EXCEPT !.transport = "http"], [get_page EXCEPT !.transport = "http"]>>

Rows ==
    CASE command.mode = "jira" -> JiraRows
      [] command.mode = "confluence" ->
            ConfluenceReadRows \o ConfluenceWriteRows \o ConfluenceAttachmentRows
      [] command.mode = "mcp" -> McpRows

Current == Rows[row]
OverHttp == Current.transport = "http"

-----------------------------------------------------------------------------
(* The child.                                                              *)

\* clean_env: no control of the process or the file reaches the child but the
\* disabled tool of a guarded row; over HTTP the child reads .env for itself.
CleanDisabled ==
    IF Current.restricted THEN {Current.tool} ELSE IF OverHttp THEN dotenv ELSE {}

ChildTools == EnabledBy(AllToolsets, {}, CleanDisabled)

\* The rows' tools that report a product which is not there in the answer.
ProductBound ==
    {"jira_list_agile_boards", "jira_get_project_service_desk", "jira_list_service_desk_queues",
     "jira_list_service_desk_queue_issues", "jira_get_issue_development"}

\* Those that answer without an error flag although a request of theirs failed, or was
\* not made: each failure is told inside the answer, or something is left out of it.
Swallowing ==
    {"jira_get_issues_development", "confluence_list_page_children",
     "confluence_get_page_view_analytics", "confluence_download_content_attachments",
     "confluence_get_content_image_attachments", "confluence_upload_content_attachments"}

\* What may come of a call that the child passes on to the service.
ServiceAnswers ==
    {"served", "error"}
        \cup (IF Current.tool \in ProductBound THEN {"product"} ELSE {})
        \cup (IF Current.tool \in Swallowing THEN {"swallowed"} ELSE {})

\* How a child that follows its settings deals with a call.
Followed ==
    IF Current.transport = "list"
      THEN {IF {"jira_get_issue", "confluence_get_page"} \subseteq ChildTools
              THEN "served" ELSE "hidden"}
      ELSE IF Current.tool \in ChildTools THEN ServiceAnswers ELSE {"refused"}

\* classify_response, and the test of the listing.  Only an error, an error flag and a
\* missing product are looked for: an answer with neither a result nor an error is ok.
Classified(answer) ==
    CASE Current.restricted -> IF answer = "refused" THEN "ok" ELSE "failed"
      [] ~Current.restricted /\ answer \in {"served", "swallowed"} -> "ok"
      [] ~Current.restricted /\ answer = "hollow" /\ Current.transport # "list" -> "ok"
      [] ~Current.restricted /\ answer = "product" -> "blocked"
      [] OTHER -> "failed"

-----------------------------------------------------------------------------
(* The runner.                                                             *)

ExitOf(status) == CASE status = "ok" -> 0 [] status = "blocked" -> 2 [] OTHER -> 1
End(code) == pc' = "done" /\ exit' = code

\* load_env: a file that was asked for must be there, and every line must parse.
LoadEnv ==
    /\ pc = "load"
    /\ IF file.kind = "broken" \/ (file.kind = "missing" /\ file.asked_for)
         THEN End(1) /\ UNCHANGED env
         ELSE /\ env' = IF file.kind = "missing" THEN process
                        ELSE [key \in DOMAIN process |-> Merged(key)]
              /\ pc' = "preflight" /\ UNCHANGED exit
    /\ UNCHANGED <<command, children, hung, dotenv, outside, process, file, row,
                   printed, truth>>

Preflight ==
    /\ pc = "preflight"
    /\ CASE ~BaseGiven -> End(2)
         [] BaseGiven /\ command.action = "preflight" -> End(0)
         [] OTHER -> pc' = "row" /\ UNCHANGED exit
    /\ UNCHANGED <<command, children, hung, dotenv, outside, own>>

\* Fault: the suite ends at the first row that is not ok.
Fault_Tell(status) ==
    /\ printed' = Append(printed, status)
    /\ IF row = Len(Rows) \/ status # "ok"
         THEN pc' = "tally" /\ UNCHANGED row
         ELSE pc' = "row" /\ row' = row + 1

Tell(status) ==
    /\ printed' = Append(printed, status)
    /\ IF row = Len(Rows) THEN pc' = "tally" /\ UNCHANGED row
       ELSE pc' = "row" /\ row' = row + 1

Truth(answer) == truth' = [truth EXCEPT ![row] = answer]

\* A row starts its child, unless a setting it needs is missing.
StartRow ==
    /\ pc = "row"
    /\ IF \A key \in Current.required : Given(key)
         THEN /\ children' = children \cup {row} /\ pc' = "call"
              /\ UNCHANGED <<row, printed>>
         ELSE Tell("blocked") /\ UNCHANGED children
    /\ UNCHANGED <<command, exit, hung, dotenv, outside, process, file, env, truth>>

\* The bound on what goes wrong: it stops the environment, never the runner.
Troubles == {i \in DOMAIN truth : truth[i] \notin {"none", "served", "refused", "hidden"}}
MoreTrouble == Cardinality(Troubles) < MaxTroubles

\* The child answers, and is ended before the line is printed.
EndRow(answer, status) ==
    /\ Truth(answer) /\ Tell(status)
    /\ children' = children \ {row}

Answered ==
    /\ pc = "call" /\ ~hung
    /\ \E answer \in Followed :
          /\ answer \in {"error", "product", "swallowed"} => MoreTrouble
          /\ EndRow(answer, Classified(answer))
    /\ UNCHANGED <<command, exit, hung, dotenv, outside, process, file, env>>

\* The child deviates: it does not start, answers no JSON, or none in 15 seconds,
\* though what it was asked may have been done.
Unanswered ==
    /\ pc = "call" /\ ~hung /\ MoreTrouble
    /\ EndRow("unanswered", "failed")
    /\ UNCHANGED <<command, exit, hung, dotenv, outside, process, file, env>>

\* The child runs the tool that it was told to disable, or its answer is a message that
\* holds neither a result nor an error.
Deviated ==
    /\ pc = "call" /\ ~hung /\ MoreTrouble
    /\ \/ Current.restricted /\ EndRow("disobeyed", Classified("served"))
       \/ EndRow("hollow", Classified("hollow"))
    /\ UNCHANGED <<command, exit, hung, dotenv, outside, process, file, env>>

\* Over HTTP the answer is waited for without a deadline.
NoAnswer ==
    /\ pc = "call" /\ ~hung /\ OverHttp
    /\ hung' = TRUE
    /\ UNCHANGED <<command, pc, children, exit, dotenv, outside, own>>

\* The highest exit code of the rows.
Tally ==
    /\ pc = "tally"
    /\ LET codes == {ExitOf(printed[i]) : i \in DOMAIN printed}
       IN End(CHOOSE c \in codes : \A d \in codes : d <= c)
    /\ UNCHANGED <<command, children, hung, dotenv, outside, own>>

OwnInit ==
    /\ process \in Processes
    /\ file \in Files
    /\ env = process
    /\ row = 1 /\ printed = <<>>
    /\ truth = [i \in DOMAIN Rows |-> "none"]

Init ==
    /\ command \in AcceptanceCommands
    /\ pc = "load" /\ children = {} /\ exit = -1 /\ hung = FALSE
    /\ dotenv \in Dotenvs
    /\ outside = {}
    /\ OwnInit

Next ==
    \/ LoadEnv \/ Preflight \/ StartRow \/ Answered \/ Unanswered \/ Deviated
    \/ NoAnswer \/ Tally
=============================================================================
