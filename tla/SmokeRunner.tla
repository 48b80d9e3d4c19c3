---------------------------- MODULE SmokeRunner ----------------------------
(***************************************************************************)
(* The smoke runner (xtask/src/smoke.rs).  A command is a sequence of      *)
(* sessions; a session builds the program, starts a mock of one service    *)
(* and runs phases against it: an MCP conversation over stdio or over      *)
(* HTTP, one whose write tool is disabled, or one command of the CLI.      *)
(* Each phase starts the program as a child, talks to it step by step and  *)
(* ends it; the first step that does not go as expected ends the command.  *)
(*                                                                         *)
(* The child follows the registry and the settings it was given, or        *)
(* deviates: it answers something else, does not answer, lists another set *)
(* of tools, sends the write that should be blocked at any time while it   *)
(* runs, or answers without asking the service.  The runner's verdict is   *)
(* judged against what the child really did.                               *)
(***************************************************************************)
EXTENDS Sequences, Integers, SequencesExt, ToolRegistry

CONSTANTS
    SmokeCommands,  \* the commands given, of the form below
    Dotenvs,        \* what a .env in the working directory may disable
    MaxStrays       \* bound: the writes that a server sends of its own accord

VARIABLES
    command,    \* the command line, see SmokeCommands
    pc,         \* "build", "bind", "run", "close", "unbind" or "done"
    at,         \* [session, phase, step]: where the command stands
    verdict,    \* "ok", or "failed" once a step has not gone as expected
    children,   \* the phases whose child has not been ended and waited for
    mocks,      \* the sessions whose mock is up
    record,     \* the requests the mock of this session has received
    exit,       \* the exit code, -1 before the end
    hung,       \* the runner waits for an answer that will not come
    dotenv,     \* the tools that .env in the working directory disables
    deviations, \* what the child did that it should not have, and where
    outside     \* what went wrong outside the child

own == <<at, verdict, mocks, record, deviations>>
vars == <<command, pc, at, verdict, children, mocks, record, exit, hung, dotenv,
          deviations, outside>>

SmokeServices == <<"jira", "confluence", "gitlab">>
Kinds == {"stdio", "http", "restricted", "text", "json", "controls"}

-----------------------------------------------------------------------------
(* The commands.                                                           *)

Session(service, phases) == [service |-> service, phases |-> phases]

PhasesOf(mode) == IF mode = "all" THEN <<"stdio", "http", "restricted">> ELSE <<mode>>

\* cargo xtask smoke, without a target.
BareSmoke ==
    <<Session("jira", <<"stdio">>), Session("jira", <<"http">>),
      Session("jira", <<"restricted">>),
      Session("confluence", PhasesOf("all")), Session("gitlab", PhasesOf("all"))>>

\* Fault: the three commands of the CLI share one mock.
Fault_CliSessions(service) == <<Session(service, <<"text", "json", "controls">>)>>

\* The command that must reach the mock has one of its own.
CliSessions(service) ==
    <<Session(service, <<"text", "json">>), Session(service, <<"controls">>)>>

Sessions ==
    CASE command.target = "bare" -> BareSmoke
      [] command.target = "mcp"  -> <<Session(command.service, PhasesOf(command.mode))>>
      [] command.target = "cli"  ->
            IF command.service = "all"
              THEN FlattenSeq([i \in DOMAIN SmokeServices |-> CliSessions(SmokeServices[i])])
              ELSE CliSessions(command.service)

-----------------------------------------------------------------------------
(* What each phase asks, and what the mock serves.                         *)

\* The tools that a phase calls, and that tools/list must name.
Calls(service) ==
    CASE service = "jira" -> <<"jira_get_issue", "jira_list_issue_worklogs",
            "jira_list_agile_boards", "jira_get_issue_timeline", "jira_get_issue_sla_metrics">>
      [] service = "confluence" -> <<"confluence_search_content", "confluence_get_page">>
      [] service = "gitlab" -> <<"gitlab_get_current_user", "gitlab_get_project",
            "gitlab_list_merge_requests">>

WriteTool(service) ==
    CASE service = "jira" -> "jira_create_issue"
      [] service = "confluence" -> "confluence_create_page"
      [] service = "gitlab" -> "gitlab_create_merge_request"

\* The request of the tool that is disabled in the restricted phase.
Forbidden(service) ==
    CASE service = "jira" -> <<"POST", "issue">>
      [] service = "confluence" -> <<"POST", "content">>
      [] service = "gitlab" -> <<"POST", "merge_requests">>

\* The request of the command that writes through the CLI.
Written(service) ==
    CASE service = "jira" -> <<"POST", "comment">>
      [] service = "confluence" -> <<"POST", "content">>
      [] service = "gitlab" -> <<"POST", "merge_requests">>

JiraServed ==
    {<<"GET", "issue">>, <<"GET", "transitions">>, <<"GET", "worklog">>, <<"GET", "board">>,
     <<"GET", "field">>, <<"POST", "search">>, <<"POST", "comment">>,
     <<"POST", "transitions">>, <<"PUT", "comment">>}
ConfluenceServed == {<<"GET", "search">>, <<"GET", "content">>, <<"POST", "content">>}
GitlabServed ==
    {<<"GET", "user">>, <<"GET", "project">>, <<"GET", "merge_requests">>,
     <<"POST", "merge_requests">>}

Served(service) ==
    CASE service = "jira" -> JiraServed
      [] service = "confluence" -> ConfluenceServed
      [] service = "gitlab" -> GitlabServed

\* The request that a tool called by a phase sends.
Asks(tool) ==
    CASE tool \in {"jira_get_issue", "jira_get_issue_timeline",
                   "jira_get_issue_sla_metrics"} -> <<"GET", "issue">>
      [] tool = "jira_list_issue_worklogs" -> <<"GET", "worklog">>
      [] tool = "jira_list_agile_boards" -> <<"GET", "board">>
      [] tool = "confluence_search_content" -> <<"GET", "search">>
      [] tool = "confluence_get_page" -> <<"GET", "content">>
      [] tool = "gitlab_get_current_user" -> <<"GET", "user">>
      [] tool = "gitlab_get_project" -> <<"GET", "project">>
      [] tool = "gitlab_list_merge_requests" -> <<"GET", "merge_requests">>

TextRead(service) ==
    CASE service = "jira" -> <<"GET", "issue">>
      [] service = "confluence" -> <<"GET", "content">>
      [] service = "gitlab" -> <<"GET", "project">>

CliRequest(kind, service) ==
    IF kind = "text" THEN TextRead(service) ELSE Written(service)

StdioSteps(service) == <<"start", "initialize", "list">> \o Calls(service)
HttpSteps(service) ==
    <<"start", "health", "initialize", "initialized", "list">> \o Calls(service)
RestrictedSteps(service) == <<"start", "initialize", "list", WriteTool(service), "record">>

Steps(kind, service) ==
    CASE kind = "stdio" -> StdioSteps(service)
      [] kind = "http" -> HttpSteps(service)
      [] kind = "restricted" -> RestrictedSteps(service)
      [] kind \in {"text", "json"} -> <<"start", "output">>
      [] kind = "controls" -> <<"start", "output", "record">>

Service == Sessions[at.session].service
Phases == Sessions[at.session].phases
Kind == Phases[at.phase]
Step == Steps(Kind, Service)[at.step]
OverHttp == Kind = "http"
OfCli == Kind \in {"text", "json", "controls"}

\* Where something happened.
Here == [session |-> at.session, kind |-> Kind, step |-> IF pc = "run" THEN Step ELSE pc]

-----------------------------------------------------------------------------
(* The child.                                                              *)

SmokeToolsets(service) ==
    CASE service = "jira" -> {"jira_issue_worklogs_read", "jira_agile_boards_read",
            "jira_sprints_read", "jira_issue_metrics_read", "jira_issue_sla_read"}
      [] service = "confluence" -> {"confluence_content_write"}
      [] service = "gitlab" -> {"gitlab_merge_requests_write", "gitlab_merge_requests_merge"}

\* The server over HTTP reads .env in the working directory, and takes what the
\* environment it was given does not set.
Disabled ==
    IF Kind = "restricted" THEN {WriteTool(Service)} ELSE IF OverHttp THEN dotenv ELSE {}

\* What a child that follows its settings lists.
Listing == EnabledBy(Basic \cup SmokeToolsets(Service), {}, Disabled) \cap ToolsOf[Service]

\* The listings that differ from it in a tool that the phase looks for.
OtherListings ==
    {Listing \ {t} : t \in Listing \cap (ToSet(Calls(Service)) \cup {WriteTool(Service)})}
        \cup (IF Kind = "restricted" THEN {Listing \cup {WriteTool(Service)}} ELSE {})

\* assert_required_tools
ListingAsExpected(names) ==
    /\ ToSet(Calls(Service)) \subseteq names
    /\ WriteTool(Service) \in names <=> Kind # "restricted"

\* A call of a tool over MCP, and how a child that follows its settings answers.
IsCall == Step \in ToSet(Calls(Service)) \cup {WriteTool(Service)}
Runs(tool) == tool \in Listing
CallAsExpected ==
    IF Step = WriteTool(Service) THEN ~Runs(Step)
    ELSE Runs(Step) /\ Asks(Step) \in Served(Service)
CallSends ==
    IF ~Runs(Step) \/ (OverHttp /\ "port" \in outside) THEN {}
    ELSE {IF Step = WriteTool(Service) THEN Forbidden(Service) ELSE Asks(Step)}

-----------------------------------------------------------------------------
(* The runner.                                                             *)

End(code) == pc' = "done" /\ exit' = code

\* cargo build: before each session of the MCP phases, once for the CLI.
Build ==
    /\ pc = "build"
    /\ \/ pc' = "bind" /\ UNCHANGED <<exit, outside>>
       \/ End(1) /\ outside' = outside \cup {"build"}
    /\ UNCHANGED <<command, children, hung, dotenv, own>>

\* MockServer::start
Bind ==
    /\ pc = "bind"
    /\ \/ /\ pc' = "run"
          /\ mocks' = mocks \cup {at.session} /\ record' = {}
          /\ UNCHANGED <<exit, outside>>
       \/ End(1) /\ outside' = outside \cup {"bind"} /\ UNCHANGED <<mocks, record>>
    /\ UNCHANGED <<command, at, verdict, children, hung, dotenv, deviations>>

\* The step went as expected, or it did not: the phase ends early.
Went(ok) ==
    IF ok /\ at.step < Len(Steps(Kind, Service))
      THEN at' = [at EXCEPT !.step = @ + 1] /\ UNCHANGED <<pc, verdict>>
      ELSE pc' = "close" /\ verdict' = (IF ok THEN "ok" ELSE "failed") /\ UNCHANGED at

Sent(requests) == record' = record \cup {[by |-> at, request |-> r] : r \in requests}
Requested == {r.request : r \in record}

\* The program is started.  It may fail to; over HTTP the port may have been
\* taken by another process since it was chosen, and the child ends at once.
StartChild ==
    /\ pc = "run" /\ Step = "start"
    /\ \/ /\ children' = children \cup {<<at.session, at.phase>>}
          /\ Went(TRUE)
          /\ \/ UNCHANGED outside
             \/ OverHttp /\ outside' = outside \cup {"port"}
       \/ Went(FALSE) /\ outside' = outside \cup {"spawn"} /\ UNCHANGED children
    /\ UNCHANGED <<command, mocks, record, exit, hung, dotenv, deviations>>

Deviates(what) == deviations' = deviations \cup {[Here EXCEPT !.step = <<@, what>>]}

\* The child, or the server that has its port, does as its settings say.
Answer ==
    /\ pc = "run" /\ ~hung /\ Step \notin {"start", "record", "output"}
    /\ CASE IsCall -> Sent(CallSends) /\ Went(CallAsExpected)
         [] Step = "list" -> Went(ListingAsExpected(Listing)) /\ UNCHANGED record
         [] OTHER -> Went(TRUE) /\ UNCHANGED record
    /\ UNCHANGED <<command, children, mocks, exit, hung, dotenv, deviations, outside>>

\* It lists a tool it should not, or not one it should.
ListOther ==
    /\ pc = "run" /\ ~hung /\ Step = "list"
    /\ \E names \in OtherListings : Went(ListingAsExpected(names))
    /\ Deviates("listing")
    /\ UNCHANGED <<command, children, mocks, record, exit, hung, dotenv, outside>>

\* It answers something else: an error, another payload, no JSON, or it ends.
\* No answer is waited for 15 seconds over stdio.
AnswerWrong ==
    /\ pc = "run" /\ ~hung /\ Step \notin {"start", "record", "output"}
    /\ Went(FALSE)
    /\ Deviates("answer")
    /\ UNCHANGED <<command, children, mocks, record, exit, hung, dotenv, outside>>

\* Fault: the answer over stdio is waited for without a deadline.
Fault_NoAnswer ==
    /\ pc = "run" /\ ~hung /\ Step \notin {"start", "record"}
    /\ hung' = TRUE
    /\ Deviates("silence")
    /\ UNCHANGED <<command, pc, at, verdict, children, mocks, record, exit, dotenv, outside>>

\* Over HTTP, and for a command of the CLI, no answer is waited for without end.
NoAnswer ==
    /\ pc = "run" /\ ~hung /\ Step \notin {"start", "record"}
    /\ OverHttp \/ OfCli
    /\ hung' = TRUE
    /\ Deviates("silence")
    /\ UNCHANGED <<command, pc, at, verdict, children, mocks, record, exit, dotenv, outside>>

\* The server sends the forbidden request, whatever it was asked: also after the
\* record has been looked at, until it is ended.
Stray ==
    /\ pc \in {"run", "close"} /\ ~OfCli /\ children # {} /\ "port" \notin outside
    /\ Cardinality({d \in deviations : d.step[2] = "stray"}) < MaxStrays
    /\ Sent({Forbidden(Service)})
    /\ Deviates("stray")
    /\ UNCHANGED <<command, pc, at, verdict, children, mocks, exit, hung, dotenv, outside>>

\* A command of the CLI has run: what it printed is looked at.
CliOutput ==
    /\ pc = "run" /\ ~hung /\ Step = "output"
    /\ \E asked, expected \in BOOLEAN :
          /\ IF asked THEN Sent({CliRequest(Kind, Service)}) ELSE UNCHANGED record
          /\ IF asked /\ expected THEN UNCHANGED deviations
             ELSE Deviates(IF expected THEN "unasked" ELSE "answer")
          /\ Went(expected)
    /\ UNCHANGED <<command, children, mocks, exit, hung, dotenv, outside>>

\* assert_no_request in the restricted phase, assert_request for the CLI.
CheckRecord ==
    /\ pc = "run" /\ Step = "record"
    /\ Went(IF Kind = "restricted" THEN Forbidden(Service) \notin Requested
            ELSE Written(Service) \in Requested)
    /\ UNCHANGED <<command, children, mocks, record, exit, hung, dotenv, deviations, outside>>

\* Fault: a phase over HTTP that failed returns before its child is ended.
Fault_CloseChild ==
    /\ pc = "close"
    /\ children' = IF OverHttp /\ verdict = "failed" THEN children
                   ELSE children \ {<<at.session, at.phase>>}
    /\ IF verdict = "ok" /\ at.phase < Len(Phases)
         THEN pc' = "run" /\ at' = [at EXCEPT !.phase = @ + 1, !.step = 1]
         ELSE pc' = "unbind" /\ UNCHANGED at
    /\ UNCHANGED <<command, verdict, mocks, record, exit, hung, dotenv, deviations, outside>>

\* The child is killed and waited for, or has ended, whatever became of the phase.
CloseChild ==
    /\ pc = "close"
    /\ children' = children \ {<<at.session, at.phase>>}
    /\ IF verdict = "ok" /\ at.phase < Len(Phases)
         THEN pc' = "run" /\ at' = [at EXCEPT !.phase = @ + 1, !.step = 1]
         ELSE pc' = "unbind" /\ UNCHANGED at
    /\ UNCHANGED <<command, verdict, mocks, record, exit, hung, dotenv, deviations, outside>>

\* The mock is shut down; the next session, or the end.
Unbind ==
    /\ pc = "unbind"
    /\ mocks' = mocks \ {at.session}
    /\ CASE verdict = "failed" -> End(1) /\ UNCHANGED at
         [] verdict = "ok" /\ at.session = Len(Sessions) -> End(0) /\ UNCHANGED at
         [] OTHER -> /\ pc' = (IF command.target = "cli" THEN "bind" ELSE "build")
                     /\ at' = [session |-> at.session + 1, phase |-> 1, step |-> 1]
                     /\ UNCHANGED exit
    /\ UNCHANGED <<command, verdict, children, record, hung, dotenv, deviations, outside>>

Start == [session |-> 1, phase |-> 1, step |-> 1]

OwnInit ==
    /\ at = Start /\ verdict = "ok" /\ mocks = {} /\ record = {} /\ deviations = {}

Init ==
    /\ command \in SmokeCommands
    /\ pc = "build" /\ children = {} /\ exit = -1 /\ hung = FALSE
    /\ dotenv \in Dotenvs
    /\ outside = {}
    /\ OwnInit

Runner ==
    \/ Build \/ Bind \/ StartChild \/ Answer \/ ListOther \/ AnswerWrong \/ NoAnswer
    \/ CliOutput \/ CheckRecord \/ CloseChild \/ Unbind

Next == Runner \/ Stray
=============================================================================
