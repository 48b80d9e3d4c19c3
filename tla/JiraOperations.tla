--------------------------- MODULE JiraOperations ---------------------------
(***************************************************************************)
(* The operations of Jira apart from the searches: one call of any of them *)
(* beside everything else that happens on the site.                        *)
(*                                                                         *)
(* Most operations check their arguments and the project filter, send one  *)
(* request, and end as it ends.  Some go through a list of items, one      *)
(* request after the other, and report on each: the versions to create, the*)
(* issues whose development is asked for, the attachments of an issue.     *)
(* Development takes two requests per issue, since the second one is asked *)
(* by an issue's id, which the project filter cannot judge.  The options of*)
(* a field take up to three: the project, the context, the options.        *)
(*                                                                         *)
(* Others, among them other calls, create versions, move issues between    *)
(* projects and delete attachments at any time.  A request whose answer    *)
(* the client no longer waits for may be served later, or never.           *)
(***************************************************************************)
EXTENDS Naturals, Sequences

CONSTANTS
  Issues,        \* the issues, by id
  Projects,
  Versions,      \* names of project versions
  Files,         \* the attachments of the issue
  Foreign,       \* those without a content URL, or with one of another origin
  Filters,       \* the values JIRA_PROJECTS_FILTER may have; {} is none
  MaxItems       \* bound: the items of a call

ASSUME IssuesAssumption == Issues # {}
ASSUME ProjectsAssumption == Projects # {}
ASSUME FiltersAssumption == Filters \subseteq SUBSET Projects
ASSUME ForeignAssumption == Foreign \subseteq Files
ASSUME MaxItemsAssumption == MaxItems \in Nat \ {0}

-----------------------------------------------------------------------------
(* The operations.                                                         *)

\* Named by an issue key, whose prefix the filter judges.
IssueReads == {"get_issue", "list_issue_transitions", "list_issue_watchers",
               "list_issue_worklogs", "get_issue_timeline", "get_issue_sla_metrics"}
IssueEdits == {"update_issue", "set_issue_parent", "delete_issue"}
Comments   == {"add_issue_comment", "update_issue_comment"}
Transition == {"transition_issue"}
IssueNotes == {"add_issue_watcher", "remove_issue_watcher", "add_issue_worklog",
               "create_remote_issue_link"}

\* Named by a project key.
ProjectReads == {"list_project_components", "list_project_versions"}

\* Named by neither, or by several keys in a payload.
IssueCreations == {"create_issue", "create_issues", "create_issue_link",
                   "delete_issue_link", "create_project_version"}
AgileReads  == {"list_agile_boards", "list_board_issues", "list_board_sprints",
                "list_sprint_issues"}
AgileWrites == {"create_sprint", "update_sprint", "add_issues_to_sprint"}
DeskReads   == {"get_project_service_desk", "list_service_desk_queues",
                "list_service_desk_queue_issues"}
OtherReads  == {"list_projects", "search_fields", "get_user", "list_issue_link_types",
                "get_issue_changelogs"}

\* Several requests.
Development == {"get_issue_development", "get_issues_development"}
VersionBatch == {"create_project_versions"}
Attachments == {"get_issue_attachments", "get_issue_image_attachments"}
FieldOptions == {"list_field_options"}

Writes == IssueEdits \cup Comments \cup Transition \cup IssueNotes
            \cup IssueCreations \cup AgileWrites \cup VersionBatch
Operations == IssueReads \cup ProjectReads \cup AgileReads \cup DeskReads
                \cup OtherReads \cup Development \cup Attachments \cup FieldOptions \cup Writes

\* The operations that report on each item instead of ending with a failed one.
Collecting == {"get_issues_development", "create_project_versions"} \cup Attachments

\* Judged by the prefix of an issue key or by a project key.
Keyed == IssueReads \cup IssueEdits \cup Comments \cup Transition \cup IssueNotes
           \cup Attachments \cup ProjectReads

\* send_json_value_or_null: an empty answer is as good as JSON.
TakesEmpty ==
  IssueEdits \cup {"create_issues", "transition_issue", "add_issue_watcher",
    "remove_issue_watcher", "create_issue_link", "create_remote_issue_link",
    "delete_issue_link", "add_issues_to_sprint"}

\* What Jira answers with an empty body when all went well.
AnsweredEmpty ==
  IssueEdits \cup {"transition_issue", "add_issue_watcher", "remove_issue_watcher",
    "create_issue_link", "delete_issue_link", "add_issues_to_sprint"}

\* 403 and 404 end as a result that says the product is not there.
HidesRefusal == AgileReads \cup DeskReads \cup Development

-----------------------------------------------------------------------------
VARIABLES
  op, cloud, filter,  \* the operation, the deployment, config.projects_filter
  key,         \* the issue or project the call names
  valid,       \* whether the other arguments are such that the call is made
  option,      \* include_content of the attachments, context_id of the options
  items,       \* what the call works through: one item unless it is a batch
  projectOf,   \* where each issue is now
  versions,    \* the versions there are
  files,       \* the attachments there are
  pc,          \* idle, next, waiting or done
  request,     \* the request under way, NoRequest without one
  reply,       \* its answer, NoReply before
  late,        \* writes nobody waits for any more
  results,     \* one per item of a batch that is through
  outcome,     \* how the call ended, "none" before
  made,        \* history: how often each item was carried out
  visible,     \* history: the issues within the filter at some time of the call
  shown        \* history: the issues whose development the caller was given

arguments == <<op, cloud, filter, key, valid, option>>
server == <<projectOf, versions, files>>
history == <<made, visible, shown>>
vars == <<arguments, items, server, pc, request, reply, late, results, outcome, history>>

NoRequest == [kind |-> "none", item |-> 0, issue |-> "none"]
NoReply == [kind |-> "none", found |-> "none", files |-> <<>>]
Request(kind, k, i) == [kind |-> kind, item |-> k, issue |-> i]
Reply(kind) == [NoReply EXCEPT !.kind = kind]

\* An item: a version, a file, or an issue by a key with its prefix or by its id.
\* The keys an issue had in other projects still name it.
ByKey == [issue : Issues, prefix : Projects \cup {"id"}]
Named(names) == [issue : {"none"}, prefix : names]
ListsUpTo(S, n) == UNION {[1 .. k -> S] : k \in 1 .. n}

Inside(p) == filter = {} \/ p \in filter
Current == Len(results) + 1

-----------------------------------------------------------------------------
(* The client.                                                             *)

Send(r) ==
  /\ pc' = "waiting" /\ request' = r /\ reply' = NoReply
  /\ UNCHANGED <<results, outcome>>

Return(o) ==
  /\ pc' = "done" /\ outcome' = o /\ request' = NoRequest /\ reply' = NoReply
  /\ UNCHANGED results

Continue ==
  /\ pc' = "next" /\ request' = NoRequest /\ reply' = NoReply
  /\ UNCHANGED outcome

\* Fault: a batch ends with the first item that fails.
Fault_ItemEnds(o) ==
  IF op \in Collecting /\ o = "ok"
    THEN results' = Append(results, o) /\ Continue
    ELSE Return(o)

\* One item is through: a batch notes it and goes on, another call ends.
ItemEnds(o) ==
  IF op \in Collecting THEN results' = Append(results, o) /\ Continue ELSE Return(o)

\* The operation's checks, then the client's; nothing has been sent before them.
Invoke ==
  /\ pc = "idle"
  /\ \/ /\ ~valid \/ (op \in Keyed /\ ~Inside(key.prefix))
        /\ Return("invalid")
     \/ /\ valid /\ (op \in Keyed => Inside(key.prefix))
        /\ IF op = "get_issue_changelogs" /\ ~cloud THEN Return("unavailable")
           ELSE IF op \in Attachments THEN Send(Request("list", 0, key.issue))
           ELSE Continue /\ UNCHANGED results
  /\ visible' = {i \in Issues : Inside(projectOf[i])}
  /\ UNCHANGED <<arguments, items, server, late, made, shown>>

\* resolve_development_issue_id: an id is used as it is only without a filter.
Resolves(it) == it.prefix # "id" \/ filter # {}

\* The first request for an item, unless it ends without one.
Start(it) ==
  CASE op \in Attachments ->
         IF ~option THEN ItemEnds("listed")
         ELSE IF it.prefix \in Foreign THEN ItemEnds("missing")
         ELSE Send(Request("content", Current, "none"))
    [] op \in Development ->
         IF it.prefix # "id" /\ ~Inside(it.prefix) THEN ItemEnds("invalid")
         ELSE IF Resolves(it) THEN Send(Request("issue", Current, it.issue))
         ELSE Send(Request("detail", Current, it.issue))
    [] op \in FieldOptions /\ cloud /\ ~option -> Send(Request("project", Current, "none"))
    [] OTHER -> Send(Request("main", Current, it.issue))

NextItem ==
  /\ pc = "next"
  /\ IF Current > Len(items) THEN Return("ok") ELSE Start(items[Current])
  /\ UNCHANGED <<arguments, items, server, late, history>>

\* Fault: the key in the answer is not judged again.
Fault_Usable(found) == found # "none"

\* What was looked for was found, and an issue's present key is within the filter.
Usable(found) == found # "none" /\ (request.kind = "issue" => Inside(found))

\* The request a lookup was made for.
Follows(kind) ==
  CASE kind = "issue" -> "detail" [] kind = "project" -> "context" [] kind = "context" -> "main"

Lookups == {"issue", "project", "context"}

\* The answer to a lookup: the next request, or the item's end.
OnLookup ==
  /\ pc = "waiting" /\ request.kind \in Lookups /\ reply.kind = "json"
  /\ IF Usable(reply.found)
       THEN Send(Request(Follows(request.kind), Current, request.issue))
       ELSE ItemEnds("invalid")
  /\ UNCHANGED <<arguments, items, server, late, history>>

\* The attachments, of which the selected ones are worked through.
OnList ==
  /\ pc = "waiting" /\ request.kind = "list" /\ reply.kind = "json"
  /\ Continue
  /\ items' = [k \in DOMAIN reply.files |-> [issue |-> "none", prefix |-> reply.files[k]]]
  /\ UNCHANGED <<arguments, server, late, results, history>>

\* Fault: the status of an answer is not looked at.
Fault_Readable(kind) == kind \in {"json", "forbidden"} \/ (kind = "empty" /\ op \in TakesEmpty)

Readable(kind) == kind = "json" \/ (kind = "empty" /\ op \in TakesEmpty)

\* send_json and send_json_value_or_null, and what the operation makes of an error.
ResultOf(kind) ==
  IF Readable(kind) THEN "ok"
  ELSE IF kind \in {"bad", "empty"} THEN "undecodable"
  ELSE IF kind = "forbidden" /\ op \in HidesRefusal /\ request.kind # "issue"
    THEN "unavailable"
  ELSE "refused"

\* Every other answer ends the item; a list that failed ends the call.
OnAnswer ==
  /\ pc = "waiting" /\ reply.kind # "none"
  /\ ~(request.kind \in Lookups \cup {"list"} /\ reply.kind = "json")
  /\ LET o == ResultOf(reply.kind)
     IN /\ IF request.kind = "list" THEN Return(o) ELSE ItemEnds(o)
        /\ shown' = IF request.kind = "detail" /\ o = "ok"
                      THEN shown \cup {request.issue} ELSE shown
  /\ UNCHANGED <<arguments, items, server, late, made, visible>>

Abandoned == IF op \in Writes THEN late \cup {request} ELSE late

\* Fault: the time limit does not hold for downloads.
Fault_Unlimited ==
  /\ pc = "waiting" /\ reply.kind = "none" /\ request.kind # "content"
  /\ IF request.kind = "list" THEN Return("lost") ELSE ItemEnds("lost")
  /\ late' = Abandoned
  /\ UNCHANGED <<arguments, items, server, history>>

\* The request times out, the connection breaks, or a gateway gives up on Jira.
GivesUp ==
  /\ pc = "waiting" /\ reply.kind = "none"
  /\ IF request.kind = "list" THEN Return("lost") ELSE ItemEnds("lost")
  /\ late' = Abandoned
  /\ UNCHANGED <<arguments, items, server, history>>

-----------------------------------------------------------------------------
(* Jira.                                                                   *)

CreatesVersions == op \in VersionBatch \cup {"create_project_version"}

\* A write takes effect, unless the version's name is taken.
Apply(r) ==
  /\ IF CreatesVersions
       THEN /\ items[r.item].prefix \notin versions
            /\ versions' = versions \cup {items[r.item].prefix}
       ELSE UNCHANGED versions
  /\ made' = [made EXCEPT ![r.item] = @ + 1]
  /\ UNCHANGED <<projectOf, files, visible, shown>>

Pending == pc = "waiting" /\ reply.kind = "none"
Answer(r) == reply' = r /\ UNCHANGED <<arguments, items, pc, request, late, results, outcome>>

ServeWrite ==
  /\ Pending /\ op \in Writes
  /\ Apply(request)
  /\ Answer(Reply(IF op \in AnsweredEmpty THEN "empty" ELSE "json"))

ServeLookup ==
  /\ Pending /\ request.kind \in Lookups
  /\ \E found \in IF request.kind = "issue" THEN {projectOf[request.issue], "none"}
                                            ELSE {"some", "none"} :
       Answer([Reply("json") EXCEPT !.found = found])
  /\ UNCHANGED <<server, history>>

ServeList ==
  /\ Pending /\ request.kind = "list"
  /\ \E n \in 0 .. MaxItems : \E s \in [1 .. n -> files] :
       /\ \A j, k \in 1 .. n : s[j] = s[k] => j = k
       /\ Answer([Reply("json") EXCEPT !.files = s])
  /\ UNCHANGED <<server, history>>

ServeRead ==
  /\ Pending /\ op \notin Writes /\ request.kind \in {"main", "detail", "content"}
  /\ request.kind = "content" => items[request.item].prefix \in files
  /\ Answer(Reply("json"))
  /\ made' = [made EXCEPT ![request.item] = @ + 1]
  /\ UNCHANGED <<server, visible, shown>>

\* 403 and 404, or another error status: Jira has done nothing.
Refuse ==
  /\ Pending
  /\ \E kind \in {"forbidden", "refused"} : Answer(Reply(kind))
  /\ UNCHANGED <<server, history>>

\* A successful status with a body that cannot be read.
Garble ==
  /\ Pending
  /\ Answer(Reply("bad"))
  /\ IF op \in Writes THEN Apply(request) ELSE UNCHANGED <<server, history>>

\* A request nobody waits for reaches Jira; that it never does is to stay in late.
ServeLate ==
  \E r \in late :
    /\ Apply(r)
    /\ late' = late \ {r}
    /\ UNCHANGED <<arguments, items, pc, request, reply, results, outcome>>

-----------------------------------------------------------------------------
(* Everybody else.                                                         *)

client == <<arguments, items, pc, request, reply, late, results, outcome>>

MoveIssue ==
  \E i \in Issues : \E p \in Projects \ {projectOf[i]} :
    /\ projectOf' = [projectOf EXCEPT ![i] = p]
    /\ visible' = IF pc \in {"next", "waiting"} /\ Inside(p) THEN visible \cup {i} ELSE visible
    /\ UNCHANGED <<client, versions, files, made, shown>>

ChangeVersions ==
  \E v \in Versions :
    /\ versions' = IF v \in versions THEN versions \ {v} ELSE versions \cup {v}
    /\ UNCHANGED <<client, projectOf, files, history>>

DetachFile ==
  \E f \in files :
    /\ files' = files \ {f}
    /\ UNCHANGED <<client, projectOf, versions, history>>

Client == Invoke \/ NextItem \/ OnLookup \/ OnList \/ OnAnswer \/ GivesUp
Jira == ServeWrite \/ ServeLookup \/ ServeList \/ ServeRead \/ Refuse \/ Garble \/ ServeLate

\* Others matter to the operations that look at what they change.
Others ==
  \/ op \in Development /\ MoveIssue
  \/ CreatesVersions /\ ChangeVersions
  \/ op \in Attachments /\ DetachFile

Done == pc = "done" /\ UNCHANGED vars

\* What an operation does not look at has one value.
If(looks, S, one) == IF looks THEN S ELSE {one}

FirstIssue == CHOOSE i \in Issues : TRUE
FirstProject == CHOOSE p \in Projects : TRUE

\* Of an operation on one issue it does not matter which it is.
OneKey == [issue : {FirstIssue},
           prefix : IF op \in ProjectReads THEN Projects ELSE Projects \cup {"id"}]

Init ==
  /\ op \in Operations /\ filter \in Filters /\ valid \in BOOLEAN
  /\ cloud \in If(op \in FieldOptions \cup {"get_issue_changelogs"}, BOOLEAN, TRUE)
  /\ option \in If(op \in FieldOptions \cup Attachments, BOOLEAN, TRUE)
  /\ key \in If(op \in Keyed \cup Development, OneKey,
                [issue |-> FirstIssue, prefix |-> "id"])
  /\ items \in CASE op \in Attachments -> {<<>>}
                 [] op \in VersionBatch -> ListsUpTo(Named(Versions), MaxItems)
                 [] op = "create_project_version" -> ListsUpTo(Named(Versions), 1)
                 [] op = "get_issues_development" -> ListsUpTo(ByKey, MaxItems)
                 [] OTHER -> {<<key>>}
  /\ projectOf \in If(op \in Development, [Issues -> Projects], [i \in Issues |-> FirstProject])
  /\ versions \in If(CreatesVersions, SUBSET Versions, {})
  /\ files = IF op \in Attachments THEN Files ELSE {}
  /\ pc = "idle" /\ request = NoRequest /\ reply = NoReply
  /\ late = {} /\ results = <<>> /\ outcome = "none"
  /\ made = [k \in 1 .. MaxItems |-> 0] /\ visible = {} /\ shown = {}

Next == Client \/ Jira \/ Others \/ Done

Spec == Init /\ [][Next]_vars

\* The client takes its steps, and waits no longer than timeout_seconds.
FairSpec == Spec /\ WF_vars(Client)

-----------------------------------------------------------------------------
Kinds == {"list", "content", "issue", "project", "context", "detail", "main"}
Ends == {"ok", "invalid", "unavailable", "refused", "undecodable", "lost", "listed", "missing"}

\* What is said of the k-th item: its own result, or how the call ended.
Said(k) == IF op \in Collecting THEN IF k <= Len(results) THEN results[k] ELSE "none"
           ELSE IF k = 1 THEN outcome ELSE "none"

\* What the caller is told of an item is so: done when it says ok, and not done, now
\* or later, when it says that the item was refused or not asked for.  A refused
\* write is told as an error and never as a product that is not there, and no item is
\* carried out twice, late requests included.
EachResultTrue ==
  \A k \in 1 .. MaxItems :
    /\ made[k] <= 1
    /\ Said(k) = "ok" => made[k] = 1
    /\ Said(k) \in {"invalid", "refused", "missing"} =>
         made[k] = 0 /\ \A r \in late : r.item # k
    /\ op \in Writes => Said(k) # "unavailable"

\* A batch that began its items reports on all of them, whatever happens to some.
BatchComplete ==
  (pc = "done" /\ op \in Collecting /\ results # <<>>) =>
    outcome = "ok" /\ Len(results) = Len(items)

(* Why: where the call is among its items, and what has become of each.     *)

\* An item is asked for after the ones before it have ended, and a call ends with its
\* last item, or with its only one.
Progress ==
  /\ results \in Seq(Ends) /\ Len(items) \in 0 .. MaxItems /\ Len(results) <= Len(items)
  /\ op \notin Collecting => results = <<>> /\ Len(items) = 1
  /\ pc \in {"idle", "next", "waiting", "done"} /\ (pc # "done" => outcome = "none")
  /\ pc = "idle" => results = <<>>
  /\ pc = "waiting" => IF request.kind = "list" THEN results = <<>> /\ op \in Attachments
                       ELSE request.item = Current /\ Current <= Len(items)
  /\ op \in Writes /\ pc = "waiting" => request.kind = "main"
  /\ reply.kind \in {"none", "json", "empty", "bad", "forbidden", "refused"}
  /\ files \subseteq Files /\ reply.files \in Seq(Files) /\ Len(reply.files) <= MaxItems
  /\ BatchComplete

\* Whether the item that is asked for now was carried out shows in the answer to it.
Carried ==
  pc = "waiting" /\ request.kind # "list" =>
    LET k == request.item IN
    /\ request.kind \in Lookups \/ reply.kind \in {"none", "forbidden", "refused"} => made[k] = 0
    /\ request.kind \notin Lookups /\ reply.kind \in {"json", "empty"} => made[k] = 1

Asked(k) == pc = "waiting" /\ request.kind # "list" /\ request.item = k

\* What is said of an item is so; one that was given up may still be carried out, once.
ItemTrue(k) ==
  /\ made[k] \in {0, 1}
  /\ Said(k) = "none" /\ ~Asked(k) => made[k] = 0
  /\ Said(k) = "ok" => made[k] = 1
  /\ Said(k) \in {"invalid", "refused", "missing"} => made[k] = 0
  /\ Said(k) # "lost" \/ made[k] = 1 => \A r \in late : r.item # k
  /\ op \in Writes => Said(k) # "unavailable"

LateOnce ==
  /\ \A r \in late : op \in Writes /\ r.item \in 1 .. MaxItems
  /\ \A r, s \in late : r.item = s.item => r = s

OutcomeInv ==
  /\ Progress /\ Carried /\ LateOnce
  /\ made \in [1 .. MaxItems -> Nat]
  /\ \A k \in 1 .. MaxItems : ItemTrue(k)

\* The development of an issue is given only when the issue was within the project
\* filter at some time of the call, whatever key or id named it and however it moved.
DevelopmentInScope == shown \subseteq visible

(* Why: what the client knows of an issue whenever it asks about it.       *)

Working == pc \in {"next", "waiting"}

\* While the call works every issue that is within the filter has been noticed.
Noticed == Working => \A i \in Issues : Inside(projectOf[i]) => i \in visible

\* The results are a sequence, and the items of a call about development are issues.
ItemTypes ==
  /\ results \in Seq(Ends)
  /\ projectOf \in [Issues -> Projects]
  /\ op \in Development => items \in Seq(ByKey)

\* A request for an issue concerns one; only development asks for issues.
RequestTypes ==
  request.kind \in {"issue", "detail"} => op \in Development /\ request.issue \in Issues

\* The project in an answer is one in which the issue was during the call.
AnswerWasTrue ==
  (pc = "waiting" /\ request.kind = "issue" /\ reply.kind = "json"
     /\ reply.found # "none" /\ Inside(reply.found)) => request.issue \in visible

\* Details are asked only about issues that were within the filter.
DetailInScope ==
  (pc = "waiting" /\ request.kind = "detail") => request.issue \in visible

\* Attachments are not listed for a call about development, nor is anything shown
\* before a call begins.
Apart ==
  /\ request.kind = "list" => op \in Attachments
  /\ pc = "idle" => shown = {} /\ request = NoRequest

ScopeInv ==
  Apart /\ Noticed /\ ItemTypes /\ RequestTypes /\ AnswerWasTrue /\ DetailInScope /\ DevelopmentInScope

\* Every call returns, even when Jira never answers.
CallReturns == (pc = "next") ~> (pc = "done")

=============================================================================
