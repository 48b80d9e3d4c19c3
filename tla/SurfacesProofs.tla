--------------------------- MODULE SurfacesProofs ---------------------------
(***************************************************************************)
(* What holds of every call on either surface, whatever the number of      *)
(* requests of a batch or a walk: the annotations of the tools, and what   *)
(* an exit code or an answer says about the server.  Then what may be      *)
(* called at all, for any registry of tools, toolsets, profiles and        *)
(* services, any environment and any dotenv files (module ToolAccess).     *)
(***************************************************************************)
EXTENDS Surfaces, ToolAccess, TLAPS

Kinds == {"read", "add", "replace", "erase"}

\* The tools that have a plan with a request that is not a read, and those that have
\* one with a request that replaces or erases, but for the ones that renew.
Adding == {
  "jira_create_issue", "jira_create_issues", "jira_add_issue_watcher",
  "jira_add_issue_worklog", "jira_create_issue_link", "jira_create_remote_issue_link",
  "jira_add_issue_comment", "jira_create_project_version", "jira_create_project_versions",
  "jira_create_sprint", "confluence_create_page", "confluence_add_page_comment",
  "confluence_reply_to_comment", "confluence_add_content_label",
  "gitlab_create_merge_request", "gitlab_add_merge_request_note",
  "gitlab_reply_merge_request_discussion"}
Replacing == {
  "jira_update_issue", "jira_set_issue_parent", "jira_delete_issue",
  "jira_remove_issue_watcher", "jira_delete_issue_link", "jira_update_issue_comment",
  "jira_transition_issue", "jira_update_sprint", "jira_add_issues_to_sprint",
  "confluence_update_page", "confluence_move_page", "confluence_delete_page",
  "confluence_delete_attachment", "confluence_upload_content_attachment",
  "confluence_upload_content_attachments", "gitlab_update_merge_request",
  "gitlab_resolve_merge_request_discussion", "gitlab_set_merge_request_approval",
  "gitlab_accept_merge_request"}
Writing == Adding \cup Replacing

-----------------------------------------------------------------------------
(* The plans.                                                              *)

\* What a plan of a tool may hold.
Fits(tool, p) ==
  /\ p \in Seq(Kinds)
  /\ tool \notin Writing => \A i \in 1..Len(p) : p[i] = "read"
  /\ tool \notin Replacing =>
       \A i \in 1..Len(p) :
          p[i] \in {"read", "add"} \/ (p[i] = "replace" /\ tool \in Renewing)

LEMMA RepeatFits ==
  ASSUME NEW kind \in Kinds, NEW p \in Repeat(kind)
  PROVE  p \in Seq(Kinds) /\ \A i \in 1..Len(p) : p[i] = kind
BY RepeatsAssumption DEF Repeat, Kinds

\* Short plans, by what their tool may do.
LEMMA ReadsFit ==
  ASSUME NEW tool
  PROVE  /\ Fits(tool, <<>>) /\ Fits(tool, <<"read">>) /\ Fits(tool, <<"read", "read">>)
         /\ Fits(tool, <<"read", "read", "read">>)
BY DEF Fits, Kinds

LEMMA AddsFit ==
  ASSUME NEW tool, tool \in Adding
  PROVE  Fits(tool, <<"add">>) /\ Fits(tool, <<"add", "add">>) /\ Fits(tool, <<"add", "read">>)
<1>1. tool \in Writing BY DEF Writing
<1>2. QED BY <1>1 DEF Fits, Kinds

LEMMA RenewsFit ==
  ASSUME NEW tool, tool \in Renewing
  PROVE  Fits(tool, <<"add">>) /\ Fits(tool, <<"replace">>)
<1>1. tool \in Writing BY DEF Writing, Adding, Renewing
<1>2. QED BY <1>1 DEF Fits, Kinds

LEMMA ReplacesFit ==
  ASSUME NEW tool, tool \in Replacing
  PROVE  /\ Fits(tool, <<"replace">>) /\ Fits(tool, <<"erase">>)
         /\ Fits(tool, <<"read", "replace">>) /\ Fits(tool, <<"replace", "read">>)
         /\ Fits(tool, <<"read", "replace", "replace">>)
<1>1. tool \in Writing BY DEF Writing
<1>2. QED BY <1>1 DEF Fits, Kinds

LEMMA RepeatsFit ==
  ASSUME NEW tool
  PROVE  /\ \A p \in Repeat("read") : Fits(tool, p) /\ Fits(tool, <<"read">> \o p)
         /\ tool \in Adding => \A p \in Repeat("add") : Fits(tool, p)
         /\ tool \in Replacing => \A p \in Repeat("replace") : Fits(tool, p)
<1>1. ASSUME NEW p \in Repeat("read") PROVE Fits(tool, p) /\ Fits(tool, <<"read">> \o p)
  <2>1. p \in Seq(Kinds) /\ \A i \in 1..Len(p) : p[i] = "read" BY RepeatFits DEF Kinds
  <2>2. /\ <<"read">> \o p \in Seq(Kinds)
        /\ \A i \in 1..Len(<<"read">> \o p) : (<<"read">> \o p)[i] = "read"
    BY <2>1 DEF Kinds
  <2> QED BY <2>1, <2>2, Zenon DEF Fits, Kinds
<1>2. ASSUME tool \in Adding, NEW p \in Repeat("add") PROVE Fits(tool, p)
  BY <1>2, RepeatFits DEF Fits, Kinds, Writing
<1>3. ASSUME tool \in Replacing, NEW p \in Repeat("replace") PROVE Fits(tool, p)
  BY <1>3, RepeatFits DEF Fits, Kinds, Writing
<1>4. QED BY <1>1, <1>2, <1>3

LEMMA JiraIssueFits ==
  ASSUME NEW tool, NEW p \in JiraIssuePlans(tool) PROVE Fits(tool, p)
<1>1. \/ tool \in Adding /\ p = <<"add">>
      \/ tool \in Renewing /\ p \in {<<"add">>, <<"replace">>}
      \/ tool \in Replacing /\ p \in {<<"replace">>, <<"erase">>}
      \/ p \in {<<>>, <<"read">>}
  BY DEF JiraIssuePlans, Adding, Renewing, Replacing
<1>2. QED BY <1>1, AddsFit, RenewsFit, ReplacesFit, ReadsFit

LEMMA JiraDetailFits ==
  ASSUME NEW tool, NEW p \in JiraDetailPlans(tool) PROVE Fits(tool, p)
<1>1. \/ tool \in Adding /\ (p = <<"add">> \/ p \in Repeat("add"))
      \/ tool \in Replacing /\ p = <<"replace">>
      \/ \E contents \in Repeat("read") : p = <<"read">> \o contents
  <2>1. CASE tool \in {"jira_get_issue_attachments", "jira_get_issue_image_attachments"}
    BY <2>1 DEF JiraDetailPlans
  <2>2. CASE tool = "jira_create_project_versions"
    BY <2>2 DEF JiraDetailPlans, Adding
  <2>3. CASE tool \in {"jira_add_issue_comment", "jira_create_project_version"}
    BY <2>3 DEF JiraDetailPlans, Adding
  <2>4. CASE tool \in {"jira_update_issue_comment", "jira_transition_issue"}
    BY <2>4 DEF JiraDetailPlans, Replacing
  <2> QED BY <2>1, <2>2, <2>3, <2>4 DEF JiraDetailPlans
<1>2. QED BY <1>1, AddsFit, ReplacesFit, RepeatsFit

LEMMA JiraAgileFits ==
  ASSUME NEW tool, NEW p \in JiraAgilePlans(tool) PROVE Fits(tool, p)
<1>1. \/ tool \in Adding /\ p = <<"add">>
      \/ tool \in Replacing /\ p = <<"replace">>
  BY DEF JiraAgilePlans, Adding, Replacing
<1>2. QED BY <1>1, AddsFit, ReplacesFit

LEMMA JiraLookupFits ==
  ASSUME NEW tool, NEW p \in JiraLookupPlans(tool) PROVE Fits(tool, p)
<1>1. p \in Repeat("read") \/ p \in {<<"read">>, <<"read", "read">>, <<"read", "read", "read">>}
  BY DEF JiraLookupPlans
<1>2. QED BY <1>1, RepeatsFit, ReadsFit

LEMMA ConfluencePageFits ==
  ASSUME NEW tool, NEW p \in ConfluencePagePlans(tool) PROVE Fits(tool, p)
<1>1. \/ tool \in Adding /\ p \in {<<"add">>, <<"add", "add">>}
      \/ /\ tool \in Replacing
         /\ p \in {<<"erase">>, <<"read", "replace">>, <<"replace", "read">>,
                   <<"read", "replace", "replace">>}
      \/ p \in {<<"read">>, <<"read", "read">>}
  BY DEF ConfluencePagePlans, Adding, Replacing
<1>2. QED BY <1>1, AddsFit, ReplacesFit, ReadsFit

LEMMA ConfluenceContentFits ==
  ASSUME NEW tool, NEW p \in ConfluenceContentPlans(tool) PROVE Fits(tool, p)
<1>1. \/ tool \in Adding /\ p \in {<<"add">>, <<"add", "read">>}
      \/ tool \in Replacing /\ (p \in {<<"erase">>, <<"replace">>} \/ p \in Repeat("replace"))
      \/ p \in Repeat("read") \/ p \in {<<>>, <<"read">>, <<"read", "read">>}
  <2>1. CASE tool \in {"confluence_add_page_comment", "confluence_reply_to_comment",
                       "confluence_add_content_label"}
    BY <2>1 DEF ConfluenceContentPlans, Adding
  <2>2. CASE tool \in {"confluence_delete_attachment", "confluence_upload_content_attachment",
                       "confluence_upload_content_attachments"}
    BY <2>2 DEF ConfluenceContentPlans, Replacing
  <2>3. CASE tool \in {"confluence_get_page_view_analytics", "confluence_download_attachment"}
    BY <2>3 DEF ConfluenceContentPlans
  <2> QED BY <2>1, <2>2, <2>3, Zenon DEF ConfluenceContentPlans
<1>2. QED BY <1>1, AddsFit, ReplacesFit, ReadsFit, RepeatsFit

LEMMA GitlabFits ==
  ASSUME NEW tool, NEW p \in GitlabPlans(tool) PROVE Fits(tool, p)
<1>1. \/ tool \in Adding /\ p = <<"add">>
      \/ tool \in Replacing /\ p = <<"replace">>
  BY DEF GitlabPlans, Adding, Replacing
<1>2. QED BY <1>1, AddsFit, ReplacesFit

\* A plan of a tool reads only unless the tool is one that writes, and replaces or
\* erases nothing unless it is one of those that do, or renews.
LEMMA PlansFit ==
  ASSUME NEW tool, NEW p \in Plans(tool) PROVE Fits(tool, p)
<1>1. CASE p = <<"read">> BY <1>1, ReadsFit
<1>2. CASE p # <<"read">>
  BY <1>2, JiraIssueFits, JiraDetailFits, JiraAgileFits, JiraLookupFits,
     ConfluencePageFits, ConfluenceContentFits, GitlabFits, Zenon DEF Plans
<1>3. QED BY <1>1, <1>2
-----------------------------------------------------------------------------
(* The registry.                                                           *)

LEMMA JiraAnnotations ==
  ASSUME NEW t \in JiraIssueTools \cup JiraProjectTools \cup JiraWorkTools
  PROVE  /\ t.name \in Writing => t.annotation # "read_only"
         /\ t.name \in Replacing => t.annotation = "destructive_write"
<1>1. CASE t \in JiraIssueTools
  BY <1>1 DEF JiraIssueTools, T, Writing, Adding, Replacing
<1>2. CASE t \in JiraProjectTools
  BY <1>2 DEF JiraProjectTools, T, Writing, Adding, Replacing
<1>3. CASE t \in JiraWorkTools
  BY <1>3 DEF JiraWorkTools, T, Writing, Adding, Replacing
<1>4. QED BY <1>1, <1>2, <1>3

LEMMA OtherAnnotations ==
  ASSUME NEW t \in ConfluencePageTools \cup ConfluenceMediaTools \cup GitlabTools
  PROVE  /\ t.name \in Writing => t.annotation # "read_only"
         /\ t.name \in Replacing => t.annotation = "destructive_write"
<1>1. CASE t \in ConfluencePageTools
  BY <1>1 DEF ConfluencePageTools, T, Writing, Adding, Replacing
<1>2. CASE t \in ConfluenceMediaTools
  BY <1>2 DEF ConfluenceMediaTools, T, Writing, Adding, Replacing
<1>3. CASE t \in GitlabTools
  BY <1>3 DEF GitlabTools, T, Writing, Adding, Replacing
<1>4. QED BY <1>1, <1>2, <1>3

\* The registry annotates the tools that write as writes, and the ones that replace or
\* erase as destructive.
LEMMA AnnotationsFit ==
  ASSUME NEW tool \in RegisteredTools
  PROVE  /\ ReadOnly(tool) => tool \notin Writing
         /\ ~Destructive(tool) => tool \notin Replacing
<1>1. Entry(tool) \in Registered /\ Entry(tool).name = tool BY DEF Entry, RegisteredTools
<1>2. Entry(tool) \in JiraIssueTools \cup JiraProjectTools \cup JiraWorkTools
        \/ Entry(tool) \in ConfluencePageTools \cup ConfluenceMediaTools \cup GitlabTools
  BY <1>1, Zenon DEF Registered
<1>3. QED BY <1>1, <1>2, JiraAnnotations, OtherAnnotations DEF ReadOnly, Destructive

\* The operations that judge what a read brought, or excuse its failure, write nothing.
LEMMA ReadersOnly ==
  /\ Judging \cap Writing = {} /\ Lenient \cap Writing = {}
  /\ {"confluence_search_content", "jira_search_issues", "jira_list_project_issues",
      "confluence_download_content_attachments"} \cap Writing = {}
BY DEF Judging, Lenient, Writing, Adding, Replacing

-----------------------------------------------------------------------------
(* The invariant.                                                          *)

\* Every write was sent and carried out, but for the ones whose failure is told.
AllDone == \A i \in Writes : i <= sent /\ (i \in applied \/ PassedOver(i))

Untouched == applied \cap Writes = {}

Steps == {"command", "read", "route", "guard", "arguments", "client", "send", "tell", "done"}

TypesOK ==
  /\ call \in Calls /\ plan \in Plans(call.tool)
  /\ pc \in Steps
  /\ sent \in 0..Len(plan) /\ applied \subseteq 1..sent

\* The command line is for the CLI, the route for MCP.
Surfaced ==
  /\ pc \in {"command", "read"} => call.surface = "cli"
  /\ pc = "route" => call.surface = "mcp"

\* Nothing is sent before the operation's own checks are through.
NothingEarly == pc \in Steps \ {"send", "tell", "done"} => sent = 0

\* While the requests go out: the ones that were sent were carried out, or their
\* failures passed over.
InOrder == pc = "send" => \A i \in 1..sent : i \in applied \/ PassedOver(i) \/ MayPassOver(i)

\* What a result says, before it is told.
ResultTrue ==
  pc = "tell" =>
    \/ result = Ok /\ AllDone
    \/ result = Business
    \/ /\ result.status = "error" /\ result.category = "invalid_input"
       /\ Untouched
    \/ /\ result.status = "error" /\ result.category \in {"config", "service_unavailable"}
       /\ sent = 0
    \/ result.status = "error" /\ result.category = "upstream"

\* What the caller was told.
ToldTrue ==
  pc = "done" =>
    IF call.surface = "cli"
    THEN /\ told.exit = 0 => AllDone
         /\ told.exit = 2 => Untouched
         /\ told.exit = 3 => sent = 0
    ELSE /\ told.mcp = "result" => AllDone
         /\ told.mcp = "invalid_params" => Untouched

IInv == TypesOK /\ Surfaced /\ NothingEarly /\ InOrder /\ ResultTrue /\ ToldTrue

LEMMA PlanFits == ASSUME TypesOK PROVE Fits(call.tool, plan) /\ call.tool \in RegisteredTools
BY PlansFit DEF TypesOK, Calls

LEMMA Unsent == ASSUME TypesOK, sent = 0 PROVE applied = {} /\ Untouched
<1>1. applied = {}
  <2>1. applied \subseteq 1..0 BY DEF TypesOK
  <2> QED BY <2>1
<1>2. QED BY <1>1 DEF Untouched

LEMMA InitInv == Init => IInv
<1> SUFFICES ASSUME Init PROVE IInv OBVIOUS
<1>1. Fits(call.tool, plan) BY PlansFit DEF Init
<1>2. TypesOK BY <1>1 DEF TypesOK, Init, Steps, Fits
<1>3. pc \in {"command", "route"} BY DEF Init
<1>4. Surfaced BY DEF Surfaced, Init, Calls
<1>5. QED BY <1>2, <1>3, <1>4 DEF IInv, NothingEarly, InOrder, ResultTrue, ToldTrue, Init

-----------------------------------------------------------------------------
(* Steps that leave the server alone.                                      *)

\* What is said of the requests stays so when none is sent.
LEMMA SameServer ==
  ASSUME UNCHANGED <<call, plan, sent, applied>>
  PROVE  /\ AllDone => AllDone'
         /\ Untouched => Untouched'
BY DEF AllDone, Untouched, Writes, PassedOver

\* A call that ends before its first request.
LEMMA EarlyReturn ==
  ASSUME IInv, UNCHANGED <<call, plan>>, sent = 0, NEW category, category \in Categories,
         Return(Error(category)) \/ Return(Failure(category))
  PROVE  IInv'
<1>1. applied = {} BY DEF IInv, TypesOK
<1>2. Untouched BY <1>1 DEF Untouched
<1>3. Untouched' BY <1>2, SameServer DEF Return
<1>4. result' \in {Error(category), Business} BY DEF Return, Failure
<1>5. TypesOK' BY DEF IInv, TypesOK, Return, Steps
<1>6. ResultTrue' BY <1>3, <1>4 DEF Return, ResultTrue, Error, Categories
<1>7. QED BY <1>5, <1>6 DEF IInv, Surfaced, NothingEarly, InOrder, ToldTrue, Return

LEMMA EarlyGoOn ==
  ASSUME IInv, UNCHANGED <<call, plan>>, sent = 0,
         NEW to \in Steps \ {"tell", "done", "command", "route"}, GoOn(to),
         to = "read" => call.surface = "cli"
  PROVE  IInv'
<1>1. TypesOK' BY DEF IInv, TypesOK, GoOn, Steps
<1>2. QED BY <1>1 DEF IInv, Surfaced, NothingEarly, InOrder, ResultTrue, ToldTrue, GoOn, Steps

\* The caller is told of a refusal before anything was sent.
LEMMA EarlyTold ==
  ASSUME IInv, UNCHANGED <<call, plan, sent, applied, result>>, sent = 0, pc' = "done",
         told' \in {[exit |-> 2], [mcp |-> "invalid_params"]},
         call.surface = "cli" <=> told' = [exit |-> 2]
  PROVE  IInv'
<1>1. applied = {} BY DEF IInv, TypesOK
<1>2. Untouched' BY <1>1 DEF Untouched
<1>3. TypesOK' BY DEF IInv, TypesOK, Steps
<1>4. ToldTrue'
  <2>1. CASE told' = [exit |-> 2] BY <1>2, <2>1 DEF ToldTrue
  <2>2. CASE told' = [mcp |-> "invalid_params"] /\ call.surface # "cli"
    BY <1>2, <2>2 DEF ToldTrue
  <2> QED BY <2>1, <2>2
<1>5. QED BY <1>3, <1>4 DEF IInv, Surfaced, NothingEarly, InOrder, ResultTrue

LEMMA CommandLineInv == ASSUME IInv, CommandLine PROVE IInv'
<1>1. sent = 0 /\ call.surface = "cli"
  BY DEF IInv, NothingEarly, Surfaced, CommandLine, Steps
<1>2. CASE Exit(2) BY <1>1, <1>2, EarlyTold DEF Exit, CommandLine
<1>3. CASE Return(Error("config"))
  BY <1>1, <1>3, EarlyReturn DEF CommandLine, Categories
<1>4. CASE GoOn("read") BY <1>1, <1>4, EarlyGoOn DEF CommandLine, Steps
<1>5. QED BY <1>2, <1>3, <1>4 DEF CommandLine

LEMMA ReadInputInv == ASSUME IInv, ReadInput PROVE IInv'
<1>1. sent = 0 /\ call.surface = "cli"
  BY DEF IInv, NothingEarly, Surfaced, ReadInput, Steps
<1>2. CASE GoOn("guard") BY <1>1, <1>2, EarlyGoOn DEF ReadInput, Steps
<1>3. CASE Return(Error("invalid_input"))
  BY <1>1, <1>3, EarlyReturn DEF ReadInput, Categories
<1>4. CASE GoOn("read") BY <1>1, <1>4, EarlyGoOn DEF ReadInput, Steps
<1>5. QED BY <1>2, <1>3, <1>4 DEF ReadInput

LEMMA RouteInv == ASSUME IInv, Route PROVE IInv'
<1>1. sent = 0 /\ call.surface = "mcp"
  BY DEF IInv, NothingEarly, Surfaced, Route, Steps
<1>2. CASE told' = [mcp |-> "invalid_params"] /\ pc' = "done" /\ UNCHANGED <<sent, applied, result>>
  <2>1. [mcp |-> "invalid_params"] # [exit |-> 2] OBVIOUS
  <2> QED BY <1>1, <1>2, <2>1, EarlyTold DEF Route
<1>3. CASE GoOn("guard") BY <1>1, <1>3, EarlyGoOn DEF Route, Steps
<1>4. QED BY <1>2, <1>3 DEF Route

LEMMA GuardInv == ASSUME IInv, Guard PROVE IInv'
<1>1. sent = 0 BY DEF IInv, NothingEarly, Guard, Steps
<1>2. CASE GoOn("arguments") BY <1>1, <1>2, EarlyGoOn DEF Guard, Steps
<1>3. CASE Return(Error("service_unavailable"))
  BY <1>1, <1>3, EarlyReturn DEF Guard, Categories
<1>4. QED BY <1>2, <1>3 DEF Guard

LEMMA ArgumentsInv == ASSUME IInv, Arguments PROVE IInv'
<1>1. sent = 0 BY DEF IInv, NothingEarly, Arguments, Steps
<1>2. CASE GoOn("client") BY <1>1, <1>2, EarlyGoOn DEF Arguments, Steps
<1>3. CASE \E category \in Categories : Return(Error(category))
  BY <1>1, <1>3, EarlyReturn DEF Arguments
<1>4. QED BY <1>2, <1>3 DEF Arguments, Categories

LEMMA ClientInv == ASSUME IInv, Client PROVE IInv'
<1>1. sent = 0 BY DEF IInv, NothingEarly, Client, Steps
<1>2. CASE GoOn("send") BY <1>1, <1>2, EarlyGoOn DEF Client, Steps
<1>3. CASE Return(Failure("invalid_input"))
  BY <1>1, <1>3, EarlyReturn DEF Client, Categories
<1>4. CASE Return(Filtered)
  <2>1. applied = {} BY <1>1 DEF IInv, TypesOK
  <2>2. Untouched' BY <1>4, <2>1 DEF Return, Untouched
  <2>3. TypesOK' BY <1>4 DEF IInv, TypesOK, Return, Client, Steps
  <2>4. ResultTrue' BY <1>4, <2>2 DEF ResultTrue, Return, Filtered
  <2> QED BY <1>4, <2>3, <2>4 DEF IInv, Surfaced, NothingEarly, InOrder, ToldTrue, Return
<1>5. QED BY <1>2, <1>3, <1>4 DEF Client

-----------------------------------------------------------------------------
(* The requests.                                                           *)

LEMMA SendTypes == ASSUME IInv, Send PROVE TypesOK'
<1>1. plan \in Seq(Kinds) BY PlanFits DEF IInv, Fits
<1>2. sent' \in 0..Len(plan) /\ 1..sent' = 1..sent \cup {sent + 1}
  BY <1>1 DEF IInv, TypesOK, Send
<1>3. applied' \subseteq 1..sent' BY <1>2 DEF IInv, TypesOK, Send
<1>4. pc' \in {"send", "tell"} BY DEF Send, FailedRequest
<1>5. QED BY <1>2, <1>3, <1>4 DEF IInv, TypesOK, Send, Steps

\* A tool that only reads has nothing to write.
LEMMA NoWrites ==
  ASSUME TypesOK, call.tool \notin Writing
  PROVE  Writes = {} /\ AllDone /\ Untouched
<1>1. Writes = {} BY PlanFits DEF Writes, Fits
<1>2. QED BY <1>1 DEF AllDone, Untouched

LEMMA SendInv == ASSUME IInv, Send PROVE IInv'
<1>1. TypesOK' BY SendTypes
<1>2. call' = call /\ plan' = plan /\ sent' = sent + 1 /\ told' = told /\ pc = "send"
  BY DEF Send
<1>3. sent \in Nat /\ 1..sent' = 1..sent \cup {sent + 1}
  <2>1. sent \in Nat BY PlanFits DEF IInv, TypesOK, Fits
  <2> QED BY <1>2, <2>1
<1>4. \A i : PassedOver(i)' = PassedOver(i) /\ MayPassOver(i)' = MayPassOver(i)
  BY <1>2, Zenon DEF PassedOver, MayPassOver
<1>5. applied \subseteq applied' BY DEF Send
<1>6. CASE /\ UNCHANGED <<pc, result>>
           /\ sent + 1 \in applied' \/ PassedOver(sent + 1) \/ MayPassOver(sent + 1)
  <2>1. InOrder'
    <3> SUFFICES ASSUME NEW i \in 1..sent'
                 PROVE  i \in applied' \/ PassedOver(i) \/ MayPassOver(i)
      BY <1>4 DEF InOrder
    <3> QED BY <1>2, <1>3, <1>5, <1>6 DEF IInv, InOrder
  <2> QED BY <1>1, <1>2, <1>6, <2>1 DEF IInv, Surfaced, NothingEarly, ResultTrue, ToldTrue
<1>7. CASE pc' = "tell" /\ (result' = Business \/ result' = Error("upstream"))
  BY <1>1, <1>7 DEF IInv, Surfaced, NothingEarly, InOrder, ResultTrue, ToldTrue, Error
<1>8. CASE pc' = "tell" /\ call.tool \notin Writing /\ result' \in {Ok, Error("invalid_input")}
  <2>1. Writes = {} BY <1>8, NoWrites DEF IInv
  <2>2. AllDone' /\ Untouched' BY <1>2, <2>1, Zenon DEF AllDone, Untouched, Writes
  <2> QED BY <1>1, <1>8, <2>2
          DEF IInv, Surfaced, NothingEarly, InOrder, ResultTrue, ToldTrue, Error
<1>9. QED
  <2>1. call.tool \in Judging \cup Lenient => call.tool \notin Writing BY ReadersOnly
  <2> QED BY <1>6, <1>7, <1>8, <2>1 DEF Send, FailedRequest, Failure

LEMMA FinishInv == ASSUME IInv, Finish PROVE IInv'
<1>1. plan \in Seq(Kinds) BY PlanFits DEF IInv, Fits
<1>2. AllDone
  <2>1. CASE call.tool \notin Writing BY <2>1, NoWrites DEF IInv
  <2>2. CASE call.tool \in Writing
    <3>1. \A i : ~MayPassOver(i) BY <2>2, ReadersOnly DEF MayPassOver
    <3> QED BY <1>1, <3>1 DEF AllDone, Writes, Finish, IInv, InOrder
  <2> QED BY <2>1, <2>2
<1>3. AllDone' BY <1>2, SameServer DEF Finish, Return
<1>4. TypesOK' BY DEF IInv, TypesOK, Finish, Return, Steps
<1>5. QED BY <1>3, <1>4
          DEF IInv, Surfaced, NothingEarly, InOrder, ResultTrue, ToldTrue, Finish, Return

-----------------------------------------------------------------------------
(* Telling the result.                                                     *)

LEMMA TellCliInv == ASSUME IInv, TellCli PROVE IInv'
<1>1. UNCHANGED <<call, plan, sent, applied>> /\ pc' = "done" BY DEF TellCli
<1>2. TypesOK' BY <1>1 DEF IInv, TypesOK, Steps
<1>3. CASE result = Ok /\ AllDone
  <2>1. AllDone' BY <1>1, <1>3, SameServer
  <2>2. told' \in {[exit |-> 0], [exit |-> 101]} BY <1>3 DEF TellCli, Ok
  <2>3. ToldTrue' BY <1>1, <2>1, <2>2 DEF ToldTrue, TellCli
  <2> QED BY <1>1, <1>2, <2>3 DEF IInv, Surfaced, NothingEarly, InOrder, ResultTrue
<1>4. CASE result = Business
  <2>1. told' = [exit |-> 5] BY <1>4 DEF TellCli, Business
  <2>2. ToldTrue' BY <1>1, <2>1 DEF ToldTrue, TellCli
  <2> QED BY <1>1, <1>2, <2>2 DEF IInv, Surfaced, NothingEarly, InOrder, ResultTrue
<1>5. CASE result.status = "error"
  <2>1. told' = [exit |-> ExitCode(result.category)] BY <1>5 DEF TellCli
  <2>2. ResultTrue BY DEF IInv
  <2>3. result.category = "invalid_input" => ExitCode(result.category) = 2 BY DEF ExitCode
  <2>4. result.category \in {"config", "service_unavailable"} => ExitCode(result.category) = 3
    BY DEF ExitCode
  <2>5. result.category = "upstream" => ExitCode(result.category) = 4 BY DEF ExitCode
  <2>6. ToldTrue'
    BY <1>1, <1>5, <2>1, <2>2, <2>3, <2>4, <2>5, SameServer
       DEF ToldTrue, ResultTrue, TellCli, Ok, Business
  <2> QED BY <1>1, <1>2, <2>6 DEF IInv, Surfaced, NothingEarly, InOrder, ResultTrue
<1>6. QED BY <1>3, <1>4, <1>5 DEF IInv, ResultTrue, TellCli

LEMMA TellMcpInv == ASSUME IInv, TellMcp PROVE IInv'
<1>1. UNCHANGED <<call, plan, sent, applied>> /\ pc' = "done" /\ call.surface # "cli"
  BY DEF TellMcp
<1>2. TypesOK' BY <1>1 DEF IInv, TypesOK, Steps
<1>3. CASE result = Ok /\ AllDone
  <2>1. AllDone' BY <1>1, <1>3, SameServer
  <2>2. told' = [mcp |-> "result"] BY <1>3 DEF TellMcp, Ok
  <2>3. ToldTrue' BY <1>1, <2>1, <2>2 DEF ToldTrue
  <2> QED BY <1>1, <1>2, <2>3 DEF IInv, Surfaced, NothingEarly, InOrder, ResultTrue
<1>4. CASE result = Business
  <2>1. told' = [mcp |-> "error_result"] BY <1>4 DEF TellMcp, Business
  <2>2. ToldTrue' BY <1>1, <2>1 DEF ToldTrue
  <2> QED BY <1>1, <1>2, <2>2 DEF IInv, Surfaced, NothingEarly, InOrder, ResultTrue
<1>5. CASE result.status = "error"
  <2>1. told' = [mcp |-> McpError(result.category)] BY <1>5 DEF TellMcp
  <2>2. ResultTrue BY DEF IInv
  <2>3. result.category = "upstream" => McpError(result.category) = "internal_error"
    BY DEF McpError
  <2>4. McpError(result.category) \in {"internal_error", "invalid_params"} BY DEF McpError
  <2>5. sent = 0 => Untouched BY Unsent DEF IInv
  <2>6. result.category # "upstream" => Untouched'
    BY <1>1, <1>5, <2>2, <2>5, SameServer DEF ResultTrue, TellMcp, Ok, Business
  <2>7. ToldTrue' BY <1>1, <2>1, <2>3, <2>4, <2>6 DEF ToldTrue
  <2> QED BY <1>1, <1>2, <2>7 DEF IInv, Surfaced, NothingEarly, InOrder, ResultTrue
<1>6. QED BY <1>3, <1>4, <1>5 DEF IInv, ResultTrue, TellMcp

-----------------------------------------------------------------------------

LEMMA StutterInv == ASSUME IInv, UNCHANGED vars PROVE IInv'
<1>1. UNCHANGED <<call, pc, plan, sent, applied, result, told>> BY DEF vars
<1>2. (AllDone => AllDone') /\ (Untouched => Untouched') BY <1>1, SameServer
<1>3. \A i : PassedOver(i)' = PassedOver(i) /\ MayPassOver(i)' = MayPassOver(i)
  BY <1>1, Zenon DEF PassedOver, MayPassOver
<1>4. TypesOK' /\ Surfaced' /\ NothingEarly'
  BY <1>1 DEF IInv, TypesOK, Surfaced, NothingEarly
<1>5. InOrder' BY <1>1, <1>3 DEF IInv, InOrder
<1>6. ResultTrue' /\ ToldTrue' BY <1>1, <1>2 DEF IInv, ResultTrue, ToldTrue
<1>7. QED BY <1>4, <1>5, <1>6 DEF IInv

\* In every reachable state the requests that went out, the result and what was told of
\* it agree (the operations of src/operations/ behind cli_main and the MCP handlers).
THEOREM CallsInvariance == Spec => []IInv
<1>1. ASSUME IInv, [Next]_vars PROVE IInv'
  BY <1>1, CommandLineInv, ReadInputInv, RouteInv, GuardInv, ArgumentsInv, ClientInv,
     SendInv, FinishInv, TellCliInv, TellMcpInv, StutterInv DEF Next
<1>2. QED BY <1>1, InitInv, PTL DEF Spec

\* RefusedMeansUntouched holds of every call: told that the call was not accepted, the
\* caller finds the server's objects as they were (OperationError::exit_code,
\* operation_error_to_mcp).
THEOREM RefusedUntouched == Spec => []RefusedMeansUntouched
<1>1. ASSUME IInv PROVE RefusedMeansUntouched
  <2>1. sent = 0 => applied \cap Writes = {} BY <1>1, Unsent DEF IInv, Untouched
  <2> QED BY <1>1, <2>1 DEF IInv, ToldTrue, Untouched, RefusedMeansUntouched, Told
<1>2. QED BY <1>1, CallsInvariance, PTL

\* SuccessMeansDone holds of every call: told of success, the caller need not look
\* whether the writes were carried out.
THEOREM SuccessDone == Spec => []SuccessMeansDone
<1>1. ASSUME IInv PROVE SuccessMeansDone
  BY <1>1 DEF IInv, ToldTrue, AllDone, SuccessMeansDone, Told
<1>2. QED BY <1>1, CallsInvariance, PTL

\* AnnotationHolds of every call: of every request that a tool sends, what the registry
\* tells an MCP client of the tool is true, but for the two tools that renew
\* (src/tool_registry/).
THEOREM AnnotationsTrue == Spec => []AnnotationHolds
<1>1. ASSUME IInv PROVE AnnotationHolds
  <2>1. Fits(call.tool, plan) /\ call.tool \in RegisteredTools BY <1>1, PlanFits DEF IInv
  <2>2. \A i \in 1..sent : i \in 1..Len(plan) BY <1>1, <2>1 DEF IInv, TypesOK, Fits
  <2>3. call.tool \notin Writing => \A i \in 1..sent : plan[i] = "read"
    BY <2>1, <2>2 DEF Fits
  <2>4. call.tool \notin Replacing =>
          \A i \in 1..sent :
             plan[i] \in {"read", "add"} \/ (plan[i] = "replace" /\ call.tool \in Renewing)
    BY <2>1, <2>2 DEF Fits
  <2> QED BY <2>1, <2>3, <2>4, AnnotationsFit DEF AnnotationHolds
<1>2. QED BY <1>1, CallsInvariance, PTL

-----------------------------------------------------------------------------
(* Which tools may be called.                                              *)


\* The initial states satisfy the inductive invariant.
LEMMA AccessBegins == AccessInit => AccessInv
BY DEF AccessInit, AccessInv, ProcessWins, AnswersFollowContext, Variables, NoContext, Names

\* Merging a file changes no variable that has a value.
LEMMA MergeKeeps ==
  ASSUME NEW e, NEW lines, NEW v \in Variables, e[v] # Unset
  PROVE  Merge(e, lines)[v] = e[v]
BY DEF Merge

\* Neither does loading one, whatever kind of file it is.
LEMMA LoadedKeeps ==
  ASSUME NEW e, NEW file, NEW v \in Variables, e[v] # Unset
  PROVE  Loaded(e, file)[v] = e[v]
BY MergeKeeps DEF Loaded

\* Every step of the program keeps the inductive invariant.
LEMMA AccessStep == AccessInv /\ [AccessNext]_accessVars => AccessInv'
<1> SUFFICES ASSUME AccessInv, [AccessNext]_accessVars PROVE AccessInv'
  OBVIOUS
<1> USE DEF AccessInv
<1>1. CASE LoadDotenv
  <2>1. ProcessWins'
    BY <1>1, LoadedKeeps DEF LoadDotenv, ProcessWins
  <2>2. AnswersFollowContext'
    BY <1>1 DEF LoadDotenv, AnswersFollowContext, NoListing, Names, Server
  <2> QED BY <1>1, <2>1, <2>2 DEF LoadDotenv
<1>2. CASE ConfigureServer
  <2>1. ProcessWins'
    BY <1>2 DEF ConfigureServer, ProcessWins
  <2>2. AnswersFollowContext'
    BY <1>2 DEF ConfigureServer, AnswersFollowContext, NoListing, Names, Server, ServerContext,
                ToolNames, Present
  <2>3. context'.available \subseteq context'.configured
    BY <1>2 DEF ConfigureServer, ServerContext, AvailableServices
  <2> QED BY <2>1, <2>2, <2>3
<1>3. CASE ConfigureCli
  <2>1. ProcessWins'
    BY <1>3 DEF ConfigureCli, ProcessWins
  <2>2. AnswersFollowContext'
    BY <1>3 DEF ConfigureCli, AnswersFollowContext, NoListing, Names
  <2>3. context'.available \subseteq context'.configured
    BY <1>3 DEF ConfigureCli, CliContext, AvailableServices
  <2> QED BY <2>1, <2>2, <2>3
<1>4. CASE ListTools
  <2>1. ProcessWins'
    BY <1>4 DEF ListTools, ProcessWins
  <2>2. {t \in Tools : Discoverable(t)}' = {t \in Tools : Discoverable(t)}
    BY <1>4 DEF ListTools, Discoverable, ToolEnabled, ServiceAvailable
  <2>3. ASSUME NEW n \in Names
        PROVE  /\ ToolGuard(n)' = ToolGuard(n)
               /\ Operation(n)' = Operation(n)
    BY <1>4 DEF ListTools, ToolGuard, Operation, OperationGuard, ClientFor, ToolEnabled,
                ServiceAvailable
  <2>4. AnswersFollowContext'
    BY <1>4, <2>2, <2>3 DEF ListTools, AnswersFollowContext, NoListing, Names, Server, ToolNames, Present
  <2> QED BY <1>4, <2>1, <2>4 DEF ListTools
<1>5. ASSUME NEW m \in Names, CallTool(m) PROVE AccessInv'
  <2>1. ProcessWins'
    BY <1>5 DEF CallTool, ProcessWins
  <2>2. {t \in Tools : Discoverable(t)}' = {t \in Tools : Discoverable(t)}
    BY <1>5 DEF CallTool, Discoverable, ToolEnabled, ServiceAvailable
  <2>3. ASSUME NEW n \in Names
        PROVE  /\ ToolGuard(n)' = ToolGuard(n)
               /\ Operation(n)' = Operation(n)
    BY <1>5 DEF CallTool, ToolGuard, Operation, OperationGuard, ClientFor, ToolEnabled,
                ServiceAvailable
  <2>4. AnswersFollowContext'
    BY <1>5, <2>2, <2>3 DEF CallTool, AnswersFollowContext, NoListing, Names, Server, ToolNames, Present
  <2> QED BY <1>5, <2>1, <2>4 DEF CallTool
<1>6. ASSUME NEW t \in Tools, RunCommand(t) PROVE AccessInv'
  BY <1>6 DEF RunCommand, ProcessWins, AnswersFollowContext, NoListing, Names
<1>7. CASE UNCHANGED accessVars
  BY <1>7 DEF accessVars, ProcessWins, AnswersFollowContext, NoListing, Names, Server, ToolNames, Present,
              Discoverable, ToolEnabled, ServiceAvailable, ToolGuard, Operation, OperationGuard,
              ClientFor
<1> QED BY <1>1, <1>2, <1>3, <1>4, <1>5, <1>6, <1>7 DEF AccessNext

\* The environment, the lists and the answers fit the context at all times.
THEOREM AccessInvariance == AccessSpec => []AccessInv
BY AccessBegins, AccessStep, PTL DEF AccessSpec

\* A tool runs for an MCP client exactly if tools/list names it, whatever tools,
\* profiles and services are registered and however the server is configured.
THEOREM ListedCallable == AccessSpec => []ListedIffCallable
<1>1. AccessInv => ListedIffCallable
  <2> SUFFICES ASSUME AccessInv, listed # NoListing, NEW n \in Names, answers[n] # "none"
               PROVE  n \in listed <=> answers[n] = "ran"
    BY DEF ListedIffCallable
  <2>1. phase = "serving"
    BY DEF AccessInv, AnswersFollowContext
  <2>2. /\ listed = {t \in Tools : Discoverable(t)}
        /\ answers[n] = IF ToolGuard(n) THEN Operation(n) ELSE "refused"
    BY <2>1 DEF AccessInv, AnswersFollowContext
  <2>3. n \in Tools => (Discoverable(n) <=> ToolGuard(n))
    BY DEF Discoverable, ToolGuard
  <2>4. ToolGuard(n) => n \in Tools /\ Operation(n) = "ran"
    BY DEF ToolGuard, Operation, OperationGuard, ServiceAvailable, ClientFor, AccessInv
  <2> QED BY <2>2, <2>3, <2>4
<1> QED BY <1>1, AccessInvariance, PTL

\* A tool that the environment of the process disables never runs over MCP, for
\* every profile, toolset list, exact inclusion and dotenv file.
THEOREM DisabledRefused == AccessSpec => []DisabledNeverRuns
<1>1. AccessInv => DisabledNeverRuns
  <2> SUFFICES ASSUME AccessInv, Server, Given("MCP_DISABLED_TOOLS"),
                      NEW t \in process["MCP_DISABLED_TOOLS"] \cap Tools
               PROVE  answers[t] # "ran"
    BY DEF DisabledNeverRuns
  <2>1. CASE phase = "serving"
    <3>1. t \in context.disabled
      BY <2>1 DEF AccessInv, AnswersFollowContext, ProcessWins, ToolNames, Present, Given
    <3>2. ~ToolGuard(t)
      BY <3>1 DEF ToolGuard, ToolEnabled
    <3> QED BY <2>1, <3>2 DEF AccessInv, AnswersFollowContext, Names
  <2>2. CASE phase # "serving"
    BY <2>2 DEF AccessInv, AnswersFollowContext, Server, Names
  <2> QED BY <2>1, <2>2
<1> QED BY <1>1, AccessInvariance, PTL

-----------------------------------------------------------------------------
(* How the environment in force came about, and what follows for the       *)
(* services and for the CLI.                                               *)

\* A variable of a merged environment is the old one or a line of the file.
LEMMA LoadedFrom ==
  ASSUME NEW e, NEW file, NEW v \in Variables, DOMAIN e = Variables
  PROVE  \/ Loaded(e, file)[v] = e[v]
         \/ v \in DOMAIN file.head /\ Loaded(e, file)[v] = file.head[v]
         \/ v \in DOMAIN file.tail /\ Loaded(e, file)[v] = file.tail[v]
BY DEF Loaded, Merge

\* The file that is read is the one that was asked for, or else .env.
LEMMA SelectedFile ==
  ASSUME env = process
  PROVE  /\ AskedFor # {} => AskedFor = {Selected} /\ ~IsDefault
         /\ AskedFor = {} => Selected = DefaultPath /\ IsDefault
BY DEF AskedFor, Selected, IsDefault

\* A service whose settings are valid is available as soon as it is configured.
LEMMA ValidAvailable ==
  ASSUME \A s \in Services : ServiceValid(s)
  PROVE  AvailableServices = ConfiguredServices
BY DEF AvailableServices, ConfiguredServices, ServiceValid

\* The initial states satisfy the invariant.
LEMMA StartInit == AccessInit => StartInv
BY InputsAssumption DEF AccessInit, StartInv, Origin, ServicesInContext, CliAnswers, OneSource, InService, Names

\* Loading the dotenv file keeps it.
LEMMA StartLoad == AccessInv /\ StartInv /\ LoadDotenv => StartInv'
<1> SUFFICES ASSUME AccessInv, StartInv, LoadDotenv PROVE StartInv'
  OBVIOUS
<1>1. /\ phase = "dotenv" /\ env = process /\ phase' \in {"config", "failed"}
      /\ UNCHANGED <<mode, arguments, disk, process, context, listed, answers>>
  BY DEF LoadDotenv, StartInv, Origin
<1>2. AskedFor' = AskedFor /\ \A f : FileAt(f)' = FileAt(f)
  BY <1>1 DEF AskedFor, FileAt
<1>3. mode \in {"stdio", "streamhttp", "cli"} /\ \A t \in Tools : answers[t] = "none"
  BY <1>1 DEF AccessInv, AnswersFollowContext, Names
<1>4. Origin'
  <2>1. phase' = "config" /\ mode' # "stdio" => (\A f \in AskedFor : FileAt(f).kind = "whole")'
    BY <1>1, <1>2, <1>3, SelectedFile DEF LoadDotenv, LoadsDotenv
  <2>2. ASSUME LoadsDotenv PROVE FromOneFile'
    <3>1. DOMAIN env = Variables
      BY <1>1 DEF StartInv, Origin
    <3>2. SourceFile' = SourceFile /\ SourceFile = FileAt(Selected)
      <4>1. SourceFile' = SourceFile
        BY <1>1 DEF SourceFile, AskedFor, FileAt
      <4>2. (IF AskedFor = {} THEN DefaultPath ELSE CHOOSE f \in AskedFor : TRUE) = Selected
        BY <1>1, SelectedFile
      <4> QED BY <4>1, <4>2 DEF SourceFile
    <3>3. env' = Loaded(env, FileAt(Selected))
      BY <2>2 DEF LoadDotenv
    <3> QED BY <1>1, <3>1, <3>2, <3>3, LoadedKeeps, LoadedFrom DEF FromOneFile
  <2> QED BY <1>1, <2>1, <2>2 DEF Origin, LoadDotenv
<1>5. ServicesInContext'
  BY <1>1 DEF ServicesInContext, InService
<1>6. CliAnswers'
  BY <1>1, <1>2, <1>3, SelectedFile DEF CliAnswers, LoadDotenv, LoadsDotenv
<1>7. OneSource'
  <2>1. mode' = "stdio" => env' = process'
    BY <1>1 DEF LoadDotenv, LoadsDotenv
  <2>2. ~InService'
    BY <1>1 DEF InService
  <2> QED BY <2>1, <2>2 DEF OneSource
<1> QED BY <1>4, <1>5, <1>6, <1>7 DEF StartInv

\* Configuring keeps it: what was accepted is what is in force.
LEMMA StartConfigure == AccessInv /\ StartInv /\ (ConfigureServer \/ ConfigureCli) => StartInv'
<1> SUFFICES ASSUME AccessInv, StartInv, ConfigureServer \/ ConfigureCli PROVE StartInv'
  OBVIOUS
<1>1. /\ phase = "config" /\ phase' \in {"serving", "command", "failed"}
      /\ UNCHANGED <<mode, arguments, disk, process, env, listed, answers>>
  BY DEF ConfigureServer, ConfigureCli
<1>2. /\ AskedFor' = AskedFor /\ SourceFile' = SourceFile /\ \A f : FileAt(f)' = FileAt(f)
      /\ ConfiguredServices' = ConfiguredServices /\ \A s : ServiceValid(s)' = ServiceValid(s)
  BY <1>1 DEF AskedFor, SourceFile, FileAt, ConfiguredServices, ServiceValid, HasCredential, Present
<1>3. FromOneFile' = FromOneFile
  BY <1>1, <1>2 DEF FromOneFile
<1>4. phase' # "failed" =>
        /\ \A s \in Services : ServiceValid(s)
        /\ context'.configured = ConfiguredServices /\ context'.available = AvailableServices
  BY DEF ConfigureServer, ConfigureCli, ServerContext, CliContext
<1>5. Origin'
  BY <1>1 DEF Origin
<1>6. ServicesInContext'
  BY <1>1, <1>2, <1>4, ValidAvailable DEF ServicesInContext, InService
<1>7. CliAnswers'
  <2>1. \A t \in Tools : answers[t] = "none"
    BY <1>1 DEF AccessInv, AnswersFollowContext, Names
  <2>2. mode = "cli" /\ phase' = "failed" => \E s \in Services : ~ServiceValid(s)
    BY <1>1 DEF ConfigureServer, ConfigureCli, Server
  <2> QED BY <1>1, <1>2, <2>1, <2>2 DEF CliAnswers
<1>8. OneSource'
  BY <1>1, <1>2, <1>3 DEF StartInv, Origin, OneSource, InService
<1> QED BY <1>5, <1>6, <1>7, <1>8 DEF StartInv

\* Lists, calls and commands keep it: they change nothing that it is about, but the
\* answer of a command is that of its operation.
LEMMA StartUse ==
  ASSUME AccessInv, StartInv,
         \/ ListTools \/ UNCHANGED accessVars
         \/ \E n \in Names : CallTool(n)
         \/ \E t \in Tools : RunCommand(t)
  PROVE  StartInv'
<1>1. /\ UNCHANGED <<mode, arguments, disk, process, env, context>>
      /\ phase' = phase \/ (phase = "command" /\ phase' = "done")
  BY DEF ListTools, CallTool, RunCommand, accessVars
<1>2. /\ AskedFor' = AskedFor /\ SourceFile' = SourceFile /\ \A f : FileAt(f)' = FileAt(f)
      /\ ConfiguredServices' = ConfiguredServices /\ \A s : ServiceValid(s)' = ServiceValid(s)
  BY <1>1 DEF AskedFor, SourceFile, FileAt, ConfiguredServices, ServiceValid, HasCredential, Present
<1>3. FromOneFile' = FromOneFile
  BY <1>1, <1>2 DEF FromOneFile
<1>4. Origin'
  BY <1>1, <1>2, <1>3 DEF StartInv, Origin
<1>5. InService' = InService
  BY <1>1 DEF InService
<1>6. ServicesInContext'
  BY <1>1, <1>2, <1>5 DEF StartInv, ServicesInContext
<1>7. CliAnswers'
  <2>1. \A t \in Tools : Operation(t)' = Operation(t)
    BY <1>1 DEF Operation, OperationGuard, ServiceAvailable, ClientFor
  <2>2. mode = "cli" => phase # "serving"
    BY DEF AccessInv, AnswersFollowContext, Server
  <2>3. mode = "cli" =>
          \A t \in Tools : answers'[t] = answers[t] \/ (InService /\ answers'[t] = Operation(t))
    BY <2>2 DEF ListTools, CallTool, RunCommand, accessVars, InService, AccessInv, AnswersFollowContext, Names
  <2> QED BY <1>1, <1>2, <1>5, <2>1, <2>3 DEF StartInv, CliAnswers
<1>8. OneSource'
  BY <1>1, <1>2, <1>3, <1>5 DEF StartInv, OneSource
<1> QED BY <1>4, <1>6, <1>7, <1>8 DEF StartInv

\* The environment and the context keep their origin at all times.
THEOREM StartInvariance == AccessSpec => []StartInv
<1>1. AccessInv /\ StartInv /\ [AccessNext]_accessVars => StartInv'
  BY StartLoad, StartConfigure, StartUse DEF AccessNext
<1> QED BY <1>1, StartInit, AccessInvariance, PTL DEF AccessSpec

\* Every variable in force is the process's own or from one file.
THEOREM OneSourceHolds == AccessSpec => []OneSource
<1>1. StartInv => OneSource
  BY DEF StartInv
<1> QED BY <1>1, StartInvariance, PTL

\* No credential is dropped in silence, for any services and any dotenv files.
THEOREM CredentialsHeeded == AccessSpec => []NoCredentialIgnored
<1>1. AccessInv /\ StartInv => NoCredentialIgnored
  <2> SUFFICES ASSUME AccessInv, StartInv, InService, NEW s \in Services, Given(Credential[s])
               PROVE  s \in context.available
    BY DEF NoCredentialIgnored
  <2>1. Credential[s] \in Variables
    BY RegistryAssumption DEF Variables, Range
  <2>2. Present(Credential[s])
    BY <2>1 DEF AccessInv, ProcessWins, Given, Present
  <2>3. ServiceValid(s) /\ context.available = ConfiguredServices
    BY DEF StartInv, ServicesInContext
  <2> QED BY <2>2, <2>3 DEF ServiceValid, ConfiguredServices
<1> QED BY <1>1, AccessInvariance, StartInvariance, PTL

\* The CLI does not depend on the MCP variables, for any value they may have.
THEOREM CliIndependent == AccessSpec => []CliIgnoresMcp
<1>1. StartInv => CliIgnoresMcp
  <2> SUFFICES ASSUME StartInv, mode = "cli" PROVE CliIgnoresMcp
    BY DEF CliIgnoresMcp
  <2>1. ASSUME NEW t \in Tools, answers[t] # "none"
        PROVE  answers[t] = IF Present(URL[ToolService[t]]) THEN "ran" ELSE "unavailable"
    <3>1. answers[t] = Operation(t) /\ InService
      BY <2>1 DEF StartInv, CliAnswers
    <3>2. context.available = ConfiguredServices /\ context.configured = ConfiguredServices
      BY <3>1 DEF StartInv, ServicesInContext
    <3>3. ToolService[t] \in Services
      BY RegistryAssumption
    <3> QED BY <3>1, <3>2, <3>3 DEF Operation, OperationGuard, ServiceAvailable, ClientFor, ConfiguredServices
  <2> QED BY <2>1 DEF StartInv, CliAnswers, CliIgnoresMcp
<1> QED BY <1>1, StartInvariance, PTL
=============================================================================
