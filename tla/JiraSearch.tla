----------------------------- MODULE JiraSearch -----------------------------
(***************************************************************************)
(* search_issues and list_project_issues of Jira: one question, asked page *)
(* by page.  Jira Cloud has an enhanced search, continued with a token and *)
(* refusing unbounded JQL, and a legacy search, continued with an offset   *)
(* and removed site by site; Server has one search, with an offset.  The   *)
(* client chooses per call, falls back from one to the other, and puts the *)
(* project filter into the JQL.                                            *)
(*                                                                         *)
(* The reader modelled here follows the answers: with next_page_token      *)
(* where there is one, otherwise from the offset it has reached.  The      *)
(* matching issues and their order do not change while it reads; the site  *)
(* may begin to refuse unbounded JQL, and lose the legacy search, any time.*)
(***************************************************************************)
EXTENDS Integers, Sequences, SequencesExt, Selection

CONSTANTS
  Issues,       \* the site's issues in the order of the answers: [project, matches]
  Projects,     \* their projects
  Filters,      \* the values JIRA_PROJECTS_FILTER may have; {} is none
  PageSizes     \* the page sizes a reader may ask for

ASSUME SearchAssumption ==
  /\ Issues \in Seq([project : Projects, matches : BOOLEAN])
  /\ Filters \subseteq SUBSET Projects
  /\ PageSizes \subseteq Nat \ {0}

\* A JQL: its clause (none, one that stands by itself, a disjunction) and
\* whether an ORDER BY follows, after a space or after a line break.
JQLs == [clause : {"none", "plain", "or"}, order : {"none", "space", "break"}]

NoToken == -1

VARIABLES
  site,        \* [deployment, legacy: is the legacy search there, strict: does
               \* the enhanced search refuse JQL without a project clause]
  filter,      \* config.projects_filter
  tool,        \* search_issues or list_project_issues
  jql,         \* the caller's JQL
  asked,       \* the caller's projects_filter, or the project_key
  seen,        \* the indices of the issues the reader got, in order
  startAt, pageToken,   \* the arguments of its next call
  request,     \* idle, enhanced, legacy or server: the request under way
  pageSize,    \* the page size of the call under way
  ending       \* how the last call ended, or "none"

searchVars ==
  <<site, filter, tool, jql, asked, seen, startAt, pageToken, request, pageSize, ending>>
question == <<filter, tool, jql, asked>>

-----------------------------------------------------------------------------
(* The JQL that is sent.                                                   *)

\* effective_projects: the configured and the requested projects have to overlap.
Effective ==
  IF tool = "list_project_issues" \/ asked = {} THEN filter
  ELSE IF filter = {} THEN asked ELSE filter \cap asked

\* effective_projects and ensure_project_allowed: nothing is sent.
Outside == filter # {} /\ asked # {} /\ filter \cap asked = {}

\* Where an ORDER BY is not recognised, the filter encloses it with the clause.
Recognised == \/ jql.order # "break"
              \/ jql.clause = "none"    \* jql is trimmed, so it starts with ORDER BY

\* Fault: the clause follows the AND as it is.
Fault_Injected == [projects |-> Effective, enclosed |-> FALSE, wellFormed |-> TRUE]

\* inject_project_filter.  "enclosed": the caller's clause is in parentheses.
Injected ==
  [ projects   |-> Effective,
    enclosed   |-> TRUE,
    wellFormed |-> Effective = {} \/ Recognised ]

-----------------------------------------------------------------------------
(* The site, as the client uses it.                                        *)

InClause(k) ==
  IF tool = "list_project_issues" THEN Issues[k].project \in asked
  ELSE jql.clause = "none" \/ Issues[k].matches

InProjects(k) == Injected.projects = {} \/ Issues[k].project \in Injected.projects

\* Without parentheses only the first term of a disjunction meets the filter.
Found(k) ==
  InClause(k) /\ (InProjects(k) \/ (jql.clause = "or" /\ ~Injected.enclosed))

\* The issues of a set, in the order of the answers.
InOrder(ks) == Select([k \in DOMAIN Issues |-> k], ks)

\* The issues the JQL finds.
Matching == InOrder({k \in DOMAIN Issues : Found(k)})

\* "issuekey IS NOT EMPTY", which the client adds to an empty JQL, bounds nothing.
Unbounded == site.strict /\ tool = "search_issues" /\ Injected.projects = {}

LosesLegacy ==
  /\ site.deployment = "cloud" /\ site.legacy
  /\ site' = [site EXCEPT !.legacy = FALSE]
  /\ UNCHANGED <<question, seen, startAt, pageToken, request, pageSize, ending>>

BecomesStrict ==
  /\ site.deployment = "cloud" /\ ~site.strict
  /\ site' = [site EXCEPT !.strict = TRUE]
  /\ UNCHANGED <<question, seen, startAt, pageToken, request, pageSize, ending>>

-----------------------------------------------------------------------------
(* The client.                                                             *)

Ends(how) == request' = "idle" /\ ending' = how

Search ==
  IF site.deployment = "server" THEN "server"
  ELSE IF startAt > 0 /\ pageToken = NoToken THEN "legacy" ELSE "enhanced"

\* The first request, from the caller's start_at and page_token.
CallSearch ==
  /\ request = "idle" /\ ending # "complete"
  /\ pageSize' \in PageSizes
  /\ IF Outside THEN Ends("invalid")
     ELSE /\ request' = Search
          /\ ending' = "none"
  /\ UNCHANGED <<site, question, seen, startAt, pageToken>>

\* Whether the reader goes on with a token: list_project_issues takes none.
Continues(token) == token /\ tool = "search_issues"

\* The issues of an answer are appended; the reader notes where to go on.
Page(from, token) ==
  \E n \in 0..pageSize :
    LET reached == from + n
        page == SubSeq(Matching, from + 1, reached)
        rest == Len(Matching) - reached
    IN /\ rest >= 0
       /\ n = 0 => rest = 0
       /\ seen' = seen \o page
       /\ IF rest = 0 THEN Ends("complete") ELSE Ends("page")
       /\ IF Continues(token) /\ rest > 0
            THEN pageToken' = reached /\ startAt' = 0
            ELSE pageToken' = NoToken /\ startAt' = Len(seen')
       /\ UNCHANGED <<site, question, pageSize>>

\* An answer the client reports as it is: an HTTP error, a lost connection.
RequestFails ==
  /\ request # "idle"
  /\ Ends("failed")
  /\ UNCHANGED <<site, question, seen, startAt, pageToken, pageSize>>

Malformed ==
  /\ request # "idle" /\ ~Injected.wellFormed
  /\ Ends("malformed")
  /\ UNCHANGED <<site, question, seen, startAt, pageToken, pageSize>>

FallsBack == pageToken = NoToken /\ Unbounded

\* search_cloud_enhanced, and what follows when it refuses the JQL.
Enhanced ==
  /\ request = "enhanced" /\ Injected.wellFormed
  /\ IF Unbounded
       THEN /\ IF FallsBack THEN request' = "legacy" /\ ending' = ending ELSE Ends("failed")
            /\ UNCHANGED <<site, question, seen, startAt, pageToken, pageSize>>
       ELSE Page(IF pageToken = NoToken THEN 0 ELSE pageToken, TRUE)

Offset == startAt

\* What a caller is told when the legacy search is gone.
Advice == IF startAt > 0 /\ pageToken = NoToken THEN "use_page_token" ELSE "restrict_jql"

\* search_cloud_legacy; without it the advice depends on why it was asked.
Legacy ==
  /\ request = "legacy" /\ Injected.wellFormed
  /\ IF site.legacy
       THEN Page(Offset, FALSE)
       ELSE /\ Ends(Advice)
            /\ UNCHANGED <<site, question, seen, startAt, pageToken, pageSize>>

Server ==
  /\ request = "server" /\ Injected.wellFormed
  /\ Page(Offset, FALSE)

SearchInit ==
  /\ site \in [deployment : {"cloud"}, legacy : BOOLEAN, strict : BOOLEAN]
              \cup {[deployment |-> "server", legacy |-> FALSE, strict |-> FALSE]}
  /\ filter \in Filters
  /\ tool \in {"search_issues", "list_project_issues"}
  /\ jql \in JQLs
  /\ asked \in SUBSET Projects
  /\ tool = "list_project_issues" =>
       (\E p \in Projects : asked = {p}) /\ jql = [clause |-> "plain", order |-> "none"]
  /\ seen = <<>> /\ startAt = 0 /\ pageToken = NoToken
  /\ request = "idle" /\ pageSize \in PageSizes /\ ending = "none"

SearchNext ==
  \/ CallSearch \/ Enhanced \/ Legacy \/ Server \/ Malformed \/ RequestFails
  \/ LosesLegacy \/ BecomesStrict

SearchSpec == SearchInit /\ [][SearchNext]_searchVars
-----------------------------------------------------------------------------
(* Properties.                                                             *)

\* The issues the caller asked for, within the projects it may see.
Wanted(k) ==
  /\ InClause(k)
  /\ filter = {} \/ Issues[k].project \in filter
  /\ asked = {} \/ Issues[k].project \in asked

\* A reader that follows the answers gets the issues it asked for, each once and
\* in order, whichever searches answered it and whatever failed in between; when
\* no page follows, it has them all (search, inject_project_filter).
WalkExact ==
  LET wanted == InOrder({k \in DOMAIN Issues : Wanted(k)})
  IN IsPrefix(seen, wanted) /\ (ending = "complete" => seen = wanted)

=============================================================================
