# Verification of workhub-rs

TLA+ models of `workhub-rs`, a server and command line that gives MCP clients and
scripts access to Jira, Confluence and GitLab, with TLC configurations that check
them and TLAPS proofs about them. Paths are relative to the repository.

## 1. The system

One process starts in one of three modes (`src/main.rs`): an MCP server over stdio, an
MCP server over HTTP, or one command of the resource CLI. It reads its configuration
once and holds no other state: no cache, no queue, no file of its own. All state that
lasts is on the three services it talks to. What happens at the same time is *calls*:
each tool call is a task of its own, sends one or several HTTP requests, and awaits each
of them. Between two requests of one call, any step of any other call may happen, and
so may the edits of the services' other users.

| Part | Source | State | Operations | Hard behaviour |
| --- | --- | --- | --- | --- |
| Startup, configuration | `src/main.rs`, `src/env_loader.rs`, `src/config.rs`, `src/upstream/config.rs`, `src/gitlab/config.rs` | environment, then an immutable context | load a dotenv file, parse, start or fail | precedence of sources, blank and half-given settings, the CLI and the server reading different parts |
| Tool registry and MCP server | `src/tool_registry.rs`, `src/mcp.rs`, `src/mcp/` | the context | list tools, call a tool | four checks in three files must draw the same line |
| Operation layer | `src/operations/` | none | one function per tool, shared by MCP and CLI | order of several requests, partial failure, what the caller is told |
| Confluence client | `src/confluence/` | none | pages, children, attachments, comments, labels, search, users, analytics | read-then-write on a versioned page, best-effort follow-ups, paging over lists that change |
| Jira client | `src/jira/` | none | issues, search, agile, versions, worklogs, links, attachments | search fallbacks, batches that go on after a failure |
| GitLab client | `src/gitlab/` | none | merge requests, discussions, diffs, approval, merge | project filter, diff budget, merge guarded by a commit |
| Upstream HTTP | `src/upstream/http.rs`, `src/upstream/error.rs` | connection pool (reqwest) | send and decode, download within a limit | timeouts, lost answers, redirects, size limits |
| CLI surface | `src/cli.rs`, `src/cli/` | none | parse arguments, call one operation, print | same operation, other guard |
| Development runners | `xtask/src/smoke.rs`, `xtask/src/acceptance.rs` | children, mocks, recorded requests, printed rows | start the program, talk to it, judge it, end it | a child that deviates, an answer that never comes, what is left running |
| Formatting, redaction, logging | `src/confluence/formatting.rs`, `src/upstream/redaction.rs`, ... | none | text to text | not concurrent |

How they meet: `main` builds the context; an MCP call passes
`guard_registered_tool_call` (route, then registry), then its handler calls one function
of the operation layer, which makes a second, weaker guard, builds a client from the
context and lets it send requests through `UpstreamHttpClient`. A CLI command enters at
the operation layer. Errors come back as an `UpstreamError`, then an `OperationError`
with a category, and end as an MCP error or an exit code.

What makes each part correct:

- *page writes*: no call takes back what another call wrote, no write is made twice, and
  what the caller is told agrees with what happened, also when requests or answers are
  lost or late;
- *lists read in pages*: nothing twice, nothing left out that was there all the time,
  "no more" means no more, a resume point loses nothing, and the reading ends;
- *tool access*: what is listed can be called and nothing else, an exclusion wins over
  every inclusion, the CLI does not depend on MCP settings, and an incomplete or
  misspelt setting stops the startup instead of switching something off in silence;
- *one request*: it goes to the configured origin only, redirects included, a download is
  within its limit, no secret meant for all services is used where one has its own, and
  the request ends;
- *results*: a caller told of success need not look, one told of a refusal may correct the
  call and repeat it, and a tool is annotated as what it does;
- *the runners*: exit code 0 of the smoke means the program behaved, each line of the
  acceptance tells how its row was answered, and nothing is left running;
- *Jira searches*: a reader who follows the answers gets exactly what it asked for within
  the project filter, whichever endpoint answered;
- *Jira operations*: what is said of each item of a call is so, a batch reports on all of
  them, and development data, which is asked for by id, stays within the project filter;
- *merge requests*: what is merged is what was agreed on, an update changes what it names
  and nothing else, and a bounded diff keeps its bound and says when it was cut.

## 2. Modules

| Module | What it is |
| --- | --- |
| `ConfluencePages` | create, update, move and delete of Confluence pages: concurrent calls, the network, the server |
| `AtomicPage` | what those calls promise: one atomic effect each. `ConfluencePages` implements it (`AtomicSpec`) |
| `ConfluencePagesProofs` | the inductive invariant, the safety and action properties and the refinement, proved |
| `AttachmentDownload` | `download_content_attachments`: list page after list page, download by download, while others attach and delete |
| `PageChildren` | `get_page_children`: child pages and child folders read as one list in windows, while others create pages |
| `ConfluenceContent` | the other Confluence operations: searches, the space tree, diffs, views, labels, comments, deletes, uploads |
| `ConfluenceContentProofs` | its writes, uploads, walks by offset and diffs, proved |
| `JiraSearch` | `search_issues` and `list_project_issues`: three endpoints, one reader, the project filter |
| `Selection` | the elements of a sequence a filter keeps, as a recursive function; used by the modules that page through lists |
| `SelectionProofs` | induction over the natural numbers, facts about sequences, what `Select` keeps and `FlattenSeq` joins, proved |
| `WalksAndRunnersProofs` | the reader of `JiraSearch`, the downloads of `AttachmentDownload`, the windows of `PageChildren` and the safety properties of `DevRunners`, proved |
| `JiraOperations` | every other operation of Jira: checks, requests, batches, lookups by key, lost and late requests |
| `JiraOperationsProofs` | true results, complete batches, development data within the project filter, proved |
| `GitlabMergeRequests` | the GitLab operations on a merge request, by several callers, while commits are pushed |
| `GitlabMergeRequestsProofs` | what is merged was agreed on, results are true, updates are exact, diffs keep their bound, proved |
| `ToolAccess` | startup, dotenv files, configuration, tools/list, tool calls, CLI commands |
| `ToolRegistry` | data: every registered tool with its service, toolset and annotation, and the profiles |
| `Surfaces` | one operation from the command or the tool call to the exit code or the answer |
| `SurfacesProofs` | every property of `Surfaces` and of `ToolAccess` the runs check, and the force of exclusions, proved |
| `ServiceSettings` | which variable gives each setting of a service: own, shared or global |
| `UpstreamHttp` | one request, from the environment its client is built from to its result |
| `UpstreamHttpProofs` | its three safety properties, proved |
| `SmokeRunner`, `AcceptanceRunner` | the two runners of `xtask`: their phases and rows against a child that may deviate |
| `DevRunners` | the command line that runs either of them, and the properties of both |
| `MC...` | instances for TLC; one `.cfg` per run |

`Surfaces`, `SmokeRunner` and `AcceptanceRunner` extend `ToolRegistry`; `UpstreamHttp`
extends `ServiceSettings`; `DevRunners` composes the two runners, which share the command,
the children, the exit code and what happens outside; `ConfluencePages` instantiates
`AtomicPage` under a refinement mapping. `JiraSearch`, `AttachmentDownload`, `PageChildren` and
`DevRunners`, as well as `Surfaces` and `ToolAccess`, have no name in common (`SearchSpec`,
`DownloadSpec`, `ChildrenSpec`, `AccessSpec`), so that one module holds the proofs about them.

### ConfluencePages

The state is one existing page on the server (`page`: live, version, text, space,
parent), and for every call its place in the code (`pc`), its task, the request it has on
its way, the answer on its way back, its outcome and the `emoji_status` of its result.
`applied` and `marked` are history. A call's own value stands for the text it writes.

| Action | Code |
| --- | --- |
| `Invoke` | entry of `create_page`, `update_page`, `move_page`, `delete_page`: argument checks, then the first request |
| `OnRead` | `update_page`, `move_page` after their GET: version plus one, defaults for what the page lacks, then the PUT |
| `OnWritten` | the answer to POST, PUT, DELETE or the move request: end, emoji, or reading back |
| `OnReread` | `move_page` above/below: the GET after the move decides the outcome |
| `OnEmoji` | `set_page_emoji_best_effort`: its failure becomes a status, never an error |
| `TransportError` | a timeout or a broken connection: the call gives up, its request may still arrive |
| `Serve...`, `Refuse` | the server (external): a PUT must carry the current version plus one; any request may fail or be answered by a gateway; any answer may be unreadable |

A request and its answer may be delayed for ever, and a request may be served after its
call gave up. The HTTP client repeats nothing, so a request is served at most once.

### AttachmentDownload and PageChildren

`AttachmentDownload` is one call with its loop variables (`start`, `pagesFetched`,
`downloaded`, `failed`, the list page at hand) next to a list of attachments that other
users change (`Attach`, `Detach`). The server chooses the next link: to the end of the
page, without a `start` (a cursor), or back to anywhere. A deletion shifts the list pages
still to come, and `NoMoreMeansAll` counts it: an answer that says there is no more may
leave out one attachment per deletion, and none without.

`PageChildren` is a reader who asks for one window after the other; each window is the page
request, possibly a recount of the pages, and the folder request, each of which may fail.
Others create pages below the parent at any time (`CreatePage`), also between the requests
of one window; each such page may repeat one folder and leaves none out.

### ConfluenceContent

One call at a time, each step one request that is answered on the state the server then
has. Two walks go by offset: `WalkUsers` over a group's members and `WalkTree` over a
space's pages, sorted only once they are together (`InTreeOrder`, with `Place` for depth,
position and title). Others insert, remove and move entries meanwhile; `inserted` and
`removed` count what happened before the end of the list, and `WalksExact` relates the
answer to them. A search is the set of spaces it reaches; a diff works on two sequences of
lines; a batch of uploads goes through its files and reports each. Writes (`label`,
`comment`, `reply`, deletes) may be carried out although the answer is lost.

### JiraSearch

The site is Server, or Cloud with or without the legacy search, strict or lenient about
unbounded JQL, and may change while the reader reads. `Call` computes the projects
(`Effective`, the intersection of the caller's and the configured ones) and picks the
endpoint; `Enhanced`, `Legacy` and `Server` are the answers, `FallsBack` the second
attempt. A JQL is its shape: which clause, and how ORDER BY is separated from it. The
reader goes on with the token of an answer or, where there is none, from the offset it has
reached.

### JiraOperations

One call of any operation. `Invoke` is its checks; `items` what it works through, one item
unless it is a batch; `Start` the first request of an item, `OnLookup` the answer to a
request that only prepares the next one (an issue's key, a project, a field context),
`OnAnswer` the end of an item, `GivesUp` the timeout. The sets of operations
(`TakesEmpty`, `HidesRefusal`, `Collecting`, `Keyed`) are the differences between the
client's functions, each read off the function it names. Around the call issues move
between projects, versions and attachments come and go, and writes nobody waits for are
carried out late.

The project filter of an operation named by a key judges the prefix of that key, not the
project of the issue; an old key of a moved issue passes. Only the development operations
look at the key in Jira's answer, and `DevelopmentInScope` is about them.

### GitlabMergeRequests

`mr` is the merge request on the server, `armed` the commit of an automatic merge.
`Ask` is the entry of an operation (project filter, argument checks, body), `ServeWrite`
and `ServeRead` the server, `Gateway` a gateway that answers with a 5xx status while the
request goes on, `Return` the answer's way back, `GivesUp` the timeout; `ServeLate` serves
what nobody waits for. A write that GitLab carried out may be answered with a body that does
not parse. `ResultOf` makes of an answer a success, a refusal (4xx) or a failure; only the
first two claim something about the effect. `Push` puts a commit on the source branch.
A diff is the sequence of the widths of its characters, which is what `BoundedDiffs` (the
loop of `bounded_diff_response`) sees of it; whole characters, the sum and the announced
cut are checked on every answer (`EmptyAfterAll` is the cut that is announced although all
is there). Approvals carry no commit: `Approve` counts for what
the merge request holds when it arrives, and no property says otherwise.

### ToolAccess and ToolRegistry

The environment is a function on variables, each unset, blank or with a value.
`LoadDotenv`, `ConfigureServer` and `ConfigureCli` are the startup, `ListTools`,
`CallTool` and `RunCommand` the use. Since the context never changes after the startup,
any number of clients is the same as one that lists and calls in any order. A credential
is one value per service and one shared by Jira and Confluence; what becomes of it is in
`ServiceSettings`. Both ways in end in `Operation`, the guard and client construction of
the operation layer. `ToolAccess` is about any registry; `ToolRegistry` is the one of the
program.

### Surfaces

Every registered tool on both surfaces. On the command line: the parser, the environment,
the inputs a command reads before its operation (`CliInputs`); over MCP: the route and the
tool controls. Then the guard, the arguments, the client, and the operation's requests,
of which only the kind is kept: `Plans` gives for each tool the sequences of reads,
additions, replacements and erasures it may send; a request that adds and replaces at once
counts as a replacement. `Renewing` are the tools annotated as additive whose request may
replace. What a service makes of the text of a note is not modelled. Each request is refused, carried out,
or carried out with its answer lost; `PassedOver`, `Catching`, `Excusing`, `Lenient` and
`Judging` are the operations that make something else of a failure than the error it was.
What the caller is told (`TellCli`, `TellMcp`) is then compared with what was carried out.

### ServiceSettings and UpstreamHttp

An environment says for each setting in which places it is given. The settings that are
read from it build the client; a request goes to the base or to a target of its own
(`SameOrigin`), the server answers, redirects (`Follows`, up to `MAX_SAME_ORIGIN_REDIRECTS`),
fails, or sends a body piece by piece, with or without a length, as long as it likes. The
clock ticks while the client waits, and the time limit covers the request with its body.

### SmokeRunner, AcceptanceRunner and DevRunners

A smoke command is a sequence of sessions, each with a mock of one service and phases (an
MCP conversation over stdio or HTTP, one with a write tool disabled, one command of the
CLI); the first step that does not go as expected ends it. The acceptance runner works
through the rows of a mode, one child per row; a row without its settings is blocked, and
no row ends the suite. `Swallowing` are the rows' tools that answer without an error flag
although a request of theirs failed, `ProductBound` those that tell of a missing product.
The child follows the registry or deviates: it answers wrongly or
not at all, lists other tools, sends a write it should not send, answers without asking
the service, or with a message that holds nothing. `deviations` and `truth` record what it really did, and the runner's verdict
is judged against them: the smoke's by its exit code, the acceptance's by every line
(`LineTrue`), since its exit code does not tell a failed row from a blocked one, and since
ok says no more than that the tool answered without an error (`Passable`).

## 3. Runs

| Run | Question | Bounds and why they are enough |
| --- | --- | --- |
| `pages_all` | every kind of call, two at a time: honest outcomes, the emoji, no lost edit or move, every call returns, refinement of `AtomicPage` | 2 calls over 10 tasks (every kind, with and without space, parent and emoji, every argument error), 2 spaces, 2 parents, answers that lack the space, the title or the version: each conflict in the code is between one reader-writer and one writer in between |
| `download_paging` | paging while others attach and delete, every limit, links that lead back or nowhere: nothing twice, "no more" and the resume point are right, the call ends | up to 6 attachments, 4 of them there at the call, list pages of 2, at most 3 list pages, 2 changes: a limit falls within, at the end of and behind a page, and a deletion before and behind the place reached |
| `download_matches` | (violation) a list page without a match ends the download | match on the second page |
| `children_exact` | windows of 1 to 5 over up to 7 pages and 7 folders join to the list, with up to 2 pages created meanwhile | answers of at most 6, recounts of 2 pages, at most 3: windows within, across and behind the recount's reach |
| `content` | walks by offset, writes, batches of uploads, diffs: the answers are true, and every call ends | lists of up to 5 at pages of 2, limits 1, 3, 4, 5, 2 changes; 3 files of which 2 share a name; texts of up to 3 lines: a limit within and at the end of a page, a change before and behind the walk's place |
| `search_walk` | a reader follows the answers while the site changes and gets exactly its issues | 4 issues of 3 projects, 3 filters, pages of at most 2 (a page may be shorter): matches and other projects interleave, every place of the reader occurs in every state of the site |
| `jira_calls` | every operation: true results, complete batches, scope of development data, every call returns | 2 issues that move between 2 projects, 2 versions, 2 files (one without a content URL), batches of 2: one item before and one after a failure |
| `gitlab_review` | reviewing, updating and merging beside a push, on time and late, with answers of a gateway and answers that do not parse; bounded diffs | 2 callers with 3 calls between them, 1 push, 5 updates, diffs with a character of 2 or 4 bytes across the budget, an empty diff before and behind its end, a file without one: one call to look, one to merge, one of the other caller in between |
| `access` | every combination of profile, toolsets, inclusion, exclusion, service variables and dotenv files, in every mode | 3 tools of 2 services (with and without shared credentials) in 2 toolsets, 3 profiles, 3 paths with files missing, whole and broken: for each pair of reasons to show or hide a tool there is a tool to which just these apply |
| `surfaces` | every tool on both surfaces, every failure at every step: refused means untouched, success means done, the annotation holds but for `Renewing` | the 85 tools of the registry, batches and walks of up to 3 requests (`MaxRepeats`): one before, at and after a failure |
| `http` | every combination of settings; one request from there to its result: it stays at home, keeps its limit, uses its own secrets first, ends | limit 2 bytes, bodies counted to 4, 3 redirects, 2 ticks; URLs that differ from the base in the scheme, the host or the port alone. One environment goes on to requests (`Senders`): the others differ only in their settings |
| `runners` | every command line of both runners against a deviating child: the smoke's exit code and the acceptance's lines tell the truth, nothing is left running, the runner ends | 1 write of the child's own accord per command (`MaxStrays`), 1 row that does not go well per suite (`MaxTroubles`); four processes and five dotenv files that differ in where a value comes from and in which are missing |

The bounds stand in the configurations: numbers of calls, items, pushes, attachments,
children, list pages (`MaxPages`, in the code 10), changes by others (`MaxChanges`,
`MaxCreated`), recounts (in the code 20 of 100 pages). `CHECK_DEADLOCK FALSE` is set where
the system stops: calls return, windows end, commands exit, servers wait. `JiraOperations`
has a step of its own for a call that is done (`Done`), so any other stop would show.

**Fairness.** Nothing is assumed of a server anywhere. `FairSpec` of `ConfluencePages` has
weak fairness of each *client*: a call goes on when it has an answer, and its request times
out at the latest after the client timeout (`src/upstream/http.rs:97`). `AttachmentDownload`,
`JiraOperations` (`Client`) and `ConfluenceContent` (`Answered`) assume that the call takes
its next step, for the same reason; the failure of every request is among the steps.
`UpstreamHttp` has the reason itself: the clock ticks (`Tick`) and the limit is enforced
(`TimeOut`), and `RequestEnds` follows although a server may drip a body for ever.
`DevRunners` assumes that the runner takes its steps; its waits over stdio have deadlines,
and where it waits without one (HTTP, the CLI as a child) `RunnerEnds` says so.
`PageChildren`, `JiraSearch`, `GitlabMergeRequests`, `ToolAccess` and `Surfaces` have safety
properties only and no fairness.

**Assumptions about services.** Confluence accepts a PUT only with the current version
plus one; a deleted page refuses; a move above/below makes a new version
(`BesideBumpsVersion`; what needs it, and what holds without, the proofs in section 5 say);
`GET` answers with the representation asked for, except for the parts in `Gaps`; a new child
page and a new attachment are listed last. Which Jira writes are answered with an empty
body (`AnsweredEmpty`) is Jira's documented behaviour. GitLab refuses a merge whose `sha` is
not the head and calls off an automatic merge when a commit is pushed. The dotenv library
sets only variables that the process does not have and stops at the first line it cannot
read. The HTTP library follows the redirects the client's policy lets through, with the
method its documentation gives.

## 4. Mutants

Operators named `Fault_...` are wrong variants of the definition they precede: a dropped
guard, a retry, a wrong offset. Each property of each passing run has one; putting it in
the place of the definition makes TLC refute the property, so no property holds by the
shape of the model.

## 5. What is proved

For every value of the constants, under the modules' named assumptions:

- `Invariance`: `IInv` is an invariant of `ConfluencePages`. The properties are not
  inductive by themselves: that an outcome is honest after a timeout depends on what is
  still on its way. `Stage` says, for each place in the code, which request may be under
  way, which answer may come, and whether the write was made; `ReadsThePage` and
  `WritesThePage` say that what was read is the present page or carries an older version,
  and that what is about to be written fits the present page or will be refused.
- From it: `TypeCorrect`, `AtMostOnce`, `Truthful`, `EmojiLast`; and the action
  properties `MovesKeepTexts` (if every page read carries its body) and
  `UpdatesKeepPlaces` (if a move above/below makes a new version).
- `Refinement`: `ConfluencePages` implements `AtomicPage` under both conditions. The
  server's step that changes the page maps to `TakeEffect`, a call's return to `Return`,
  everything else to a stutter. A timeout maps to "unknown", after which the effect may
  still come.
- `ListedCallable`, `DisabledRefused`, `OneSourceHolds`, `CredentialsHeeded` and
  `CliIndependent` in `ToolAccess`, for every registry, environment and dotenv file.
  `AccessInv` adds that lists and answers are those of the context and that no file
  replaces a variable of the process; `StartInv` how the environment came about: it is the
  process's until the one file is loaded, that file is whole if it was asked for, and a
  context that serves holds exactly the services that are configured and valid.
- `Scope` and `DevelopmentScope` in `JiraOperations`. That only issues within the filter
  are shown is not inductive: `ScopeInv` adds that every issue which is within the filter
  during the call has been noticed, that a project in an answer is one the issue was in
  during the call, and that details are only asked about noticed issues.
- `Outcomes`, `ResultsTrue` and `BatchesComplete` in `JiraOperations`. `OutcomeInv` says
  where the call is (`Progress`: the item asked for is the one after the results), that an
  answer shows whether its item was carried out (`Carried`), that there is at most one late
  request of an item and only of one that is told as lost (`LateOnce`, `ItemTrue`).
- `Reviewed`, `ResultsTrue` and `UpdatesExact` in `GitlabMergeRequests`. `ReviewInv` adds
  that every merge on its way, also one nobody waits for, names a commit that a caller
  agreed on; `ResultInv` that requests are told apart by their numbers, and that a call has
  had its effect if GitLab answered it as done (`Certainly`), and has it at most once, now or
  later, if a gateway answered it or it was given up (`Perhaps`).
- `DiffsTrue` in `GitlabMergeRequests`. `CutUpTo` is the loop's invariant over the files of a
  page: as long as nothing was cut, all is kept and counted; from the first cut on the budget
  counts as used, what is kept is less than a character short of it, and the files so far
  hold at least as much as the budget; when it is met without a cut, only an empty diff can
  follow it as cut. `PrefixFacts` is `utf8_prefix`: the longest beginning in
  whole characters that fits.
- `StaysHomeHolds`, `SizeExactHolds` and `OwnFirstHolds` in `UpstreamHttp`, for every set
  of URLs and environments, every limit and every number of redirects. `OwnFirst` is about
  secrets, certificates and GitLab alone: a shared token may precede a service's own user and
  password, and the order of headers, proxies and timeouts is not in it.

- `CallsInvariance`, and from it `RefusedUntouched`, `SuccessDone` and `AnnotationsTrue`, in
  `Surfaces`, for all 85 tools on both surfaces. `AnnotationsTrue` excepts the two tools of
  `Renewing` (section 6). `Fits` is what every plan has in common with
  the annotation of its tool and is proved of each group of plans; `InOrder` says that every
  request before the present one was carried out or may be passed over; `ResultTrue` and
  `ToldTrue` follow the failure from the client to the exit code.
- `SearchWalk` in `JiraSearch`: `SearchInv` says that what the reader has is a beginning of
  what the JQL finds and that token or offset stand behind it (`ReadingPlace`), and
  `FoundIsWanted` that the JQL with the filter finds what was asked for.
- `DownloadsOnce`, `DownloadsAll` and `DownloadsResume` in `AttachmentDownload`. `DownloadInv`
  relates the place reached (`Reached`) to the list that others change: nothing behind it was
  dealt with (`Once`), of what was there from the start no more is owed than was deleted
  (`FewOwed`), and while nothing was deleted all up to it is accounted for (`InPlace`). The
  count is the delicate part: a deletion ahead of the place reached removes what is owed, one
  behind it moves one entry past it.
- `WindowsTrue` in `PageChildren`, if the server puts as many children into an answer as a
  window asks for (`AnswersInFull`); section 6 says what `get_page_children` does otherwise.
  `ChildrenInv` says that the windows so far account for the first `e` pages and hold the
  first `f` folders (`Joined`), and that every page shown twice, or that still may be, was
  paid for by a page created after the ones before it had been read.
- `WritesTrue`, `UploadsTrue` and `WalksTrue` in `ConfluenceContent`. `WriteInv` says what of a
  write is done at each place; `UploadInv` that the files tried so far are told once, in order,
  and that a name holds the last of those that were stored. `WalkInv` is `OnTheWay` for both
  walks: while nothing shifted, what was got is the selection of the part read; each entry got
  twice, and each one neither got nor ahead, costs one change by others. `OneInserted` and
  `OneRemoved` show that a change costs no more, `PageRead`, `EndReached` and `LimitReached`
  what a page adds. `InTreeOrder` is shown to keep the pages it sorts (`OrderFacts`); that it
  sorts is left to its definition.
- `DiffTrue` in `ConfluenceContent`, for any two texts and number of context lines. `TellsUpTo`
  follows the diff place by place (`OneMorePlace`): the lines it holds under two of the signs
  are the text so far, and every changed line is in it once, because a change is near itself
  (`ChangedIsNear`).
- `RunnersLeaveNothing`, `SmokeTrue` and `AcceptanceTrue` in `DevRunners`, for every command
  line, every set of settings and any number of deviations of the child. `SmokeAt` and `RowsAt`
  say where the runner stands: the child of the present phase or row and the mock of the
  present session alone may be up. That exit code 0 is honest is not inductive: a write nobody
  asked for stays in the record until the last phase of the session looks at it. `SmokeFound`
  therefore says of each deviation that it failed the run, keeps it waiting, or is `Pending`,
  found by a look at the record still to come; `PhaseFacts` has that the look comes last.
  `SmokeReason` is the other direction: while nothing deviates, an MCP phase has only read
  (`CallFacts`, from the data of the registry) and the CLI has sent what is looked for.
  `RowsTold` says that the lines of the rows before the present one are true (`LineTrue`), that
  the others are untouched and that a row is called only with what it needs; `ClassifiedTells`
  follows each answer to its line, swallowed failures and hollow answers included.
  `CommandsAssumption` says that the commands are
  those the parser accepts (`Commands`).

Induction over data. The library states induction for a property that is an operator, which
the provers cannot instantiate. `SelectionProofs` proves it from well-founded orders for a
*set* of numbers (`Inductive`), and from it what the recursive functions `Select`,
`InTreeOrder`, `FlattenSeq`, `Bytes` and `BoundedDiffs` compute for every sequence
(`SelectFacts`, `SelectConcat`, `SelectSplit`, `OrderFacts`, `FlattenFacts`, `BytesMore`,
`BoundedFacts`).

Assumptions the theorems use are those named in the models (`InitiallyAssumption`,
`SetsAssumption`, ...). They say what kind of values the constants are, that lists read at
the start hold nothing twice, and that limits and page sizes are positive.

Only model-checked: liveness (`EveryCallReturns`, `CallEnds`, `DownloadEnds`, `CallReturns`,
`RunnerEnds`, `RequestEnds`), which the provers do not reach. Every safety property of every
passing run is proved.

## 6. Where code and documentation differ

One run shows a disagreement, and `PROJECT.json` quotes the lines: a list page on which the
filename filter keeps nothing ends the download and reports that there is no more
(`download_matches`).

Met while modelling, without a run of their own. Against a document:

- `move_page` (`src/confluence/client/pages.rs:324`) refuses the positions `before` and
  `after` that `docs/cli.md:111` documents;
- `--filename-contains` compares the whole title (`src/confluence/client/attachments.rs:34`),
  while the name of the option (`docs/cli.md:125`) promises a part of it;
- `MCP_TOOLSETS=all,<unknown>` starts (`src/config.rs:221`), `README.md:115` says that unknown
  toolsets fail the startup;
- a project the filter rejects is told as invalid input, exit code 2
  (`src/jira/formatting.rs:187`, `src/gitlab/client.rs:461`); `docs/cli.md:39` and
  `skills/workhub-rs/references/runtime.md:84` say 3;
- `jira_create_remote_issue_link` and `jira_add_issue_worklog` are annotated `additive_write`,
  not destructive (`src/tool_registry/jira.rs:284`, `:248`). The first sends the caller's
  globalId (`src/operations/jira.rs:949`), which `src/jira/tools.rs:497` describes as "used by
  Jira to identify or replace an existing remote link"; the second adjustEstimate and
  newEstimate (`src/operations/jira.rs:895`), "New remaining estimate when adjust_estimate
  requests a replacement estimate" (`src/jira/tools.rs:459`). `AnnotationHolds` excepts them
  by name (`Renewing`);
- `docs/development-tools.md:74` says the CLI smoke verifies the error output of disabled
  tools; it verifies that the CLI ignores the tool controls.

Behaviour a caller may not expect:

- `get_page_children` (`src/confluence/client/pages.rs:126`) takes a short page answer for
  the last one even if it has a next link: a server that answers with fewer children than
  asked for makes folders appear before the pages end;
- `inject_project_filter` (`src/jira/formatting.rs:227`) looks for ORDER BY between two
  spaces: after a line break, or inside a string of the JQL, the filter encloses or splits the
  wrong part;
- on Cloud sites without the legacy search, `list_project_issues` has no way to a second
  page: it takes an offset and no token; `get_space_page_tree` answers a `next_start` and takes
  no start; `get_content_image_attachments` and the label list read one page of the server's
  and do not say whether there are more;
- `JIRA_PROJECTS_FILTER` is not looked at by issue creation, changelogs, links, the creation
  of versions, boards, sprints and the service desk (`docs/configuration.md:145` claims no more
  than single issues and JQL);
- an operation named by the old key of a moved issue passes the filter of the old project
  (`src/jira/formatting.rs:169`);
- a Jira write that insists on JSON is told as failed when Jira answers it with an empty body;
  a write answered with 301, 302 or 303 becomes a GET and is told as success;
- some Confluence operations answer every failure of the client with a result whose error
  flag is set, exit code 5 (deletes, comments, replies, uploads), others with an error, 4; a
  batch of uploads whose every file failed exits 0, and of two files with one name the second
  replaces the first;
- the CLI reads its inputs before the guard (2 comes before 3), and an unreadable certificate
  file is told as invalid input; a standard output nobody reads ends the CLI with 101 after
  the operation was carried out;
- the limit of a download does not bound the text of an error (`src/upstream/http.rs:254`); a
  shared personal token is used before a service's own user and password on Server, as
  documented;
- `bounded_diff_response` (`src/gitlab/client.rs:531`) says truncated of an empty diff that
  follows an exactly used budget, though nothing was cut (`EmptyAfterAll`);
- the acceptance runner prints ok for whatever is not an error, an error flag or a missing
  product (`xtask/src/acceptance.rs:350`): for a batch whose every upload failed
  (`src/operations/confluence.rs:671`), downloads and images that could not be had (`:831`),
  analytics that are not there (`:583`), development data of issues that failed
  (`src/jira/client/development.rs:43`), children without their folders
  (`src/confluence/client/pages.rs:126`), and for a message with neither a result nor an error;
  the suite then exits with 0. `AcceptanceTellsTruth` claims no more than that of an ok;
- the failure of the default `.env` is dropped (`src/env_loader.rs:73`): the lines before the
  one that does not parse stay in force, and the program starts;
- the acceptance runner's exit code is the largest of the rows', so a blocked row (2) hides a
  failed one (1); the children of both runners read a `.env` of the working directory; the
  HTTP phase talks to whichever server holds the port, and neither the HTTP requests nor the
  CLI as a child have a deadline.

## 7. Not modelled, and the plan

Left out for good, because no state or order of events depends on them: conversion and
formatting of texts, redaction, logging, the declarations of clap and serde, tool schemas,
the parsing of single values and of certificate files, the payloads' fields, and the
transports of rmcp and axum.

Two hazards have no property (`PROJECT.json` says why): an empty body when the server leaves
out the representation asked for, and two callers who overwrite each other's text, which no
version they could pass would prevent.

What could follow: an abstract reader of a list read by offset, implemented by
`AttachmentDownload` and the walks of `ConfluenceContent`; `UpstreamHttp` as the
implementation of the request that the modules of the operations take for one step.
