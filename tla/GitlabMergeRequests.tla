------------------------ MODULE GitlabMergeRequests ------------------------
(***************************************************************************)
(* A merge request that several callers review, change and merge through   *)
(* the GitLab operations, while commits are pushed to its source branch.   *)
(*                                                                         *)
(* Every operation checks the project and its arguments, sends one request *)
(* and returns its answer.  What makes them correct together is in the     *)
(* request: a merge names the commit it is for, an update carries the      *)
(* fields that were given and no others, labels are added and removed by   *)
(* GitLab and not rewritten from an earlier answer, and the diffs are cut  *)
(* to a number of bytes.                                                   *)
(***************************************************************************)
EXTENDS Naturals, Sequences, SequencesExt

CONSTANTS
  Callers,
  Labels, Users, Texts,
  Filters,       \* the values GITLAB_PROJECTS_FILTER may have; {} is none
  Creations,     \* what callers give to create_merge_request
  Updates,       \* what callers give to update_merge_request
  Diffs,         \* the diffs of the merge request at each commit
  Budgets,       \* the values of max_diff_bytes
  MaxPerPage,    \* MAX_GITLAB_PER_PAGE
  MaxPushes, MaxCalls  \* bounds: the pushes, and the calls of all callers

Blank == ""
Commits == 1 .. MaxPushes + 1

ASSUME BoundsAssumption == MaxPushes \in Nat /\ MaxCalls \in Nat /\ MaxPerPage \in Nat \ {0}

\* A file of a commit: the widths in bytes of the characters of its diff, if it has one.
Files ==
  {f \in [diff : BOOLEAN, chars : Seq(1 .. 4)] : ~f.diff => f.chars = <<>>}

ASSUME DiffsAssumption ==
  DOMAIN Diffs = Commits /\ (\A k \in Commits : Diffs[k] \in Seq(Files)) /\ Budgets \subseteq Nat

-----------------------------------------------------------------------------
(* The bounded diffs.                                                      *)

Bytes(chars) ==
  LET sum[i \in 0 .. Len(chars)] == IF i = 0 THEN 0 ELSE sum[i - 1] + chars[i]
  IN sum[Len(chars)]

\* Fault: the character across the limit is kept.
Fault_Utf8Prefix(chars, n) ==
  SubSeq(chars, 1, CHOOSE k \in 0 .. Len(chars) :
    /\ Bytes(SubSeq(chars, 1, k)) >= n
    /\ \A j \in 0 .. k - 1 : Bytes(SubSeq(chars, 1, j)) < n)

\* utf8_prefix: the whole characters of the first n bytes.
Utf8Prefix(chars, n) ==
  SubSeq(chars, 1, CHOOSE k \in 0 .. Len(chars) :
    /\ Bytes(SubSeq(chars, 1, k)) <= n
    /\ \A j \in k + 1 .. Len(chars) : Bytes(SubSeq(chars, 1, j)) > n)

\* One turn of the loop of bounded_diff_response.
Cut(acc, item, max) ==
  LET size == Bytes(item.chars)
      Take(chars, used, cut) ==
        [items |-> Append(acc.items, [item EXCEPT !.chars = chars]),
         used |-> used, truncated |-> acc.truncated \/ cut]
  IN IF ~item.diff THEN Take(item.chars, acc.used, FALSE)
     ELSE IF acc.used >= max THEN Take(<<>>, acc.used, TRUE)
     ELSE IF acc.used + size > max THEN Take(Utf8Prefix(item.chars, max - acc.used), max, TRUE)
     ELSE Take(item.chars, acc.used + size, FALSE)

BoundedDiffs(items, max) ==
  LET turn[i \in 0 .. Len(items)] ==
        IF i = 0 THEN [items |-> <<>>, used |-> 0, truncated |-> FALSE]
        ELSE Cut(turn[i - 1], items[i], max)
  IN turn[Len(items)]

\* What GitLab puts on a page.
PageOf(items, page, per) ==
  SubSeq(items, (page - 1) * per + 1,
         IF page * per < Len(items) THEN page * per ELSE Len(items))

-----------------------------------------------------------------------------
(* The calls.                                                              *)

\* How a caller names the project: its path, that percent-encoded, its number, or another.
Refs == {"path", "encoded", "id", "other"}
Normalized(ref) == IF ref = "encoded" THEN "path" ELSE ref

PlainReads == {"list_merge_requests", "list_merge_request_commits",
               "list_merge_request_pipelines", "get_merge_request_approval_state"}
Notes == {"add_merge_request_note", "reply_merge_request_discussion"}
Approvals == {"approve", "unapprove"}

Calls(seen) ==
  [tool : {"get_project"}, ref : Refs, valid : BOOLEAN]
  \cup [tool : PlainReads \cup {"get_merge_request"} \cup Notes \cup Approvals,
        ref : {"path", "other"}, valid : BOOLEAN]
  \cup [tool : {"get_current_user"}, ref : {"path"}, valid : {TRUE}]
  \cup [tool : {"resolve_merge_request_discussion"}, ref : {"path"}, valid : {TRUE},
        resolved : BOOLEAN]
  \cup [tool : {"list_merge_request_diffs"}, ref : {"path"}, valid : {TRUE},
        max : Budgets, page : 0 .. 2, per : {0, MaxPerPage, MaxPerPage + 1}]
  \cup [tool : {"create_merge_request"}, ref : {"path"}, valid : BOOLEAN, given : Creations]
  \cup [tool : {"update_merge_request"}, ref : {"path"}, valid : {TRUE}, given : Updates]
  \cup [tool : {"accept_merge_request"}, ref : {"path"}, valid : {TRUE},
        sha : {seen, 0}, auto : BOOLEAN]

Reads == PlainReads \cup {"get_project", "get_merge_request", "get_current_user",
                          "list_merge_request_diffs"}

-----------------------------------------------------------------------------
VARIABLES
  filter,      \* config.projects_filter
  mr,          \* the merge request: state, head, text, labels, reviewers and more
  armed,       \* the commit that is merged once its pipeline passes, 0 without one
  pc, call,    \* of each caller: idle or waiting, and the call it waits for
  calls,       \* how many calls there have been
  number,      \* the number of the caller's last call
  reply,       \* the answer to it, "none" before
  answer,      \* the diffs in that answer, until it is returned
  result,      \* what it was told
  seen,        \* the commit it was last shown, 0 before
  late,        \* requests nobody waits for
  agreed,      \* history: the commits callers asked to merge
  done         \* history: how often the caller's last call had its effect

callers == <<pc, call, calls, number, reply, answer, result, seen, done>>
vars == <<filter, mr, armed, callers, late, agreed>>

NoCall == [tool |-> "none", ref |-> "path", valid |-> TRUE]
NoAnswer == [source |-> <<>>, max |-> 0, bounded |-> BoundedDiffs(<<>>, 1)]
Absent == [state |-> "absent", head |-> 1, text |-> Blank, labels |-> {}, reviewers |-> {},
           approvals |-> {}, resolved |-> FALSE]

\* project_api_segment and ensure_project_allowed.
Allowed(ref) == filter = {} \/ Normalized(ref) \in filter

PagesOk(q) == q.page > 0 /\ q.per \in 1 .. MaxPerPage

\* Fault: a merge need not name a commit.
Fault_ShaOk(q) == TRUE

\* insert_required_string: a blank sha is refused.
ShaOk(q) == q.sha # 0

Sent(q) ==
  /\ q.tool = "get_current_user" \/ Allowed(q.ref)
  /\ q.valid
  /\ q.tool = "list_merge_request_diffs" => q.max > 0 /\ PagesOk(q)
  /\ q.tool = "accept_merge_request" => ShaOk(q)

IsBlank(given, f) == IF f \in {"text", "state_event"} THEN given[f] = Blank ELSE given[f] = {}
Filled(given) == [f \in {g \in DOMAIN given : ~IsBlank(given, g)} |-> given[f]]

\* Fault: an update is put together like a creation.
Fault_UpdateBody(given) == Filled(given)

\* The preserving_empty inserts: what is given is sent, blank or not.
UpdateBody(given) == given

\* insert_optional_*: what is blank is not sent.
CreateBody(given) == Filled(given)

-----------------------------------------------------------------------------
(* GitLab.                                                                 *)

Put(body, f, old) == IF f \in DOMAIN body THEN body[f] ELSE old

\* A request body on a merge request: labels replace, then come the added and removed.
Applied(m, body) ==
  [m EXCEPT
     !.text = Put(body, "text", @),
     !.reviewers = Put(body, "reviewers", @),
     !.labels = (Put(body, "labels", @) \cup Put(body, "add_labels", {}))
                  \ Put(body, "remove_labels", {}),
     !.state = CASE Put(body, "state_event", Blank) = "close" -> "closed"
                 [] Put(body, "state_event", Blank) = "reopen" -> "opened"
                 [] OTHER -> @]

\* What each write does; it is disabled when GitLab refuses it.
Create(q) ==
  /\ q.tool = "create_merge_request" /\ mr.state = "absent"
  /\ mr' = Applied([Absent EXCEPT !.state = "opened", !.head = mr.head], CreateBody(q.given))
  /\ UNCHANGED armed

Update(q) ==
  /\ q.tool = "update_merge_request" /\ mr.state \in {"opened", "closed"}
  /\ mr' = Applied(mr, UpdateBody(q.given))
  /\ armed' = IF mr'.state = "closed" THEN 0 ELSE armed

\* A merge that names a commit is for that commit only.
Accept(q) ==
  /\ q.tool = "accept_merge_request" /\ mr.state = "opened"
  /\ q.sha # 0 => q.sha = mr.head
  /\ \/ q.auto /\ armed' = mr.head /\ UNCHANGED mr
     \/ ~q.auto /\ mr' = [mr EXCEPT !.state = "merged"] /\ armed' = 0

\* An approval names none: it is for what the merge request holds when it arrives.
Approve(c, q) ==
  /\ q.tool \in Approvals /\ mr.state = "opened"
  /\ mr' = [mr EXCEPT !.approvals = IF q.tool = "approve" THEN @ \cup {c} ELSE @ \ {c}]
  /\ UNCHANGED armed

Resolve(q) ==
  /\ q.tool = "resolve_merge_request_discussion" /\ mr.state # "absent"
  /\ mr' = [mr EXCEPT !.resolved = q.resolved]
  /\ UNCHANGED armed

Note(q) == q.tool \in Notes /\ mr.state # "absent" /\ UNCHANGED <<mr, armed>>

Effect(c, q) == Create(q) \/ Update(q) \/ Accept(q) \/ Approve(c, q) \/ Resolve(q) \/ Note(q)

Serving(c, n, q) ==
  /\ Effect(c, q)
  /\ done' = IF number[c] = n THEN [done EXCEPT ![c] = @ + 1] ELSE done

Pending(c) == pc[c] = "waiting" /\ reply[c] = "none"

\* A write is carried out; its answer may be one that does not parse.
ServeWrite(c) ==
  /\ Pending(c) /\ call[c].tool \notin Reads
  /\ Serving(c, number[c], call[c])
  /\ \E kind \in {"json", "unreadable"} : reply' = [reply EXCEPT ![c] = kind]
  /\ UNCHANGED <<filter, pc, call, calls, number, answer, result, seen, late, agreed>>

\* The answer shows the merge request as it is now.
ServeRead(c) ==
  /\ Pending(c) /\ call[c].tool \in Reads
  /\ reply' = [reply EXCEPT ![c] = "json"]
  /\ done' = [done EXCEPT ![c] = @ + 1]
  /\ seen' = IF call[c].tool = "get_merge_request" THEN [seen EXCEPT ![c] = mr.head] ELSE seen
  /\ IF call[c].tool # "list_merge_request_diffs" THEN UNCHANGED answer
     ELSE LET items == PageOf(Diffs[mr.head], call[c].page, call[c].per)
          IN answer' = [answer EXCEPT ![c] =
               [source |-> items, max |-> call[c].max,
                bounded |-> BoundedDiffs(items, call[c].max)]]
  /\ UNCHANGED <<filter, mr, armed, pc, call, calls, number, result, late, agreed>>

\* Nothing was done: GitLab answers with a 4xx status, and a read may as well meet a
\* gateway's 5xx status or an answer that does not parse.
Refuse(c) ==
  /\ Pending(c)
  /\ reply' = [reply EXCEPT ![c] = "refused"]
  /\ UNCHANGED <<filter, mr, armed, pc, call, calls, number, answer, result, seen, done, late,
                 agreed>>

\* The caller's request, once nobody waits for it.
Abandoned(c) == [caller |-> c, number |-> number[c], call |-> call[c]]

\* A gateway answers a write for GitLab with a 5xx status, while the request behind it may
\* still be carried out.
Gateway(c) ==
  /\ Pending(c) /\ call[c].tool \notin Reads
  /\ reply' = [reply EXCEPT ![c] = "gateway"]
  /\ late' = late \cup {Abandoned(c)}
  /\ UNCHANGED <<filter, mr, armed, pc, call, calls, number, answer, result, seen, done, agreed>>

\* Requests nobody waits for are carried out whenever they get through, or never.
ServeLate ==
  \E r \in late :
    /\ Serving(r.caller, r.number, r.call)
    /\ late' = late \ {r}
    /\ UNCHANGED <<filter, pc, call, calls, number, reply, answer, result, seen, agreed>>

\* A new commit on the source branch; an automatic merge is called off.
Push ==
  /\ mr.head <= MaxPushes /\ mr.state # "merged"
  /\ mr' = [mr EXCEPT !.head = @ + 1]
  /\ armed' = 0
  /\ UNCHANGED <<filter, callers, late, agreed>>

PipelinePasses ==
  /\ armed # 0 /\ mr.state = "opened"
  /\ mr' = [mr EXCEPT !.state = "merged"] /\ armed' = 0
  /\ UNCHANGED <<filter, callers, late, agreed>>

-----------------------------------------------------------------------------
(* The callers, MCP clients and command lines alike.                       *)

\* A call begins; it ends at once when it is not sent.
Ask(c) ==
  /\ pc[c] = "idle" /\ calls < MaxCalls
  /\ \E q \in Calls(seen[c]) :
       /\ call' = [call EXCEPT ![c] = IF Sent(q) THEN q ELSE NoCall]
       /\ pc' = [pc EXCEPT ![c] = IF Sent(q) THEN "waiting" ELSE "idle"]
       /\ result' = [result EXCEPT ![c] = IF Sent(q) THEN "none" ELSE "invalid"]
       /\ agreed' = IF q.tool = "accept_merge_request" THEN agreed \cup ({q.sha} \ {0})
                                                      ELSE agreed
  /\ calls' = calls + 1 /\ number' = [number EXCEPT ![c] = calls + 1]
  /\ reply' = [reply EXCEPT ![c] = "none"] /\ done' = [done EXCEPT ![c] = 0]
  /\ UNCHANGED <<filter, mr, armed, answer, seen, late>>

\* Fault: what does not parse is told like a refusal.
Fault_ResultOf(kind) ==
  CASE kind = "json" -> "ok" [] kind \in {"refused", "unreadable"} -> "refused"
    [] OTHER -> "failed"

\* send_json_value_or_null: a 4xx status is a refusal; a 5xx status and a JSON decode
\* error leave open whether the write was done.
ResultOf(kind) ==
  CASE kind = "json" -> "ok" [] kind = "refused" -> "refused" [] OTHER -> "failed"

Return(c) ==
  /\ pc[c] = "waiting" /\ reply[c] # "none"
  /\ result' = [result EXCEPT ![c] = ResultOf(reply[c])]
  /\ pc' = [pc EXCEPT ![c] = "idle"] /\ call' = [call EXCEPT ![c] = NoCall]
  /\ answer' = [answer EXCEPT ![c] = NoAnswer]
  /\ UNCHANGED <<filter, mr, armed, calls, number, reply, seen, done, late,
                 agreed>>

\* The request times out or the connection breaks.
GivesUp(c) ==
  /\ Pending(c)
  /\ result' = [result EXCEPT ![c] = "lost"]
  /\ pc' = [pc EXCEPT ![c] = "idle"] /\ call' = [call EXCEPT ![c] = NoCall]
  /\ late' = IF call[c].tool \in Reads THEN late ELSE late \cup {Abandoned(c)}
  /\ UNCHANGED <<filter, mr, armed, calls, number, reply, answer, seen, done, agreed>>

Caller(c) == Ask(c) \/ Return(c) \/ GivesUp(c)
Gitlab(c) == ServeWrite(c) \/ ServeRead(c) \/ Refuse(c) \/ Gateway(c)

Init ==
  /\ filter \in Filters
  /\ mr \in {Absent, [Absent EXCEPT !.state = "opened", !.labels = Labels,
                                    !.reviewers = Users]}
  /\ armed = 0
  /\ pc = [c \in Callers |-> "idle"] /\ call = [c \in Callers |-> NoCall]
  /\ calls = 0 /\ number = [c \in Callers |-> 0] /\ reply = [c \in Callers |-> "none"]
  /\ answer = [c \in Callers |-> NoAnswer] /\ result = [c \in Callers |-> "none"]
  /\ seen = [c \in Callers |-> 0] /\ done = [c \in Callers |-> 0]
  /\ late = {} /\ agreed = {}

Next ==
  \/ \E c \in Callers : Caller(c) \/ Gitlab(c)
  \/ ServeLate \/ Push \/ PipelinePasses

Spec == Init /\ [][Next]_vars

-----------------------------------------------------------------------------
\* What is merged, now or once its pipeline passes, is a commit that a caller had been
\* shown and asked to merge, whatever was pushed in the meantime.
MergedAsReviewed ==
  /\ mr.state = "merged" => mr.head \in agreed
  /\ armed # 0 => armed = mr.head /\ armed \in agreed

\* Why: a merge under way, or one nobody waits for, is for a commit that was agreed on.
MergesAgreed ==
  /\ \A c \in Callers :
       call[c].tool = "accept_merge_request" => call[c].sha # 0 /\ call[c].sha \in agreed
  /\ \A r \in late :
       r.call.tool = "accept_merge_request" => r.call.sha # 0 /\ r.call.sha \in agreed

Fields == {"state", "head", "text", "labels", "reviewers", "approvals", "resolved"}

\* The merge request keeps its fields, and the callers their places.
Shapes ==
  /\ mr = [f \in Fields |-> mr[f]] /\ 0 \notin agreed
  /\ DOMAIN call = Callers /\ call = [c \in Callers |-> call[c]]

ReviewInv == Shapes /\ MergesAgreed /\ MergedAsReviewed

\* A call told as done had its effect, and one told as refused or invalid has none,
\* now or later; and no call has its effect twice, late requests included.  A call told
\* as failed (a 5xx status, an answer that does not parse) or lost promises neither.
EachResultTrue ==
  \A c \in Callers :
    /\ done[c] <= 1
    /\ result[c] = "ok" => done[c] = 1
    /\ result[c] \in {"refused", "invalid"} =>
         done[c] = 0 /\ \A r \in late : <<r.caller, r.number>> # <<c, number[c]>>

\* The caller's last call, as a request that nobody waits for any more.
Outstanding(c) == {r \in late : r.caller = c /\ r.number = number[c]}

\* Whether the caller's last call was, or may yet be, carried out.
Certainly(c) == done[c] = 1 /\ Outstanding(c) = {}
Perhaps(c) == done[c] = 0 \/ Certainly(c)

\* Why: the last call had its effect if GitLab answered it, and perhaps if a gateway did
\* or the caller gave it up; of any other nothing was done nor is under way.
CallFits(c) ==
  /\ pc[c] = "waiting" => result[c] = "none"
  /\ reply[c] \in {"json", "unreadable"} => Certainly(c)
  /\ reply[c] = "gateway" \/ result[c] = "lost" => Perhaps(c)
  /\ reply[c] \in {"none", "refused"} /\ result[c] # "lost" => done[c] = 0 /\ Outstanding(c) = {}
  /\ result[c] = "ok" => reply[c] = "json"
  /\ result[c] = "refused" => reply[c] = "refused"
  /\ result[c] \in {"lost", "invalid"} => reply[c] = "none"

\* Requests are told apart by their numbers, and none is ahead of its caller.
LateNumbered ==
  /\ \A r \in late : r.caller \in Callers /\ r.number \in Nat /\ r.number <= number[r.caller]
  /\ \A r, s \in late : r.caller = s.caller /\ r.number = s.number => r = s

ResultInv ==
  /\ calls \in Nat /\ number \in [Callers -> 0 .. calls] /\ done \in [Callers -> Nat]
  /\ pc = [c \in Callers |-> pc[c]] /\ call = [c \in Callers |-> call[c]]
  /\ reply \in [Callers -> {"none", "json", "unreadable", "refused", "gateway"}]
  /\ result = [c \in Callers |-> result[c]]
  /\ LateNumbered
  /\ \A c \in Callers : CallFits(c)

\* The merge request after an update, as far as its caller may tell.
AsGiven(g) ==
  /\ mr'.text = Put(g, "text", mr.text)
  /\ mr'.reviewers = Put(g, "reviewers", mr.reviewers)
  /\ "labels" \in DOMAIN g => mr'.labels \subseteq g.labels \cup Put(g, "add_labels", {})
  /\ "labels" \notin DOMAIN g => mr.labels \ mr'.labels \subseteq Put(g, "remove_labels", {})
  /\ Put(g, "add_labels", {}) \ Put(g, "remove_labels", {}) \subseteq mr'.labels
  /\ mr'.approvals = mr.approvals /\ mr'.head = mr.head

\* An update, on time or late, changes the fields that were given, to a blank when a
\* blank was given, and leaves what others did to every other field; labels that are
\* added or removed do not disturb the rest.
UpdateExact ==
  [][ /\ \A c \in Callers :
           (/\ call[c].tool = "update_merge_request" /\ reply[c] = "none"
            /\ reply'[c] \in {"json", "unreadable"})
             => AsGiven(call[c].given)
      /\ \A r \in late \ late' :
           r.call.tool = "update_merge_request" => AsGiven(r.call.given) ]_vars

TotalBytes(items) == Bytes([k \in DOMAIN items |-> Bytes(items[k].chars)])

\* An empty diff met with the budget exactly used: it is reported as cut although all of
\* it is there.
EmptyAfterAll(source, max) ==
  \E k \in DOMAIN source :
    /\ source[k].diff /\ source[k].chars = <<>>
    /\ TotalBytes(SubSeq(source, 1, k - 1)) = max

\* The diffs shown hold no more bytes than asked for, each is the beginning of the real
\* one, in whole characters; when something is cut it is said, and the budget is used up
\* to less than a character of four bytes.  When all fits, something is said to be cut only
\* because of an empty diff behind an exactly used budget.
DiffsBounded ==
  \A c \in Callers :
    LET a == answer[c] IN
    a # NoAnswer =>
      /\ Len(a.bounded.items) = Len(a.source)
      /\ TotalBytes(a.bounded.items) <= a.max
      /\ \A k \in DOMAIN a.source : IsPrefix(a.bounded.items[k].chars, a.source[k].chars)
      /\ a.bounded.items # a.source =>
           a.bounded.truncated /\ TotalBytes(a.bounded.items) + 4 > a.max
      /\ TotalBytes(a.source) <= a.max /\ a.bounded.truncated => EmptyAfterAll(a.source, a.max)

=============================================================================
