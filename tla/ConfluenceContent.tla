-------------------------- MODULE ConfluenceContent --------------------------
(***************************************************************************)
(* The Confluence operations beside pages, children and downloads: the     *)
(* search for content and for users, the page tree of a space, the diff of *)
(* two versions, view analytics, labels, comments, deletes and uploads.    *)
(*                                                                         *)
(* One call runs at a time; a step of it is one request, answered on the   *)
(* server's state at that moment.  Between two requests of the call other  *)
(* users change what the server holds.  The server is external: a request  *)
(* is refused, or carried out and answered, or carried out and its answer  *)
(* lost.                                                                   *)
(***************************************************************************)
EXTENDS Naturals, Sequences, FiniteSets, SequencesExt, Functions, Selection

CONSTANTS
  Users, Named,          \* the users there may be, and those whose name holds the query
  InitialMembers,        \* the group's members when the call is made, in the server's order
  SpacePages,            \* the pages there may be in the space
  InitialTree,           \* its pages when the call is made, in the server's order
  Place,                 \* the place of each page by depth, position and title
  SpaceOf,               \* content found by a search: the space it is in
  Filter,                \* CONFLUENCE_SPACES_FILTER; empty: none
  Files, NameOf,         \* local files and the name each is stored under
  Batches,               \* the sequences of files a caller uploads
  Texts,                 \* the texts of a page, each a sequence of lines
  ContextLines,          \* the numbers of context lines a caller may ask a diff for
  UserPage, TreePage,    \* SERVER_USER_SEARCH_PAGE_SIZE, CONFLUENCE_TREE_PAGE_SIZE
  Limits,                \* the limits a caller may give
  MaxChanges             \* bound: how often others change the server during the call

ASSUME SetsAssumption ==
  /\ Named \subseteq Users
  /\ InitialMembers \in Seq(Users) /\ IsInjective(InitialMembers)
  /\ InitialTree \in Seq(SpacePages) /\ IsInjective(InitialTree)
  /\ Place \in [SpacePages -> Nat] /\ IsInjective(Place)
  /\ NameOf \in [Files -> STRING] /\ Batches \subseteq Seq(Files) \ {<<>>}
  /\ \A t \in Texts : t \in Seq(Range(t))
ASSUME BoundsAssumption ==
  /\ UserPage \in Nat \ {0} /\ TreePage \in Nat \ {0}
  /\ Limits \subseteq Nat \ {0} /\ ContextLines \subseteq Nat /\ MaxChanges \in Nat

VARIABLES
  members, tree, \* what is walked: the group's members, the space's pages
  label,         \* whether the content carries the label
  stored,        \* the file stored under each name, or "none" or "others"
  object,        \* the page or attachment a delete names: whether it is there
  comments,      \* how many comments of the call's text the container has
  changes,       \* how often others changed the server
  inserted, removed, \* how often they did so before the end of what is walked (history)
  touched,       \* the label and the names others changed (history)
  call,          \* what the caller asked for
  pc,            \* the next step: begin, walk, search, fallback, post, ...
  walk,          \* a walk: where the next page begins, and what it found
  uploaded, notUploaded, \* a batch: the indexes of its files, as they are told
  sent,          \* the indexes, or the requests, the server carried out (history)
  outcome        \* what the caller got

server == <<members, tree, label, stored, object, comments>>
history == <<changes, inserted, removed, touched>>
work == <<walk, uploaded, notUploaded, sent>>
vars == <<server, history, call, pc, work, outcome>>

Pending == [status |-> "pending"]
Ok == [status |-> "ok"]
Error(category) == [status |-> "error", category |-> category]

\* An answer with the error flag: the operation caught the failure.
Business == [status |-> "business"]

Names == Range(NameOf)

-----------------------------------------------------------------------------
(* The calls a client makes.                                               *)

Walks == [op : {"users", "tree"}, limit : Limits]
Searches == {c \in [op : {"search"}, simple : BOOLEAN, names_space : BOOLEAN,
                    spaces : {"unset", "own"}] : c.simple => ~c.names_space}
Contexts == {<<>>} \cup {<<n>> : n \in ContextLines}
Diffs == [op : {"diff"}, from : Texts, to : Texts, context : Contexts]
Uploads == [op : {"upload"}, files : Batches]
Writes == [op : {"label", "comment", "reply", "delete_page", "delete_attachment"}]
Views == [op : {"views"}, cloud : BOOLEAN, include_title : BOOLEAN]

Init ==
  /\ members = InitialMembers /\ tree = InitialTree
  /\ label \in BOOLEAN /\ object \in BOOLEAN /\ comments = 0
  /\ stored = [n \in Names |-> "none"]
  /\ changes = 0 /\ inserted = 0 /\ removed = 0 /\ touched = {}
  /\ \/ call \in Walks \/ call \in Searches \/ call \in Uploads
     \/ call \in Writes \/ call \in Views \/ call \in Diffs
  /\ pc = call.op
  /\ walk = [start |-> 0, got |-> <<>>]
  /\ uploaded = <<>> /\ notUploaded = <<>> /\ sent = {}
  /\ outcome = Pending

Answer(o) == pc' = "done" /\ outcome' = o

\* A request that only reads fails, and with it the call.
ReadFails ==
  /\ pc \in {"users", "tree", "labels", "views"}
  /\ Answer(Error("upstream"))
  /\ UNCHANGED <<server, history, call, work>>

-----------------------------------------------------------------------------
(* Two walks by offset: search_user_server_dc over a group's members and   *)
(* get_space_page_tree over the pages of a space.  The server answers with *)
(* at most as many entries as it was asked for, at least one if there are  *)
(* any left, and with a next link when there are more.                     *)

PagesOf(items, asked) ==
  LET left == Len(items) - walk.start
  IN IF left <= 0 THEN {<<>>}
     ELSE {SubSeq(items, walk.start + 1, walk.start + n) : n \in 1..Smaller(asked, left)}

HasNext(items, page) == walk.start + Len(page) < Len(items)

\* A page is taken up to the limit; the ones that do not match are passed over.
NamedOf(page) ==
  LET room == call.limit - Len(walk.got)
      found == Select(page, Named)
  IN SubSeq(found, 1, Smaller(room, Len(found)))

\* The next page begins where this one did.
Fault_UsersNext(page) == walk.start

UsersNext(page) == walk.start + Len(page)

\* The walk over the members goes on until enough match or a page is the last one.
WalkUsers ==
  /\ pc = "users"
  /\ \E page \in PagesOf(members, UserPage) :
       LET got == walk.got \o NamedOf(page)
       IN IF page = <<>> \/ ~HasNext(members, page) \/ Len(got) >= call.limit
            THEN /\ Answer([status |-> "ok", results |-> got])
                 /\ UNCHANGED walk
            ELSE /\ walk' = [start |-> UsersNext(page), got |-> got]
                 /\ UNCHANGED <<pc, outcome>>
  /\ UNCHANGED <<server, history, call, uploaded, notUploaded, sent>>

\* There is more whenever the limit was reached.
Fault_TreeHasMore(got, next) == Len(got) >= call.limit

TreeHasMore(got, next) == Len(got) >= call.limit /\ next

\* The answer is sorted by depth, position and title: each page is put behind those
\* whose place is not after its own.
NotAfter(p) == {q \in SpacePages : Place[q] <= Place[p]}
Placed(sorted, p) ==
  Select(sorted, NotAfter(p)) \o <<p>> \o Select(sorted, SpacePages \ NotAfter(p))

InTreeOrder(got) ==
  LET sorted[i \in 0..Len(got)] == IF i = 0 THEN <<>> ELSE Placed(sorted[i - 1], got[i])
  IN sorted[Len(got)]

\* No more is asked for than the limit leaves.
WalkTree ==
  /\ pc = "tree"
  /\ \E page \in PagesOf(tree, Smaller(TreePage, call.limit - Len(walk.got))) :
       LET got == walk.got \o page
           next == HasNext(tree, page)
           last == page = <<>> \/ ~next
           start == IF last THEN walk.start ELSE walk.start + Len(page)
       IN IF last \/ Len(got) >= call.limit
            THEN /\ Answer([status |-> "ok", results |-> InTreeOrder(got),
                            has_more |-> TreeHasMore(got, next), next_start |-> start])
                 /\ UNCHANGED walk
            ELSE /\ walk' = [start |-> start, got |-> got]
                 /\ UNCHANGED <<pc, outcome>>
  /\ UNCHANGED <<server, history, call, uploaded, notUploaded, sent>>

-----------------------------------------------------------------------------
(* search_content.  A query without an operator is tried as a site search, *)
(* and as a text search when the server knows no site search.              *)

\* The spaces a search is put into: the caller's own choice stands before the
\* filter, and a query that names a space is left as it is.
Scope ==
  IF call.spaces = "own" \/ call.names_space \/ Filter = {}
  THEN Range(SpaceOf) ELSE Filter

InScope == {c \in DOMAIN SpaceOf : SpaceOf[c] \in Scope}

SearchAnswers ==
  /\ pc \in {"search", "fallback"}
  /\ \E results \in SUBSET InScope : Answer([status |-> "ok", results |-> results])
  /\ UNCHANGED <<server, history, call, work>>

SearchFails ==
  /\ pc \in {"search", "fallback"}
  /\ \E status \in {400, 500} :
       IF status = 400 /\ pc = "search" /\ call.simple
         THEN pc' = "fallback" /\ UNCHANGED outcome
         ELSE Answer(Error("upstream"))
  /\ UNCHANGED <<server, history, call, work>>

-----------------------------------------------------------------------------
(* get_page_diff: the two texts are compared line by line at the same      *)
(* place; with context lines only what is near a change is shown.          *)

LineCount == IF Len(call.from) >= Len(call.to) THEN Len(call.from) ELSE Len(call.to)
LineAt(text, i) == IF i <= Len(text) THEN <<text[i]>> ELSE <<>>
Changed(i) == LineAt(call.from, i) # LineAt(call.to, i)

\* Context counts only before a change.
Fault_Near(i) == call.context = <<>> \/ \E c \in i..LineCount : Changed(c) /\ c - i < call.context[1]

Near(i) ==
  \/ call.context = <<>>
  \/ \E c \in 1..LineCount : Changed(c) /\ (IF c >= i THEN c - i ELSE i - c) <= call.context[1]

Signed(sign, text, i) == IF i <= Len(text) THEN <<[sign |-> sign, line |-> text[i]]>> ELSE <<>>

Shown(i) ==
  IF ~Near(i) THEN <<>>
  ELSE IF ~Changed(i) THEN Signed("same", call.from, i)
  ELSE Signed("gone", call.from, i) \o Signed("new", call.to, i)

DiffLines ==
  IF call.from = call.to THEN <<>> ELSE FlattenSeq([i \in 1..LineCount |-> Shown(i)])

\* Both versions are read (once, when they are the same); either read may fail.
Diff ==
  /\ pc = "diff"
  /\ \/ Answer([status |-> "ok", diff |-> DiffLines, has_changes |-> call.from # call.to])
     \/ Answer(Error("upstream"))
  /\ UNCHANGED <<server, history, call, work>>

-----------------------------------------------------------------------------
(* get_page_view_analytics: not on Server/Data Center; the title is read   *)
(* first, and a title that cannot be read is left out.                     *)

ReadTitle ==
  /\ pc = "views"
  /\ ~call.cloud \/ call.include_title
  /\ IF ~call.cloud
       THEN Answer([status |-> "ok", available |-> FALSE])
       ELSE pc' = "read_views" /\ UNCHANGED outcome
  /\ UNCHANGED <<server, history, call, work>>

ReadViews ==
  /\ \/ pc = "read_views"
     \/ pc = "views" /\ call.cloud /\ ~call.include_title
  /\ \/ Answer([status |-> "ok", available |-> TRUE])
     \/ Answer(Business)             \* 401 and 403
     \/ Answer(Error("upstream"))
  /\ UNCHANGED <<server, history, call, work>>

-----------------------------------------------------------------------------
(* Writes of one request: a comment, a reply, the delete of a page or of   *)
(* an attachment.  Their failures are caught and told in the answer.       *)

Refused(answer) == Answer(answer) /\ UNCHANGED <<server, sent>>

CarryOut ==
  /\ sent' = sent \cup {call.op}
  /\ CASE call.op \in {"comment", "reply"} ->
            comments' = comments + 1 /\ UNCHANGED <<label, object>>
       [] call.op = "label" -> label' = TRUE /\ UNCHANGED <<comments, object>>
       [] OTHER -> object /\ object' = FALSE /\ UNCHANGED <<comments, label>>
  /\ UNCHANGED <<members, tree, stored>>

SingleWrite ==
  /\ pc \in {"comment", "reply", "delete_page", "delete_attachment"}
  /\ \/ Refused(Business)
     \/ CarryOut /\ (Answer(Ok) \/ Answer(Business))
  /\ UNCHANGED <<history, call, walk, uploaded, notUploaded>>

\* A failure of the request that adds is passed over.
Fault_AddLabel ==
  /\ pc = "label"
  /\ \/ pc' = "labels" /\ UNCHANGED <<outcome, server, sent>>
     \/ CarryOut /\ pc' = "labels" /\ UNCHANGED outcome
  /\ UNCHANGED <<history, call, walk, uploaded, notUploaded>>

\* add_label adds the label, and then reads the labels for the answer.
AddLabel ==
  /\ pc = "label"
  /\ \/ Refused(Error("upstream"))
     \/ CarryOut /\ Answer(Error("upstream"))
     \/ CarryOut /\ pc' = "labels" /\ UNCHANGED outcome
  /\ UNCHANGED <<history, call, walk, uploaded, notUploaded>>

ReadLabels ==
  /\ pc = "labels"
  /\ Answer([status |-> "ok", labelled |-> label])
  /\ UNCHANGED <<server, history, call, work>>

-----------------------------------------------------------------------------
(* upload_content_attachments: one file after the other; a file that       *)
(* cannot be read is never sent, and no failure stops the batch.           *)

Index == Len(uploaded) + Len(notUploaded) + 1
File == call.files[Index]

\* What the answer says once every file was tried.
BatchAnswer(up, fail) ==
  [status |-> "ok", success |-> fail = <<>>, partial |-> up # <<>> /\ fail # <<>>]

Tried(up, fail) ==
  /\ uploaded' = up /\ notUploaded' = fail
  /\ IF Len(up) + Len(fail) = Len(call.files)
       THEN Answer(BatchAnswer(up, fail)) ELSE UNCHANGED <<pc, outcome>>

Store ==
  /\ sent' = sent \cup {Index}
  /\ stored' = [stored EXCEPT ![NameOf[File]] = File]

\* A file whose answer was lost is left out of the lists.
Fault_Upload ==
  /\ pc = "upload"
  /\ \/ Tried(uploaded, Append(notUploaded, Index)) /\ UNCHANGED <<stored, sent>>
     \/ Store /\ Tried(Append(uploaded, Index), notUploaded)
     \/ Store /\ Tried(Append(uploaded, Index), Append(notUploaded, Index))
  /\ UNCHANGED <<members, tree, label, object, comments, history, call, walk>>

Upload ==
  /\ pc = "upload"
  /\ \/ Tried(uploaded, Append(notUploaded, Index)) /\ UNCHANGED <<stored, sent>>
     \/ Store /\ Tried(Append(uploaded, Index), notUploaded)
     \/ Store /\ Tried(uploaded, Append(notUploaded, Index))
  /\ UNCHANGED <<members, tree, label, object, comments, history, call, walk>>

-----------------------------------------------------------------------------
(* The other users, while the call is under way.                           *)

Change == pc # "done" /\ changes < MaxChanges /\ changes' = changes + 1

\* A member or a page more, at the end or anywhere before it.
SomethingAdded ==
  /\ Change
  /\ \/ \E u \in Users \ Range(members), i \in 1..(Len(members) + 1) :
          /\ call.op = "users"
          /\ members' = InsertAt(members, i, u)
          /\ inserted' = IF i <= Len(members) THEN inserted + 1 ELSE inserted
          /\ UNCHANGED tree
     \/ \E p \in SpacePages \ Range(tree), i \in 1..(Len(tree) + 1) :
          /\ call.op = "tree"
          /\ tree' = InsertAt(tree, i, p)
          /\ inserted' = IF i <= Len(tree) THEN inserted + 1 ELSE inserted
          /\ UNCHANGED members
  /\ UNCHANGED <<label, stored, object, comments, removed, touched, call, pc, work, outcome>>

SomethingRemoved ==
  /\ Change
  /\ \/ \E i \in DOMAIN members :
          call.op = "users" /\ members' = RemoveAt(members, i) /\ UNCHANGED tree
     \/ \E i \in DOMAIN tree :
          call.op = "tree" /\ tree' = RemoveAt(tree, i) /\ UNCHANGED members
  /\ removed' = removed + 1
  /\ UNCHANGED <<label, stored, object, comments, inserted, touched, call, pc, work, outcome>>

OthersWrite ==
  /\ Change
  /\ \/ call.op = "label" /\ label' = ~label /\ touched' = touched \cup {"label"}
        /\ UNCHANGED <<stored, object>>
     \/ \E n \in Names, f \in {"none", "others"} :
          /\ call.op = "upload" /\ stored' = [stored EXCEPT ![n] = f]
          /\ touched' = touched \cup {n}
          /\ UNCHANGED <<label, object>>
     \/ call.op \in {"delete_page", "delete_attachment"} /\ object /\ object' = FALSE
        /\ touched' = touched \cup {"object"} /\ UNCHANGED <<label, stored>>
  /\ UNCHANGED <<members, tree, comments, inserted, removed, call, pc, work, outcome>>

Answered ==
  \/ WalkUsers \/ WalkTree \/ SearchAnswers \/ SearchFails \/ Diff
  \/ ReadTitle \/ ReadViews \/ SingleWrite \/ AddLabel \/ ReadLabels \/ Upload
Others == SomethingAdded \/ SomethingRemoved \/ OthersWrite
Next == Answered \/ ReadFails \/ Others
Spec == Init /\ [][Next]_vars

\* The runtime polls the call until it ends: a request is answered, or fails at its time limit.
FairSpec == Spec /\ WF_vars(Answered)

-----------------------------------------------------------------------------

Done(op) == call.op = op /\ pc = "done" /\ outcome.status = "ok"
Upto(s, n) == SubSeq(s, 1, Smaller(n, Len(s)))

\* A walk by offset tells what was there.  If nothing shifted meanwhile, the user
\* search answers with the first matching members up to the limit, and the space's tree
\* with its first pages up to the limit, says whether there are more, and names the
\* first one left out (search_user_server_dc, get_space_page_tree), however small the
\* server's pages; each entry that is put in before others, or moved, repeats at most
\* one, and each one removed hides at most one of those that stayed.
WalksExact ==
  /\ inserted + removed = 0 =>
       /\ Done("users") => outcome.results = Upto(Select(members, Named), call.limit)
       /\ Done("tree") =>
            /\ outcome.results = InTreeOrder(Upto(tree, call.limit))
            /\ outcome.has_more = (Len(tree) > Len(outcome.results))
            /\ outcome.has_more => outcome.next_start = Len(outcome.results)
  /\ Done("users") \/ Done("tree") =>
       LET found == Range(outcome.results)
           stayed == IF call.op = "users" THEN Range(InitialMembers) \cap Range(members) \cap Named
                     ELSE Range(InitialTree) \cap Range(tree)
       IN /\ Len(outcome.results) - Cardinality(found) <= inserted + removed
          /\ Len(outcome.results) < call.limit => Cardinality(stayed \ found) <= removed

\* What a write answers is so.  A label, comment or delete that is told as done was
\* carried out by this call, once, and holds unless others undid it; one that was
\* never carried out is told as a failure (add_content_label, add_page_comment,
\* reply_to_comment, delete_page, delete_attachment).
WritesTold ==
  /\ comments <= 1
  /\ pc = "done" /\ call \in Writes /\ outcome.status = "ok" =>
       /\ call.op \in sent
       /\ call.op = "label" /\ touched = {} => label /\ outcome.labelled
       /\ call.op \in {"delete_page", "delete_attachment"} => ~object

\* A batch of uploads tells every file once: the indexes of the uploaded and of the
\* failed files are in order and together are the batch; it is a success only when
\* every file was carried out, and then the server stores under each name the last
\* file of that name, unless others changed it (upload_content_attachments).
UploadsTold ==
  Done("upload") =>
    /\ Range(uploaded) \cup Range(notUploaded) = 1..Len(call.files)
    /\ Len(uploaded) + Len(notUploaded) = Len(call.files)
    /\ \A list \in {uploaded, notUploaded} : \A i, j \in DOMAIN list : i < j => list[i] < list[j]
    /\ Range(uploaded) \subseteq sent
    /\ outcome.success => \A k \in 1..Len(call.files) :
         LET n == NameOf[call.files[k]]
         IN \/ n \in touched
            \/ stored[n] = call.files[k]
            \/ \E later \in k + 1..Len(call.files) : NameOf[call.files[later]] = n

Lines == UNION {Range(t) : t \in Texts}

\* What a diff shows is enough: without context lines both texts can be read back
\* from it, and with any number of them no line that changed is left out
\* (confluence_unified_diff).
DiffComplete ==
  Done("diff") =>
    LET of(signs) == Select(outcome.diff, [sign : signs, line : Lines])
        texts(ds) == [i \in DOMAIN ds |-> ds[i].line]
        changed(text) == {i \in DOMAIN text : Changed(i)}
    IN /\ outcome.has_changes /\ call.context = <<>> =>
            /\ texts(of({"same", "gone"})) = call.from
            /\ texts(of({"same", "new"})) = call.to
       /\ Len(of({"gone"})) = Cardinality(changed(call.from))
       /\ Len(of({"new"})) = Cardinality(changed(call.to))

\* Every call ends, also while others add members and pages behind the walk.
CallEnds == <>(pc = "done")
=============================================================================
