-------------------------- MODULE ConfluencePages ---------------------------
(***************************************************************************)
(* Concurrent page writes of the Confluence client: create_page,           *)
(* update_page, move_page, delete_page and the best-effort emoji that      *)
(* follows a create or an update.                                          *)
(*                                                                         *)
(* Every MCP tool call or CLI command runs as its own asynchronous task.   *)
(* Between two HTTP requests of one call any step of another call may      *)
(* happen: an update or a move first reads the page, then writes it with   *)
(* the version it read plus one.  The HTTP client retries nothing; a call  *)
(* that times out gives up while its request may still reach the server.   *)
(*                                                                         *)
(* The calls modelled here passed their guard (module ToolAccess).  The    *)
(* Confluence server is external and modelled from how the client uses it: *)
(* a PUT is accepted when it carries the current version plus one.         *)
(*                                                                         *)
(* Operators named Fault_... are wrong variants of the definition they     *)
(* precede.  No specification uses them: substituted one at a time, each   *)
(* must make TLC refute a property (README.md, "Mutants").                 *)
(***************************************************************************)
EXTENDS Naturals

CONSTANTS
  Calls,    \* the calls made; a call's own value stands for the text it writes
  Tasks,    \* what a call may be asked to do
  NoTask, NoArg,
  Spaces, Parents,
  SpaceOf,  \* the space each parent page lives in
  Original, \* the text of the page before any call
  Blank,    \* the text a move writes when the page it read had no body
  Gaps,     \* the parts a page representation may lack; "nothing": complete
  BesideBumpsVersion

Positions == {"append", "above", "below", "before", "after"}

ASSUME SpacesAssumption == NoArg \notin Spaces \cup Parents
ASSUME SpaceOfAssumption == SpaceOf \in [Parents -> Spaces]
ASSUME TaskAssumption ==
  /\ NoTask \notin Tasks
  /\ Tasks \subseteq
       [kind: {"create", "update", "move", "delete"}, position: Positions,
        space: Spaces \cup {NoArg}, parent: Parents \cup {NoArg},
        emoji: BOOLEAN, blank: BOOLEAN]
  /\ \A t \in Tasks : t.emoji => t.kind \in {"create", "update"}
ASSUME GapsAssumption ==
  Gaps \subseteq {"nothing", "space", "title", "version", "body"}
ASSUME BumpAssumption == BesideBumpsVersion \in BOOLEAN

VARIABLES
  page,    \* the page on the server: [live, version, text, space, parent]
  applied, \* how often each call's write changed the content (history)
  marked,  \* the calls whose emoji property was set (history)
  pc,      \* where each call is: idle, read, write, reread, emoji or done
  task,    \* what each call was asked to do
  request, \* the request of each call that is on its way to the server
  reply,   \* the server's answer on its way back to each call
  outcome, \* what each call returned to its caller
  emojiStatus  \* the emoji_status field of a successful create or update

clientVars == <<pc, task, outcome, emojiStatus>>
serverVars == <<page, applied, marked>>
vars == <<page, applied, marked, pc, task, request, reply, outcome, emojiStatus>>

Texts == Calls \cup {Original, Blank}
NoRequest == [type |-> "none"]
NoReply == [status |-> "none"]

Requests ==
  [type: {"none", "get", "post", "move", "delete", "emoji"}]
    \cup [type: {"put"}, version: Nat, text: Texts, space: Spaces,
          parent: Parents \cup {NoArg}]

Replies ==
  [status: {"none", "ok", "ok_without_id", "4xx", "5xx", "garbled"}]
    \cup [status: {"page"}, version: Nat, text: Texts, space: Spaces, gap: Gaps]

Beside(t) == t.kind = "move" /\ t.position \in {"above", "below"}
Given(arg, default) == IF arg = NoArg THEN default ELSE arg
-----------------------------------------------------------------------------
(* The client. *)

\* Arguments that are refused before any request is sent.
ValidTask(t) ==
  /\ ~t.blank
  /\ t.kind = "move" =>
       /\ t.position \in {"append", "above", "below"}
       /\ t.parent # NoArg \/ t.space # NoArg
       /\ Beside(t) => t.parent # NoArg

Send(c, message, next) ==
  /\ request' = [request EXCEPT ![c] = message]
  /\ reply' = [reply EXCEPT ![c] = NoReply]
  /\ pc' = [pc EXCEPT ![c] = next]

Return(c, what) ==
  /\ pc' = [pc EXCEPT ![c] = "done"]
  /\ outcome' = [outcome EXCEPT ![c] = what]
  /\ reply' = [reply EXCEPT ![c] = NoReply]

\* Only "below" leads to the move endpoint.
Fault_FirstRequest(t) ==
  CASE t.kind = "create" -> [type |-> "post"]
    [] t.kind = "delete" -> [type |-> "delete"]
    [] Beside(t) /\ t.position = "below" -> [type |-> "move"]
    [] OTHER -> [type |-> "get"]

\* The first request of a call, and the point it then waits at.
FirstRequest(t) ==
  CASE t.kind = "create" -> [type |-> "post"]
    [] t.kind = "delete" -> [type |-> "delete"]
    [] Beside(t)         -> [type |-> "move"]
    [] OTHER             -> [type |-> "get"]

FirstStop(t) == IF FirstRequest(t).type = "get" THEN "read" ELSE "write"

Invoke(c, t) ==
  /\ pc[c] = "idle"
  /\ task' = [task EXCEPT ![c] = t]
  /\ IF ValidTask(t)
       THEN Send(c, FirstRequest(t), FirstStop(t)) /\ UNCHANGED outcome
       ELSE Return(c, "invalid_input") /\ UNCHANGED request
  /\ UNCHANGED <<serverVars, emojiStatus>>

\* An answer that is not the awaited page ends the call with its category.
Failure(status) ==
  CASE status = "4xx" -> "4xx" [] status = "5xx" -> "5xx" [] OTHER -> "json_decode"

\* One too many.
Fault_NextVersion(read) == (IF read.gap = "version" THEN 1 ELSE read.version) + 2

NextVersion(read) == (IF read.gap = "version" THEN 1 ELSE read.version) + 1

\* A move counts a version for itself and one for the page it writes.
Fault_PageWriteTwice(c, t, read) ==
  [type |-> "put",
   version |-> NextVersion(read) + (IF t.kind = "move" THEN 1 ELSE 0),
   text |-> IF t.kind = "update" THEN c ELSE read.text,
   space |-> IF t.kind = "move" THEN Given(t.space, read.space) ELSE read.space,
   parent |-> t.parent]

\* The page an update or an appending move puts back, from the page it read.
PageWrite(c, t, read) ==
  [type |-> "put",
   version |-> NextVersion(read),
   text |-> IF t.kind = "update" THEN c
            ELSE IF read.gap = "body" THEN Blank ELSE read.text,
   space |-> IF t.kind = "move" THEN Given(t.space, read.space) ELSE read.space,
   parent |-> t.parent]

Usable(t, read) ==
  /\ read.gap # "space"
  /\ t.kind = "move" => read.gap # "title"

OnRead(c) ==
  /\ pc[c] = "read"
  /\ reply[c].status # "none"
  /\ IF reply[c].status = "page"
       THEN IF Usable(task[c], reply[c])
              THEN /\ Send(c, PageWrite(c, task[c], reply[c]), "write")
                   /\ UNCHANGED outcome
              ELSE Return(c, "unexpected_shape") /\ UNCHANGED request
       ELSE Return(c, Failure(reply[c].status)) /\ UNCHANGED request
  /\ UNCHANGED <<serverVars, task, emojiStatus>>

\* An undecodable answer to a write counts as an empty one.
Fault_OnWritten(c) ==
  /\ pc[c] = "write"
  /\ reply[c].status # "none"
  /\ Return(c, IF reply[c].status \in {"ok", "ok_without_id", "garbled"}
                 THEN "ok" ELSE Failure(reply[c].status))
  /\ UNCHANGED <<serverVars, task, request, emojiStatus>>

\* A change that was answered: a page placed above or below its target is read
\* back; a created or updated page gets its emoji, if one was asked for.
OnWritten(c) ==
  /\ pc[c] = "write"
  /\ reply[c].status # "none"
  /\ IF reply[c].status \notin {"ok", "ok_without_id"}
       THEN /\ Return(c, Failure(reply[c].status))
            /\ UNCHANGED <<request, emojiStatus>>
     ELSE IF Beside(task[c])
       THEN /\ Send(c, [type |-> "get"], "reread")
            /\ UNCHANGED <<outcome, emojiStatus>>
     ELSE IF task[c].emoji /\ reply[c].status = "ok"
       THEN /\ Send(c, [type |-> "emoji"], "emoji")
            /\ UNCHANGED <<outcome, emojiStatus>>
     ELSE /\ Return(c, "ok")
          /\ emojiStatus' = [emojiStatus EXCEPT ![c] =
                               IF task[c].kind \notin {"create", "update"} THEN "none"
                               ELSE IF task[c].emoji THEN "failed" ELSE "not_requested"]
          /\ UNCHANGED request
  /\ UNCHANGED <<serverVars, task>>

OnReread(c) ==
  /\ pc[c] = "reread"
  /\ reply[c].status # "none"
  /\ Return(c, IF reply[c].status = "page" THEN "ok" ELSE Failure(reply[c].status))
  /\ UNCHANGED <<serverVars, task, request, emojiStatus>>

\* A failed emoji fails the call.
Fault_OnEmoji(c) ==
  /\ pc[c] = "emoji"
  /\ reply[c].status # "none"
  /\ Return(c, IF reply[c].status = "ok" THEN "ok" ELSE Failure(reply[c].status))
  /\ emojiStatus' = [emojiStatus EXCEPT ![c] =
                       IF reply[c].status = "ok" THEN "applied" ELSE "failed"]
  /\ UNCHANGED <<serverVars, task, request>>

\* The emoji decides emoji_status only: the page was written.
OnEmoji(c) ==
  /\ pc[c] = "emoji"
  /\ reply[c].status # "none"
  /\ Return(c, "ok")
  /\ emojiStatus' = [emojiStatus EXCEPT ![c] =
                       IF reply[c].status = "ok" THEN "applied" ELSE "failed"]
  /\ UNCHANGED <<serverVars, task, request>>

\* The request that sets the emoji has no timeout.
Fault_TransportErrorNotOnEmoji(c) ==
  /\ pc[c] \in {"read", "write", "reread"}
  /\ Return(c, "transport")
  /\ UNCHANGED <<serverVars, task, request, emojiStatus>>

\* The connection breaks or the timeout expires.  The request is not taken
\* back: if it still is in "request", the server may serve it later.
TransportError(c) ==
  /\ pc[c] \in {"read", "write", "reread", "emoji"}
  /\ IF pc[c] = "emoji"
       THEN /\ Return(c, "ok")
            /\ emojiStatus' = [emojiStatus EXCEPT ![c] = "failed"]
       ELSE /\ Return(c, "transport")
            /\ UNCHANGED emojiStatus
  /\ UNCHANGED <<serverVars, task, request>>
-----------------------------------------------------------------------------
(* The Confluence server and the network. *)

\* Nobody listens for the answer to a call that gave up.
Answer(c, message) ==
  /\ request' = [request EXCEPT ![c] = NoRequest]
  /\ reply' = [reply EXCEPT ![c] = IF pc[c] = "done" THEN NoReply ELSE message]

\* A change is made once; its answer may get lost behind a gateway.
Apply(c, newPage, answers) ==
  /\ page' = newPage
  /\ applied' = [applied EXCEPT ![c] = @ + 1]
  /\ \E s \in answers \cup {"5xx", "garbled"} : Answer(c, [status |-> s])
  /\ UNCHANGED <<marked, clientVars>>

ServeGet(c) ==
  /\ request[c].type = "get"
  /\ page.live
  /\ \E g \in Gaps :
       Answer(c, [status |-> "page", version |-> page.version, text |-> page.text,
                  space |-> page.space, gap |-> g])
  /\ UNCHANGED <<serverVars, clientVars>>

ServePut(c) ==
  /\ request[c].type = "put"
  /\ page.live
  /\ request[c].version = page.version + 1
  /\ Apply(c, [page EXCEPT !.version = request[c].version,
                           !.text = request[c].text,
                           !.space = request[c].space,
                           !.parent = Given(request[c].parent, @)],
           {"ok", "ok_without_id"})

ServePost(c) ==
  /\ request[c].type = "post"
  /\ Apply(c, page, {"ok", "ok_without_id"})

ServeMove(c) ==
  /\ request[c].type = "move"
  /\ page.live
  /\ Apply(c, [page EXCEPT !.version = IF BesideBumpsVersion THEN @ + 1 ELSE @,
                           !.space = SpaceOf[task[c].parent],
                           !.parent = task[c].parent],
           {"ok"})

ServeDelete(c) ==
  /\ request[c].type = "delete"
  /\ page.live
  /\ Apply(c, [page EXCEPT !.live = FALSE], {"ok"})

ServeEmoji(c) ==
  /\ request[c].type = "emoji"
  /\ marked' = marked \cup {c}
  /\ \E s \in {"ok", "5xx", "garbled"} : Answer(c, [status |-> s])
  /\ UNCHANGED <<page, applied, clientVars>>

\* A stale version (409), a missing page, a missing permission, a failing
\* server or a login page in its place: answered, and nothing changed.
Refuse(c) ==
  /\ request[c].type # "none"
  /\ \E s \in {"4xx", "5xx", "garbled"} : Answer(c, [status |-> s])
  /\ UNCHANGED <<serverVars, clientVars>>
-----------------------------------------------------------------------------
Init ==
  /\ \E p \in Parents :
       page = [live |-> TRUE, version |-> 1, text |-> Original,
               space |-> SpaceOf[p], parent |-> p]
  /\ applied = [c \in Calls |-> 0]
  /\ marked = {}
  /\ pc = [c \in Calls |-> "idle"]
  /\ task = [c \in Calls |-> NoTask]
  /\ request = [c \in Calls |-> NoRequest]
  /\ reply = [c \in Calls |-> NoReply]
  /\ outcome = [c \in Calls |-> "pending"]
  /\ emojiStatus = [c \in Calls |-> "none"]

Client(c) == OnRead(c) \/ OnWritten(c) \/ OnReread(c) \/ OnEmoji(c) \/ TransportError(c)

Server(c) ==
  \/ ServeGet(c) \/ ServePut(c) \/ ServePost(c) \/ ServeMove(c)
  \/ ServeDelete(c) \/ ServeEmoji(c) \/ Refuse(c)

Next ==
  \E c \in Calls :
    \/ \E t \in Tasks : Invoke(c, t)
    \/ Client(c)
    \/ Server(c)

Spec == Init /\ [][Next]_vars

\* Every request has a timeout, so a call that was made keeps taking steps.
\* Nothing is assumed of the server.
FairSpec == Spec /\ \A c \in Calls : WF_vars(Client(c))
-----------------------------------------------------------------------------
TypeOK ==
  /\ page \in [live: BOOLEAN, version: Nat, text: Texts, space: Spaces, parent: Parents]
  /\ applied \in [Calls -> Nat]
  /\ marked \subseteq Calls
  /\ pc \in [Calls -> {"idle", "read", "write", "reread", "emoji", "done"}]
  /\ task \in [Calls -> Tasks \cup {NoTask}]
  /\ request \in [Calls -> Requests]
  /\ reply \in [Calls -> Replies]
  /\ outcome \in [Calls -> {"pending", "ok", "invalid_input", "unexpected_shape",
                            "4xx", "5xx", "json_decode", "transport"}]
  /\ emojiStatus \in [Calls -> {"none", "not_requested", "applied", "failed"}]

(* Properties. *)

\* A call never changes the content twice, whatever is lost or late: nothing is
\* retried, so a caller's own retry is the only way to write twice.
AppliedAtMostOnce == \A c \in Calls : applied[c] <= 1

\* A request that could still change something when it is served late.
Harmless(c) == request[c].type \in {"none", "get"}

\* Success is reported only for a change that was made; an argument error, a
\* page of unexpected shape or a 4xx status only when nothing was changed and no
\* request of the call can change anything any more.  Timeouts, 5xx statuses and
\* undecodable answers say nothing.  The 4xx clause leaves out moves above and
\* below: they may be refused when the page is read back after the move.
OutcomeTellsTruth ==
  \A c \in Calls :
    /\ outcome[c] = "ok" => applied[c] = 1
    /\ \/ outcome[c] \in {"invalid_input", "unexpected_shape"}
       \/ outcome[c] = "4xx" /\ ~Beside(task[c])
       => applied[c] = 0 /\ Harmless(c)

\* The emoji is set only on a page the same call wrote, is reported as applied
\* only then, and never turns a written page into an error.
EmojiFollowsWrite ==
  \A c \in Calls :
    /\ c \in marked => applied[c] = 1
    /\ emojiStatus[c] = "applied" => c \in marked
    /\ emojiStatus[c] # "none" => outcome[c] = "ok"

\* A move writes back the text it read a request earlier, and still takes no
\* other call's edit back: only updates change the text of the page.
MovesKeepText ==
  [][\A c \in Calls :
       applied'[c] # applied[c] /\ task[c].kind # "update" => page'.text = page.text]_vars

\* An update writes back the space it read a request earlier, and still takes no
\* other call's move back: it changes the parent only if it names one.
UpdatesKeepPlace ==
  [][\A c \in Calls :
       applied'[c] # applied[c] /\ task[c].kind = "update" =>
         /\ page'.space = page.space
         /\ task[c].parent = NoArg => page'.parent = page.parent]_vars

\* Every call returns to its caller, even when the server never answers.
EveryCallReturns == \A c \in Calls : pc[c] # "idle" ~> pc[c] = "done"

\* The calls are atomic: see AtomicPage.  A call with invalid arguments counts as
\* never made; only the outcomes that promise something are told apart.
Promised(c) ==
  CASE outcome[c] \in {"pending", "invalid_input"} -> "pending"
    [] outcome[c] = "ok" -> "ok"
    [] outcome[c] = "unexpected_shape" -> "rejected"
    [] outcome[c] = "4xx" /\ ~Beside(task[c]) -> "rejected"
    [] OTHER -> "unknown"

Atomic == INSTANCE AtomicPage WITH
  task <- [c \in Calls |-> IF outcome[c] = "invalid_input" THEN NoTask ELSE task[c]],
  result <- [c \in Calls |-> Promised(c)]

AtomicSpec == Atomic!Spec

(* The inductive invariant, for the proofs in ConfluencePagesProofs. *)

Reads(t) == t.kind \in {"update", "move"} /\ ~Beside(t)

WriteType(t) == IF Reads(t) THEN "put" ELSE FirstRequest(t).type

\* How far a call has come, what is under way for it and whether its change was
\* made fit together.
Stage(c) ==
  CASE pc[c] = "idle" ->
         /\ request[c].type = "none" /\ reply[c].status = "none"
         /\ applied[c] = 0 /\ c \notin marked
    [] pc[c] = "read" ->
         /\ request[c].type \in {"none", "get"}
         /\ reply[c].status \in {"none", "page", "4xx", "5xx", "garbled"}
         /\ applied[c] = 0 /\ c \notin marked
         /\ Reads(task[c])
    [] pc[c] = "write" ->
         /\ request[c].type \in {"none", WriteType(task[c])}
         /\ reply[c].status # "page"
         /\ request[c].type # "none" \/ reply[c].status = "4xx" => applied[c] = 0
         /\ reply[c].status \in {"ok", "ok_without_id"} => applied[c] = 1
         /\ c \notin marked
    [] pc[c] = "reread" ->
         /\ request[c].type \in {"none", "get"}
         /\ applied[c] = 1 /\ c \notin marked
         /\ Beside(task[c])
    [] pc[c] = "emoji" ->
         /\ request[c].type \in {"none", "emoji"}
         /\ reply[c].status # "page"
         /\ applied[c] = 1 /\ task[c].emoji
         /\ reply[c].status = "ok" => c \in marked
    [] OTHER ->
         /\ reply[c].status = "none"
         /\ request[c].type \in {"none", "get", "emoji", WriteType(task[c])}
         /\ request[c].type = "emoji" => applied[c] = 1 /\ task[c].emoji
         /\ request[c].type \notin {"none", "get", "emoji"} =>
              applied[c] = 0 /\ outcome[c] = "transport"

\* The stages of a call in order; an argument error has nothing under way.
Progress(c) ==
  /\ pc[c] = "idle" <=> task[c] = NoTask
  /\ pc[c] # "done" <=> outcome[c] = "pending"
  /\ pc[c] # "idle" /\ outcome[c] # "invalid_input" => ValidTask(task[c])
  /\ outcome[c] = "invalid_input" => request[c].type = "none"
  /\ request[c].type # "none" => reply[c].status = "none"
  /\ pc[c] # "done" => emojiStatus[c] = "none"
  /\ applied[c] <= 1
  /\ Stage(c)

\* What a call read is the page as it is now, or carries an older version.
ReadsThePage(c) ==
  reply[c].status = "page" =>
    /\ 1 <= reply[c].version /\ reply[c].version <= page.version
    /\ reply[c].version = page.version =>
         /\ reply[c].text = page.text
         /\ BesideBumpsVersion => reply[c].space = page.space

\* What a call is about to write fits the page as it is now, or is refused.
WritesThePage(c) ==
  request[c].type = "put" =>
    /\ request[c].version <= page.version + 1
    /\ request[c].parent = task[c].parent
    /\ task[c].kind = "update" => request[c].text = c
    /\ request[c].version = page.version + 1 =>
         /\ task[c].kind = "move" /\ "body" \notin Gaps => request[c].text = page.text
         /\ BesideBumpsVersion =>
              request[c].space = IF task[c].kind = "move" THEN Given(task[c].space, page.space)
                                                          ELSE page.space

IInv ==
  /\ TypeOK
  /\ page.version >= 1
  /\ \A c \in Calls : Progress(c) /\ ReadsThePage(c) /\ WritesThePage(c)
  /\ OutcomeTellsTruth
  /\ EmojiFollowsWrite
=============================================================================
