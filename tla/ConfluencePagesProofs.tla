----------------------- MODULE ConfluencePagesProofs ------------------------
(***************************************************************************)
(* Proofs about ConfluencePages, for any number of calls and any tasks,    *)
(* spaces, parents and gaps.                                               *)
(***************************************************************************)
EXTENDS ConfluencePages, TLAPS

\* The initial states satisfy the inductive invariant.
LEMMA InitIInv == Init => IInv
<1> SUFFICES ASSUME Init PROVE IInv
  OBVIOUS
<1>1. TypeOK
  BY SpaceOfAssumption DEF Init, TypeOK, Texts, Requests, Replies, NoRequest, NoReply
<1>2. page.version >= 1
  BY DEF Init
<1>3. ASSUME NEW c \in Calls PROVE Progress(c)
  BY <1>3 DEF Init, Progress, Stage, NoRequest, NoReply
<1>5. ASSUME NEW c \in Calls PROVE ReadsThePage(c) /\ WritesThePage(c)
  BY <1>5 DEF Init, ReadsThePage, WritesThePage, NoRequest, NoReply
<1>4. OutcomeTellsTruth /\ EmojiFollowsWrite
  BY DEF Init, OutcomeTellsTruth, EmojiFollowsWrite, Harmless, NoRequest
<1> QED BY <1>1, <1>2, <1>3, <1>4, <1>5 DEF IInv

\* What changes the page is one of four requests, and the first request of a call
\* is that change unless the page is read before.
LEMMA WriteTypes ==
  \A t \in Tasks :
    /\ WriteType(t) \in {"put", "post", "move", "delete"}
    /\ FirstRequest(t).type \in {"get", "post", "move", "delete"}
    /\ FirstRequest(t).type = "get" <=> Reads(t)
BY TaskAssumption DEF WriteType, FirstRequest, Reads, Beside

\* A failed request ends the call with one of three outcomes.
LEMMA Failures ==
  ASSUME NEW s PROVE Failure(s) \in {"4xx", "5xx", "json_decode"} /\ (Failure(s) = "4xx" <=> s = "4xx")
BY DEF Failure

\* The invocation of a call with any task.
LEMMA InvokeIInv ==
  ASSUME IInv, NEW c \in Calls, NEW t \in Tasks, Invoke(c, t) PROVE IInv'
<1> USE DEF Invoke, Send, Return, serverVars
<1>1. TypeOK'
  <2>1. FirstRequest(t) \in Requests /\ FirstStop(t) \in {"read", "write"}
    BY DEF Requests, FirstRequest, FirstStop
  <2>2. NoReply \in Replies
    BY DEF Replies, NoReply
  <2> QED BY <2>1, <2>2 DEF IInv, TypeOK
<1>2. page'.version >= 1
  BY DEF IInv
<1>3. ASSUME NEW d \in Calls PROVE Progress(d)'
  <2>1. CASE d = c
    <3>1. t # NoTask /\ t.kind \in {"create", "update", "move", "delete"}
      BY TaskAssumption
    <3>2. FirstStop(t) = "read" => FirstRequest(t).type = "get" /\ Reads(t)
      BY <3>1 DEF FirstStop, FirstRequest, Reads, Beside
    <3>3. FirstStop(t) # "read" =>
            FirstStop(t) = "write" /\ FirstRequest(t).type = WriteType(t)
      BY <3>1 DEF FirstStop, FirstRequest, Reads, Beside, WriteType
    <3> QED BY <2>1, <3>1, <3>2, <3>3 DEF IInv, TypeOK, Progress, Stage, NoReply
  <2>2. CASE d # c
    BY <1>3, <2>2 DEF IInv, TypeOK, Progress, Stage, NoReply
  <2> QED BY <2>1, <2>2
<1>4. ASSUME NEW d \in Calls PROVE ReadsThePage(d)'
  BY <1>4 DEF IInv, TypeOK, ReadsThePage, NoReply
<1>5. ASSUME NEW d \in Calls PROVE WritesThePage(d)'
  BY <1>5 DEF IInv, TypeOK, WritesThePage, FirstRequest, Progress, Stage
<1>6. OutcomeTellsTruth'
  BY DEF IInv, TypeOK, OutcomeTellsTruth, Harmless, Progress, Stage
<1>7. EmojiFollowsWrite'
  BY DEF IInv, TypeOK, EmojiFollowsWrite, Progress
<1> QED BY <1>1, <1>2, <1>3, <1>4, <1>5, <1>6, <1>7 DEF IInv

\* What a call read turns into the page it writes back, or into an error.
LEMMA OnReadIInv ==
  ASSUME IInv, NEW c \in Calls, OnRead(c) PROVE IInv'
<1> USE DEF OnRead, Send, Return, serverVars, NoReply
<1>0. /\ task[c] \in Tasks
      /\ task[c].kind \in {"update", "move"}
      /\ task[c].space \in Spaces \cup {NoArg} /\ task[c].parent \in Parents \cup {NoArg}
  BY TaskAssumption DEF IInv, TypeOK, Progress, Stage, Reads
<1>a. ASSUME reply[c].status = "page"
      PROVE  reply[c] \in [status: {"page"}, version: Nat, text: Texts, space: Spaces, gap: Gaps]
  BY <1>a DEF IInv, TypeOK, Replies
<1>1. TypeOK'
  <2>1. CASE reply[c].status = "page" /\ Usable(task[c], reply[c])
    <3>1. PageWrite(c, task[c], reply[c]) \in Requests
      BY <1>0, <1>a, <2>1 DEF Requests, PageWrite, Texts, NextVersion, Given
    <3> QED BY <2>1, <3>1 DEF IInv, TypeOK, Replies
  <2>2. CASE reply[c].status = "page" /\ ~Usable(task[c], reply[c])
    BY <2>2 DEF IInv, TypeOK, Replies
  <2>3. CASE reply[c].status # "page"
    BY <2>3, Failures DEF IInv, TypeOK, Replies
  <2> QED BY <2>1, <2>2, <2>3
<1>2. page'.version >= 1
  BY DEF IInv, TypeOK
<1>3. ASSUME NEW d \in Calls PROVE Progress(d)'
  BY <1>3 DEF IInv, TypeOK, Progress, Stage, PageWrite, Reads, Beside, Failure, WriteType
<1>4. ASSUME NEW d \in Calls PROVE ReadsThePage(d)'
  BY <1>4 DEF IInv, TypeOK, ReadsThePage
<1>5. ASSUME NEW d \in Calls PROVE WritesThePage(d)'
  <2>1. CASE d = c /\ request'[c].type = "put"
    <3>1. /\ reply[c].status = "page"
          /\ request'[c] = PageWrite(c, task[c], reply[c])
      BY <2>1 DEF IInv, TypeOK, Progress, Stage
    <3>2. /\ 1 <= reply[c].version /\ reply[c].version <= page.version
          /\ reply[c].version = page.version =>
               /\ reply[c].text = page.text
               /\ BesideBumpsVersion => reply[c].space = page.space
          /\ reply[c].version \in Nat /\ page.version \in Nat /\ reply[c].gap \in Gaps
      BY <1>a, <3>1 DEF IInv, ReadsThePage, TypeOK
    <3>3. request'[c].version = page.version + 1 => reply[c].version = page.version
      BY <3>1, <3>2 DEF PageWrite, NextVersion
    <3>4. request'[c].version <= page.version + 1
      BY <3>1, <3>2 DEF PageWrite, NextVersion
    <3>5. UNCHANGED <<page, task>>
      OBVIOUS
    <3>6. /\ request'[c].parent = task[c].parent
          /\ task[c].kind = "update" => request'[c].text = c
          /\ task[c].kind = "move" /\ "body" \notin Gaps => request'[c].text = reply[c].text
          /\ request'[c].space = IF task[c].kind = "move" THEN Given(task[c].space, reply[c].space)
                                                         ELSE reply[c].space
      BY <1>0, <3>1, <3>2 DEF PageWrite
    <3> QED BY <2>1, <3>2, <3>3, <3>4, <3>5, <3>6 DEF WritesThePage
  <2>2. CASE ~(d = c /\ request'[c].type = "put")
    BY <1>5, <2>2 DEF IInv, TypeOK, WritesThePage
  <2> QED BY <2>1, <2>2
<1>6. OutcomeTellsTruth'
  BY DEF IInv, TypeOK, OutcomeTellsTruth, Harmless, Progress, Stage, Failure
<1>7. EmojiFollowsWrite'
  BY DEF IInv, TypeOK, EmojiFollowsWrite, Progress, Stage
<1> QED BY <1>1, <1>2, <1>3, <1>4, <1>5, <1>6, <1>7 DEF IInv

\* The answer to a change ends the call, reads the page back or sends the emoji.
LEMMA OnWrittenIInv ==
  ASSUME IInv, NEW c \in Calls, OnWritten(c) PROVE IInv'
<1> USE DEF OnWritten, Send, Return, serverVars, NoReply
<1>0. /\ task[c] \in Tasks
      /\ WriteType(task[c]) \in {"put", "post", "move", "delete"}
  BY WriteTypes DEF IInv, TypeOK, Progress
<1>a. CASE reply[c].status \notin {"ok", "ok_without_id"}
  <2>1. TypeOK'
    BY <1>a, Failures DEF IInv, TypeOK, Replies
  <2>2. ASSUME NEW d \in Calls PROVE Progress(d)'
    BY <1>0, <1>a, <2>2, Failures DEF IInv, TypeOK, Progress, Stage
  <2>3. OutcomeTellsTruth'
    BY <1>a DEF IInv, TypeOK, OutcomeTellsTruth, Harmless, Progress, Stage, Failure
  <2>4. EmojiFollowsWrite'
    BY <1>a DEF IInv, TypeOK, EmojiFollowsWrite, Progress, Stage
  <2>5. ASSUME NEW d \in Calls PROVE ReadsThePage(d)' /\ WritesThePage(d)'
    BY <1>a, <2>5 DEF IInv, TypeOK, ReadsThePage, WritesThePage
  <2> QED BY <2>1, <2>2, <2>3, <2>4, <2>5 DEF IInv
<1>b. CASE reply[c].status \in {"ok", "ok_without_id"} /\ pc'[c] # "done"
  <2>1. PICK next \in {"reread", "emoji"} :
          /\ request' = [request EXCEPT ![c] = [type |-> IF next = "reread" THEN "get" ELSE "emoji"]]
          /\ reply' = [reply EXCEPT ![c] = NoReply]
          /\ pc' = [pc EXCEPT ![c] = next]
          /\ IF next = "reread" THEN Beside(task[c]) ELSE task[c].emoji
          /\ UNCHANGED <<outcome, emojiStatus>>
    BY <1>b DEF IInv, TypeOK
  <2>2. TypeOK'
    <3>1. [type |-> IF next = "reread" THEN "get" ELSE "emoji"] \in Requests
      BY DEF Requests
    <3> QED BY <2>1, <3>1 DEF IInv, TypeOK, Replies
  <2>3. ASSUME NEW d \in Calls PROVE Progress(d)'
    BY <1>0, <1>b, <2>1, <2>3 DEF IInv, TypeOK, Progress, Stage
  <2>4. OutcomeTellsTruth' /\ EmojiFollowsWrite'
    BY <1>b, <2>1 DEF IInv, TypeOK, OutcomeTellsTruth, EmojiFollowsWrite, Harmless, Progress, Stage
  <2>5. ASSUME NEW d \in Calls PROVE ReadsThePage(d)' /\ WritesThePage(d)'
    BY <1>b, <2>1, <2>5 DEF IInv, TypeOK, ReadsThePage, WritesThePage
  <2> QED BY <2>1, <2>2, <2>3, <2>4, <2>5 DEF IInv
<1>c. CASE reply[c].status \in {"ok", "ok_without_id"} /\ pc'[c] = "done"
  <2>1. /\ Return(c, "ok") /\ UNCHANGED request
        /\ \E s \in {"none", "not_requested", "failed"} :
             emojiStatus' = [emojiStatus EXCEPT ![c] = s]
    BY <1>c DEF IInv, TypeOK
  <2>2. TypeOK'
    BY <2>1 DEF IInv, TypeOK, Replies
  <2>3. ASSUME NEW d \in Calls PROVE Progress(d)'
    BY <1>0, <1>c, <2>1, <2>3 DEF IInv, TypeOK, Progress, Stage
  <2>4. OutcomeTellsTruth'
    BY <1>c, <2>1 DEF IInv, TypeOK, OutcomeTellsTruth, Harmless, Progress, Stage
  <2>5. EmojiFollowsWrite'
    BY <1>c, <2>1 DEF IInv, TypeOK, EmojiFollowsWrite, Progress, Stage
  <2>6. ASSUME NEW d \in Calls PROVE ReadsThePage(d)' /\ WritesThePage(d)'
    BY <1>c, <2>1, <2>6 DEF IInv, TypeOK, ReadsThePage, WritesThePage
  <2> QED BY <2>2, <2>3, <2>4, <2>5, <2>6 DEF IInv
<1> QED BY <1>a, <1>b, <1>c

\* Reading the page back decides the outcome of a move above or below only.
LEMMA OnRereadIInv ==
  ASSUME IInv, NEW c \in Calls, OnReread(c) PROVE IInv'
<1> USE DEF OnReread, Return, serverVars, NoReply
<1>1. TypeOK'
  BY DEF IInv, TypeOK, Replies, Failure
<1>2. page'.version >= 1
  BY DEF IInv, TypeOK
<1>3. ASSUME NEW d \in Calls PROVE Progress(d)'
  BY <1>3 DEF IInv, TypeOK, Progress, Stage, Failure
<1>4. ASSUME NEW d \in Calls PROVE ReadsThePage(d)'
  BY <1>4 DEF IInv, TypeOK, ReadsThePage
<1>5. ASSUME NEW d \in Calls PROVE WritesThePage(d)'
  BY <1>5 DEF IInv, TypeOK, WritesThePage
<1>6. OutcomeTellsTruth'
  BY DEF IInv, TypeOK, OutcomeTellsTruth, Harmless, Progress, Stage, Failure
<1>7. EmojiFollowsWrite'
  BY DEF IInv, TypeOK, EmojiFollowsWrite, Progress, Stage
<1> QED BY <1>1, <1>2, <1>3, <1>4, <1>5, <1>6, <1>7 DEF IInv

\* The answer to the emoji request leaves the outcome ok.
LEMMA OnEmojiIInv ==
  ASSUME IInv, NEW c \in Calls, OnEmoji(c) PROVE IInv'
<1> USE DEF OnEmoji, Return, serverVars, NoReply
<1>1. TypeOK'
  BY DEF IInv, TypeOK, Replies
<1>2. page'.version >= 1
  BY DEF IInv, TypeOK
<1>3. ASSUME NEW d \in Calls PROVE Progress(d)'
  BY <1>3 DEF IInv, TypeOK, Progress, Stage
<1>4. ASSUME NEW d \in Calls PROVE ReadsThePage(d)'
  BY <1>4 DEF IInv, TypeOK, ReadsThePage
<1>5. ASSUME NEW d \in Calls PROVE WritesThePage(d)'
  BY <1>5 DEF IInv, TypeOK, WritesThePage
<1>6. OutcomeTellsTruth'
  BY DEF IInv, TypeOK, OutcomeTellsTruth, Harmless, Progress, Stage
<1>7. EmojiFollowsWrite'
  BY DEF IInv, TypeOK, EmojiFollowsWrite, Progress, Stage
<1> QED BY <1>1, <1>2, <1>3, <1>4, <1>5, <1>6, <1>7 DEF IInv

\* A call that gives up leaves its request where it is and claims nothing.
LEMMA TransportErrorIInv ==
  ASSUME IInv, NEW c \in Calls, TransportError(c) PROVE IInv'
<1> USE DEF TransportError, Return, serverVars, NoReply
<1>1. TypeOK'
  BY DEF IInv, TypeOK, Replies
<1>2. page'.version >= 1
  BY DEF IInv, TypeOK
<1>3. ASSUME NEW d \in Calls PROVE Progress(d)'
  BY <1>3, WriteTypes DEF IInv, TypeOK, Progress, Stage
<1>4. ASSUME NEW d \in Calls PROVE ReadsThePage(d)'
  BY <1>4 DEF IInv, TypeOK, ReadsThePage
<1>5. ASSUME NEW d \in Calls PROVE WritesThePage(d)'
  BY <1>5 DEF IInv, TypeOK, WritesThePage
<1>6. OutcomeTellsTruth'
  BY DEF IInv, TypeOK, OutcomeTellsTruth, Harmless, Progress, Stage
<1>7. EmojiFollowsWrite'
  BY DEF IInv, TypeOK, EmojiFollowsWrite, Progress, Stage
<1> QED BY <1>1, <1>2, <1>3, <1>4, <1>5, <1>6, <1>7 DEF IInv

\* The server answers a read with the page as it is.
LEMMA ServeGetIInv ==
  ASSUME IInv, NEW c \in Calls, ServeGet(c) PROVE IInv'
<1> USE DEF ServeGet, Answer, clientVars, serverVars, NoReply, NoRequest
<1>1. PICK g \in Gaps :
        Answer(c, [status |-> "page", version |-> page.version, text |-> page.text,
                   space |-> page.space, gap |-> g])
  OBVIOUS
<1>2. TypeOK'
  BY <1>1 DEF IInv, TypeOK, Requests, Replies
<1>3. ASSUME NEW d \in Calls PROVE Progress(d)'
  BY <1>1, <1>3, WriteTypes DEF IInv, TypeOK, Progress, Stage
<1>4. ASSUME NEW d \in Calls PROVE ReadsThePage(d)' /\ WritesThePage(d)'
  BY <1>1, <1>4 DEF IInv, TypeOK, ReadsThePage, WritesThePage
<1>5. OutcomeTellsTruth' /\ EmojiFollowsWrite'
  BY <1>1 DEF IInv, TypeOK, OutcomeTellsTruth, EmojiFollowsWrite, Harmless
<1> QED BY <1>1, <1>2, <1>3, <1>4, <1>5 DEF IInv

\* A refused request changes nothing and is gone.
LEMMA RefuseIInv ==
  ASSUME IInv, NEW c \in Calls, Refuse(c) PROVE IInv'
<1> USE DEF Refuse, Answer, clientVars, serverVars, NoReply, NoRequest
<1>1. PICK s \in {"4xx", "5xx", "garbled"} : Answer(c, [status |-> s])
  OBVIOUS
<1>2. TypeOK'
  BY <1>1 DEF IInv, TypeOK, Requests, Replies
<1>3. ASSUME NEW d \in Calls PROVE Progress(d)'
  BY <1>1, <1>3, WriteTypes DEF IInv, TypeOK, Progress, Stage
<1>4. ASSUME NEW d \in Calls PROVE ReadsThePage(d)' /\ WritesThePage(d)'
  BY <1>1, <1>4 DEF IInv, TypeOK, ReadsThePage, WritesThePage
<1>5. OutcomeTellsTruth' /\ EmojiFollowsWrite'
  BY <1>1 DEF IInv, TypeOK, OutcomeTellsTruth, EmojiFollowsWrite, Harmless
<1> QED BY <1>1, <1>2, <1>3, <1>4, <1>5 DEF IInv

\* The emoji request belongs to a call whose change was made.
LEMMA ServeEmojiIInv ==
  ASSUME IInv, NEW c \in Calls, ServeEmoji(c) PROVE IInv'
<1> USE DEF ServeEmoji, Answer, clientVars, NoReply, NoRequest
<1>1. PICK s \in {"ok", "5xx", "garbled"} : Answer(c, [status |-> s])
  OBVIOUS
<1>0. pc[c] \in {"emoji", "done"} /\ applied[c] = 1
  <2>1. Progress(c) /\ pc[c] \in {"idle", "read", "write", "reread", "emoji", "done"}
    BY DEF IInv, TypeOK
  <2>2. pc[c] = "write" => WriteType(task[c]) # "emoji"
    BY <2>1, WriteTypes DEF IInv, TypeOK, Progress
  <2> QED BY <2>1, <2>2 DEF Progress, Stage
<1>2. TypeOK'
  BY <1>1 DEF IInv, TypeOK, Requests, Replies
<1>3. ASSUME NEW d \in Calls PROVE Progress(d)'
  <2>1. Progress(d)
    BY <1>3 DEF IInv
  <2>2. CASE d = c
    BY <1>0, <1>1, <2>1, <2>2 DEF IInv, TypeOK, Progress, Stage
  <2>3. CASE d # c
    BY <1>1, <2>1, <2>3 DEF IInv, TypeOK, Progress, Stage
  <2> QED BY <2>2, <2>3
<1>4. ASSUME NEW d \in Calls PROVE ReadsThePage(d)' /\ WritesThePage(d)'
  BY <1>1, <1>4 DEF IInv, TypeOK, ReadsThePage, WritesThePage
<1>5. OutcomeTellsTruth' /\ EmojiFollowsWrite'
  BY <1>0, <1>1 DEF IInv, TypeOK, OutcomeTellsTruth, EmojiFollowsWrite, Harmless
<1> QED BY <1>1, <1>2, <1>3, <1>4, <1>5 DEF IInv

\* What a request that changes something has in common: it is sent once, the call
\* that sent it still waits for it or timed out, and what it asks for is its task.
LEMMA Changes ==
  ASSUME IInv, NEW c \in Calls, request[c].type \in {"put", "post", "move", "delete"}
  PROVE  /\ pc[c] = "write" \/ (pc[c] = "done" /\ outcome[c] = "transport")
         /\ applied[c] = 0
         /\ task[c] \in Tasks /\ ValidTask(task[c])
         /\ request[c].type = WriteType(task[c])
<1>1. Progress(c) /\ pc[c] \in {"idle", "read", "write", "reread", "emoji", "done"}
  BY DEF IInv, TypeOK
<1>2. /\ pc[c] \in {"write", "done"} /\ applied[c] = 0
      /\ request[c].type = WriteType(task[c])
      /\ pc[c] = "done" => outcome[c] = "transport"
  BY <1>1 DEF Progress, Stage
<1>3. task[c] \in Tasks
  BY <1>1, <1>2 DEF IInv, TypeOK, Progress
<1>4. outcome[c] \in {"pending", "transport"} /\ pc[c] # "idle"
  BY <1>1, <1>2 DEF Progress
<1>5. ValidTask(task[c])
  BY <1>1, <1>4 DEF Progress
<1> QED BY <1>1, <1>2, <1>3, <1>4, <1>5

\* Applying a change preserves the invariant if the page only gets newer.
LEMMA ApplyIInv ==
  ASSUME IInv, NEW c \in Calls, NEW newPage, NEW answers,
         answers \subseteq {"ok", "ok_without_id"},
         request[c].type \in {"put", "post", "move", "delete"},
         Apply(c, newPage, answers),
         newPage \in [live: BOOLEAN, version: Nat, text: Texts, space: Spaces, parent: Parents],
         \/ newPage.version > page.version
         \/ /\ newPage.version = page.version /\ newPage.text = page.text
            /\ BesideBumpsVersion => newPage.space = page.space
  PROVE  IInv'
<1> USE DEF Apply, Answer, clientVars, NoReply, NoRequest
<1>1. PICK s \in answers \cup {"5xx", "garbled"} : Answer(c, [status |-> s])
  OBVIOUS
<1>0. /\ pc[c] = "write" \/ (pc[c] = "done" /\ outcome[c] = "transport")
      /\ applied[c] = 0
      /\ s \in {"ok", "ok_without_id", "5xx", "garbled"}
  BY Changes, <1>1
<1>2. TypeOK'
  BY <1>0, <1>1 DEF IInv, TypeOK, Requests, Replies
<1>3. ASSUME NEW d \in Calls PROVE Progress(d)'
  BY <1>0, <1>1, <1>3 DEF IInv, TypeOK, Progress, Stage
<1>4. ASSUME NEW d \in Calls PROVE ReadsThePage(d)'
  <2>1. reply'[d].status = "page" => reply'[d] = reply[d]
    BY <1>1, <1>4, <1>0 DEF IInv, TypeOK
  <2>2. reply[d].status = "page" => reply[d].version \in Nat
    BY DEF IInv, TypeOK, Replies
  <2> QED BY <1>4, <2>1, <2>2 DEF IInv, TypeOK, ReadsThePage
<1>5. ASSUME NEW d \in Calls PROVE WritesThePage(d)'
  <2>1. request'[d].type = "put" => request'[d] = request[d]
    BY <1>1, <1>5 DEF IInv, TypeOK
  <2>2. request[d].type = "put" => request[d].version \in Nat
    BY DEF IInv, TypeOK, Requests
  <2> QED BY <1>5, <2>1, <2>2 DEF IInv, TypeOK, WritesThePage
<1>6. OutcomeTellsTruth' /\ EmojiFollowsWrite'
  BY <1>0, <1>1 DEF IInv, TypeOK, OutcomeTellsTruth, EmojiFollowsWrite, Harmless, Progress
<1>7. page'.version >= 1
  BY DEF IInv, TypeOK
<1> QED BY <1>2, <1>3, <1>4, <1>5, <1>6, <1>7 DEF IInv

\* An accepted put makes the version it carries the current one.
LEMMA ServePutIInv ==
  ASSUME IInv, NEW c \in Calls, ServePut(c) PROVE IInv'
<1> DEFINE newPage == [page EXCEPT !.version = request[c].version,
                                   !.text = request[c].text,
                                   !.space = request[c].space,
                                   !.parent = Given(request[c].parent, @)]
<1>1. request[c] \in [type: {"put"}, version: Nat, text: Texts, space: Spaces,
                      parent: Parents \cup {NoArg}]
  BY DEF ServePut, IInv, TypeOK, Requests
<1>2. newPage \in [live: BOOLEAN, version: Nat, text: Texts, space: Spaces, parent: Parents]
  BY <1>1 DEF IInv, TypeOK, Given
<1>3. newPage.version > page.version
  BY DEF ServePut, IInv, TypeOK
<1>4. Apply(c, newPage, {"ok", "ok_without_id"})
  BY DEF ServePut
<1>5. request[c].type \in {"put", "post", "move", "delete"}
  BY DEF ServePut
<1> HIDE DEF newPage
<1> QED BY <1>2, <1>3, <1>4, <1>5, ApplyIInv

\* Creating another page leaves this one alone.
LEMMA ServePostIInv ==
  ASSUME IInv, NEW c \in Calls, ServePost(c) PROVE IInv'
<1>1. /\ request[c].type \in {"put", "post", "move", "delete"}
      /\ Apply(c, page, {"ok", "ok_without_id"})
  BY DEF ServePost
<1>2. /\ page \in [live: BOOLEAN, version: Nat, text: Texts, space: Spaces, parent: Parents]
      /\ page.version = page.version
  BY DEF IInv, TypeOK
<1> QED BY <1>1, <1>2, ApplyIInv

\* A move above or below keeps the text and takes the place of its target.
LEMMA ServeMoveIInv ==
  ASSUME IInv, NEW c \in Calls, ServeMove(c) PROVE IInv'
<1> DEFINE newPage == [page EXCEPT !.version = IF BesideBumpsVersion THEN @ + 1 ELSE @,
                                   !.space = SpaceOf[task[c].parent],
                                   !.parent = task[c].parent]
<1>1. request[c].type \in {"put", "post", "move", "delete"}
  BY DEF ServeMove
<1>2. task[c] \in Tasks /\ ValidTask(task[c]) /\ WriteType(task[c]) = "move"
  BY <1>1, Changes DEF ServeMove
<1>3. Beside(task[c])
  BY <1>2 DEF WriteType, FirstRequest
<1>4. task[c].parent \in Parents
  BY <1>2, <1>3, TaskAssumption DEF ValidTask, Beside
<1>5. newPage \in [live: BOOLEAN, version: Nat, text: Texts, space: Spaces, parent: Parents]
  <2>1. SpaceOf[task[c].parent] \in Spaces
    BY <1>4, SpaceOfAssumption
  <2>2. (IF BesideBumpsVersion THEN page.version + 1 ELSE page.version) \in Nat
    BY DEF IInv, TypeOK
  <2> QED BY <1>4, <2>1, <2>2 DEF IInv, TypeOK
<1>6. \/ newPage.version > page.version
      \/ /\ newPage.version = page.version /\ newPage.text = page.text
         /\ BesideBumpsVersion => newPage.space = page.space
  BY BumpAssumption DEF IInv, TypeOK
<1>7. Apply(c, newPage, {"ok"})
  BY DEF ServeMove
<1> HIDE DEF newPage
<1> QED BY <1>1, <1>5, <1>6, <1>7, ApplyIInv

\* Deleting the page keeps all of it but its life.
LEMMA ServeDeleteIInv ==
  ASSUME IInv, NEW c \in Calls, ServeDelete(c) PROVE IInv'
<1> DEFINE newPage == [page EXCEPT !.live = FALSE]
<1>1. newPage \in [live: BOOLEAN, version: Nat, text: Texts, space: Spaces, parent: Parents]
  BY DEF IInv, TypeOK
<1>2. newPage.version = page.version /\ newPage.text = page.text /\ newPage.space = page.space
  BY DEF IInv, TypeOK
<1>3. request[c].type \in {"put", "post", "move", "delete"} /\ Apply(c, newPage, {"ok"})
  BY DEF ServeDelete
<1> HIDE DEF newPage
<1> QED BY <1>1, <1>2, <1>3, ApplyIInv

\* Every step preserves the inductive invariant.
LEMMA NextIInv == IInv /\ [Next]_vars => IInv'
<1> SUFFICES ASSUME IInv, [Next]_vars PROVE IInv'
  OBVIOUS
<1>1. CASE UNCHANGED vars
  BY <1>1 DEF vars, IInv, TypeOK, Progress, Stage, ReadsThePage, WritesThePage,
     OutcomeTellsTruth, EmojiFollowsWrite, Harmless
<1>2. CASE Next
  <2> PICK c \in Calls : (\E t \in Tasks : Invoke(c, t)) \/ Client(c) \/ Server(c)
    BY <1>2 DEF Next
  <2>1. CASE \E t \in Tasks : Invoke(c, t)
    BY <2>1, InvokeIInv
  <2>2. CASE Client(c)
    BY <2>2, OnReadIInv, OnWrittenIInv, OnRereadIInv, OnEmojiIInv, TransportErrorIInv DEF Client
  <2>3. CASE Server(c)
    BY <2>3, ServeGetIInv, ServePutIInv, ServePostIInv, ServeMoveIInv, ServeDeleteIInv,
       ServeEmojiIInv, RefuseIInv DEF Server
  <2> QED BY <2>1, <2>2, <2>3
<1> QED BY <1>1, <1>2

\* The inductive invariant holds in every reachable state.
THEOREM Invariance == Spec => []IInv
BY InitIInv, NextIInv, PTL DEF Spec

\* Every variable keeps its type.
THEOREM TypeCorrect == Spec => []TypeOK
BY Invariance, PTL DEF IInv

\* No call changes the page twice.
THEOREM AtMostOnce == Spec => []AppliedAtMostOnce
<1>1. IInv => AppliedAtMostOnce
  BY DEF IInv, Progress, AppliedAtMostOnce
<1> QED BY <1>1, Invariance, PTL

\* What a call reports of itself is true, whatever was lost or late.
THEOREM Truthful == Spec => []OutcomeTellsTruth
BY Invariance, PTL DEF IInv

\* An emoji follows the write it belongs to and never fails it.
THEOREM EmojiLast == Spec => []EmojiFollowsWrite
BY Invariance, PTL DEF IInv

\* A step that raises a call's count of changes serves its request for a change.
LEMMA ChangeSteps ==
  ASSUME IInv, [Next]_vars, NEW c \in Calls, applied'[c] # applied[c]
  PROVE  ServePut(c) \/ ServePost(c) \/ ServeMove(c) \/ ServeDelete(c)
<1>1. Next
  BY DEF vars
<1> PICK d \in Calls : (\E t \in Tasks : Invoke(d, t)) \/ Client(d) \/ Server(d)
  BY <1>1 DEF Next
<1>2. applied' # applied
  OBVIOUS
<1>3. ServePut(d) \/ ServePost(d) \/ ServeMove(d) \/ ServeDelete(d)
  BY <1>2 DEF Invoke, Client, Server, OnRead, OnWritten, OnReread, OnEmoji, TransportError,
     ServeGet, ServeEmoji, Refuse, serverVars
<1>4. applied' = [applied EXCEPT ![d] = @ + 1]
  BY <1>3 DEF ServePut, ServePost, ServeMove, ServeDelete, Apply
<1>5. d = c
  BY <1>4 DEF IInv, TypeOK
<1> QED BY <1>3, <1>5

\* A change leaves the page with the text, space and parent its task stands for,
\* and everything else of the page as it is at that moment.
LEMMA ChangeEffect ==
  ASSUME IInv, [Next]_vars, NEW c \in Calls, applied'[c] # applied[c]
  PROVE  /\ task[c].kind # "update" /\ "body" \notin Gaps => page'.text = page.text
         /\ task[c].kind = "update" =>
              /\ BesideBumpsVersion => page'.space = page.space
              /\ task[c].parent = NoArg => page'.parent = page.parent
<1>1. CASE ServePut(c)
  <2>1. task[c] \in Tasks /\ WriteType(task[c]) = "put"
    BY <1>1, Changes DEF ServePut
  <2>2. task[c].kind \in {"update", "move"}
    BY <2>1, TaskAssumption DEF WriteType, FirstRequest, Reads
  <2>3. WritesThePage(c) /\ request[c].type = "put" /\ request[c].version = page.version + 1
    BY <1>1 DEF IInv, ServePut
  <2>4. page' = [page EXCEPT !.version = request[c].version,
                             !.text = request[c].text,
                             !.space = request[c].space,
                             !.parent = Given(request[c].parent, @)]
    BY <1>1 DEF ServePut, Apply
  <2>5. /\ page'.text = request[c].text /\ page'.space = request[c].space
        /\ page'.parent = Given(request[c].parent, page.parent)
    BY <2>4 DEF IInv, TypeOK
  <2> QED BY <2>2, <2>3, <2>5 DEF WritesThePage, Given
<1>2. CASE ServePost(c)
  BY <1>2 DEF ServePost, Apply
<1>3. CASE ServeMove(c)
  <2>1. WriteType(task[c]) = "move"
    BY <1>3, Changes DEF ServeMove
  <2>2. task[c].kind # "update"
    BY <2>1 DEF WriteType, FirstRequest, Reads, Beside
  <2> QED BY <1>3, <2>2 DEF ServeMove, Apply, IInv, TypeOK
<1>4. CASE ServeDelete(c)
  BY <1>4 DEF ServeDelete, Apply, IInv, TypeOK
<1> QED BY <1>1, <1>2, <1>3, <1>4, ChangeSteps

\* If every page read carries its body, no move takes back another call's edit,
\* whether or not moving a page beside another makes a new version.
THEOREM MovesKeepTexts ==
  ASSUME "body" \notin Gaps PROVE Spec => MovesKeepText
<1>1. IInv /\ [Next]_vars =>
        [\A c \in Calls :
           applied'[c] # applied[c] /\ task[c].kind # "update" => page'.text = page.text]_vars
  BY ChangeEffect
<1> QED BY <1>1, Invariance, PTL DEF Spec, MovesKeepText

\* If moving a page beside another makes a new version, no update takes back
\* another call's move.
THEOREM UpdatesKeepPlaces ==
  ASSUME BesideBumpsVersion PROVE Spec => UpdatesKeepPlace
<1>1. IInv /\ [Next]_vars =>
        [\A c \in Calls :
           applied'[c] # applied[c] /\ task[c].kind = "update" =>
             /\ page'.space = page.space
             /\ task[c].parent = NoArg => page'.parent = page.parent]_vars
  BY ChangeEffect
<1> QED BY <1>1, Invariance, PTL DEF Spec, UpdatesKeepPlace

\* The initial states are initial states of AtomicPage.
LEMMA AtomicInit == Init => Atomic!Init
BY DEF Init, Atomic!Init, Promised

\* Making a call begins it, unless its arguments are refused.
LEMMA AtomicInvoke ==
  ASSUME IInv, NEW c \in Calls, NEW t \in Tasks, Invoke(c, t)
  PROVE  Atomic!Begin(c, t) \/ UNCHANGED Atomic!vars
<1>1. pc[c] = "idle" /\ task[c] = NoTask /\ outcome[c] = "pending"
  BY DEF Invoke, IInv, TypeOK, Progress
<1>2. /\ UNCHANGED <<page, applied, marked>>
      /\ task' = [task EXCEPT ![c] = t]
      /\ outcome' = [outcome EXCEPT ![c] = IF ValidTask(t) THEN "pending" ELSE "invalid_input"]
  BY <1>1 DEF Invoke, Return, serverVars, IInv, TypeOK
<1>3. \A d \in Calls : Promised(d)' = Promised(d)
  BY <1>1, <1>2 DEF Promised, IInv, TypeOK
<1>4. CASE ValidTask(t)
  BY <1>1, <1>2, <1>3, <1>4 DEF Atomic!Begin, IInv, TypeOK
<1>5. CASE ~ValidTask(t)
  BY <1>1, <1>2, <1>3, <1>5 DEF Atomic!vars, IInv, TypeOK
<1> QED BY <1>4, <1>5

\* A step of a call that leaves the server alone is its return, or nothing.
LEMMA AtomicClient ==
  ASSUME IInv, NEW c \in Calls, Client(c)
  PROVE  (\E r \in {"ok", "rejected", "unknown"} : Atomic!Return(c, r)) \/ UNCHANGED Atomic!vars
<1>1. /\ UNCHANGED <<page, applied, marked, task>>
      /\ pc[c] \notin {"idle", "done"}
  BY DEF Client, OnRead, OnWritten, OnReread, OnEmoji, TransportError, serverVars
<1>2. outcome[c] = "pending" /\ task[c] # NoTask
  BY <1>1 DEF IInv, TypeOK, Progress
<1>3. \/ UNCHANGED outcome
      \/ \E s \in {"ok", "unexpected_shape", "4xx", "5xx", "json_decode", "transport"} :
           outcome' = [outcome EXCEPT ![c] = s]
  BY Failures DEF Client, OnRead, OnWritten, OnReread, OnEmoji, TransportError, Return
<1>4. CASE UNCHANGED outcome
  BY <1>1, <1>4 DEF Atomic!vars, Promised
<1>5. ASSUME NEW s \in {"ok", "unexpected_shape", "4xx", "5xx", "json_decode", "transport"},
             outcome' = [outcome EXCEPT ![c] = s]
      PROVE  \E r \in {"ok", "rejected", "unknown"} : Atomic!Return(c, r)
  <2>1. OutcomeTellsTruth'
    <3>1. [Next]_vars
      BY DEF Next
    <3> QED BY <3>1, NextIInv DEF IInv
  <2> DEFINE r == Promised(c)'
  <2>2. outcome'[c] = s
    BY <1>5 DEF IInv, TypeOK
  <2>3. r \in {"ok", "rejected", "unknown"}
    BY <2>2 DEF Promised
  <2>4. (r = "ok" => applied[c] = 1) /\ (r = "rejected" => applied[c] = 0)
    BY <1>1, <2>1, <2>2 DEF Promised, OutcomeTellsTruth
  <2>5. \A d \in Calls : d # c => Promised(d)' = Promised(d)
    BY <1>1, <1>5 DEF Promised, IInv, TypeOK
  <2>6. \A d \in Calls : outcome'[d] = "invalid_input" <=> outcome[d] = "invalid_input"
    BY <1>2, <1>5, <2>2 DEF IInv, TypeOK
  <2>7. [d \in Calls |-> Promised(d)'] = [[d \in Calls |-> Promised(d)] EXCEPT ![c] = r]
    BY <2>5
  <2>8. Promised(c) = "pending"
    BY <1>2 DEF Promised
  <2>9. Atomic!Return(c, r)
    <3> HIDE DEF r
    <3> QED BY <1>1, <1>2, <2>4, <2>6, <2>7, <2>8 DEF Atomic!Return
  <2> QED BY <2>3, <2>9
<1> QED BY <1>3, <1>4, <1>5

\* A change that a request makes is the whole effect of its call on the page as it
\* is at that moment: nothing of what the call read before matters any more.
LEMMA EffectOfChange ==
  ASSUME IInv, BesideBumpsVersion, "body" \notin Gaps, NEW c \in Calls,
         ServePut(c) \/ ServePost(c) \/ ServeMove(c) \/ ServeDelete(c)
  PROVE  page' = Atomic!Effect(c, task[c], page)
<1>1. /\ task[c] \in Tasks /\ request[c].type = WriteType(task[c])
      /\ task[c].kind \in {"create", "update", "move", "delete"}
      /\ page \in [live: BOOLEAN, version: Nat, text: Texts, space: Spaces, parent: Parents]
  BY Changes, TaskAssumption DEF ServePut, ServePost, ServeMove, ServeDelete, IInv, TypeOK
<1> USE DEF WriteType, FirstRequest, Reads, Beside, Apply, Atomic!Effect, Atomic!Beside
<1>2. CASE ServePut(c)
  <2>1. Reads(task[c])
    BY <1>1, <1>2 DEF ServePut
  <2>2. /\ request[c].version = page.version + 1
        /\ request[c].parent = task[c].parent
        /\ task[c].kind = "update" => request[c].text = c /\ request[c].space = page.space
        /\ task[c].kind = "move" => /\ request[c].text = page.text
                                    /\ request[c].space = Given(task[c].space, page.space)
    BY <1>2 DEF ServePut, IInv, WritesThePage
  <2>3. page' = [page EXCEPT !.version = request[c].version,
                             !.text = request[c].text,
                             !.space = request[c].space,
                             !.parent = Given(request[c].parent, @)]
    BY <1>2 DEF ServePut
  <2>4. CASE task[c].kind = "update"
    BY <1>1, <2>2, <2>3, <2>4 DEF Given, Atomic!Given
  <2>5. CASE task[c].kind = "move"
    BY <1>1, <2>1, <2>2, <2>3, <2>5 DEF Given, Atomic!Given
  <2> QED BY <2>1, <2>4, <2>5
<1>3. CASE ServePost(c)
  BY <1>1, <1>3 DEF ServePost
<1>4. CASE ServeMove(c)
  BY <1>1, <1>4 DEF ServeMove
<1>5. CASE ServeDelete(c)
  BY <1>1, <1>5 DEF ServeDelete
<1> QED BY <1>2, <1>3, <1>4, <1>5

\* Every step of the server is the effect of one call, its emoji, or nothing.
LEMMA AtomicServer ==
  ASSUME IInv, BesideBumpsVersion, "body" \notin Gaps, NEW c \in Calls, Server(c)
  PROVE  Atomic!TakeEffect(c) \/ Atomic!Mark(c) \/ UNCHANGED Atomic!vars
<1>1. UNCHANGED <<pc, task, outcome>>
  BY DEF Server, ServeGet, ServePut, ServePost, ServeMove, ServeDelete, ServeEmoji, Refuse,
     Apply, clientVars
<1>2. CASE ServeGet(c) \/ Refuse(c)
  BY <1>1, <1>2 DEF ServeGet, Refuse, serverVars, Atomic!vars, Promised
<1>3. CASE ServeEmoji(c)
  <2>1. /\ UNCHANGED <<page, applied>> /\ marked' = marked \cup {c}
        /\ request[c].type = "emoji"
    BY <1>3 DEF ServeEmoji
  <2>2. /\ pc[c] \in {"emoji", "done"} /\ applied[c] = 1 /\ task[c].emoji
        /\ outcome[c] # "invalid_input"
    <3>1. Progress(c) /\ pc[c] \in {"idle", "read", "write", "reread", "emoji", "done"}
      BY DEF IInv, TypeOK
    <3>2. pc[c] = "write" => WriteType(task[c]) # "emoji"
      BY <3>1, WriteTypes DEF IInv, TypeOK, Progress
    <3> QED BY <2>1, <3>1, <3>2 DEF Progress, Stage
  <2>3. CASE c \in marked
    BY <1>1, <2>1, <2>3 DEF Atomic!vars, Promised
  <2>4. CASE c \notin marked
    BY <1>1, <2>1, <2>2, <2>4 DEF Atomic!Mark, Promised
  <2> QED BY <2>3, <2>4
<1>4. CASE ServePut(c) \/ ServePost(c) \/ ServeMove(c) \/ ServeDelete(c)
  <2>1. /\ request[c].type \in {"put", "post", "move", "delete"}
        /\ page.live \/ ServePost(c)
        /\ applied' = [applied EXCEPT ![c] = @ + 1] /\ UNCHANGED marked
    BY <1>4 DEF ServePut, ServePost, ServeMove, ServeDelete, Apply
  <2>2. /\ pc[c] = "write" \/ (pc[c] = "done" /\ outcome[c] = "transport")
        /\ applied[c] = 0 /\ task[c] \in Tasks
        /\ request[c].type = WriteType(task[c])
    BY <2>1, Changes
  <2>3. outcome[c] \in {"pending", "transport"} /\ task[c] # NoTask
    BY <2>2, TaskAssumption DEF IInv, Progress
  <2>4. Promised(c) \in {"pending", "unknown"}
    BY <2>3 DEF Promised
  <2>5. page.live \/ task[c].kind = "create"
    <3>1. ASSUME ServePost(c) PROVE task[c].kind = "create"
      BY <2>2, <3>1, TaskAssumption DEF ServePost, WriteType, FirstRequest
    <3> QED BY <2>1, <3>1
  <2>6. page' = Atomic!Effect(c, task[c], page)
    BY <1>4, EffectOfChange
  <2>7. applied' = [applied EXCEPT ![c] = 1]
    BY <2>1, <2>2 DEF IInv, TypeOK
  <2>8. Atomic!TakeEffect(c)
    BY <1>1, <2>1, <2>2, <2>3, <2>4, <2>5, <2>6, <2>7 DEF Atomic!TakeEffect, Promised
  <2> QED BY <2>8
<1> QED BY <1>2, <1>3, <1>4 DEF Server

\* The calls are atomic: create, update, move and delete, racing in any number, with
\* every request and answer that may be lost or late, implement AtomicPage.
THEOREM Refinement ==
  ASSUME BesideBumpsVersion, "body" \notin Gaps PROVE Spec => AtomicSpec
<1>1. IInv /\ [Next]_vars => [Atomic!Next]_(Atomic!vars)
  <2> SUFFICES ASSUME IInv, [Next]_vars PROVE Atomic!Next \/ UNCHANGED Atomic!vars
    OBVIOUS
  <2>1. CASE UNCHANGED vars
    BY <2>1 DEF vars, Atomic!vars, Promised
  <2>2. CASE Next
    <3> PICK c \in Calls : (\E t \in Tasks : Invoke(c, t)) \/ Client(c) \/ Server(c)
      BY <2>2 DEF Next
    <3> QED BY AtomicInvoke, AtomicClient, AtomicServer DEF Atomic!Next
  <2> QED BY <2>1, <2>2
<1> QED BY <1>1, AtomicInit, Invariance, PTL DEF Spec, AtomicSpec, Atomic!Spec
=============================================================================
