----------------------- MODULE JiraOperationsProofs -----------------------
(* The development of an issue stays within the project filter, for every *)
(* set of issues and projects, filter and length of a batch.              *)
EXTENDS JiraOperations, TLAPS

-----------------------------------------------------------------------------
(* How the pieces of the client's steps change what the invariant reads.   *)

\* The initial states satisfy the inductive invariant.
LEMMA InitScope == Init => ScopeInv
<1> SUFFICES ASSUME Init PROVE ScopeInv
  OBVIOUS
<1>1. FirstIssue \in Issues /\ FirstProject \in Projects
  BY IssuesAssumption, ProjectsAssumption DEF FirstIssue, FirstProject
<1>2. op \in Development => items \in Seq(ByKey)
  <2> SUFFICES ASSUME op \in Development PROVE items \in Seq(ByKey)
    OBVIOUS
  <2>1. op \notin Attachments \cup VersionBatch \cup {"create_project_version"}
    BY DEF Development, Attachments, VersionBatch
  <2>2. key \in ByKey
    BY <1>1 DEF Init, If, OneKey, ByKey
  <2>3. CASE op = "get_issues_development"
    BY <2>3, <2>1, MaxItemsAssumption DEF Init, ListsUpTo
  <2>4. CASE op # "get_issues_development"
    <3>1. items = <<key>>
      BY <2>4, <2>1, Zenon DEF Init
    <3> QED BY <3>1, <2>2
  <2> QED BY <2>3, <2>4
<1>3. projectOf \in [Issues -> Projects]
  BY <1>1 DEF Init, If
<1> QED
  BY <1>2, <1>3 DEF Init, ScopeInv, Apart, Noticed, Working, ItemTypes, RequestTypes, AnswerWasTrue,
    DetailInScope, DevelopmentInScope, NoRequest, NoReply

\* Ending an item with a result, or the call, asks for nothing and shows nothing.
LEMMA EndsQuietly ==
  ASSUME NEW o \in Ends, results \in Seq(Ends), ItemEnds(o) \/ Return(o)
  PROVE  /\ results' \in Seq(Ends)
         /\ request' = NoRequest /\ reply' = NoReply /\ pc' \in {"next", "done"}
BY DEF ItemEnds, Return, Continue

\* The client's steps that send or end.
LEMMA StartScope ==
  ASSUME ScopeInv, NextItem
  PROVE  ScopeInv'
<1> USE DEF ScopeInv
<1>0. UNCHANGED <<op, filter, items, projectOf, visible, shown>> /\ pc = "next"
  BY DEF NextItem, arguments, server, history
<1>1. CASE Current > Len(items)
  <2>1. Return("ok")
    BY <1>1 DEF NextItem
  <2> QED
    BY <1>0, <2>1 DEF Return, Apart, Noticed, Working, ItemTypes, RequestTypes, AnswerWasTrue,
      DetailInScope, DevelopmentInScope, Inside, NoRequest, NoReply
<1>2. CASE ~(Current > Len(items))
  <2>1. Start(items[Current])
    BY <1>2 DEF NextItem
  <2>2. \/ \E o \in Ends : ItemEnds(o)
        \/ \E kind \in {"content", "project", "main"} : \E i : Send(Request(kind, Current, i))
        \/ /\ op \in Development
           /\ \/ Send(Request("issue", Current, items[Current].issue))
              \/ /\ ~Resolves(items[Current])
                 /\ Send(Request("detail", Current, items[Current].issue))
    <3>1. op \in Development => op \notin Attachments /\ op \notin FieldOptions
      BY DEF Development, Attachments, FieldOptions
    <3>2. op \in Attachments => op \notin FieldOptions
      BY DEF Attachments, FieldOptions
    <3>3. CASE op \in Attachments
      BY <2>1, <3>1, <3>2, <3>3 DEF Start, Ends
    <3>4. CASE op \in Development
      BY <2>1, <3>1, <3>4 DEF Start, Ends
    <3>5. CASE op \notin Attachments /\ op \notin Development
      BY <2>1, <3>5 DEF Start
    <3> QED BY <3>3, <3>4, <3>5
  <2>3. CASE \E o \in Ends : ItemEnds(o)
    BY <1>0, <2>3, EndsQuietly DEF Apart, Noticed, Working, ItemTypes, RequestTypes, AnswerWasTrue,
      DetailInScope, DevelopmentInScope, Inside, NoRequest, NoReply
  <2>4. CASE \E kind \in {"content", "project", "main"} : \E i : Send(Request(kind, Current, i))
    BY <1>0, <2>4 DEF Send, Request, Apart, Noticed, Working, ItemTypes, RequestTypes, AnswerWasTrue,
      DetailInScope, DevelopmentInScope, Inside, NoReply
  <2>5. CASE /\ op \in Development
             /\ \/ Send(Request("issue", Current, items[Current].issue))
                \/ /\ ~Resolves(items[Current])
                   /\ Send(Request("detail", Current, items[Current].issue))
    <3>1. items[Current].issue \in Issues
      <4>1. Len(results) \in Nat /\ items \in Seq(ByKey)
        BY <2>5 DEF ItemTypes
      <4>2. Current \in 1 .. Len(items)
        BY <1>2, <4>1 DEF Current
      <4> HIDE DEF ScopeInv
      <4>3. items[Current] \in ByKey
        BY <4>1, <4>2
      <4> QED BY <4>3 DEF ByKey
    <3>2. ~Resolves(items[Current]) => items[Current].issue \in visible
      BY <1>0, <3>1 DEF Resolves, Noticed, Working, Inside
    <3> QED
      BY <1>0, <2>5, <3>1, <3>2 DEF Send, Request, Apart, Noticed, Working, ItemTypes, RequestTypes,
        AnswerWasTrue, DetailInScope, DevelopmentInScope, Inside, NoReply
  <2> QED BY <2>2, <2>3, <2>4, <2>5
<1> QED BY <1>1, <1>2

\* A lookup's answer leads to details only when it names a project within the filter.
LEMMA LookupScope ==
  ASSUME ScopeInv, OnLookup
  PROVE  ScopeInv'
<1> USE DEF ScopeInv
<1>0. UNCHANGED <<op, filter, items, projectOf, visible, shown>> /\ pc = "waiting"
      /\ request.kind \in Lookups /\ reply.kind = "json"
  BY DEF OnLookup, arguments, server, history
<1>1. CASE Usable(reply.found)
  <2>1. Send(Request(Follows(request.kind), Current, request.issue))
    BY <1>1 DEF OnLookup
  <2>2. CASE request.kind = "issue"
    <3>1. request.issue \in visible /\ op \in Development /\ request.issue \in Issues
      BY <1>0, <1>1, <2>2 DEF Usable, AnswerWasTrue, RequestTypes
    <3>2. Follows(request.kind) = "detail"
      BY <2>2 DEF Follows
    <3> QED
      BY <1>0, <2>1, <3>1, <3>2 DEF Send, Request, Apart, Noticed, Working, ItemTypes, RequestTypes,
        AnswerWasTrue, DetailInScope, DevelopmentInScope, Inside, NoReply
  <2>3. CASE request.kind # "issue"
    <3>1. Follows(request.kind) \in {"context", "main"}
      BY <1>0, <2>3 DEF Follows, Lookups
    <3> QED
      BY <1>0, <2>1, <3>1 DEF Send, Request, Apart, Noticed, Working, ItemTypes, RequestTypes,
        AnswerWasTrue, DetailInScope, DevelopmentInScope, Inside, NoReply
  <2> QED BY <2>2, <2>3
<1>2. CASE ~Usable(reply.found)
  <2>1. ItemEnds("invalid")
    BY <1>2 DEF OnLookup
  <2> QED
    BY <1>0, <2>1, EndsQuietly DEF Ends, Apart, Noticed, Working, ItemTypes, RequestTypes,
      AnswerWasTrue, DetailInScope, DevelopmentInScope, Inside, NoRequest, NoReply
<1> QED BY <1>1, <1>2

\* An answer shows only what was asked for within the filter.
LEMMA AnswerScope ==
  ASSUME ScopeInv, OnAnswer
  PROVE  ScopeInv'
<1> USE DEF ScopeInv
<1>0. UNCHANGED <<op, filter, items, projectOf, visible>> /\ pc = "waiting"
  BY DEF OnAnswer, arguments, server
<1>1. ResultOf(reply.kind) \in Ends
  BY DEF ResultOf, Ends
<1>2. ItemEnds(ResultOf(reply.kind)) \/ Return(ResultOf(reply.kind))
  BY DEF OnAnswer
<1>3. shown' \subseteq visible
  BY <1>0 DEF OnAnswer, DetailInScope, DevelopmentInScope
<1> HIDE DEF ScopeInv
<1>4. results' \in Seq(Ends) /\ request' = NoRequest /\ pc' \in {"next", "done"}
  BY <1>1, <1>2, EndsQuietly DEF ScopeInv, ItemTypes
<1> QED
  BY <1>0, <1>3, <1>4 DEF ScopeInv, Apart, Noticed, Working, ItemTypes, RequestTypes, AnswerWasTrue,
    DetailInScope, DevelopmentInScope, Inside, NoRequest

\* The other steps of the client: nothing is asked for an issue, and nothing shown.
LEMMA ClientScope ==
  ASSUME ScopeInv, Client
  PROVE  ScopeInv'
<1>1. CASE Invoke
  <2>1. UNCHANGED <<op, filter, items, projectOf, results, shown>>
        /\ visible' = {i \in Issues : Inside(projectOf[i])} /\ shown = {}
    BY <1>1 DEF ScopeInv, Apart, Invoke, arguments, server, Return, Send, Continue
  <2>2. request'.kind \notin {"issue", "detail"} /\ pc' # "idle"
        /\ (request'.kind = "list" => op \in Attachments \/ request.kind = "list")
    BY <1>1 DEF Invoke, Return, Send, Continue, Request, NoRequest, ScopeInv, Apart
  <2> QED
    BY <2>1, <2>2 DEF ScopeInv, Apart, Noticed, Working, ItemTypes, RequestTypes, AnswerWasTrue,
      DetailInScope, DevelopmentInScope, Inside
<1>2. CASE OnList
  <2>1. UNCHANGED <<op, filter, projectOf, results, visible, shown>> /\ pc = "waiting"
        /\ request' = NoRequest /\ pc' = "next"
    BY <1>2 DEF OnList, Continue, arguments, server, history
  <2>2. op \in Development => FALSE
    BY <1>2 DEF OnList, ScopeInv, Apart, Development, Attachments
  <2> QED
    BY <2>1, <2>2 DEF ScopeInv, Apart, Noticed, Working, ItemTypes, RequestTypes, AnswerWasTrue,
      DetailInScope, DevelopmentInScope, Inside, NoRequest
<1>3. CASE GivesUp
  <2>1. UNCHANGED <<op, filter, items, projectOf, visible, shown>> /\ pc = "waiting"
    BY <1>3 DEF GivesUp, arguments, server, history
  <2>2. ItemEnds("lost") \/ Return("lost")
    BY <1>3 DEF GivesUp
  <2>3. results' \in Seq(Ends) /\ request' = NoRequest /\ pc' \in {"next", "done"}
    BY <2>2, EndsQuietly DEF ScopeInv, ItemTypes, Ends
  <2> QED
    BY <2>1, <2>3 DEF ScopeInv, Apart, Noticed, Working, ItemTypes, RequestTypes, AnswerWasTrue,
      DetailInScope, DevelopmentInScope, Inside, NoRequest
<1> QED BY <1>1, <1>2, <1>3, StartScope, LookupScope, AnswerScope DEF Client

\* Jira answers with where an issue is while the call works, which was noticed.
LEMMA JiraScope ==
  ASSUME ScopeInv, Jira
  PROVE  ScopeInv'
<1> USE DEF ScopeInv
<1>1. UNCHANGED <<op, filter, items, projectOf, pc, request, results, visible, shown>>
  BY DEF Jira, ServeWrite, ServeLookup, ServeList, ServeRead, Refuse, Garble, ServeLate,
    Answer, Apply, arguments, server, history
<1>2. AnswerWasTrue'
  <2>1. CASE ServeLookup
    <3> SUFFICES ASSUME pc = "waiting", request.kind = "issue",
                        reply'.found # "none", Inside(reply'.found)
                 PROVE  request.issue \in visible
      BY <1>1 DEF AnswerWasTrue, Inside
    <3>1. reply'.found = projectOf[request.issue]
      BY <2>1 DEF ServeLookup, Answer, Reply, NoReply
    <3> QED BY <3>1 DEF Noticed, Working, RequestTypes
  <2>2. CASE Jira /\ ~ServeLookup
    <3>1. UNCHANGED reply \/ reply'.kind # "json" \/ request.kind # "issue" \/ op \in Writes
      BY <2>2 DEF Jira, ServeWrite, ServeList, ServeRead, Refuse, Garble, ServeLate, Answer,
        Reply, NoReply
    <3>2. op \in Development => op \notin Writes
      BY DEF Development, Writes, IssueEdits, Comments, Transition, IssueNotes, IssueCreations, AgileWrites,
        VersionBatch
    <3> QED BY <1>1, <3>1, <3>2 DEF AnswerWasTrue, RequestTypes, Inside
  <2> QED BY <2>1, <2>2
<1> QED
  BY <1>1, <1>2 DEF Apart, Noticed, Working, ItemTypes, RequestTypes, DetailInScope,
    DevelopmentInScope, Inside

\* Others move issues, and a move into the filter is noticed.
LEMMA OthersScope ==
  ASSUME ScopeInv, Others
  PROVE  ScopeInv'
<1> USE DEF ScopeInv
<1>1. UNCHANGED <<op, filter, items, pc, request, reply, results, shown>>
      /\ visible \subseteq visible' /\ projectOf' \in [Issues -> Projects]
  BY DEF Others, MoveIssue, ChangeVersions, DetachFile, client, arguments, history, ItemTypes
<1>2. Noticed'
  <2>1. CASE MoveIssue
    BY <1>1, <2>1 DEF MoveIssue, Noticed, Working, Inside, ItemTypes
  <2>2. CASE ~MoveIssue
    BY <1>1, <2>2 DEF Others, ChangeVersions, DetachFile, client, arguments, history, Noticed,
      Working, Inside
  <2> QED BY <2>1, <2>2
<1> QED
  BY <1>1, <1>2 DEF Apart, ItemTypes, RequestTypes, AnswerWasTrue, DetailInScope, DevelopmentInScope,
    Inside

-----------------------------------------------------------------------------
\* Whenever the client asks for the development of an issue, the issue was within the
\* filter, and the last answer that named its project was true when it was given.
THEOREM Scope == Spec => []ScopeInv
<1>1. ScopeInv /\ [Next]_vars => ScopeInv'
  <2> SUFFICES ASSUME ScopeInv, [Next]_vars PROVE ScopeInv'
    OBVIOUS
  <2>1. CASE UNCHANGED vars
    BY <2>1 DEF vars, arguments, server, history, ScopeInv, Apart, Noticed, Working,
      ItemTypes, RequestTypes, AnswerWasTrue, DetailInScope, DevelopmentInScope, Inside
  <2>2. CASE Next /\ ~UNCHANGED vars
    BY <2>2, ClientScope, JiraScope, OthersScope DEF Next, Done
  <2> QED BY <2>1, <2>2
<1> QED BY <1>1, InitScope, PTL DEF Spec

\* The development of an issue is given only when the issue was within the project
\* filter at some time of the call.
THEOREM DevelopmentScope == Spec => []DevelopmentInScope
<1>1. ScopeInv => DevelopmentInScope
  BY DEF ScopeInv
<1> QED BY <1>1, Scope, PTL
-----------------------------------------------------------------------------
(* What is said of each item.                                              *)

\* The operations that write are none of those with several requests for an item, and
\* none that hide a refusal.
LEMMA WritesApart ==
  op \in Writes =>
    op \notin Attachments \cup Development \cup FieldOptions \cup HidesRefusal \cup {"get_issue_changelogs"}
BY DEF Writes, Attachments, Development, FieldOptions, HidesRefusal, AgileReads, DeskReads, IssueEdits,
       Comments, Transition, IssueNotes, IssueCreations, AgileWrites, VersionBatch

\* Nothing is said yet of the item the call is at, nor of one after it.
LEMMA NothingSaid ==
  ASSUME Progress, pc # "done", NEW k \in 1 .. MaxItems, k >= Current
  PROVE  Said(k) = "none"
BY DEF Progress, Said, Current

\* An item is a number of the list, and the call at hand has not reached the next one.
LEMMA AtItem ==
  ASSUME OutcomeInv, pc \in {"next", "waiting"}, Current <= Len(items)
  PROVE  Current \in 1 .. MaxItems /\ Len(results) \in Nat
BY MaxItemsAssumption DEF OutcomeInv, Progress, Current

\* The item ends: what is said of it is its result, and the others keep theirs.
LEMMA SaidAtEnd ==
  ASSUME OutcomeInv, pc \in {"next", "waiting"}, Current <= Len(items), op' = op,
         NEW o \in Ends, ItemEnds(o), NEW k \in 1 .. MaxItems
  PROVE  Said(k)' = IF k = Current THEN o ELSE Said(k)
<1>1. Current \in 1 .. MaxItems /\ Current = Len(results) + 1 /\ Len(results) \in Nat
  BY AtItem DEF Current
<1>2. CASE op \in Collecting
  <2>1. results' = Append(results, o) /\ results \in Seq(Ends)
    BY <1>2 DEF ItemEnds, OutcomeInv, Progress
  <2>2. Len(results') = Len(results) + 1
    BY <2>1
  <2>3. \A j \in 1 .. Len(results) : results'[j] = results[j]
    BY <2>1
  <2>4. results'[Len(results) + 1] = o
    BY <2>1
  <2> QED BY <1>1, <1>2, <2>2, <2>3, <2>4 DEF Said
<1>3. CASE op \notin Collecting
  BY <1>1, <1>3 DEF ItemEnds, Return, OutcomeInv, Progress, Said
<1> QED BY <1>2, <1>3

\* The item ends: the call goes on with the next one, or is over.
LEMMA ProgressAtEnd ==
  ASSUME OutcomeInv, pc \in {"next", "waiting"}, Current <= Len(items),
         UNCHANGED <<op, items, files>>, NEW o \in Ends, ItemEnds(o)
  PROVE  Progress' /\ pc' \in {"next", "done"}
<1>1. reply'.kind = "none" /\ reply'.files = <<>> /\ Len(reply'.files) = 0 /\ pc' \in {"next", "done"}
  BY DEF ItemEnds, Return, Continue, NoReply
<1>2. CASE op \in Collecting
  <2>1. results' = Append(results, o) /\ results \in Seq(Ends) /\ pc' = "next" /\ outcome' = outcome
    BY <1>2 DEF ItemEnds, Continue, OutcomeInv, Progress
  <2>2. results' \in Seq(Ends) /\ Len(results') = Len(results) + 1
    BY <2>1
  <2> QED BY <1>1, <1>2, <2>1, <2>2, AtItem, MaxItemsAssumption DEF OutcomeInv, Progress, Current, BatchComplete
<1>3. CASE op \notin Collecting
  BY <1>1, <1>3, MaxItemsAssumption DEF ItemEnds, Return, OutcomeInv, Progress, BatchComplete
<1> QED BY <1>2, <1>3

\* Ending an item with a result that fits what was done keeps the invariant.
LEMMA EndOutcome ==
  ASSUME OutcomeInv, pc \in {"next", "waiting"}, Current <= Len(items),
         UNCHANGED <<op, items, files, made>>, NEW o \in Ends, ItemEnds(o),
         pc = "waiting" => request.kind # "list",
         o = "ok" => made[Current] = 1,
         o \in {"invalid", "refused", "missing"} => made[Current] = 0,
         o = "unavailable" => op \notin Writes,
         \/ late' = late
         \/ /\ o = "lost" /\ made[Current] = 0 /\ op \in Writes /\ request.item = Current
            /\ late' = late \cup {request}
  PROVE  OutcomeInv'
<1>1. Current \in 1 .. MaxItems
  BY AtItem
<1>2. Said(Current) = "none"
  BY <1>1, NothingSaid DEF OutcomeInv
<1>3. \A r \in late : r.item # Current
  BY <1>1, <1>2 DEF OutcomeInv, ItemTrue
<1>4. Progress' /\ pc' \in {"next", "done"}
  BY ProgressAtEnd
<1>5. LateOnce'
  BY <1>1, <1>3 DEF OutcomeInv, LateOnce
<1>6. ASSUME NEW k \in 1 .. MaxItems PROVE ItemTrue(k)'
  <2>1. Said(k)' = IF k = Current THEN o ELSE Said(k)
    BY SaidAtEnd
  <2>2. CASE k = Current
    BY <1>3, <1>6, <2>1, <2>2 DEF OutcomeInv, ItemTrue, Ends
  <2>3. CASE k # Current
    <3>1. ~Asked(k)
      BY <2>3 DEF Asked, OutcomeInv, Progress
    <3> QED BY <1>4, <1>6, <2>1, <2>3, <3>1 DEF OutcomeInv, ItemTrue
  <2> QED BY <2>2, <2>3
<1> QED BY <1>4, <1>5, <1>6 DEF OutcomeInv, Carried

\* Asking for an item that was not carried out keeps it.
LEMMA SendOutcome ==
  ASSUME OutcomeInv, pc \in {"next", "waiting"}, Current <= Len(items), made[Current] = 0,
         UNCHANGED <<op, items, files, made, late>>,
         pc = "waiting" => request.kind # "list",
         NEW kind, NEW i, kind # "list", op \in Writes => kind = "main",
         Send(Request(kind, Current, i))
  PROVE  OutcomeInv'
<1>1. Current \in 1 .. MaxItems /\ Current' = Current
  BY AtItem DEF Current, Send
<1>2. /\ pc' = "waiting" /\ request'.kind = kind /\ request'.item = Current
      /\ reply'.kind = "none" /\ reply'.kind = "none" /\ reply'.files = <<>> /\ UNCHANGED <<results, outcome>>
  BY DEF Send, Request, NoReply
<1>3. Progress'
  BY <1>1, <1>2, MaxItemsAssumption DEF OutcomeInv, Progress, BatchComplete
<1>4. ASSUME NEW k \in 1 .. MaxItems PROVE ItemTrue(k)'
  <2>1. Said(k)' = Said(k)
    BY <1>2 DEF Said
  <2>2. k # Current => ~Asked(k)
    BY DEF Asked, OutcomeInv, Progress
  <2> QED BY <1>1, <1>2, <1>4, <2>1, <2>2 DEF OutcomeInv, ItemTrue, Asked
<1> QED BY <1>2, <1>3, <1>4 DEF OutcomeInv, LateOnce, Carried

\* Ending the call where no item is under way keeps it: all its items have ended, or
\* none has begun.
LEMMA ReturnOutcome ==
  ASSUME OutcomeInv, pc # "done", UNCHANGED <<op, items, files, made, late>>,
         NEW o \in Ends, Return(o), \A k \in 1 .. MaxItems : ~Asked(k),
         \/ o = "ok" /\ Len(results) = Len(items) /\ op \in Collecting
         \/ o \in {"invalid", "unavailable"} /\ pc = "idle" /\ (op \in Writes => o = "invalid")
         \/ o # "ok" /\ results = <<>> /\ op \in Collecting
  PROVE  OutcomeInv'
<1>1. /\ pc' = "done" /\ outcome' = o /\ reply'.kind = "none" /\ reply'.files = <<>> /\ results' = results
      /\ Len(reply'.files) = 0
  BY DEF Return, NoReply
<1>2. Progress'
  BY <1>1, MaxItemsAssumption DEF OutcomeInv, Progress, BatchComplete
<1>3. ASSUME NEW k \in 1 .. MaxItems PROVE ItemTrue(k)'
  <2>1. CASE op \in Collecting
    <3>1. Said(k)' = Said(k)
      BY <1>1, <2>1 DEF Said
    <3> QED BY <1>1, <1>3, <3>1 DEF OutcomeInv, ItemTrue
  <2>2. CASE op \notin Collecting
    <3>1. Said(k) = "none" /\ Said(k)' = IF k = 1 THEN o ELSE "none"
      BY <1>1, <2>2 DEF OutcomeInv, Progress, Said
    <3>2. o \in {"invalid", "unavailable"} /\ (op \in Writes => o = "invalid")
      BY <2>2
    <3> QED BY <1>1, <1>3, <3>1, <3>2 DEF OutcomeInv, ItemTrue
  <2> QED BY <2>1, <2>2
<1> QED BY <1>1, <1>2, <1>3 DEF OutcomeInv, LateOnce, Carried

\* The call begins: it is refused, asks for the list of its items, or goes to the first.
LEMMA InvokeOutcome == ASSUME OutcomeInv, Invoke PROVE OutcomeInv'
<1>1. pc = "idle" /\ UNCHANGED <<op, items, files, made, late, filter>>
  BY DEF Invoke, arguments, server
<1>2. \A k \in 1 .. MaxItems : ~Asked(k)
  BY <1>1 DEF Asked
<1>3. CASE Return("invalid") \/ (Return("unavailable") /\ op \notin Writes)
  BY <1>1, <1>2, <1>3, ReturnOutcome DEF Ends
<1>4. CASE Send(Request("list", 0, key.issue)) /\ op \in Attachments
  <2>1. /\ pc' = "waiting" /\ request'.kind = "list" /\ reply'.kind = "none" /\ reply'.files = <<>> /\ Len(reply'.files) = 0
        /\ UNCHANGED <<results, outcome>>
    BY <1>4 DEF Send, Request, NoReply
  <2>2. Progress'
    BY <1>1, <1>4, <2>1, WritesApart, MaxItemsAssumption DEF OutcomeInv, Progress, BatchComplete
  <2>3. ASSUME NEW k \in 1 .. MaxItems PROVE ItemTrue(k)'
    <3>1. Said(k)' = Said(k)
      BY <1>1, <2>1 DEF Said
    <3> QED BY <1>1, <1>2, <2>3, <3>1 DEF OutcomeInv, ItemTrue
  <2> QED BY <1>1, <2>1, <2>2, <2>3 DEF OutcomeInv, LateOnce, Carried
<1>5. CASE Continue /\ UNCHANGED results
  <2>1. /\ pc' = "next" /\ reply'.kind = "none" /\ reply'.files = <<>> /\ Len(reply'.files) = 0
        /\ UNCHANGED <<results, outcome>>
    BY <1>5 DEF Continue, NoReply
  <2>2. Progress'
    BY <1>1, <2>1, MaxItemsAssumption DEF OutcomeInv, Progress, BatchComplete
  <2>3. ASSUME NEW k \in 1 .. MaxItems PROVE ItemTrue(k)'
    <3>1. Said(k)' = Said(k)
      BY <1>1, <2>1 DEF Said
    <3> QED BY <1>1, <1>2, <2>3, <3>1 DEF OutcomeInv, ItemTrue
  <2> QED BY <1>1, <2>1, <2>2, <2>3 DEF OutcomeInv, LateOnce, Carried
<1>6. op = "get_issue_changelogs" => op \notin Writes
  BY WritesApart
<1> QED BY <1>3, <1>4, <1>5, <1>6 DEF Invoke

\* The next item: it is asked for, or ends at once, or there is none left.
LEMMA NextItemOutcome == ASSUME OutcomeInv, NextItem PROVE OutcomeInv'
<1>1. /\ pc = "next" /\ UNCHANGED <<op, filter, items, files, made, late>>
      /\ \A k \in 1 .. MaxItems : ~Asked(k)
  BY DEF NextItem, arguments, server, history, Asked
<1>2. CASE Current > Len(items)
  <2>1. Return("ok") /\ Len(results) = Len(items) /\ op \in Collecting
    <3>1. Len(results) \in Nat
      BY DEF OutcomeInv, Progress
    <3>2. Len(results) = Len(items)
      BY <1>2, <3>1 DEF OutcomeInv, Progress, Current
    <3>3. op \in Collecting
      <4> SUFFICES ASSUME op \notin Collecting PROVE FALSE
        OBVIOUS
      <4>1. results = <<>> /\ Len(items) = 1
        BY DEF OutcomeInv, Progress
      <4> QED BY <3>2, <4>1
    <3> QED BY <1>2, <3>2, <3>3 DEF NextItem
  <2> QED BY <1>1, <2>1, ReturnOutcome DEF Ends
<1>3. CASE ~(Current > Len(items))
  <2>1. Start(items[Current]) /\ Current <= Len(items)
    <3>1. Len(results) \in Nat
      BY DEF OutcomeInv, Progress
    <3> QED BY <1>3, <3>1 DEF NextItem, OutcomeInv, Progress, Current
  <2>2. made[Current] = 0
    BY <1>1, <2>1, AtItem, NothingSaid DEF OutcomeInv, ItemTrue
  <2>3. \/ \E o \in {"listed", "missing", "invalid"} : ItemEnds(o)
        \/ \E kind, i : /\ kind # "list" /\ (op \in Writes => kind = "main")
                        /\ Send(Request(kind, Current, i))
    <3>1. CASE op \in Attachments
      BY <2>1, <3>1, WritesApart DEF Start
    <3>2. CASE op \notin Attachments /\ op \in Development
      BY <2>1, <3>2, WritesApart DEF Start
    <3>3. CASE op \notin Attachments /\ op \notin Development /\ op \in FieldOptions
      BY <2>1, <3>3, WritesApart DEF Start
    <3>4. CASE op \notin Attachments /\ op \notin Development /\ op \notin FieldOptions
      BY <2>1, <3>4 DEF Start
    <3> QED BY <3>1, <3>2, <3>3, <3>4
  <2>4. CASE \E o \in {"listed", "missing", "invalid"} : ItemEnds(o)
    <3>1. PICK o \in {"listed", "missing", "invalid"} : ItemEnds(o)
      BY <2>4
    <3> QED BY <1>1, <2>1, <2>2, <3>1, EndOutcome DEF Ends
  <2>5. CASE \E kind, i : /\ kind # "list" /\ (op \in Writes => kind = "main")
                          /\ Send(Request(kind, Current, i))
    BY <1>1, <2>1, <2>2, <2>5, SendOutcome
  <2> QED BY <2>3, <2>4, <2>5
<1> QED BY <1>2, <1>3

\* The answers to a lookup and to the request for the list.
LEMMA LookupOutcome == ASSUME OutcomeInv, OnLookup PROVE OutcomeInv'
<1>1. /\ pc = "waiting" /\ request.kind \in Lookups /\ request.kind # "list"
      /\ UNCHANGED <<op, filter, items, files, made, late>>
  BY DEF OnLookup, arguments, server, history, Lookups
<1>2. request.item = Current /\ Current <= Len(items) /\ made[Current] = 0
  BY <1>1 DEF OutcomeInv, Progress, Carried
<1>3. op \notin Writes
  BY <1>1 DEF OutcomeInv, Progress, Lookups
<1>4. CASE Usable(reply.found)
  <2>1. Follows(request.kind) # "list"
    BY <1>1 DEF Follows, Lookups
  <2>2. Send(Request(Follows(request.kind), Current, request.issue))
    BY <1>4 DEF OnLookup
  <2> QED BY <1>1, <1>2, <1>3, <2>1, <2>2, SendOutcome
<1>5. CASE ~Usable(reply.found)
  BY <1>1, <1>2, <1>5, EndOutcome DEF OnLookup, Ends
<1> QED BY <1>4, <1>5

LEMMA ListOutcome == ASSUME OutcomeInv, OnList PROVE OutcomeInv'
<1>1. /\ pc = "waiting" /\ request.kind = "list" /\ pc' = "next" /\ reply' = NoReply
      /\ UNCHANGED <<op, files, made, late, results, outcome>>
  BY DEF OnList, Continue, arguments, server, history
<1>2. /\ results = <<>> /\ op \in Attachments /\ op \in Collecting
      /\ \A k \in 1 .. MaxItems : ~Asked(k)
  BY <1>1 DEF OutcomeInv, Progress, Collecting, Asked
<1>3. Len(items') \in 0 .. MaxItems
  <2>1. reply.files \in Seq(Files) /\ Len(reply.files) \in 0 .. MaxItems
    BY DEF OutcomeInv, Progress
  <2>2. items' = [k \in 1 .. Len(reply.files) |-> [issue |-> "none", prefix |-> reply.files[k]]]
    BY <2>1 DEF OnList
  <2> QED BY <2>1, <2>2
<1>4. Progress'
  BY <1>1, <1>2, <1>3, MaxItemsAssumption, WritesApart DEF OutcomeInv, Progress, BatchComplete, NoReply
<1>5. ASSUME NEW k \in 1 .. MaxItems PROVE ItemTrue(k)'
  <2>1. Said(k)' = Said(k)
    BY <1>1 DEF Said
  <2> QED BY <1>1, <1>2, <1>5, <2>1 DEF OutcomeInv, ItemTrue
<1> QED BY <1>1, <1>4, <1>5 DEF OutcomeInv, LateOnce, Carried

\* Every other answer ends its item with what it says.
LEMMA AnswerOutcome == ASSUME OutcomeInv, OnAnswer PROVE OutcomeInv'
<1> DEFINE o == ResultOf(reply.kind)
<1>1. /\ pc = "waiting" /\ UNCHANGED <<op, filter, items, files, made, late>>
      /\ ~(request.kind \in Lookups \cup {"list"} /\ reply.kind = "json")
  BY DEF OnAnswer, arguments, server
<1>2. o \in {"ok", "undecodable", "unavailable", "refused"}
  BY DEF ResultOf
<1>3. CASE request.kind = "list"
  <2>1. Return(o) /\ results = <<>> /\ op \in Collecting
    BY <1>1, <1>3 DEF OnAnswer, OutcomeInv, Progress, Collecting
  <2>2. o # "ok" /\ \A k \in 1 .. MaxItems : ~Asked(k)
    <3>1. op \notin TakesEmpty
      BY <1>1, <1>3 DEF OutcomeInv, Progress, Attachments, TakesEmpty, IssueEdits
    <3> QED BY <1>1, <1>3, <3>1 DEF ResultOf, Readable, Asked
  <2> QED BY <1>1, <1>2, <2>1, <2>2, ReturnOutcome DEF Ends
<1>4. CASE request.kind # "list"
  <2>1. ItemEnds(o) /\ request.item = Current /\ Current <= Len(items)
    BY <1>1, <1>4 DEF OnAnswer, OutcomeInv, Progress
  <2>2. o = "ok" => made[Current] = 1
    <3>1. o = "ok" => reply.kind = "json" \/ (reply.kind = "empty" /\ op \in TakesEmpty)
      BY DEF ResultOf, Readable
    <3>2. op \in TakesEmpty => op \in Writes
      BY DEF TakesEmpty, Writes, IssueEdits, Transition, IssueNotes, IssueCreations, AgileWrites
    <3>3. op \in Writes => request.kind \notin Lookups
      BY <1>1 DEF OutcomeInv, Progress, Lookups
    <3> QED BY <1>1, <1>4, <2>1, <3>1, <3>2, <3>3 DEF OutcomeInv, Carried
  <2>3. o = "refused" => made[Current] = 0
    <3>1. o = "refused" => reply.kind \in {"forbidden", "refused"}
      BY DEF ResultOf, Readable, OnAnswer, OutcomeInv, Progress
    <3> QED BY <1>1, <1>4, <2>1, <3>1 DEF OutcomeInv, Carried
  <2>4. o = "unavailable" => op \notin Writes
    BY WritesApart DEF ResultOf
  <2> HIDE DEF o
  <2> QED BY <1>1, <1>2, <1>4, <2>1, <2>2, <2>3, <2>4, EndOutcome DEF Ends
<1> QED BY <1>3, <1>4

\* A request that is given up may still be carried out if it is a write.
LEMMA GivesUpOutcome == ASSUME OutcomeInv, GivesUp PROVE OutcomeInv'
<1>1. /\ pc = "waiting" /\ reply.kind = "none" /\ late' = Abandoned
      /\ UNCHANGED <<op, filter, items, files, made>>
  BY DEF GivesUp, arguments, server, history
<1>2. CASE request.kind = "list"
  <2>1. Return("lost") /\ results = <<>> /\ op \in Collecting /\ late' = late
    BY <1>1, <1>2, WritesApart DEF GivesUp, OutcomeInv, Progress, Collecting, Abandoned
  <2> QED BY <1>1, <1>2, <2>1, ReturnOutcome DEF Ends, Asked
<1>3. CASE request.kind # "list"
  <2>1. /\ ItemEnds("lost") /\ request.item = Current /\ Current <= Len(items)
        /\ made[Current] = 0
    BY <1>1, <1>3 DEF GivesUp, OutcomeInv, Progress, Carried
  <2> QED BY <1>1, <1>3, <2>1, EndOutcome DEF Ends, Abandoned
<1> QED BY <1>2, <1>3

\* Jira answers: the item at hand is carried out or not, as the answer says.
LEMMA AnsweredOutcome ==
  ASSUME OutcomeInv, Pending, NEW r, Answer(r), UNCHANGED files,
         r.kind \in {"json", "empty", "bad", "forbidden", "refused"},
         r.files \in Seq(Files), Len(r.files) <= MaxItems,
         \/ /\ request.kind # "list" /\ made' = [made EXCEPT ![request.item] = @ + 1]
            /\ r.kind \in {"json", "empty", "bad"} /\ request.kind \notin Lookups
         \/ /\ made' = made
            /\ r.kind \in {"json", "empty"} => request.kind \in Lookups \cup {"list"}
  PROVE  OutcomeInv'
<1>1. /\ pc = "waiting" /\ reply.kind = "none" /\ reply' = r
      /\ UNCHANGED <<op, items, pc, request, late, results, outcome, files>>
  BY DEF Pending, Answer, arguments
<1>2. Progress'
  BY <1>1 DEF OutcomeInv, Progress, Current, BatchComplete
<1>3. ASSUME NEW k \in 1 .. MaxItems PROVE Said(k)' = Said(k) /\ Asked(k)' = Asked(k)
  BY <1>1 DEF Said, Asked
<1>4. CASE request.kind # "list"
  <2>1. /\ request.item = Current /\ Current \in 1 .. MaxItems /\ made[Current] = 0
        /\ Said(Current) = "none" /\ Asked(Current)
    BY <1>1, <1>4, AtItem, NothingSaid DEF OutcomeInv, Progress, Carried, Asked
  <2>2. made \in [1 .. MaxItems -> Nat]
    BY DEF OutcomeInv
  <2>0. [made EXCEPT ![request.item] = @ + 1] = [made EXCEPT ![Current] = 1]
    BY <2>1, <2>2
  <2>9. \/ /\ made' = [made EXCEPT ![Current] = 1]
           /\ r.kind \in {"json", "empty", "bad"} /\ request.kind \notin Lookups
        \/ /\ made' = made
           /\ r.kind \in {"json", "empty"} => request.kind \in Lookups
    BY <1>4, <2>0
  <2>3. /\ made' \in [1 .. MaxItems -> Nat] /\ made'[Current] \in {0, 1}
        /\ \A k \in 1 .. MaxItems : k # Current => made'[k] = made[k]
    <3>1. CASE made' = made
      BY <2>1, <2>2, <3>1
    <3>2. CASE made' = [made EXCEPT ![Current] = 1]
      BY <2>1, <2>2, <3>2
    <3> QED BY <2>9, <3>1, <3>2
  <2>4. /\ request.kind \in Lookups \/ r.kind \in {"forbidden", "refused"} => made'[Current] = 0
        /\ request.kind \notin Lookups /\ r.kind \in {"json", "empty"} => made'[Current] = 1
    BY <2>1, <2>2, <2>9
  <2>5. Carried'
    BY <1>1, <1>4, <2>1, <2>4 DEF Carried
  <2>6. ASSUME NEW k \in 1 .. MaxItems PROVE ItemTrue(k)'
    <3>1. CASE k = Current
      BY <1>1, <1>3, <2>1, <2>3, <2>6, <3>1 DEF OutcomeInv, ItemTrue
    <3>2. CASE k # Current
      BY <1>1, <1>3, <2>3, <2>6, <3>2 DEF OutcomeInv, ItemTrue
    <3> QED BY <3>1, <3>2
  <2> QED BY <1>1, <1>2, <2>3, <2>5, <2>6 DEF OutcomeInv, LateOnce
<1>5. CASE request.kind = "list"
  <2>1. ASSUME NEW k \in 1 .. MaxItems PROVE ItemTrue(k)'
    BY <1>1, <1>3, <1>5, <2>1 DEF OutcomeInv, ItemTrue
  <2> QED BY <1>1, <1>2, <1>5, <2>1 DEF OutcomeInv, LateOnce, Carried
<1> QED BY <1>4, <1>5

\* Jira's steps for the request at hand are such answers.
LEMMA JiraOutcome ==
  ASSUME OutcomeInv, Jira, ~ServeLate PROVE OutcomeInv'
<1>1. \A kind : Reply(kind).kind = kind /\ Reply(kind).files \in Seq(Files) /\ Len(Reply(kind).files) = 0
  BY DEF Reply, NoReply
<1>2. op \in Writes /\ pc = "waiting" => request.kind = "main"
  BY DEF OutcomeInv, Progress
<1> USE MaxItemsAssumption
<1>3. CASE ServeWrite
  BY <1>1, <1>2, <1>3, AnsweredOutcome DEF ServeWrite, Pending, Apply, Lookups
<1>4. CASE ServeLookup
  <2>1. PICK found : Answer([Reply("json") EXCEPT !.found = found])
    BY <1>4 DEF ServeLookup
  <2> DEFINE r == [Reply("json") EXCEPT !.found = found]
  <2>2. r.kind = "json" /\ r.files \in Seq(Files) /\ Len(r.files) = 0
    BY DEF Reply, NoReply
  <2>3. Answer(r)
    BY <2>1
  <2> HIDE DEF r
  <2> QED BY <1>4, <2>2, <2>3, AnsweredOutcome DEF ServeLookup, server, history
<1>5. CASE ServeList
  <2>0. PICK n \in 0 .. MaxItems :
          \E s \in [1 .. n -> files] : Answer([Reply("json") EXCEPT !.files = s])
    BY <1>5 DEF ServeList
  <2>1. PICK s \in [1 .. n -> files] : Answer([Reply("json") EXCEPT !.files = s])
    BY <2>0
  <2> DEFINE r == [Reply("json") EXCEPT !.files = s]
  <2>2. s \in Seq(Files) /\ Len(s) = n
    BY DEF OutcomeInv, Progress
  <2>3. r.kind = "json" /\ r.files = s
    BY DEF Reply, NoReply
  <2>4. Answer(r)
    BY <2>1
  <2> HIDE DEF r
  <2> QED BY <1>5, <2>2, <2>3, <2>4, AnsweredOutcome DEF ServeList, server, history
<1>6. CASE ServeRead
  BY <1>1, <1>6, AnsweredOutcome DEF ServeRead, server, Lookups
<1>7. CASE Refuse
  <2>1. PICK kind \in {"forbidden", "refused"} : Answer(Reply(kind))
    BY <1>7 DEF Refuse
  <2> QED BY <1>1, <1>7, <2>1, AnsweredOutcome DEF Refuse, server, history
<1>8. CASE Garble
  <2>1. CASE op \in Writes
    BY <1>1, <1>2, <1>8, <2>1, AnsweredOutcome DEF Garble, Pending, Apply, Lookups
  <2>2. CASE op \notin Writes
    BY <1>1, <1>8, <2>2, AnsweredOutcome DEF Garble, server, history
  <2> QED BY <2>1, <2>2
<1> QED BY <1>3, <1>4, <1>5, <1>6, <1>7, <1>8 DEF Jira

\* A late write is that of an item whose caller was told that it was given up.
LEMMA LateOutcome == ASSUME OutcomeInv, ServeLate PROVE OutcomeInv'
<1>1. PICK r \in late :
        /\ made' = [made EXCEPT ![r.item] = @ + 1] /\ late' = late \ {r}
        /\ UNCHANGED <<op, items, files, pc, request, reply, results, outcome>>
  BY DEF ServeLate, Apply, arguments
<1>2. r.item \in 1 .. MaxItems /\ Said(r.item) = "lost" /\ made[r.item] = 0
  BY DEF OutcomeInv, LateOnce, ItemTrue
<1>3. Progress'
  BY <1>1 DEF OutcomeInv, Progress, Current, BatchComplete
<1>7. made' \in [1 .. MaxItems -> Nat] /\ \A k \in 1 .. MaxItems : k # r.item => made'[k] = made[k]
  BY <1>1, <1>2 DEF OutcomeInv
<1>4. pc = "waiting" /\ request.kind # "list" => request.item # r.item
  BY <1>2, AtItem, NothingSaid DEF OutcomeInv, Progress
<1>5. LateOnce' /\ Carried'
  BY <1>1, <1>4 DEF OutcomeInv, LateOnce, Carried
<1>6. ASSUME NEW k \in 1 .. MaxItems PROVE ItemTrue(k)'
  <2>1. Said(k)' = Said(k) /\ Asked(k)' = Asked(k)
    BY <1>1 DEF Said, Asked
  <2> QED BY <1>1, <1>2, <1>6, <2>1 DEF OutcomeInv, ItemTrue, LateOnce
<1> QED BY <1>3, <1>5, <1>6, <1>7 DEF OutcomeInv

\* What others do, and nothing at all, leaves the call alone.
LEMMA OthersOutcome ==
  ASSUME OutcomeInv, Others \/ UNCHANGED vars PROVE OutcomeInv'
<1>1. /\ UNCHANGED <<op, items, pc, request, reply, late, results, outcome, made>>
      /\ files' \subseteq files
  BY DEF Others, MoveIssue, ChangeVersions, DetachFile, client, arguments, history, vars, server
<1>2. Progress'
  BY <1>1 DEF OutcomeInv, Progress, Current, BatchComplete
<1>3. ASSUME NEW k \in 1 .. MaxItems PROVE ItemTrue(k)'
  <2>1. Said(k)' = Said(k) /\ Asked(k)' = Asked(k)
    BY <1>1 DEF Said, Asked
  <2> QED BY <1>1, <1>3, <2>1 DEF OutcomeInv, ItemTrue
<1> QED BY <1>1, <1>2, <1>3 DEF OutcomeInv, LateOnce, Carried

\* The initial states: nothing was asked for.
LEMMA InitOutcome == Init => OutcomeInv
<1> SUFFICES ASSUME Init PROVE OutcomeInv
  OBVIOUS
<1>1. ASSUME NEW S, items \in ListsUpTo(S, MaxItems) \/ items \in ListsUpTo(S, 1)
      PROVE  Len(items) \in 0 .. MaxItems
  BY <1>1, MaxItemsAssumption DEF ListsUpTo
<1>2. ASSUME NEW S, items \in ListsUpTo(S, 1) PROVE Len(items) = 1
  BY <1>2 DEF ListsUpTo
<1>3. Len(items) \in 0 .. MaxItems /\ (op \notin Collecting => Len(items) = 1)
  <2>1. op \in Attachments \cup VersionBatch \cup {"get_issues_development"} => op \in Collecting
    BY DEF Collecting, VersionBatch
  <2>0. /\ op \in Attachments =>
             op \notin VersionBatch \cup {"create_project_version", "get_issues_development"}
        /\ op \in VersionBatch => op \notin {"create_project_version", "get_issues_development"}
    BY DEF Attachments, VersionBatch
  <2>2. CASE op \in Attachments
    <3>1. items \in {<<>>}
      BY <2>0, <2>2 DEF Init
    <3> QED BY <2>1, <2>2, <3>1, MaxItemsAssumption
  <2>3. CASE op \notin Attachments /\ op \in VersionBatch
    <3>1. items \in ListsUpTo(Named(Versions), MaxItems)
      BY <2>0, <2>3 DEF Init
    <3> QED BY <2>1, <2>3, <3>1, <1>1
  <2>4. CASE op \notin Attachments \cup VersionBatch /\ op = "create_project_version"
    BY <2>4, <1>1, <1>2 DEF Init
  <2>5. CASE /\ op \notin Attachments \cup VersionBatch \cup {"create_project_version"}
             /\ op = "get_issues_development"
    BY <2>1, <2>5, <1>1 DEF Init
  <2>6. CASE op \notin Attachments \cup VersionBatch
                         \cup {"create_project_version", "get_issues_development"}
    <3>1. items = <<key>>
      BY <2>6, Zenon DEF Init
    <3> QED BY <3>1, MaxItemsAssumption
  <2> QED BY <2>2, <2>3, <2>4, <2>5, <2>6
<1>4. Progress
  BY <1>3, MaxItemsAssumption DEF Init, Progress, BatchComplete, NoReply
<1>5. ASSUME NEW k \in 1 .. MaxItems PROVE ItemTrue(k) /\ Said(k) = "none"
  BY <1>5 DEF Init, ItemTrue, Said
<1> QED BY <1>4, <1>5 DEF Init, OutcomeInv, Carried, LateOnce

\* What becomes of each item, and what is said of it, fit at all times.
THEOREM Outcomes == Spec => []OutcomeInv
<1>1. OutcomeInv /\ [Next]_vars => OutcomeInv'
  BY InvokeOutcome, NextItemOutcome, LookupOutcome, ListOutcome, AnswerOutcome, GivesUpOutcome,
     JiraOutcome, LateOutcome, OthersOutcome DEF Next, Client, Done, Jira
<1> QED BY <1>1, InitOutcome, PTL DEF Spec

\* What the caller is told of each item is so, whatever is lost or late.
THEOREM ResultsTrue == Spec => []EachResultTrue
<1>1. OutcomeInv => EachResultTrue
  BY DEF OutcomeInv, ItemTrue, EachResultTrue
<1> QED BY <1>1, Outcomes, PTL

\* A batch reports on all of its items.
THEOREM BatchesComplete == Spec => []BatchComplete
<1>1. OutcomeInv => BatchComplete
  BY DEF OutcomeInv, Progress
<1> QED BY <1>1, Outcomes, PTL
============================================================================
