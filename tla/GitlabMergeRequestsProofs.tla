--------------------- MODULE GitlabMergeRequestsProofs ---------------------
(* What is merged was agreed on, callers are told the truth, updates do   *)
(* what they name and diffs keep their bound, for any callers, diffs,     *)
(* updates and number of pushes and calls.                                *)
EXTENDS GitlabMergeRequests, SelectionProofs

\* The initial states satisfy the inductive invariant.
LEMMA InitReview == Init => ReviewInv
<1> SUFFICES ASSUME Init PROVE ReviewInv
  OBVIOUS
<1>1. mr = [f \in Fields |-> mr[f]] /\ mr.state # "merged"
  <2>1. CASE mr = Absent
    BY <2>1 DEF Fields, Absent
  <2>2. CASE mr = [Absent EXCEPT !.state = "opened", !.labels = Labels, !.reviewers = Users]
    BY <2>2 DEF Fields, Absent
  <2> QED BY <2>1, <2>2 DEF Init
<1>2. Shapes
  BY <1>1 DEF Init, Shapes
<1>3. MergesAgreed
  BY DEF Init, MergesAgreed, NoCall
<1> QED BY <1>1, <1>2, <1>3 DEF Init, ReviewInv, MergedAsReviewed

\* An update or a creation moves no commit and merges nothing.
LEMMA AppliedKeeps ==
  ASSUME NEW m, NEW body, m = [f \in Fields |-> m[f]]
  PROVE  /\ Applied(m, body) = [f \in Fields |-> Applied(m, body)[f]]
         /\ Applied(m, body).head = m.head
         /\ Applied(m, body).state = "merged" => m.state = "merged"
<1>1. Applied(m, body).state \in {"closed", "opened", m.state}
  BY DEF Applied, Fields
<1> QED BY <1>1 DEF Applied, Fields

\* What GitLab does for a request keeps the invariant, if a merge in it was agreed on.
LEMMA EffectReview ==
  ASSUME ReviewInv, NEW c, NEW q, Effect(c, q), UNCHANGED agreed,
         q.tool = "accept_merge_request" => q.sha # 0 /\ q.sha \in agreed
  PROVE  MergedAsReviewed' /\ mr' = [f \in Fields |-> mr'[f]]
<1> USE DEF ReviewInv, Shapes
<1>1. CASE Create(q)
  <2> DEFINE m == [Absent EXCEPT !.state = "opened", !.head = mr.head]
  <2>1. m = [f \in Fields |-> m[f]] /\ m.state = "opened" /\ m.head = mr.head
    BY DEF Absent, Fields
  <2>2. mr' = Applied(m, CreateBody(q.given)) /\ armed' = armed
    BY <1>1 DEF Create
  <2> HIDE DEF m
  <2>3. mr' = [f \in Fields |-> mr'[f]] /\ mr'.head = mr.head /\ mr'.state # "merged"
    BY <2>1, <2>2, AppliedKeeps
  <2> QED BY <2>2, <2>3 DEF MergedAsReviewed
<1>2. CASE Update(q)
  <2>1. /\ mr.state \in {"opened", "closed"} /\ mr' = Applied(mr, UpdateBody(q.given))
        /\ armed' \in {0, armed}
    BY <1>2 DEF Update
  <2>2. mr = [f \in Fields |-> mr[f]]
    BY DEF ReviewInv
  <2>3. mr' = [f \in Fields |-> mr'[f]] /\ mr'.head = mr.head /\ mr'.state # "merged"
    BY <2>1, <2>2, AppliedKeeps
  <2> QED BY <2>1, <2>3 DEF MergedAsReviewed
<1>3. CASE Accept(q)
  <2>1. mr.head = q.sha /\ q.sha \in agreed /\ q.sha # 0
    BY <1>3 DEF Accept
  <2>2. CASE UNCHANGED mr /\ armed' = mr.head
    BY <1>3, <2>1, <2>2 DEF Accept, MergedAsReviewed
  <2>3. CASE mr' = [mr EXCEPT !.state = "merged"] /\ armed' = 0
    BY <2>1, <2>3 DEF MergedAsReviewed, Fields
  <2> QED BY <1>3, <2>2, <2>3 DEF Accept
<1>4. CASE Approve(c, q)
  <2>1. mr' = [mr EXCEPT !.approvals = mr'.approvals] /\ armed' = armed
    BY <1>4 DEF Approve, Fields
  <2>2. mr'.head = mr.head /\ mr'.state = mr.state /\ mr' = [f \in Fields |-> mr'[f]]
    BY <2>1 DEF Fields
  <2> QED BY <2>1, <2>2 DEF MergedAsReviewed
<1>5. CASE Resolve(q)
  <2>1. mr'.head = mr.head /\ mr'.state = mr.state /\ mr' = [f \in Fields |-> mr'[f]]
        /\ armed' = armed
    BY <1>5 DEF Resolve, Fields
  <2> QED BY <2>1 DEF MergedAsReviewed
<1>6. CASE Note(q)
  BY <1>6 DEF Note, MergedAsReviewed
<1> QED BY <1>1, <1>2, <1>3, <1>4, <1>5, <1>6 DEF Effect

\* Serving a request keeps the invariant.
LEMMA ServedReview ==
  ASSUME ReviewInv, NEW c, NEW n, NEW q, Serving(c, n, q), UNCHANGED <<agreed, call>>,
         late' \subseteq late,
         q.tool = "accept_merge_request" => q.sha # 0 /\ q.sha \in agreed
  PROVE  ReviewInv'
<1>1. MergedAsReviewed' /\ mr' = [f \in Fields |-> mr'[f]]
  BY EffectReview DEF Serving
<1>2. Shapes'
  BY <1>1 DEF ReviewInv, Shapes
<1>3. MergesAgreed'
  BY DEF ReviewInv, MergesAgreed
<1> QED BY <1>1, <1>2, <1>3 DEF ReviewInv

\* A call that was not sent merges nothing.
LEMMA NoCallMergesNothing == NoCall.tool # "accept_merge_request"
BY DEF NoCall

\* A caller's steps keep it: a merge is sent only for a commit that is agreed on by that.
LEMMA CallerReview ==
  ASSUME ReviewInv, NEW c \in Callers, Caller(c)
  PROVE  ReviewInv'
<1>1. UNCHANGED <<mr, armed>> /\ agreed \subseteq agreed' /\ 0 \notin agreed'
  BY DEF Caller, Ask, Return, GivesUp, ReviewInv, Shapes
<1>2. MergedAsReviewed'
  BY <1>1 DEF ReviewInv, MergedAsReviewed
<1>3. \E q : /\ call' = [call EXCEPT ![c] = q]
             /\ q.tool = "accept_merge_request" => q.sha # 0 /\ q.sha \in agreed'
  <2>1. CASE Ask(c)
    <3>1. PICK q \in Calls(seen[c]) :
            /\ call' = [call EXCEPT ![c] = IF Sent(q) THEN q ELSE NoCall]
            /\ agreed' = IF q.tool = "accept_merge_request" THEN agreed \cup ({q.sha} \ {0})
                                                            ELSE agreed
      BY <2>1 DEF Ask
    <3>2. CASE Sent(q)
      <4>1. q.tool = "accept_merge_request" => q.sha # 0
        BY <3>2 DEF Sent, ShaOk
      <4>2. q.tool = "accept_merge_request" => q.sha \in agreed'
        BY <3>1, <4>1
      <4>3. call' = [call EXCEPT ![c] = q]
        BY <3>1, <3>2
      <4> QED BY <4>1, <4>2, <4>3
    <3>3. CASE ~Sent(q)
      BY <3>1, <3>3, NoCallMergesNothing
    <3> QED BY <3>2, <3>3
  <2>2. CASE Return(c) \/ GivesUp(c)
    BY <2>2, NoCallMergesNothing DEF Return, GivesUp
  <2> QED BY <2>1, <2>2 DEF Caller
<1>4. Shapes'
  BY <1>1, <1>3 DEF ReviewInv, Shapes
<1>5. ASSUME NEW r \in late', r.call.tool = "accept_merge_request"
      PROVE  r.call.sha # 0 /\ r.call.sha \in agreed
  <2>1. r \in late \/ r = Abandoned(c)
    BY DEF Caller, Ask, Return, GivesUp
  <2> QED BY <2>1, <1>5 DEF ReviewInv, MergesAgreed, Abandoned
<1>6. ASSUME NEW d \in Callers, call'[d].tool = "accept_merge_request"
      PROVE  call'[d].sha # 0 /\ call'[d].sha \in agreed'
  BY <1>1, <1>3, <1>6 DEF ReviewInv, Shapes, MergesAgreed
<1>7. MergesAgreed'
  BY <1>1, <1>5, <1>6 DEF MergesAgreed
<1> QED BY <1>2, <1>4, <1>7 DEF ReviewInv

\* Every step keeps the inductive invariant.
LEMMA NextReview == ReviewInv /\ [Next]_vars => ReviewInv'
<1> SUFFICES ASSUME ReviewInv, [Next]_vars PROVE ReviewInv'
  OBVIOUS
<1>1. ASSUME NEW c \in Callers, Caller(c) PROVE ReviewInv'
  BY <1>1, CallerReview
<1>2. ASSUME NEW c \in Callers, ServeWrite(c) PROVE ReviewInv'
  <2>1. Serving(c, number[c], call[c]) /\ UNCHANGED <<agreed, call, late>>
    BY <1>2 DEF ServeWrite
  <2> QED BY <2>1, ServedReview DEF ReviewInv, MergesAgreed
<1>3. ASSUME NEW c \in Callers, ServeRead(c) \/ Refuse(c) PROVE ReviewInv'
  BY <1>3 DEF ServeRead, Refuse, ReviewInv, Shapes, MergesAgreed, MergedAsReviewed
<1>3a. ASSUME NEW c \in Callers, Gateway(c) PROVE ReviewInv'
  <2>1. UNCHANGED <<mr, armed, agreed, call>> /\ late' = late \cup {Abandoned(c)}
    BY <1>3a DEF Gateway
  <2>2. MergesAgreed'
    BY <2>1 DEF ReviewInv, MergesAgreed, Abandoned
  <2> QED BY <2>1, <2>2 DEF ReviewInv, Shapes, MergedAsReviewed
<1>4. CASE ServeLate
  <2>1. PICK r \in late : /\ Serving(r.caller, r.number, r.call)
                          /\ UNCHANGED <<agreed, call>> /\ late' = late \ {r}
    BY <1>4 DEF ServeLate
  <2> QED BY <2>1, ServedReview DEF ReviewInv, MergesAgreed
<1>5. CASE Push
  <2>1. mr'.state = mr.state /\ mr' = [f \in Fields |-> mr'[f]] /\ armed' = 0
        /\ mr.state # "merged" /\ UNCHANGED <<call, late, agreed>>
    BY <1>5 DEF Push, ReviewInv, Shapes, Fields, callers
  <2> QED BY <2>1 DEF ReviewInv, Shapes, MergesAgreed, MergedAsReviewed
<1>6. CASE PipelinePasses
  <2>1. mr'.head = mr.head /\ mr' = [f \in Fields |-> mr'[f]] /\ armed' = 0 /\ armed # 0
        /\ UNCHANGED <<call, late, agreed>>
    BY <1>6 DEF PipelinePasses, ReviewInv, Shapes, Fields, callers
  <2> QED BY <2>1 DEF ReviewInv, Shapes, MergesAgreed, MergedAsReviewed
<1>7. CASE UNCHANGED vars
  BY <1>7 DEF vars, callers, ReviewInv, Shapes, MergesAgreed, MergedAsReviewed
<1> QED BY <1>1, <1>2, <1>3, <1>3a, <1>4, <1>5, <1>6, <1>7 DEF Next, Gitlab

\* What is merged is a commit that a caller asked to merge.
THEOREM Reviewed == Spec => []MergedAsReviewed
<1>1. ReviewInv => MergedAsReviewed
  BY DEF ReviewInv
<1> QED BY <1>1, InitReview, NextReview, PTL DEF Spec

-----------------------------------------------------------------------------
(* What the callers are told.                                              *)

\* The initial states satisfy the invariant of the results.
LEMMA InitResults == Init => ResultInv
BY BoundsAssumption DEF Init, ResultInv, LateNumbered, CallFits, Outstanding, Perhaps, Certainly

\* A caller whose call, request and answer stay as they are keeps what it was told.
LEMMA Undisturbed ==
  ASSUME ResultInv, NEW d \in Callers, Outstanding(d)' = Outstanding(d),
         pc'[d] = pc[d], reply'[d] = reply[d], result'[d] = result[d], done'[d] = done[d]
  PROVE  CallFits(d)'
BY DEF ResultInv, CallFits, Perhaps, Certainly

\* A new call has a number of its own.
LEMMA AskResults == ASSUME ResultInv, NEW c \in Callers, Ask(c) PROVE ResultInv'
<1> USE DEF ResultInv
<1>1. /\ calls' = calls + 1 /\ number' = [number EXCEPT ![c] = calls + 1] /\ late' = late
      /\ reply' = [reply EXCEPT ![c] = "none"] /\ done' = [done EXCEPT ![c] = 0]
  BY DEF Ask
<1>2. PICK q : /\ call' = [call EXCEPT ![c] = q]
               /\ \/ pc' = [pc EXCEPT ![c] = "waiting"] /\ result' = [result EXCEPT ![c] = "none"]
                  \/ pc' = [pc EXCEPT ![c] = "idle"] /\ result' = [result EXCEPT ![c] = "invalid"]
  BY DEF Ask
<1>3. number' \in [Callers -> 0 .. calls'] /\ calls' \in Nat /\ done' \in [Callers -> Nat]
  BY <1>1
<1>4. LateNumbered'
  BY <1>1 DEF LateNumbered
<1>5. Outstanding(c)' = {}
  BY <1>1 DEF Outstanding, LateNumbered
<1>6. CallFits(c)'
  BY <1>1, <1>2, <1>5 DEF CallFits
<1>7. ASSUME NEW d \in Callers, d # c PROVE CallFits(d)'
  BY <1>1, <1>2, <1>7, Undisturbed DEF Outstanding
<1> QED BY <1>1, <1>2, <1>3, <1>4, <1>6, <1>7

\* A request under way that nobody waits for any more keeps the others apart.
LEMMA LateMore ==
  ASSUME ResultInv, NEW c \in Callers, Outstanding(c) = {}, number' = number,
         late' = late \cup {Abandoned(c)}
  PROVE  /\ LateNumbered' /\ \A d \in Callers \ {c} : Outstanding(d)' = Outstanding(d)
<1>1. LateNumbered'
  BY DEF ResultInv, LateNumbered, Outstanding, Abandoned
<1> QED BY <1>1 DEF Outstanding, Abandoned

\* The end of a call keeps it: the caller is told what was answered, or that no answer came.
LEMMA EndResults ==
  ASSUME ResultInv, NEW c \in Callers, Return(c) \/ GivesUp(c) PROVE ResultInv'
<1> USE DEF ResultInv
<1>1. /\ pc[c] = "waiting" /\ UNCHANGED <<calls, number, reply, done>>
      /\ pc' = [pc EXCEPT ![c] = "idle"] /\ call' = [call EXCEPT ![c] = NoCall]
  BY DEF Return, GivesUp, Pending
<1>2. result[c] = "none" /\ CallFits(c)
  BY <1>1 DEF CallFits
<1>3. CASE Return(c)
  <2>1. late' = late /\ result' = [result EXCEPT ![c] = ResultOf(reply[c])] /\ reply[c] # "none"
    BY <1>3 DEF Return
  <2>2. LateNumbered' /\ \A d \in Callers : Outstanding(d)' = Outstanding(d)
    BY <1>1, <2>1 DEF LateNumbered, Outstanding
  <2>3. reply[c] \in {"none", "json", "unreadable", "refused", "gateway"}
    OBVIOUS
  <2>4. CallFits(c)'
    BY <1>1, <1>2, <2>1, <2>2, <2>3 DEF CallFits, ResultOf, Perhaps, Certainly
  <2>5. ASSUME NEW d \in Callers, d # c PROVE CallFits(d)'
    BY <1>1, <2>1, <2>2, <2>5, Undisturbed
  <2> QED BY <1>1, <2>1, <2>2, <2>4, <2>5
<1>4. CASE GivesUp(c)
  <2>1. /\ late' \in {late, late \cup {Abandoned(c)}} /\ reply[c] = "none"
        /\ result' = [result EXCEPT ![c] = "lost"]
    BY <1>4 DEF GivesUp, Pending
  <2>2. done[c] = 0 /\ Outstanding(c) = {}
    BY <1>2, <2>1 DEF CallFits
  <2>3. LateNumbered' /\ \A d \in Callers \ {c} : Outstanding(d)' = Outstanding(d)
    <3>1. CASE late' = late
      BY <1>1, <3>1 DEF LateNumbered, Outstanding
    <3> QED BY <1>1, <2>1, <2>2, <3>1, LateMore
  <2>4. CallFits(c)'
    BY <1>1, <1>2, <2>1, <2>2 DEF CallFits, Perhaps
  <2>5. ASSUME NEW d \in Callers, d # c PROVE CallFits(d)'
    BY <1>1, <2>1, <2>3, <2>5, Undisturbed
  <2> QED BY <1>1, <2>1, <2>3, <2>4, <2>5
<1> QED BY <1>3, <1>4

\* An answer of GitLab keeps it: the call had its effect once unless it was refused.
LEMMA AnsweredResults ==
  ASSUME ResultInv, NEW c \in Callers, Pending(c), NEW kind \in {"json", "unreadable", "refused"},
         reply' = [reply EXCEPT ![c] = kind],
         done' = IF kind = "refused" THEN done ELSE [done EXCEPT ![c] = @ + 1],
         UNCHANGED <<pc, call, calls, number, result, late>>
  PROVE  ResultInv'
<1> USE DEF ResultInv
<1>1. done[c] = 0 /\ Outstanding(c) = {} /\ result[c] = "none"
  BY DEF Pending, CallFits
<1>2. LateNumbered' /\ \A d \in Callers : Outstanding(d)' = Outstanding(d)
  BY DEF LateNumbered, Outstanding
<1>3. CallFits(c)'
  BY <1>1, <1>2 DEF CallFits, Perhaps, Certainly
<1>4. ASSUME NEW d \in Callers, d # c PROVE CallFits(d)'
  BY <1>2, <1>4, Undisturbed
<1>5. /\ done' \in [Callers -> Nat]
      /\ reply' \in [Callers -> {"none", "json", "unreadable", "refused", "gateway"}]
  OBVIOUS
<1> QED BY <1>2, <1>3, <1>4, <1>5

\* A gateway's answer keeps it: the request may still have its effect, once.
LEMMA GatewayResults ==
  ASSUME ResultInv, NEW c \in Callers, Gateway(c) PROVE ResultInv'
<1> USE DEF ResultInv
<1>1. /\ reply' = [reply EXCEPT ![c] = "gateway"] /\ late' = late \cup {Abandoned(c)}
      /\ UNCHANGED <<pc, call, calls, number, result, done>>
  BY DEF Gateway
<1>2. done[c] = 0 /\ Outstanding(c) = {} /\ result[c] = "none"
  BY DEF Gateway, Pending, CallFits
<1>3. LateNumbered' /\ \A d \in Callers \ {c} : Outstanding(d)' = Outstanding(d)
  BY <1>1, <1>2, LateMore
<1>4. CallFits(c)'
  BY <1>1, <1>2 DEF CallFits, Perhaps
<1>5. ASSUME NEW d \in Callers, d # c PROVE CallFits(d)'
  BY <1>1, <1>3, <1>5, Undisturbed
<1>6. reply' \in [Callers -> {"none", "json", "unreadable", "refused", "gateway"}]
  BY <1>1
<1> QED BY <1>1, <1>3, <1>4, <1>5, <1>6

\* A late request keeps it: only the caller that gave it up may see its effect.
LEMMA LateResults == ResultInv /\ ServeLate => ResultInv'
<1> SUFFICES ASSUME ResultInv, ServeLate PROVE ResultInv'
  OBVIOUS
<1> USE DEF ResultInv
<1>1. PICK r \in late :
        /\ done' = IF number[r.caller] = r.number THEN [done EXCEPT ![r.caller] = @ + 1] ELSE done
        /\ late' = late \ {r} /\ UNCHANGED <<pc, call, calls, number, reply, result>>
  BY DEF ServeLate, Serving
<1>2. LateNumbered' /\ r.caller \in Callers
  BY <1>1 DEF LateNumbered
<1>3. ASSUME NEW d \in Callers, number[d] = r.number, d = r.caller PROVE CallFits(d)'
  <2>1. r \in Outstanding(d) /\ Outstanding(d)' = {}
    BY <1>1, <1>3 DEF Outstanding, LateNumbered
  <2>2. (result[d] = "lost" \/ reply[d] = "gateway") /\ done[d] = 0
    BY <2>1 DEF CallFits, Perhaps, Certainly
  <2>3. CallFits(d) /\ reply[d] \in {"none", "json", "unreadable", "refused", "gateway"}
    OBVIOUS
  <2>4. /\ done'[d] = 1
        /\ pc'[d] = pc[d] /\ reply'[d] = reply[d] /\ result'[d] = result[d]
    BY <1>1, <1>3, <2>2
  <2> QED BY <2>1, <2>2, <2>3, <2>4 DEF CallFits, Perhaps, Certainly
<1>4. ASSUME NEW d \in Callers, number[d] # r.number \/ d # r.caller PROVE CallFits(d)'
  <2>1. Outstanding(d)' = Outstanding(d)
    BY <1>1, <1>4 DEF Outstanding
  <2> QED BY <1>1, <1>2, <1>4, <2>1, Undisturbed
<1> QED BY <1>1, <1>2, <1>3, <1>4

\* Every step keeps the invariant of the results.
LEMMA NextResults == ResultInv /\ [Next]_vars => ResultInv'
<1> SUFFICES ASSUME ResultInv, [Next]_vars PROVE ResultInv'
  OBVIOUS
<1>1. ASSUME NEW c \in Callers, Caller(c) PROVE ResultInv'
  BY <1>1, AskResults, EndResults DEF Caller
<1>2. ASSUME NEW c \in Callers, Gitlab(c) PROVE ResultInv'
  <2>1. CASE ServeWrite(c)
    <3>1. PICK kind \in {"json", "unreadable"} : reply' = [reply EXCEPT ![c] = kind]
      BY <2>1 DEF ServeWrite
    <3> QED BY <2>1, <3>1, AnsweredResults DEF ServeWrite, Serving
  <2>2. CASE ServeRead(c)
    BY <2>2, AnsweredResults DEF ServeRead
  <2>3. CASE Refuse(c)
    BY <2>3, AnsweredResults DEF Refuse
  <2> QED BY <1>2, <2>1, <2>2, <2>3, GatewayResults DEF Gitlab
<1>3. CASE Push \/ PipelinePasses \/ UNCHANGED vars
  BY <1>3, Undisturbed DEF Push, PipelinePasses, vars, callers, ResultInv, LateNumbered, Outstanding
<1> QED BY <1>1, <1>2, <1>3, LateResults DEF Next

\* What a caller is told of its call is so, and no call has its effect twice.
THEOREM ResultsTrue == Spec => []EachResultTrue
<1>1. ResultInv => EachResultTrue
  <2> SUFFICES ASSUME ResultInv, NEW c \in Callers
               PROVE  /\ done[c] <= 1
                      /\ result[c] = "ok" => done[c] = 1
                      /\ result[c] \in {"refused", "invalid"} =>
                           done[c] = 0 /\ \A r \in late : <<r.caller, r.number>> # <<c, number[c]>>
    BY DEF EachResultTrue
  <2>1. CallFits(c) /\ reply[c] \in {"none", "json", "unreadable", "refused", "gateway"}
    BY DEF ResultInv
  <2> QED BY <2>1 DEF CallFits, Outstanding, Perhaps, Certainly
<1> QED BY <1>1, InitResults, NextResults, PTL DEF Spec

-----------------------------------------------------------------------------
(* What an update changes.                                                 *)

\* An update is carried out as it was given.
LEMMA UpdateAsGiven ==
  ASSUME Shapes, NEW c, NEW q, q.tool = "update_merge_request", Effect(c, q)
  PROVE  AsGiven(q.given)
<1>1. mr' = Applied(mr, q.given)
  BY DEF Effect, Create, Update, Accept, Approve, Approvals, Resolve, Note, Notes, UpdateBody
<1>2. mr = [f \in Fields |-> mr[f]]
  BY DEF Shapes
<1>3. /\ mr'.text = Put(q.given, "text", mr.text)
      /\ mr'.reviewers = Put(q.given, "reviewers", mr.reviewers)
      /\ mr'.labels = (Put(q.given, "labels", mr.labels) \cup Put(q.given, "add_labels", {}))
                        \ Put(q.given, "remove_labels", {})
      /\ mr'.approvals = mr.approvals /\ mr'.head = mr.head
  BY <1>1, <1>2 DEF Applied, Fields
<1> QED BY <1>3 DEF AsGiven, Put

\* An update, on time or late, changes the fields that were given and no others.
THEOREM UpdatesExact == Spec => UpdateExact
<1> DEFINE Step ==
      /\ \A c \in Callers :
           (/\ call[c].tool = "update_merge_request" /\ reply[c] = "none"
            /\ reply'[c] \in {"json", "unreadable"})
             => AsGiven(call[c].given)
      /\ \A r \in late \ late' :
           r.call.tool = "update_merge_request" => AsGiven(r.call.given)
<1>1. ReviewInv /\ ResultInv /\ [Next]_vars => [Step]_vars
  <2> SUFFICES ASSUME ReviewInv, ResultInv, Next PROVE Step
    OBVIOUS
  <2>1. ASSUME NEW c \in Callers, call[c].tool = "update_merge_request",
               reply[c] = "none", reply'[c] \in {"json", "unreadable"}
        PROVE  AsGiven(call[c].given)
    <3>1. ServeWrite(c)
      <4>1. ASSUME NEW d \in Callers, ServeRead(d) PROVE d # c
        BY <2>1, <4>1 DEF ServeRead, Reads, PlainReads
      <4>2. ASSUME NEW d \in Callers, ServeRead(d) \/ ServeWrite(d) PROVE d = c
        BY <2>1, <4>2 DEF ServeRead, ServeWrite, ResultInv
      <4>3. \E d \in Callers : ServeRead(d) \/ ServeWrite(d)
        BY <2>1 DEF Next, Caller, Ask, Return, GivesUp, Gitlab, Refuse, Gateway, ServeLate,
                    Push, PipelinePasses, callers, ResultInv
      <4> QED BY <4>1, <4>2, <4>3
    <3> QED BY <2>1, <3>1, UpdateAsGiven DEF ServeWrite, Serving, ReviewInv
  <2>2. ASSUME NEW r \in late \ late', r.call.tool = "update_merge_request"
        PROVE  AsGiven(r.call.given)
    <3>1. Serving(r.caller, r.number, r.call)
      BY <2>2 DEF Next, Caller, Ask, Return, GivesUp, Gitlab, ServeRead, ServeWrite, Refuse,
                  Gateway, ServeLate, Push, PipelinePasses, callers
    <3> QED BY <2>2, <3>1, UpdateAsGiven DEF Serving, ReviewInv
  <2> QED BY <2>1, <2>2
<1> HIDE DEF Step
<1>2. Spec => [][Step]_vars
  BY <1>1, InitReview, NextReview, InitResults, NextResults, PTL DEF Spec
<1> QED BY <1>2 DEF Step, UpdateExact

-----------------------------------------------------------------------------
(* The bounded diffs: bytes.                                               *)

\* The function by which Bytes is defined, up to the k-th width.
Sums(F, s, k) == F = [i \in 0..k |-> IF i = 0 THEN 0 ELSE F[i - 1] + s[i]]

LEMMA SumsExist ==
  ASSUME NEW s
  PROVE  \A k \in Nat : \E F : Sums(F, s, k)
<1> DEFINE T == {k \in Nat : \E F : Sums(F, s, k)}
<1>1. 0 \in T
  <2>1. Sums([i \in 0..0 |-> 0], s, 0) BY DEF Sums
  <2> QED BY <2>1
<1>2. ASSUME NEW k \in Nat, k \in T PROVE k + 1 \in T
  <2>1. PICK F : Sums(F, s, k) BY <1>2
  <2> DEFINE G == [i \in 0..(k + 1) |-> IF i = k + 1 THEN F[k] + s[i] ELSE F[i]]
  <2>2. ASSUME NEW i \in 0..k PROVE F[i] = IF i = 0 THEN 0 ELSE F[i - 1] + s[i]
    <3> HIDE DEF G
    <3> QED BY <2>1, Zenon DEF Sums
  <2>3. ASSUME NEW i \in 0..k PROVE G[i] = F[i] OBVIOUS
  <2>4. \A i \in 1..k : G[i - 1] = F[i - 1] BY <2>3
  <2>5. G[k + 1] = G[k] + s[k + 1] BY <2>3
  <2>6. G = [i \in 0..(k + 1) |-> G[i]] OBVIOUS
  <2> HIDE DEF G
  <2>7. ASSUME NEW i \in 0..(k + 1) PROVE G[i] = IF i = 0 THEN 0 ELSE G[i - 1] + s[i]
    <3>1. CASE i = 0 BY <3>1, <2>2, <2>3
    <3>2. CASE i \in 1..k
      <4>1. i \in 0..k /\ i # 0 BY <3>2
      <4> QED BY <2>2, <2>3, <2>4, <3>2, <4>1
    <3>3. CASE i = k + 1
      <4>1. i - 1 = k /\ i # 0 BY <3>3
      <4> QED BY <2>5, <3>3, <4>1
    <3> QED BY <3>1, <3>2, <3>3
  <2>8. Sums(G, s, k + 1) BY <2>6, <2>7 DEF Sums
  <2> QED BY <2>8
<1>3. \A k \in Nat : k \in T
  <2> HIDE DEF T
  <2> QED BY <1>1, <1>2, Inductive
<1> QED BY <1>3

\* Bytes, unfolded along the sequence.
LEMMA BytesSteps ==
  ASSUME NEW s \in Seq(Nat)
  PROVE  \E F : /\ F[0] = 0
                /\ \A i \in 1..Len(s) : F[i] = F[i - 1] + s[i]
                /\ Bytes(s) = F[Len(s)]
<1>0. Len(s) \in Nat OBVIOUS
<1>1. \E F : Sums(F, s, Len(s)) BY <1>0, SumsExist
<1> DEFINE F == CHOOSE F : Sums(F, s, Len(s))
<1>2. Sums(F, s, Len(s)) BY <1>1
<1>3. Bytes(s) = F[Len(s)] BY DEF Bytes, Sums
<1> HIDE DEF F
<1>4. F[0] = 0 BY <1>0, <1>2 DEF Sums
<1>5. ASSUME NEW i \in 1..Len(s) PROVE F[i] = F[i - 1] + s[i]
  <2>1. i \in 0..Len(s) /\ i # 0 BY <1>0
  <2> QED BY <1>2, <2>1 DEF Sums
<1> QED BY <1>3, <1>4, <1>5

LEMMA BytesNone == Bytes(<<>>) = 0
<1> DEFINE e == <<>>
<1>1. e \in Seq(Nat) /\ Len(e) = 0 OBVIOUS
<1> HIDE DEF e
<1>2. PICK F : F[0] = 0 /\ Bytes(e) = F[Len(e)] BY <1>1, BytesSteps
<1> QED BY <1>1, <1>2 DEF e

\* One width more.
LEMMA BytesMore ==
  ASSUME NEW s \in Seq(Nat), NEW x \in Nat
  PROVE  Bytes(Append(s, x)) = Bytes(s) + x
<1> DEFINE t == Append(s, x)
<1>1. t \in Seq(Nat) /\ Len(t) = Len(s) + 1 /\ t[Len(s) + 1] = x /\ Len(s) \in Nat
      /\ \A i \in 1..Len(s) : t[i] = s[i]
  OBVIOUS
<1> HIDE DEF t
<1>2. PICK F : /\ F[0] = 0
               /\ \A i \in 1..Len(s) : F[i] = F[i - 1] + s[i]
               /\ Bytes(s) = F[Len(s)]
  BY BytesSteps
<1>3. PICK G : /\ G[0] = 0
               /\ \A i \in 1..Len(t) : G[i] = G[i - 1] + t[i]
               /\ Bytes(t) = G[Len(t)]
  BY <1>1, BytesSteps
<1> DEFINE T == {i \in Nat : i <= Len(s) => F[i] = G[i]}
<1>4. 0 \in T BY <1>2, <1>3
<1>5. ASSUME NEW i \in Nat, i \in T PROVE i + 1 \in T
  <2> SUFFICES ASSUME i + 1 <= Len(s) PROVE F[i + 1] = G[i + 1] OBVIOUS
  <2>1. i + 1 \in 1..Len(s) /\ i + 1 \in 1..Len(t) /\ (i + 1) - 1 = i BY <1>1
  <2>2. F[i] = G[i] BY <1>5, <1>1
  <2>3. F[i + 1] = F[i] + s[i + 1] BY <2>1, <1>2
  <2>4. G[i + 1] = G[i] + t[i + 1] BY <2>1, <1>3
  <2> QED BY <1>1, <2>1, <2>2, <2>3, <2>4
<1>6. Len(s) \in T
  <2> HIDE DEF T
  <2> QED BY <1>1, <1>4, <1>5, Inductive
<1>7. G[Len(t)] = G[Len(s)] + x
  <2>1. Len(t) \in 1..Len(t) /\ Len(t) - 1 = Len(s) BY <1>1
  <2> QED BY <1>1, <1>3, <2>1
<1> QED BY <1>1, <1>2, <1>3, <1>6, <1>7 DEF t

LEMMA BytesType == \A s \in Seq(Nat) : Bytes(s) \in Nat
<1> DEFINE T == {n \in Nat : \A s \in Seq(Nat) : Len(s) = n => Bytes(s) \in Nat}
<1>1. 0 \in T
  <2>1. ASSUME NEW s \in Seq(Nat), Len(s) = 0 PROVE Bytes(s) \in Nat
    <3>1. s = <<>> BY <2>1
    <3> QED BY <3>1, BytesNone
  <2> QED BY <2>1
<1>2. ASSUME NEW n \in Nat, n \in T PROVE n + 1 \in T
  <2>1. ASSUME NEW s \in Seq(Nat), Len(s) = n + 1 PROVE Bytes(s) \in Nat
    <3>1. PICK r \in Seq(Nat), x \in Nat : s = Append(r, x) /\ Len(r) = n BY <2>1, LastSplit
    <3>2. Bytes(r) \in Nat BY <1>2, <3>1
    <3> QED BY <3>1, <3>2, BytesMore
  <2> QED BY <2>1
<1>3. \A n \in Nat : n \in T
  <2> HIDE DEF T
  <2> QED BY <1>1, <1>2, Inductive
<1> QED BY <1>3

Chars == Seq(1 .. 4)

\* The whole characters of the first n bytes, of a text that has more: as many bytes as
\* fit, but for less than a character.
LEMMA PrefixFacts ==
  ASSUME NEW s \in Chars, NEW n \in Nat, Bytes(s) > n
  PROVE  LET u == Utf8Prefix(s, n)
         IN u \in Chars /\ IsPrefix(u, s) /\ Bytes(u) <= n /\ Bytes(u) + 4 > n
<1> DEFINE first(k) == SubSeq(s, 1, k)
           fits == {k \in 0 .. Len(s) : Bytes(first(k)) <= n}
           rest == {Len(s) - k : k \in fits}
<1>1. s \in Seq(Nat) /\ Len(s) \in Nat BY DEF Chars
<1>2. ASSUME NEW k \in 0 .. Len(s)
      PROVE  first(k) \in Seq(Nat) /\ first(k) \in Chars /\ Bytes(first(k)) \in Nat
  <2>1. first(k) \in Seq(Nat) /\ first(k) \in Chars BY <1>1 DEF Chars
  <2> HIDE DEF first
  <2> QED BY <2>1, BytesType
<1>3. 0 \in fits
  <2>1. first(0) = <<>> BY <1>1, SubSeqEmpty
  <2>2. Bytes(first(0)) = 0 BY <2>1, BytesNone, Zenon
  <2> HIDE DEF first
  <2> QED BY <1>1, <2>2
<1>4. \E k \in fits : \A j \in k + 1 .. Len(s) : j \notin fits
  <2>1. rest \in SUBSET Nat /\ rest # {} BY <1>1, <1>3
  <2> HIDE DEF first, fits
  <2>2. PICK m \in rest : \A j \in rest : m <= j
    <3> HIDE DEF rest
    <3> QED BY <2>1, Least
  <2>3. PICK k \in fits : m = Len(s) - k OBVIOUS
  <2>4. ASSUME NEW j \in k + 1 .. Len(s), j \in fits PROVE FALSE
    <3>1. Len(s) - j \in rest BY <2>4
    <3>2. k \in 0 .. Len(s) BY DEF fits
    <3>3. m <= Len(s) - j
      <4> HIDE DEF rest
      <4> QED BY <2>2, <3>1
    <3> HIDE DEF rest
    <3> QED BY <1>1, <2>3, <3>2, <3>3
  <2> QED BY <2>4
<1> DEFINE at(k) == /\ Bytes(SubSeq(s, 1, k)) <= n
                    /\ \A j \in k + 1 .. Len(s) : Bytes(SubSeq(s, 1, j)) > n
           last == CHOOSE k \in 0 .. Len(s) : at(k)
<1>5. \E k \in 0 .. Len(s) : at(k)
  <2>1. PICK k \in fits : \A j \in k + 1 .. Len(s) : j \notin fits BY <1>4
  <2>2. \A j \in k + 1 .. Len(s) : Bytes(first(j)) > n
    <3> TAKE j \in k + 1 .. Len(s)
    <3>1. j \in 0 .. Len(s) BY <1>1
    <3>2. ~(Bytes(first(j)) <= n) BY <2>1, <3>1
    <3>3. Bytes(first(j)) \in Nat BY <1>2, <3>1
    <3> HIDE DEF first
    <3> QED BY <3>2, <3>3
  <2> QED BY <2>1, <2>2
<1>6. last \in 0 .. Len(s) /\ at(last)
  <2> HIDE DEF at
  <2> QED BY <1>5
<1>7. Utf8Prefix(s, n) = first(last) BY DEF Utf8Prefix
<1> HIDE DEF last
<1>8. last < Len(s)
  <2>1. CASE last = Len(s)
    <3>1. first(last) = s BY <1>1, <2>1, SubSeqFull
    <3>2. Bytes(s) <= n BY <1>6, <3>1
    <3>3. Bytes(s) \in Nat BY <1>1, BytesType
    <3> QED BY <3>2, <3>3
  <2> QED BY <1>1, <1>6, <2>1
<1>9. Bytes(first(last + 1)) > n BY <1>1, <1>6, <1>8
<1>10. Bytes(first(last + 1)) = Bytes(first(last)) + s[last + 1] /\ s[last + 1] \in 1 .. 4
  <2>1. last + 1 \in 1 .. Len(s) BY <1>1, <1>6, <1>8
  <2>2. s[last + 1] \in 1 .. 4 BY <2>1, ElementOfSeq DEF Chars
  <2>3. first(last + 1) = Append(first(last), s[last + 1]) BY <1>1, <1>6, <2>1
  <2>4. first(last) \in Seq(Nat) /\ s[last + 1] \in Nat BY <1>2, <1>6, <2>2
  <2> HIDE DEF first
  <2> QED BY <2>2, <2>3, <2>4, BytesMore
<1>11. IsPrefix(first(last), s)
  <2>1. Len(first(last)) = last /\ \A i \in 1 .. last : first(last)[i] = s[i]
    BY <1>1, <1>6
  <2> QED BY <1>1, <1>6, <2>1 DEF IsPrefix
<1>12. Bytes(first(last)) \in Nat /\ first(last) \in Chars BY <1>2, <1>6
<1>13. Bytes(first(last)) <= n BY <1>6
<1> HIDE DEF first, at
<1>14. Bytes(first(last)) + 4 > n BY <1>9, <1>10, <1>12
<1> QED BY <1>7, <1>11, <1>12, <1>13, <1>14

-----------------------------------------------------------------------------
(* The bounded diffs: the loop.                                            *)

\* The function by which BoundedDiffs is defined, up to the k-th file.
NothingYet == [items |-> <<>>, used |-> 0, truncated |-> FALSE]
Turns(F, items, max, k) ==
  F = [i \in 0..k |-> IF i = 0 THEN NothingYet ELSE Cut(F[i - 1], items[i], max)]

LEMMA TurnsExist ==
  ASSUME NEW s, NEW max
  PROVE  \A k \in Nat : \E F : Turns(F, s, max, k)
<1> DEFINE T == {k \in Nat : \E F : Turns(F, s, max, k)}
<1>1. 0 \in T
  <2>1. Turns([i \in 0..0 |-> NothingYet], s, max, 0) BY DEF Turns
  <2> QED BY <2>1
<1>2. ASSUME NEW k \in Nat, k \in T PROVE k + 1 \in T
  <2>1. PICK F : Turns(F, s, max, k) BY <1>2
  <2> DEFINE G == [i \in 0..(k + 1) |-> IF i = k + 1 THEN Cut(F[k], s[i], max) ELSE F[i]]
  <2>2. ASSUME NEW i \in 0..k
        PROVE  F[i] = IF i = 0 THEN NothingYet ELSE Cut(F[i - 1], s[i], max)
    <3> HIDE DEF G
    <3> QED BY <2>1, Zenon DEF Turns
  <2>3. ASSUME NEW i \in 0..k PROVE G[i] = F[i] OBVIOUS
  <2>4. \A i \in 1..k : G[i - 1] = F[i - 1] BY <2>3
  <2>5. G[k + 1] = Cut(G[k], s[k + 1], max) BY <2>3
  <2>6. G = [i \in 0..(k + 1) |-> G[i]] OBVIOUS
  <2> HIDE DEF G
  <2>7. ASSUME NEW i \in 0..(k + 1)
        PROVE  G[i] = IF i = 0 THEN NothingYet ELSE Cut(G[i - 1], s[i], max)
    <3>1. CASE i = 0 BY <3>1, <2>2, <2>3
    <3>2. CASE i \in 1..k
      <4>1. i \in 0..k /\ i # 0 BY <3>2
      <4> QED BY <2>2, <2>3, <2>4, <3>2, <4>1
    <3>3. CASE i = k + 1
      <4>1. i - 1 = k /\ i # 0 BY <3>3
      <4> QED BY <2>5, <3>3, <4>1
    <3> QED BY <3>1, <3>2, <3>3
  <2>8. Turns(G, s, max, k + 1) BY <2>6, <2>7 DEF Turns
  <2> QED BY <2>8
<1>3. \A k \in Nat : k \in T
  <2> HIDE DEF T
  <2> QED BY <1>1, <1>2, Inductive
<1> QED BY <1>3

\* BoundedDiffs, unfolded along the files.
LEMMA BoundedSteps ==
  ASSUME NEW D, NEW s \in Seq(D), NEW max
  PROVE  \E F : /\ F[0] = NothingYet
                /\ \A i \in 1..Len(s) : F[i] = Cut(F[i - 1], s[i], max)
                /\ BoundedDiffs(s, max) = F[Len(s)]
<1>0. Len(s) \in Nat OBVIOUS
<1>1. \E F : Turns(F, s, max, Len(s)) BY <1>0, TurnsExist
<1> DEFINE F == CHOOSE F : Turns(F, s, max, Len(s))
<1>2. Turns(F, s, max, Len(s)) BY <1>1
<1>3. BoundedDiffs(s, max) = F[Len(s)] BY DEF BoundedDiffs, Turns, NothingYet
<1> HIDE DEF F
<1>4. F[0] = NothingYet BY <1>0, <1>2 DEF Turns
<1>5. ASSUME NEW i \in 1..Len(s) PROVE F[i] = Cut(F[i - 1], s[i], max)
  <2>1. i \in 0..Len(s) /\ i # 0 BY <1>0
  <2> QED BY <1>2, <2>1 DEF Turns
<1> QED BY <1>3, <1>4, <1>5

LEMMA CharsFacts ==
  /\ \A s \in Chars : s \in Seq(Nat) /\ Bytes(s) \in Nat
  /\ \A f \in Files : f.chars \in Chars /\ f.diff \in BOOLEAN
  /\ \A f \in Files, u \in Chars :
       (f.diff \/ u = <<>>) => /\ [f EXCEPT !.chars = u] \in Files
                               /\ [f EXCEPT !.chars = u].chars = u
<1>1. \A s \in Chars : s \in Seq(Nat) BY DEF Chars
<1> QED BY <1>1, BytesType DEF Files, Chars

\* The bytes of the files, one file more.
LEMMA TotalFacts ==
  /\ TotalBytes(<<>>) = 0
  /\ \A s \in Seq(Files) : TotalBytes(s) \in Nat
  /\ \A s \in Seq(Files), f \in Files :
       TotalBytes(Append(s, f)) = TotalBytes(s) + Bytes(f.chars)
<1> DEFINE sizes(s) == [k \in DOMAIN s |-> Bytes(s[k].chars)]
<1>1. ASSUME NEW s \in Seq(Files)
      PROVE  sizes(s) \in Seq(Nat) /\ Len(sizes(s)) = Len(s)
  <2>1. \A k \in 1..Len(s) : Bytes(s[k].chars) \in Nat
    <3> TAKE k \in 1..Len(s)
    <3>1. s[k] \in Files BY ElementOfSeq
    <3> QED BY <3>1, CharsFacts
  <2>2. sizes(s) \in [1..Len(s) -> Nat] /\ Len(s) \in Nat BY <2>1
  <2> HIDE DEF sizes
  <2>3. sizes(s) \in Seq(Nat) /\ DOMAIN sizes(s) = 1..Len(s) BY <2>2
  <2> QED BY <2>2, <2>3
<1>2. TotalBytes(<<>>) = 0
  <2>1. [k \in DOMAIN <<>> |-> Bytes(<<>>[k].chars)] = <<>> OBVIOUS
  <2> QED BY <2>1, BytesNone DEF TotalBytes
<1>3. ASSUME NEW s \in Seq(Files) PROVE TotalBytes(s) = Bytes(sizes(s)) BY DEF TotalBytes
<1>4. ASSUME NEW s \in Seq(Files), NEW f \in Files
      PROVE  TotalBytes(Append(s, f)) = TotalBytes(s) + Bytes(f.chars)
  <2> DEFINE t == Append(s, f)
             b == Bytes(f.chars)
  <2>1. /\ t \in Seq(Files) /\ Len(t) = Len(s) + 1 /\ Len(s) \in Nat
        /\ t[Len(s) + 1] = f /\ \A k \in 1..Len(s) : t[k] = s[k]
    OBVIOUS
  <2>2. b \in Nat BY CharsFacts
  <2> HIDE DEF t
  <2>3. \A k \in 1..Len(s) : sizes(t)[k] = sizes(s)[k]
    <3> TAKE k \in 1..Len(s)
    <3>1. k \in DOMAIN t /\ k \in DOMAIN s BY <2>1
    <3> QED BY <2>1, <3>1
  <2>4. sizes(t)[Len(s) + 1] = b
    <3>1. Len(s) + 1 \in DOMAIN t BY <2>1
    <3> QED BY <2>1, <3>1
  <2>5. /\ sizes(s) \in Seq(Nat) /\ Len(sizes(s)) = Len(s)
        /\ sizes(t) \in Seq(Nat) /\ Len(sizes(t)) = Len(s) + 1
    BY <1>1, <2>1
  <2> HIDE DEF sizes, b
  <2>6. sizes(t) = Append(sizes(s), b)
    <3> DEFINE a == Append(sizes(s), b)
    <3>1. /\ a \in Seq(Nat) /\ Len(a) = Len(s) + 1 /\ a[Len(s) + 1] = b
          /\ \A k \in 1..Len(s) : a[k] = sizes(s)[k]
      BY <2>2, <2>5
    <3> HIDE DEF a
    <3>2. \A k \in 1..Len(a) : sizes(t)[k] = a[k]
      <4> TAKE k \in 1..Len(a)
      <4>1. k \in 1..Len(s) \/ k = Len(s) + 1 BY <2>1, <3>1
      <4> QED BY <2>3, <2>4, <3>1, <4>1
    <3>3. sizes(t) = a BY <2>5, <3>1, <3>2, SeqEqual
    <3> QED BY <3>3 DEF a
  <2>7. Bytes(sizes(t)) = Bytes(sizes(s)) + b BY <2>2, <2>5, <2>6, BytesMore
  <2> QED BY <1>3, <2>1, <2>7 DEF t, b
<1>5. \A s \in Seq(Files) : TotalBytes(s) \in Nat
  <2> TAKE s \in Seq(Files)
  <2>1. sizes(s) \in Seq(Nat) BY <1>1
  <2> HIDE DEF sizes
  <2> QED BY <1>3, <2>1, BytesType
<1> QED BY <1>2, <1>4, <1>5

\* An empty diff met with the budget exactly used, among the first k files.
EmptyAt(items, max, k) ==
  \E j \in 1 .. k :
    /\ items[j].diff /\ items[j].chars = <<>>
    /\ TotalBytes(SubSeq(items, 1, j - 1)) = max

\* The loop after k files: each diff is the beginning of the real one; nothing was cut and
\* all is counted, or the budget is used up but for less than a character, by more than
\* fits or up to an empty diff.
CutUpTo(items, max, k, acc) ==
  /\ acc.items \in Seq(Files) /\ Len(acc.items) = k
  /\ acc.used \in 0 .. max /\ acc.truncated \in BOOLEAN
  /\ TotalBytes(acc.items) <= acc.used
  /\ \A j \in 1 .. k : IsPrefix(acc.items[j].chars, items[j].chars)
  /\ ~acc.truncated =>
       acc.items = SubSeq(items, 1, k) /\ acc.used = TotalBytes(acc.items)
  /\ acc.truncated =>
       /\ acc.used = max /\ TotalBytes(acc.items) + 4 > max
       /\ TotalBytes(SubSeq(items, 1, k)) > max \/ EmptyAt(items, max, k)

\* A diff of no bytes has no characters.
LEMMA NoBytes ==
  ASSUME NEW s \in Chars, Bytes(s) = 0
  PROVE  s = <<>>
<1> SUFFICES ASSUME s # <<>> PROVE FALSE OBVIOUS
<1>1. s \in Seq(1 .. 4) /\ Len(s) \in Nat /\ Len(s) # 0 BY DEF Chars
<1> DEFINE n == Len(s) - 1
<1>2. n \in Nat /\ Len(s) = n + 1 BY <1>1
<1> HIDE DEF n
<1>3. PICK r \in Seq(1 .. 4), x \in 1 .. 4 : s = Append(r, x) /\ Len(r) = n
  BY <1>1, <1>2, LastSplit
<1>4. r \in Seq(Nat) /\ x \in Nat BY <1>3
<1>5. Bytes(s) = Bytes(r) + x /\ Bytes(r) \in Nat BY <1>3, <1>4, BytesMore, BytesType
<1> QED BY <1>3, <1>5

LEMMA NothingCut ==
  ASSUME NEW items \in Seq(Files), NEW max \in Nat
  PROVE  CutUpTo(items, max, 0, NothingYet)
<1> DEFINE none == <<>>
<1>1. none \in Seq(Files) /\ Len(none) = 0 /\ SubSeq(items, 1, 0) = none BY SubSeqEmpty
<1>2. TotalBytes(none) = 0 BY TotalFacts
<1>3. NothingYet.items = none /\ NothingYet.used = 0 /\ NothingYet.truncated = FALSE
  BY DEF NothingYet
<1> HIDE DEF none
<1> DEFINE acc == NothingYet
<1>4. 0 \in 0 .. max /\ 1 .. 0 = {} /\ FALSE \in BOOLEAN OBVIOUS
<1>4a. acc.items = none /\ acc.used = 0 /\ acc.truncated = FALSE BY <1>3
<1>5. /\ acc.items \in Seq(Files) /\ Len(acc.items) = 0
      /\ acc.used \in 0 .. max /\ acc.truncated \in BOOLEAN
      /\ TotalBytes(acc.items) <= acc.used
  <2> HIDE DEF acc
  <2>1. acc.items \in Seq(Files) /\ Len(acc.items) = 0 BY <1>1, <1>4a
  <2>2. acc.used \in 0 .. max /\ TotalBytes(acc.items) <= acc.used BY <1>2, <1>4, <1>4a
  <2> QED BY <1>4, <1>4a, <2>1, <2>2
<1>6. acc.items = SubSeq(items, 1, 0) /\ acc.used = TotalBytes(acc.items) /\ ~acc.truncated
  BY <1>1, <1>2, <1>3
<1>7. \A j \in 1 .. 0 : IsPrefix(acc.items[j].chars, items[j].chars) BY <1>4
<1> HIDE DEF acc
<1>8. CutUpTo(items, max, 0, acc) BY <1>5, <1>6, <1>7 DEF CutUpTo
<1> QED BY <1>8 DEF acc

\* One more file, whose diff is taken up to some character.
LEMMA OneTaken ==
  ASSUME NEW items \in Seq(Files), NEW max \in Nat, NEW k \in Nat, k < Len(items),
         NEW acc, CutUpTo(items, max, k, acc), NEW next,
         NEW chars \in Chars, items[k + 1].diff \/ chars = <<>>,
         IsPrefix(chars, items[k + 1].chars),
         next.items = Append(acc.items, [items[k + 1] EXCEPT !.chars = chars]),
         next.used \in 0 .. max, next.truncated \in BOOLEAN,
         acc.truncated => next.truncated,
         TotalBytes(acc.items) + Bytes(chars) <= next.used,
         ~next.truncated => /\ chars = items[k + 1].chars
                            /\ next.used = acc.used + Bytes(chars),
         next.truncated =>
           /\ next.used = max /\ TotalBytes(acc.items) + Bytes(chars) + 4 > max
           /\ \/ TotalBytes(SubSeq(items, 1, k)) + Bytes(items[k + 1].chars) > max
              \/ EmptyAt(items, max, k + 1)
  PROVE  CutUpTo(items, max, k + 1, next)
<1> DEFINE item == items[k + 1]
           taken == [item EXCEPT !.chars = chars]
           before == SubSeq(items, 1, k)
<1>1. item \in Files
  <2>1. k + 1 \in 1..Len(items) OBVIOUS
  <2> QED BY <2>1, ElementOfSeq
<1>2. taken \in Files /\ taken.chars = chars BY <1>1, CharsFacts
<1>3. before \in Seq(Files) /\ SubSeq(items, 1, k + 1) = Append(before, item) OBVIOUS
<1>4. chars = item.chars => taken = item BY <1>1 DEF Files
<1> HIDE DEF item, taken, before
<1>5. acc.items \in Seq(Files) /\ Len(acc.items) = k BY DEF CutUpTo
<1>6. next.items = Append(acc.items, taken) BY DEF taken, item
<1>7. next.items \in Seq(Files) /\ Len(next.items) = k + 1 BY <1>2, <1>5, <1>6
<1>8. TotalBytes(next.items) = TotalBytes(acc.items) + Bytes(chars)
  BY <1>2, <1>5, <1>6, TotalFacts
<1>9. TotalBytes(SubSeq(items, 1, k + 1)) = TotalBytes(before) + Bytes(item.chars)
  BY <1>1, <1>3, TotalFacts
<1>10. \A j \in 1 .. k + 1 : IsPrefix(next.items[j].chars, items[j].chars)
  <2> TAKE j \in 1 .. k + 1
  <2>1. CASE j = k + 1
    <3>1. next.items[j] = taken BY <1>2, <1>5, <1>6, <2>1
    <3> QED BY <1>2, <2>1, <3>1 DEF item
  <2>2. CASE j \in 1 .. k
    <3>1. next.items[j] = acc.items[j] BY <1>2, <1>5, <1>6, <2>2
    <3>2. IsPrefix(acc.items[j].chars, items[j].chars) BY <2>2 DEF CutUpTo
    <3> QED BY <3>1, <3>2
  <2>3. j = k + 1 \/ j \in 1 .. k OBVIOUS
  <2> QED BY <2>1, <2>2, <2>3, Zenon
<1>11. ASSUME ~next.truncated
       PROVE  next.items = SubSeq(items, 1, k + 1) /\ next.used = TotalBytes(next.items)
  <2>1. acc.items = before /\ acc.used = TotalBytes(acc.items)
    BY <1>11 DEF CutUpTo, before
  <2>2. chars = item.chars /\ next.used = acc.used + Bytes(chars) BY <1>11 DEF item
  <2> QED BY <1>3, <1>4, <1>6, <1>8, <2>1, <2>2
<1>12. next.truncated =>
         /\ next.used = max /\ TotalBytes(next.items) + 4 > max
         /\ TotalBytes(SubSeq(items, 1, k + 1)) > max \/ EmptyAt(items, max, k + 1)
  BY <1>8, <1>9 DEF before, item
<1>13. TotalBytes(next.items) <= next.used BY <1>8
<1> QED BY <1>7, <1>10, <1>11, <1>12, <1>13 DEF CutUpTo

LEMMA OneCut ==
  ASSUME NEW items \in Seq(Files), NEW max \in Nat, NEW k \in Nat, k < Len(items),
         NEW acc, CutUpTo(items, max, k, acc)
  PROVE  CutUpTo(items, max, k + 1, Cut(acc, items[k + 1], max))
<1> DEFINE item == items[k + 1]
           none == <<>>
           next == Cut(acc, item, max)
           before == TotalBytes(SubSeq(items, 1, k))
           total == TotalBytes(acc.items)
           size == Bytes(item.chars)
           empty == EmptyAt(items, max, k + 1)
           Took(chars, used) ==
             /\ next.items = Append(acc.items, [item EXCEPT !.chars = chars])
             /\ next.used = used
<1>1. item \in Files
  <2>1. k + 1 \in 1..Len(items) OBVIOUS
  <2> QED BY <2>1, ElementOfSeq
<1>2. /\ item.chars \in Chars /\ size \in Nat /\ item.diff \in BOOLEAN
      /\ ~item.diff => item.chars = none
  <2>1. ~item.diff => item.chars = none BY <1>1 DEF Files
  <2> QED BY <1>1, <2>1, CharsFacts
<1>3. none \in Chars /\ Bytes(none) = 0 BY BytesNone DEF Chars
<1>4. IsPrefix(none, item.chars) /\ IsPrefix(item.chars, item.chars)
  <2>1. item.chars \in Seq(1 .. 4) BY <1>2 DEF Chars
  <2> HIDE DEF item
  <2>2. Len(none) = 0 /\ SubSeq(item.chars, 1, 0) = none /\ SubSeq(none, 1, 0) = none
    BY SubSeqEmpty
  <2>3. Len(item.chars) \in Nat BY <2>1
  <2> HIDE DEF none
  <2>4. 0 <= Len(item.chars) /\ Len(item.chars) <= Len(item.chars) BY <2>3
  <2> QED BY <2>2, <2>4 DEF IsPrefix
<1>5. before \in Nat /\ total \in Nat
  <2>1. SubSeq(items, 1, k) \in Seq(Files) OBVIOUS
  <2>2. acc.items \in Seq(Files) BY DEF CutUpTo
  <2> QED BY <2>1, <2>2, TotalFacts
<1>6. /\ acc.used \in 0 .. max /\ acc.truncated \in BOOLEAN /\ total <= acc.used
      /\ ~acc.truncated => before = total /\ acc.used = total
      /\ acc.truncated => acc.used = max /\ total + 4 > max /\ (before > max \/ empty)
  <2>1. EmptyAt(items, max, k) => empty BY DEF EmptyAt
  <2> HIDE DEF empty
  <2> QED BY <2>1 DEF CutUpTo
<1>6a. item.diff /\ size = 0 /\ before = max => empty
  <2> HAVE item.diff /\ size = 0 /\ before = max
  <2>1. item.chars = none BY <1>2, NoBytes
  <2>2. k + 1 \in 1 .. k + 1 /\ (k + 1) - 1 = k OBVIOUS
  <2> QED BY <2>1, <2>2 DEF EmptyAt
<1> HIDE DEF empty
<1>7. /\ ~item.diff =>
           Took(item.chars, acc.used) /\ next.truncated = (acc.truncated \/ FALSE)
      /\ item.diff /\ acc.used >= max =>
           Took(none, acc.used) /\ next.truncated = (acc.truncated \/ TRUE)
      /\ item.diff /\ ~(acc.used >= max) /\ acc.used + size > max =>
           /\ Took(Utf8Prefix(item.chars, max - acc.used), max)
           /\ next.truncated = (acc.truncated \/ TRUE)
      /\ item.diff /\ ~(acc.used >= max) /\ ~(acc.used + size > max) =>
           Took(item.chars, acc.used + size) /\ next.truncated = (acc.truncated \/ FALSE)
  <2> HIDE DEF item
  <2> QED BY Zenon DEF Cut
<1>7a. /\ next.truncated \in BOOLEAN
       /\ ~item.diff \/ (~(acc.used >= max) /\ ~(acc.used + size > max)) =>
            (next.truncated <=> acc.truncated)
       /\ item.diff /\ (acc.used >= max \/ acc.used + size > max) => next.truncated
  <2> HIDE DEF next, item, size, Took
  <2> QED BY <1>6, <1>7
<1> HIDE DEF none, next, before, total, size, item
<1>8. ASSUME NEW chars \in Chars, NEW used \in 0 .. max, Took(chars, used),
             item.diff \/ chars = none, IsPrefix(chars, item.chars),
             total + Bytes(chars) <= used,
             acc.truncated => next.truncated,
             ~next.truncated => chars = item.chars /\ used = acc.used + Bytes(chars),
             next.truncated =>
               used = max /\ total + Bytes(chars) + 4 > max /\ (before + size > max \/ empty)
      PROVE  CutUpTo(items, max, k + 1, next)
  <2>1. next.used = used /\ next.items = Append(acc.items, [item EXCEPT !.chars = chars])
    BY <1>8
  <2> HIDE DEF Took
  <2> QED BY <1>7a, <1>8, <2>1, OneTaken DEF item, before, total, size, none, empty
<1>9. ASSUME ~item.diff
      PROVE  CutUpTo(items, max, k + 1, next)
  <2>1. Took(item.chars, acc.used) /\ item.chars = none /\ size = 0
    BY <1>2, <1>3, <1>7, <1>9 DEF size
  <2> HIDE DEF Took
  <2>2. total + Bytes(item.chars) <= acc.used /\ acc.used = acc.used + Bytes(item.chars)
    BY <1>3, <1>5, <1>6, <2>1
  <2>3. acc.truncated => /\ acc.used = max /\ total + Bytes(item.chars) + 4 > max
                         /\ (before + size > max \/ empty)
    BY <1>3, <1>5, <1>6, <2>1
  <2>4. next.truncated <=> acc.truncated BY <1>7a, <1>9
  <2> QED BY <1>2, <1>4, <1>6, <1>8, <2>1, <2>2, <2>3, <2>4
<1>10. ASSUME item.diff /\ acc.used >= max
       PROVE  CutUpTo(items, max, k + 1, next)
  <2>1. Took(none, acc.used) /\ next.truncated BY <1>7, <1>7a, <1>10
  <2> HIDE DEF Took
  <2>2. acc.used = max /\ total + Bytes(none) <= acc.used BY <1>3, <1>5, <1>6, <1>10
  <2>3. total + Bytes(none) + 4 > max /\ (before + size > max \/ empty)
    BY <1>2, <1>3, <1>5, <1>6, <1>6a, <1>10, <2>2
  <2> QED BY <1>3, <1>4, <1>6, <1>8, <1>10, <2>1, <2>2, <2>3
<1>11. ASSUME item.diff /\ ~(acc.used >= max) /\ acc.used + size > max
       PROVE  CutUpTo(items, max, k + 1, next)
  <2> DEFINE u == Utf8Prefix(item.chars, max - acc.used)
  <2>1. Took(u, max) /\ next.truncated BY <1>7, <1>7a, <1>11
  <2>2. ~acc.truncated /\ before = total /\ acc.used = total BY <1>6, <1>11
  <2>3. max - acc.used \in Nat /\ size > max - acc.used BY <1>2, <1>6, <1>11
  <2>4. u \in Chars /\ IsPrefix(u, item.chars) /\ Bytes(u) <= max - acc.used
        /\ Bytes(u) + 4 > max - acc.used
    BY <1>2, <2>3, PrefixFacts DEF size
  <2> HIDE DEF Took, u
  <2>5. Bytes(u) \in Nat BY <2>4, CharsFacts
  <2>6. total + Bytes(u) <= max /\ total + Bytes(u) + 4 > max /\ (before + size > max \/ empty)
    BY <1>2, <1>5, <1>6, <2>2, <2>3, <2>4, <2>5
  <2>7. max \in 0 .. max OBVIOUS
  <2> QED BY <1>8, <1>11, <2>1, <2>4, <2>6, <2>7
<1>12. ASSUME item.diff /\ ~(acc.used >= max) /\ ~(acc.used + size > max)
       PROVE  CutUpTo(items, max, k + 1, next)
  <2>1. Took(item.chars, acc.used + size) BY <1>7, <1>12
  <2>2. ~acc.truncated /\ before = total /\ acc.used = total BY <1>6, <1>12
  <2>3. acc.used + size \in 0 .. max BY <1>2, <1>6, <1>12
  <2> HIDE DEF Took
  <2>4. total + Bytes(item.chars) <= acc.used + size
    BY <1>2, <1>5, <2>2 DEF size
  <2>5. acc.used + size = acc.used + Bytes(item.chars) BY DEF size
  <2>6. ~next.truncated BY <1>7a, <1>12, <2>2
  <2> QED BY <1>2, <1>4, <1>8, <1>12, <2>1, <2>2, <2>3, <2>4, <2>5, <2>6
<1>13. CutUpTo(items, max, k + 1, next) BY <1>2, <1>9, <1>10, <1>11, <1>12
<1> QED BY <1>13 DEF next, item

LEMMA BoundedFacts ==
  ASSUME NEW items \in Seq(Files), NEW max \in Nat
  PROVE  CutUpTo(items, max, Len(items), BoundedDiffs(items, max))
<1>0. Len(items) \in Nat OBVIOUS
<1>1. PICK F : /\ F[0] = NothingYet
               /\ \A i \in 1..Len(items) : F[i] = Cut(F[i - 1], items[i], max)
               /\ BoundedDiffs(items, max) = F[Len(items)]
  BY BoundedSteps
<1> DEFINE T == {k \in Nat : k <= Len(items) => CutUpTo(items, max, k, F[k])}
<1>2. 0 \in T BY <1>1, NothingCut
<1>3. ASSUME NEW k \in Nat, k \in T PROVE k + 1 \in T
  <2> SUFFICES ASSUME k + 1 <= Len(items) PROVE CutUpTo(items, max, k + 1, F[k + 1]) OBVIOUS
  <2>1. CutUpTo(items, max, k, F[k]) /\ k < Len(items) BY <1>0, <1>3
  <2>2. F[k + 1] = Cut(F[k], items[k + 1], max)
    <3>1. k + 1 \in 1..Len(items) /\ (k + 1) - 1 = k BY <1>0
    <3> QED BY <1>1, <3>1
  <2>3. CutUpTo(items, max, k + 1, Cut(F[k], items[k + 1], max)) BY <2>1, OneCut
  <2> QED BY <2>2, <2>3
<1>4. \A k \in Nat : k \in T
  <2> HIDE DEF T
  <2> QED BY <1>2, <1>3, Inductive
<1>5. CutUpTo(items, max, Len(items), F[Len(items)]) BY <1>0, <1>4
<1> QED BY <1>1, <1>5

\* A page of the files of a commit.
LEMMA PageFacts ==
  ASSUME NEW items \in Seq(Files), NEW page \in Nat \ {0}, NEW per \in Nat \ {0}
  PROVE  PageOf(items, page, per) \in Seq(Files)
<1> DEFINE m == (page - 1) * per
           n == IF page * per < Len(items) THEN page * per ELSE Len(items)
<1>1. page - 1 \in Nat /\ per \in Nat /\ page \in Nat /\ Len(items) \in Nat OBVIOUS
<1>2. \A a, b \in Nat : a * b \in Nat OBVIOUS
<1>3. m \in Nat /\ page * per \in Nat BY <1>1, <1>2
<1>4. n \in 0 .. Len(items) BY <1>1, <1>3
<1>5. PageOf(items, page, per) = SubSeq(items, m + 1, n) BY DEF PageOf
<1> HIDE DEF m, n
<1> QED BY <1>3, <1>4, <1>5, RunFacts

-----------------------------------------------------------------------------
(* The bounded diffs: the answers.                                         *)

Bounded(a) ==
  \E items \in Seq(Files), max \in Nat :
    a = [source |-> items, max |-> max, bounded |-> BoundedDiffs(items, max)]

\* The diffs in an answer are the bounded ones of a page of a commit.
AnswerInv ==
  /\ mr.head \in Commits
  /\ DOMAIN answer = Callers
  /\ \A c \in Callers :
       /\ answer[c] = NoAnswer \/ Bounded(answer[c])
       /\ call[c].tool = "list_merge_request_diffs" =>
            call[c].max \in Nat /\ call[c].page \in Nat \ {0} /\ call[c].per \in Nat \ {0}

LEMMA InitAnswers == Init => AnswerInv
<1> SUFFICES ASSUME Init PROVE AnswerInv OBVIOUS
<1>1. mr.head = 1
  <2>1. CASE mr = Absent BY <2>1 DEF Absent
  <2>2. CASE mr = [Absent EXCEPT !.state = "opened", !.labels = Labels, !.reviewers = Users]
    BY <2>2 DEF Absent
  <2> QED BY <2>1, <2>2 DEF Init
<1>2. 1 \in Commits BY BoundsAssumption DEF Commits
<1> HIDE DEF NoAnswer
<1> QED BY <1>1, <1>2 DEF Init, AnswerInv, NoCall

\* No request moves the head of the source branch.
LEMMA EffectHead ==
  ASSUME Shapes, NEW c, NEW q, Effect(c, q)
  PROVE  mr'.head = mr.head
<1> USE DEF Shapes
<1>1. CASE Create(q)
  <2> DEFINE m == [Absent EXCEPT !.state = "opened", !.head = mr.head]
  <2>1. m = [f \in Fields |-> m[f]] /\ m.head = mr.head BY DEF Absent, Fields
  <2>2. mr' = Applied(m, CreateBody(q.given)) BY <1>1 DEF Create
  <2> HIDE DEF m
  <2> QED BY <2>1, <2>2, AppliedKeeps
<1>2. CASE Update(q)
  <2>1. mr' = Applied(mr, UpdateBody(q.given)) BY <1>2 DEF Update
  <2>2. mr = [f \in Fields |-> mr[f]] OBVIOUS
  <2> QED BY <2>1, <2>2, AppliedKeeps
<1>3. CASE Accept(q) \/ Approve(c, q) \/ Resolve(q) \/ Note(q)
  BY <1>3 DEF Accept, Approve, Resolve, Note, Fields
<1> QED BY <1>1, <1>2, <1>3 DEF Effect

LEMMA NextAnswers == ASSUME ReviewInv, AnswerInv, [Next]_vars PROVE AnswerInv'
<1> HIDE DEF NoAnswer
<1>1. DOMAIN call = Callers /\ Shapes BY DEF ReviewInv, Shapes
<1>2. ASSUME NEW c \in Callers, Ask(c) PROVE AnswerInv'
  <2>1. PICK q \in Calls(seen[c]) : call' = [call EXCEPT ![c] = IF Sent(q) THEN q ELSE NoCall]
    BY <1>2 DEF Ask
  <2>2. UNCHANGED <<mr, answer>> BY <1>2 DEF Ask
  <2>3. NoCall.tool # "list_merge_request_diffs" BY DEF NoCall
  <2>4. ASSUME Sent(q), q.tool = "list_merge_request_diffs"
        PROVE  q.max \in Nat /\ q.page \in Nat \ {0} /\ q.per \in Nat \ {0}
    <3>1. q \in [tool : {"list_merge_request_diffs"}, ref : {"path"}, valid : {TRUE},
                 max : Budgets, page : 0 .. 2, per : {0, MaxPerPage, MaxPerPage + 1}]
      BY <2>4 DEF Calls, PlainReads, Notes, Approvals
    <3>2. q.max \in Nat /\ q.page \in 0 .. 2 BY <3>1, DiffsAssumption
    <3>3. q.page > 0 /\ q.per \in 1 .. MaxPerPage BY <2>4 DEF Sent, PagesOk
    <3> QED BY <3>2, <3>3, BoundsAssumption
  <2>5. call'[c].tool = "list_merge_request_diffs" =>
          call'[c].max \in Nat /\ call'[c].page \in Nat \ {0} /\ call'[c].per \in Nat \ {0}
    BY <1>1, <2>1, <2>3, <2>4
  <2>6. \A d \in Callers \ {c} : call'[d] = call[d] BY <1>1, <2>1
  <2> QED BY <2>2, <2>5, <2>6 DEF AnswerInv
<1>3. ASSUME NEW c \in Callers, Return(c) \/ GivesUp(c) PROVE AnswerInv'
  <2>1. /\ call' = [call EXCEPT ![c] = NoCall] /\ mr' = mr
        /\ answer' = answer \/ answer' = [answer EXCEPT ![c] = NoAnswer]
    BY <1>3 DEF Return, GivesUp
  <2>2. NoCall.tool # "list_merge_request_diffs" BY DEF NoCall
  <2> QED BY <1>1, <2>1, <2>2 DEF AnswerInv
<1>4. ASSUME NEW c \in Callers, ServeRead(c) PROVE AnswerInv'
  <2>1. UNCHANGED <<mr, call>> BY <1>4 DEF ServeRead
  <2>2. CASE call[c].tool # "list_merge_request_diffs"
    <3>1. answer' = answer BY <1>4, <2>2 DEF ServeRead
    <3> QED BY <2>1, <3>1 DEF AnswerInv
  <2>3. CASE call[c].tool = "list_merge_request_diffs"
    <3> DEFINE items == PageOf(Diffs[mr.head], call[c].page, call[c].per)
               a == [source |-> items, max |-> call[c].max,
                     bounded |-> BoundedDiffs(items, call[c].max)]
    <3>1. answer' = [answer EXCEPT ![c] = a] BY <1>4, <2>3 DEF ServeRead
    <3>2. Diffs[mr.head] \in Seq(Files) BY DiffsAssumption DEF AnswerInv
    <3>3. items \in Seq(Files) /\ call[c].max \in Nat BY <2>3, <3>2, PageFacts DEF AnswerInv
    <3> HIDE DEF items
    <3>4. Bounded(a) BY <3>3 DEF Bounded
    <3> HIDE DEF a
    <3> QED BY <2>1, <3>1, <3>4 DEF AnswerInv
  <2> QED BY <2>2, <2>3
<1>5. ASSUME UNCHANGED <<answer, call>>, mr'.head \in Commits PROVE AnswerInv'
  BY <1>5 DEF AnswerInv
<1>6. ASSUME NEW c \in Callers, ServeWrite(c) \/ Refuse(c) \/ Gateway(c) PROVE AnswerInv'
  <2>1. UNCHANGED <<answer, call>> BY <1>6 DEF ServeWrite, Refuse, Gateway
  <2>2. mr'.head = mr.head BY <1>1, <1>6, EffectHead DEF ServeWrite, Refuse, Gateway, Serving
  <2> QED BY <1>5, <2>1, <2>2 DEF AnswerInv
<1>7. CASE ServeLate
  <2>1. UNCHANGED <<answer, call>> BY <1>7 DEF ServeLate
  <2>2. mr'.head = mr.head BY <1>1, <1>7, EffectHead DEF ServeLate, Serving
  <2> QED BY <1>5, <2>1, <2>2 DEF AnswerInv
<1>8. CASE Push
  <2>1. UNCHANGED <<answer, call>> BY <1>8 DEF Push, callers
  <2>2. mr.head <= MaxPushes /\ mr' = [mr EXCEPT !.head = @ + 1] BY <1>8 DEF Push
  <2>3. mr = [f \in Fields |-> mr[f]] BY <1>1 DEF Shapes
  <2>4. mr'.head = mr.head + 1 BY <2>2, <2>3 DEF Fields
  <2>5. mr.head + 1 \in Commits BY <2>2, BoundsAssumption DEF AnswerInv, Commits
  <2> QED BY <1>5, <2>1, <2>4, <2>5
<1>9. CASE PipelinePasses
  <2>1. UNCHANGED <<answer, call>> BY <1>9 DEF PipelinePasses, callers
  <2>2. mr' = [mr EXCEPT !.state = "merged"] BY <1>9 DEF PipelinePasses
  <2>3. mr = [f \in Fields |-> mr[f]] BY <1>1 DEF Shapes
  <2>4. mr'.head = mr.head BY <2>2, <2>3 DEF Fields
  <2> QED BY <1>5, <2>1, <2>4 DEF AnswerInv
<1>10. CASE UNCHANGED vars BY <1>5, <1>10 DEF vars, callers, AnswerInv
<1> QED BY <1>2, <1>3, <1>4, <1>6, <1>7, <1>8, <1>9, <1>10 DEF Next, Caller, Gitlab

LEMMA AnswerSafe == ASSUME AnswerInv PROVE DiffsBounded
<1> SUFFICES ASSUME NEW c \in Callers, answer[c] # NoAnswer
             PROVE  LET a == answer[c]
                    IN /\ Len(a.bounded.items) = Len(a.source)
                       /\ TotalBytes(a.bounded.items) <= a.max
                       /\ \A k \in DOMAIN a.source :
                            IsPrefix(a.bounded.items[k].chars, a.source[k].chars)
                       /\ a.bounded.items # a.source =>
                            a.bounded.truncated /\ TotalBytes(a.bounded.items) + 4 > a.max
                       /\ TotalBytes(a.source) <= a.max /\ a.bounded.truncated =>
                            EmptyAfterAll(a.source, a.max)
  BY DEF DiffsBounded
<1>1. Bounded(answer[c]) BY DEF AnswerInv
<1>2. PICK items \in Seq(Files), max \in Nat :
        answer[c] = [source |-> items, max |-> max, bounded |-> BoundedDiffs(items, max)]
  BY <1>1 DEF Bounded
<1> DEFINE acc == BoundedDiffs(items, max)
<1>3. answer[c].source = items /\ answer[c].max = max /\ answer[c].bounded = acc BY <1>2
<1>4. CutUpTo(items, max, Len(items), acc) BY BoundedFacts
<1> HIDE DEF acc
<1>5. SubSeq(items, 1, Len(items)) = items /\ DOMAIN items = 1 .. Len(items) BY SubSeqFull
<1>6. /\ TotalBytes(items) \in Nat /\ TotalBytes(acc.items) \in Nat
  BY <1>4, TotalFacts DEF CutUpTo
<1>7. /\ Len(acc.items) = Len(items) /\ TotalBytes(acc.items) <= max
      /\ \A k \in DOMAIN items : IsPrefix(acc.items[k].chars, items[k].chars)
  BY <1>4, <1>5, <1>6 DEF CutUpTo
<1>8. acc.items # items => acc.truncated /\ TotalBytes(acc.items) + 4 > max
  BY <1>4, <1>5 DEF CutUpTo
<1>9. TotalBytes(items) <= max /\ acc.truncated => EmptyAfterAll(items, max)
  <2>1. acc.truncated => \/ TotalBytes(SubSeq(items, 1, Len(items))) > max
                         \/ EmptyAt(items, max, Len(items))
    BY <1>4 DEF CutUpTo
  <2>2. acc.truncated => TotalBytes(items) > max \/ EmptyAt(items, max, Len(items))
    BY <1>5, <2>1, Zenon
  <2>3. EmptyAt(items, max, Len(items)) => EmptyAfterAll(items, max)
    BY <1>5, Zenon DEF EmptyAt, EmptyAfterAll
  <2> QED BY <1>6, <2>2, <2>3
<1> QED BY <1>3, <1>7, <1>8, <1>9

\* bounded_diff_response and utf8_prefix, for any files, characters and budget: the diffs of
\* an answer stay within the budget, break no character, use the budget up when something
\* is cut, and say so.
THEOREM DiffsTrue == Spec => []DiffsBounded
<1>1. Init => ReviewInv /\ AnswerInv BY InitReview, InitAnswers
<1>2. ReviewInv /\ AnswerInv /\ [Next]_vars => (ReviewInv /\ AnswerInv)'
  BY NextReview, NextAnswers
<1>3. AnswerInv => DiffsBounded BY AnswerSafe
<1> QED BY <1>1, <1>2, <1>3, PTL DEF Spec
============================================================================
